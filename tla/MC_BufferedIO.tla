--------------------------- MODULE MC_BufferedIO ---------------------------
(* Small instances of BufferedIO.                                          *)
EXTENDS BufferedIO
=============================================================================
