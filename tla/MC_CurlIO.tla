----------------------------- MODULE MC_CurlIO -----------------------------
(* Small instances of CurlIO.                                              *)
EXTENDS CurlIO
=============================================================================
