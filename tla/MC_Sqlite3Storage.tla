------------------------- MODULE MC_Sqlite3Storage -------------------------
(* Two clients of the SQLite driver. *)
EXTENDS Sqlite3Storage
=============================================================================
