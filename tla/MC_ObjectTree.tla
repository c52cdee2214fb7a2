--------------------------- MODULE MC_ObjectTree ---------------------------
(* ObjectTree on small tables. *)
EXTENDS ObjectTree

\* A recursive autoscan of the web interface and a flat one of the configuration.
TwoKinds == {[recursive |-> TRUE, persistent |-> FALSE],
             [recursive |-> FALSE, persistent |-> TRUE]}
NoScans == {}
=============================================================================
