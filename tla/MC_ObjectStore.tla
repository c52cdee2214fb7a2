-------------------------- MODULE MC_ObjectStore --------------------------
(* ObjectStore with one client, and with an import and a browsing client. *)
EXTENDS ObjectStore

CONSTANTS t1, t2

\* A file in a directory of the root, one in the root, one virtual container.
Parents == [p \in Paths |-> IF p = "/d/a" THEN "/d" ELSE Slash]

Client == [t \in Thread |-> Queries \union Changes]
ImportAndBrowse ==
    [t \in Thread |-> IF t = t1 THEN {"import", "link", "remove"} ELSE {"browse", "load"}]
=============================================================================
