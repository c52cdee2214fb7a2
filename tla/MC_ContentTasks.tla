-------------------------- MODULE MC_ContentTasks --------------------------
(* Small trees of directories for ContentTasks. *)
EXTENDS ContentTasks, TLC

CONSTANTS top, sub, other

\* A directory with one subdirectory, and a second directory.
PathsTree == {top, sub, other}
BelowTree == (top :> {top, sub}) @@ (sub :> {sub}) @@ (other :> {other})
DirsTop == <<top>>
DirsBoth == <<other, top>>
=============================================================================
