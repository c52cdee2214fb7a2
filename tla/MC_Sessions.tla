---------------------------- MODULE MC_Sessions ----------------------------
(* Two sessions, two requests at a time, and a thread that reports changes. *)
EXTENDS Sessions

CONSTANTS s1, s2, w1, w2, r1, c1, c2

Reports == {{c1}, {c1, c2}}
=============================================================================
