------------------------- MODULE MC_UpdateManager -------------------------
(* Small instances of UpdateManager.                                      *)
EXTENDS UpdateManager

CONSTANTS c1, c2, c3, c4, c5, t1, t2

\* One id; two different ones; a repeated one; more than a full hash.
MixedBatches == {<<c1>>, <<c2, c1>>, <<c1, c1>>, <<c1, c2, c3>>}

\* Batches that are split, and batches that just fit.
LongBatches == {<<c1, c2>>, <<c3, c4, c5>>, <<c1, c2, c3, c4>>,
                <<c5, c4, c3, c2, c1>>}

\* Batches that never reach MAX_OBJECT_IDS + MAX_OBJECT_IDS_OVERLOAD.
ShortBatches == {<<c1>>, <<c2>>, <<c1, c1>>}
=============================================================================
