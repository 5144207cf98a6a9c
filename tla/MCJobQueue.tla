----------------------------- MODULE MCJobQueue -----------------------------
(* Instances of JobQueue for TLC. *)
EXTENDS JobQueueRefinement, TLC

CONSTANTS s1, s2, a1

MCJobs2 == 1..2
MCJobs3 == 1..3
MCStores1 == {s1}
MCStores2 == {s1, s2}
MCAttachers == {a1}
MCNoAttachers == {}

(* Store names are only ever compared for equality. *)
StoreSymmetry == Permutations(MCStores2)
=============================================================================
