---------------------------- MODULE MCScheduler ----------------------------
(* Instances of Scheduler for TLC. *)
EXTENDS Scheduler, TLC

CONSTANTS u1, u2, n1, c1, c2

MCSources == {u1, u2}
MCOneName == {n1}
MCOneClient == {c1}
MCTwoClients == {c1, c2}
MCNoSources == {}
MCFirstSource == {u1}
MCJobIds == 1..2

(* Every source in the one store. *)
MCSameHome == [s \in Sources |-> n1]

MCIntervals == (u1 :> 1) @@ (u2 :> 2)
MCOneInterval == (u1 :> 2)
=============================================================================
