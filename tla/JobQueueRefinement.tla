------------------------- MODULE JobQueueRefinement -------------------------
(* JobQueue implements JobService. *)
EXTENDS JobQueue

(* An entry that has left the registry after its terminal write has been   *)
(* forgotten; a job not yet published is already accepted, because its     *)
(* store is reserved.                                                      *)
StatusOf(j) ==
    IF stage[j] = "new" THEN "new"
    ELSE IF registry[j] = NoJob THEN IF snapshot[j] = NoJob THEN "accepted" ELSE "forgotten"
    ELSE IF registry[j].state = "Pending" THEN "accepted"
    ELSE IF registry[j].state = "Running" THEN "running"
    ELSE IF registry[j].state = "Done" THEN "done"
    ELSE IF registry[j].code = "job_cancelled" THEN "job_cancelled"
    ELSE "failed"

(* The job that owns a store's reservation. *)
Owners(s) == {j \in Jobs : storeOf[j] = s /\ Active(j)}

HolderOf(s) == IF Owners(s) = {} THEN NoId ELSE CHOOSE j \in Owners(s) : TRUE

Service == INSTANCE JobService WITH
    Nobody <- NoId,
    closed <- ~open,
    status <- [j \in Jobs |-> StatusOf(j)],
    holder <- [s \in Stores |-> HolderOf(s)]

(* Every behaviour of the queue, abandoned submissions and shutdown        *)
(* included, is one of the job service.                                    *)
ImplementsJobService == Service!Spec
=============================================================================
