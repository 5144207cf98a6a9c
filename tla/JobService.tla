----------------------------- MODULE JobService -----------------------------
(***************************************************************************)
(* What the job queue promises its callers, without channel, locks,        *)
(* handles or workers: each store has at most one job, a job only runs     *)
(* while it holds its store, it ends exactly once, its outcome is kept     *)
(* until it is forgotten, and its store is given back only afterwards; a   *)
(* service that has closed may also give up a job it has not started.      *)
(***************************************************************************)
EXTENDS Naturals

CONSTANTS Jobs, Stores, Nobody  \* Nobody is not a job

VARIABLES status, holder, closed

svars == <<status, holder, closed>>

Outcomes == {"done", "failed", "job_cancelled"}
Statuses == {"new", "accepted", "running", "forgotten"} \cup Outcomes

Init ==
    /\ status = [j \in Jobs |-> "new"]
    /\ holder = [s \in Stores |-> Nobody]
    /\ closed = FALSE

Accept(j, s) ==
    /\ status[j] = "new"
    /\ holder[s] = Nobody
    /\ status' = [status EXCEPT ![j] = "accepted"]
    /\ holder' = [holder EXCEPT ![s] = j]
    /\ UNCHANGED closed

HoldsItsStore(j) == \E s \in Stores : holder[s] = j

Start(j) ==
    /\ status[j] = "accepted"
    /\ HoldsItsStore(j)
    /\ status' = [status EXCEPT ![j] = "running"]
    /\ UNCHANGED <<holder, closed>>

(* Every job but `j` keeps its status; an outcome may be forgotten. *)
OthersKept(j) ==
    \A k \in Jobs \ {j} :
        \/ status'[k] = status[k]
        \/ status[k] \in Outcomes /\ status'[k] = "forgotten"

(* A job ends; older outcomes may be forgotten in the same step.  Only a   *)
(* job that ran can be done.                                               *)
Settle(j) ==
    /\ status[j] \in {"accepted", "running"}
    /\ HoldsItsStore(j)
    /\ status' \in [Jobs -> Statuses]
    /\ status'[j] \in Outcomes
    /\ status'[j] = "done" => status[j] = "running"
    /\ OthersKept(j)
    /\ UNCHANGED <<holder, closed>>

Forget ==
    /\ status' \in [Jobs -> Statuses]
    /\ OthersKept(Nobody)
    /\ UNCHANGED <<holder, closed>>

Free(s) ==
    /\ holder[s] # Nobody
    /\ status[holder[s]] \in Outcomes \cup {"forgotten"}
    /\ holder' = [holder EXCEPT ![s] = Nobody]
    /\ UNCHANGED <<status, closed>>

(* Without its store the job can neither start nor end. *)
GiveUp(s) ==
    /\ closed
    /\ holder[s] # Nobody
    /\ status[holder[s]] = "accepted"
    /\ holder' = [holder EXCEPT ![s] = Nobody]
    /\ UNCHANGED <<status, closed>>

Close ==
    /\ closed' = TRUE
    /\ UNCHANGED <<status, holder>>

Next ==
    \/ Forget
    \/ \E j \in Jobs, s \in Stores : Accept(j, s)
    \/ \E j \in Jobs : Start(j)
    \/ \E j \in Jobs : Settle(j)
    \/ \E s \in Stores : Free(s) \/ GiveUp(s)
    \/ Close

Spec == Init /\ [][Next]_svars
=============================================================================
