--------------------------- MODULE JobQueueProofs ---------------------------
(***************************************************************************)
(* Proofs about JobQueue for every set of jobs, stores and SSE requests,   *)
(* every capacity, worker count, retention cap and grace; and that it      *)
(* implements JobService: each step of the queue, abandoned submissions    *)
(* and shutdown included, is a step of the service or leaves it as it was. *)
(* Then how long an outcome is kept, and that what the queue's clients      *)
(* (IndexCommand) tell their users is true.                                *)
(***************************************************************************)
EXTENDS JobQueueRefinement, IndexCommand, TLAPS

(* The values jobs are given in the code are index jobs. *)
LEMMA JobValues ==
    ASSUME now \in Nat
    PROVE  /\ NoJob \in IndexJobs
           /\ Pending \in IndexJobs
           /\ Running \in IndexJobs
           /\ complete_index_job \in IndexJobs
           /\ fail_index_job \in IndexJobs
           /\ \A c \in Codes : fail_index_job_with_error(c) \in IndexJobs
BY DEF NoJob, Pending, Running, complete_index_job, fail_index_job,
       fail_index_job_with_error, IndexJobs, Codes

(* Eviction only removes entries, only terminal ones, and never the        *)
(* protected one.                                                          *)
LEMMA EvictionRemovesOnly ==
    ASSUME NEW reg, NEW protect, NEW j \in Jobs
    PROVE  LET after == evict_oldest_terminal_jobs_over_cap(reg, protect)
           IN /\ after[j] \in {reg[j], NoJob}
              /\ ~IsTerminal(reg[j]) => after[j] = reg[j]
              /\ j = protect => after[j] = reg[j]
BY DEF evict_oldest_terminal_jobs_over_cap, Evicted, EvictionCandidates, TerminalIds

(* Eviction keeps the registry a map of index jobs. *)
LEMMA EvictionType ==
    ASSUME NEW reg \in [Jobs -> IndexJobs], NEW protect, now \in Nat
    PROVE  evict_oldest_terminal_jobs_over_cap(reg, protect) \in [Jobs -> IndexJobs]
BY JobValues DEF evict_oldest_terminal_jobs_over_cap

(* Every outcome process_job can record is an index job. *)
LEMMA OutcomeType ==
    ASSUME now \in Nat, NEW j \in Jobs
    PROVE  JobOutcome(j) \in IndexJobs
<1>1. {"task_error", "job_cancelled", "internal"} \subseteq Codes
  BY DEF Codes
<1> QED
  BY <1>1, JobValues DEF JobOutcome

(* A terminal write keeps the types of registry and snapshot. *)
LEMMA SettleType ==
    ASSUME TypeOK, NEW j \in Jobs, NEW outcome \in IndexJobs, SettleJob(j, outcome)
    PROVE  /\ registry' \in [Jobs -> IndexJobs]
           /\ snapshot' \in [Jobs -> IndexJobs]
<1>1. UpdateEntry(j, outcome) \in [Jobs -> IndexJobs]
  BY DEF TypeOK, UpdateEntry
<1>2. registry' \in [Jobs -> IndexJobs]
  BY <1>1, EvictionType DEF TypeOK, SettleJob
<1> QED
  BY <1>2 DEF TypeOK, SettleJob

(* A handle teardown keeps the types of events and handles. *)
LEMMA TearDownType ==
    ASSUME TypeOK, NEW j \in Jobs, TearDownHandle(j)
    PROVE  /\ events' \in [Jobs -> Seq(JobEvents)]
           /\ handles' \subseteq Jobs
<1>1. Terminal(snapshot[j]) \in JobEvents
  BY DEF TypeOK, Terminal, JobEvents
<1> QED
  BY <1>1 DEF TypeOK, TearDownHandle

(* The actions that move one job: each keeps every variable's type. *)
LEMMA JobStepType ==
    ASSUME TypeOK, NEW j \in Jobs, Submit(j) \/ ProcessJob(j) \/ Cancel(j)
    PROVE  TypeOK'
<1> USE DEF Stages, SubmitStages, FailStages, WorkerStages, LeftStages
<1>r. ASSUME NEW s \in Stores, SubmitReserve(j, s) PROVE TypeOK'
  BY <1>r DEF TypeOK, SubmitReserve
<1>1. CASE SubmitInstallHandle(j)
  BY <1>1 DEF TypeOK, SubmitInstallHandle
<1>2. CASE SubmitRegister(j)
  BY <1>2, JobValues DEF TypeOK, SubmitRegister, UpdateEntry
<1>3. CASE SubmitEnqueue(j)
  BY <1>3 DEF TypeOK, SubmitEnqueue
<1>4. CASE SubmitSendFails(j)
  BY <1>4 DEF TypeOK, SubmitSendFails
<1>5. CASE SubmitFailSettle(j)
  <2>1. fail_index_job \in IndexJobs
    BY JobValues, OutcomeType DEF TypeOK, Codes
  <2>2. registry' \in [Jobs -> IndexJobs] /\ snapshot' \in [Jobs -> IndexJobs]
    BY <1>5, <2>1, SettleType DEF SubmitFailSettle
  <2> QED
    BY <1>5, <2>2 DEF TypeOK, SubmitFailSettle
<1>6. CASE SubmitFailTearDown(j)
  BY <1>6, TearDownType DEF TypeOK, SubmitFailTearDown
<1>7. CASE SubmitDropped(j)
  BY <1>7 DEF TypeOK, SubmitDropped
<1>8. CASE WorkerRecv(j)
  BY <1>8 DEF TypeOK, WorkerRecv
<1>9. CASE WorkerStartJob(j)
  BY <1>9, JobValues DEF TypeOK, WorkerStartJob, UpdateEntry
<1>10. CASE WorkerSkipCancelled(j)
  <2>1. fail_index_job_with_error("job_cancelled") \in IndexJobs
    BY JobValues, OutcomeType DEF TypeOK, Codes
  <2>2. registry' \in [Jobs -> IndexJobs] /\ snapshot' \in [Jobs -> IndexJobs]
    BY <1>10, <2>1, SettleType DEF WorkerSkipCancelled
  <2> QED
    BY <1>10, <2>2 DEF TypeOK, WorkerSkipCancelled
<1>11. CASE WorkerBuildTask(j)
  BY <1>11 DEF TypeOK, WorkerBuildTask, TaskStates, TaskResults
<1>12. CASE TaskProgress(j)
  <2>1. Progress \in JobEvents
    BY JobValues DEF Progress, JobEvents, TypeOK
  <2> QED
    BY <1>12, <2>1 DEF TypeOK, TaskProgress
<1>13. CASE TaskEnds(j)
  BY <1>13 DEF TypeOK, TaskEnds, TaskStates, TaskResults
<1>14. CASE WorkerAbort(j)
  BY <1>14 DEF TypeOK, WorkerAbort
<1>15. CASE TaskAborted(j)
  BY <1>15 DEF TypeOK, TaskAborted, TaskStates, TaskResults
<1>16. CASE WorkerRecordOutcome(j)
  <2>1. JobOutcome(j) \in IndexJobs
    BY JobValues, OutcomeType DEF TypeOK, Codes
  <2>2. registry' \in [Jobs -> IndexJobs] /\ snapshot' \in [Jobs -> IndexJobs]
    BY <1>16, <2>1, SettleType DEF WorkerRecordOutcome
  <2> QED
    BY <1>16, <2>2 DEF TypeOK, WorkerRecordOutcome
<1>17. CASE WorkerTearDown(j)
  BY <1>17, TearDownType DEF TypeOK, WorkerTearDown
<1>18. CASE WorkerRelease(j)
  BY <1>18 DEF TypeOK, WorkerRelease
<1>19. CASE Cancel(j)
  BY <1>19 DEF TypeOK, Cancel
<1> QED
  BY <1>r, <1>1, <1>2, <1>3, <1>4, <1>5, <1>6, <1>7, <1>8, <1>9, <1>10, <1>11, <1>12, <1>13, <1>14, <1>15, <1>16, <1>17, <1>18, <1>19 DEF Submit, ProcessJob

(* The steps of an SSE request. *)
LEMMA AttachStepType ==
    ASSUME TypeOK, NEW a \in Attachers, Attach(a)
    PROVE  TypeOK'
<1>t. /\ attach[a] \in AttachRecs
      /\ events \in [Jobs -> Seq(JobEvents)]
      /\ registry \in [Jobs -> IndexJobs]
      /\ IdleAttach \in AttachRecs
      /\ NoJob \in IndexJobs
  BY JobValues DEF TypeOK, IdleAttach, AttachRecs, AttachStages, NoId
<1>s. ASSUME NEW rec \in AttachRecs, AttachStep(a, rec) PROVE TypeOK'
  BY <1>s DEF TypeOK, AttachStep
<1>1. ASSUME NEW j \in Jobs, AttachRead(a, j) PROVE TypeOK'
  BY <1>1, <1>s, <1>t DEF AttachRead, AttachRecs, AttachStages
<1>u. ASSUME attach[a].pc # "idle"
      PROVE  /\ attach[a].job \in Jobs
             /\ events[attach[a].job] \in Seq(JobEvents)
             /\ Len(events[attach[a].job]) \in Nat
             /\ OldestRetained(attach[a].job) \in Nat
  <2>1. attach[a].job \in Jobs
    BY <1>t, <1>u DEF AttachRecs
  <2>2. events[attach[a].job] \in Seq(JobEvents) /\ Len(events[attach[a].job]) \in Nat
    BY <1>t, <2>1
  <2> QED
    BY <2>1, <2>2, BoundsAssumption DEF OldestRetained
<1>v. ASSUME NEW pc \in AttachStages \ {"idle"}, NEW pos \in Nat, NEW frame \in IndexJobs,
             attach[a].pc # "idle"
      PROVE  /\ [attach[a] EXCEPT !.pc = pc, !.pos = pos] \in AttachRecs
             /\ [attach[a] EXCEPT !.pc = pc, !.frame = frame] \in AttachRecs
             /\ [attach[a] EXCEPT !.pc = pc] \in AttachRecs
  BY <1>t, <1>u, <1>v DEF AttachRecs
<1>w. ASSUME NEW pos \in Nat PROVE [attach[a] EXCEPT !.pos = pos] \in AttachRecs
  BY <1>t DEF AttachRecs
<1>2. CASE AttachSubscribe(a)
  <2>1. Len(events[attach[a].job]) + 1 \in Nat /\ attach[a].pc # "idle"
    BY <1>2, <1>u DEF AttachSubscribe
  <2>2. [attach[a] EXCEPT !.pc = "live", !.pos = Len(events[attach[a].job]) + 1] \in AttachRecs
    BY <2>1, <1>t, <1>v DEF AttachStages
  <2>3. [attach[a] EXCEPT !.pc = "rereading"] \in AttachRecs
    BY <2>1, <1>t, <1>v DEF AttachStages
  <2> QED
    BY <1>2, <2>2, <2>3, <1>s DEF AttachSubscribe
<1>3. CASE AttachReread(a)
  <2>1. registry[attach[a].job] \in IndexJobs /\ attach[a].pc # "idle"
    BY <1>3, <1>t, <1>u DEF AttachReread
  <2> QED
    BY <1>3, <2>1, <1>s, <1>v DEF AttachReread, AttachStages
<1>4. CASE AttachLagged(a)
  <2>1. OldestRetained(attach[a].job) \in Nat /\ attach[a].pc # "idle"
    BY <1>4, <1>u DEF AttachLagged
  <2>2. [attach[a] EXCEPT !.pos = OldestRetained(attach[a].job)] \in AttachRecs
    BY <2>1, <1>w
  <2> QED
    BY <1>4, <2>2, <1>s DEF AttachLagged
<1>5. CASE AttachReceive(a)
  <2> DEFINE j == attach[a].job
             p == attach[a].pos
  <2>1. attach[a].pc # "idle" /\ p \in Nat /\ p + 1 \in Nat
    BY <1>5, <1>t DEF AttachReceive, AttachRecs
  <2>2. p >= 1 /\ p <= Len(events[j])
    BY <1>5, <1>u, <2>1, BoundsAssumption DEF AttachReceive, OldestRetained
  <2>3. events[j][p] \in JobEvents
    BY <2>1, <2>2, <1>u
  <2>4. events[j][p].job \in IndexJobs
    BY <2>3 DEF JobEvents
  <2> QED
    BY <1>5, <2>1, <2>4, <1>s, <1>v, <1>w DEF AttachReceive, AttachStages
<1> QED
  BY <1>1, <1>2, <1>3, <1>4, <1>5 DEF Attach

LEMMA StepType ==
    ASSUME TypeOK, [Next]_vars
    PROVE  TypeOK'
<1>1. ASSUME NEW j \in Jobs, Submit(j) \/ ProcessJob(j) \/ Cancel(j) PROVE TypeOK'
  BY <1>1, JobStepType
<1>2. CASE ListJobs
  BY <1>2, EvictionType DEF TypeOK, ListJobs
<1>3. ASSUME NEW a \in Attachers, Attach(a) PROVE TypeOK'
  BY <1>3, AttachStepType
<1>4. CASE Tick
  BY <1>4 DEF TypeOK, Tick
<1>5. CASE ShutDown
  BY <1>5 DEF TypeOK, ShutDown
<1>6. CASE UNCHANGED vars
  BY <1>6 DEF TypeOK, vars
<1> QED
  BY <1>1, <1>2, <1>3, <1>4, <1>5, <1>6 DEF Next

LEMMA InitType == Init => TypeOK
BY JobValues DEF Init, TypeOK, Stages, TaskStates, IdleAttach, AttachRecs, AttachStages

(* Type correctness: every reachable state assigns each variable a value   *)
(* of its type.                                                            *)
THEOREM TypeCorrect == Spec => []TypeOK
BY InitType, StepType, PTL DEF Spec

-----------------------------------------------------------------------------
(* Safety *)

(* All the invariant says of one job. *)
JobInv(j) ==
    /\ Lifecycle(j)
    /\ HandleSpan(j)
    /\ CancelAccepted(j)
    /\ OutcomeRecorded(j)
    /\ ChannelContent(j)

(* A job of a daemon that is gone: nothing but its id and its store is     *)
(* left.  In JobQueue itself there is none; IndexCommand's restart makes    *)
(* every job one, and its queue goes on with new ones.                      *)
Forgotten(j) ==
    /\ stage[j] = "over" /\ registry[j] = NoJob /\ snapshot[j] = NoJob
    /\ task[j] # "live" /\ j \notin handles \cup acked

(* A request that has found its job follows one the queue knows. *)
AttachKnown(a) ==
    attach[a].pc \notin {"idle", "not_found"} => attach[a].job \in Jobs /\ JobInv(attach[a].job)

(* QueueInvariant, forgotten jobs admitted. *)
QueueHolds ==
    /\ TypeOK /\ GuardExclusive /\ QueueHoldsQueued
    /\ \A j \in Jobs : JobInv(j) \/ Forgotten(j)
    /\ \A a \in Attachers : AttachConsistent(a) /\ AttachKnown(a)

(* What a step does to a job it is not about: nothing, or it evicts the    *)
(* job's terminal entry.                                                   *)
Untouched(k) ==
    /\ stage'[k] = stage[k]
    /\ task'[k] = task[k]
    /\ snapshot'[k] = snapshot[k]
    /\ events'[k] = events[k]
    /\ registry'[k] \in {registry[k], NoJob}
    /\ ~IsTerminal(registry[k]) => registry'[k] = registry[k]
    /\ k \in handles' <=> k \in handles
    /\ k \in acked' => k \in acked
    /\ k \in cancelled => k \in cancelled'
    /\ open' => open

(* What any step does to any job, as far as an SSE request can tell: its   *)
(* handle only goes when the job's channel is closed, with a new message,  *)
(* and a settled job stays settled with the same snapshot.                 *)
Moves(k) ==
    /\ k \in handles => k \in handles' \/ stage'[k] \in ClosedStages
    /\ stage[k] \in ClosedStages => stage'[k] \in ClosedStages
    /\ stage[k] \in SettledStages => stage'[k] \in SettledStages /\ snapshot'[k] = snapshot[k]
    /\ Len(events'[k]) >= Len(events[k])
    /\ stage'[k] \in ClosedStages /\ stage[k] \notin ClosedStages =>
         Len(events'[k]) > Len(events[k])

(* The three non-terminal values are distinct and none of them is terminal. *)
LEMMA DistinctValues ==
    /\ NoJob # Pending /\ NoJob # Running /\ Pending # Running
    /\ ~IsTerminal(NoJob) /\ ~IsTerminal(Pending) /\ ~IsTerminal(Running)
    /\ IsTerminal(complete_index_job) /\ IsTerminal(fail_index_job)
    /\ \A c : IsTerminal(fail_index_job_with_error(c))
    /\ \A job : IsTerminal(job) => job # NoJob
<1>1. \A job : job = NoJob => ~IsTerminal(job)
  BY DEF NoJob, IsTerminal
<1> QED
  BY <1>1 DEF NoJob, Pending, Running, IsTerminal, complete_index_job, fail_index_job,
     fail_index_job_with_error

(* The invariant of a job survives every step that leaves the job alone. *)
LEMMA UntouchedInv ==
    ASSUME NEW k \in Jobs, JobInv(k), Untouched(k)
    PROVE  JobInv(k)'
<1> USE DEF Untouched
<1>1. Lifecycle(k)'
  BY DistinctValues DEF JobInv, Lifecycle
<1>2. HandleSpan(k)'
  BY DistinctValues DEF JobInv, HandleSpan, Lifecycle
<1>3. CancelAccepted(k)'
  BY DEF JobInv, CancelAccepted
<1>4. OutcomeRecorded(k)'
  BY DEF JobInv, OutcomeRecorded
<1>5. ChannelContent(k)'
  BY DEF JobInv, ChannelContent
<1> QED
  BY <1>1, <1>2, <1>3, <1>4, <1>5 DEF JobInv

LEMMA UntouchedMoves ==
    ASSUME NEW k \in Jobs, Untouched(k), TypeOK
    PROVE  Moves(k)
<1>1. Len(events[k]) \in Nat
  BY DEF TypeOK
<1> QED
  BY <1>1 DEF Untouched, Moves

(* A forgotten job stays forgotten. *)
LEMMA ForgottenStays ==
    ASSUME NEW k \in Jobs, Forgotten(k), Untouched(k)
    PROVE  Forgotten(k)'
BY DEF Forgotten, Untouched

(* Nothing happens to it. *)
LEMMA ForgottenRests ==
    ASSUME TypeOK, QueueHoldsQueued, NEW j \in Jobs, Forgotten(j)
    PROVE  ~(Submit(j) \/ ProcessJob(j) \/ Cancel(j))
<1>1. WorkerRecv(j) => stage[j] = "queued"
  BY DEF WorkerRecv, QueueHoldsQueued, TypeOK
<1> QED
  BY <1>1 DEF Forgotten, Submit, SubmitReserve, SubmitInstallHandle, SubmitRegister, SubmitEnqueue,
     SubmitSendFails, SubmitFailSettle, SubmitFailTearDown, SubmitDropped, SubmitStages, FailStages,
     ProcessJob, WorkerStartJob, WorkerSkipCancelled, WorkerBuildTask, TaskProgress,
     TaskEnds, WorkerAbort, TaskAborted, WorkerRecordOutcome, WorkerTearDown, WorkerRelease, Cancel

(* The effect of a terminal write. *)
LEMMA SettleEffect ==
    ASSUME TypeOK, NEW j \in Jobs, NEW outcome \in IndexJobs,
           registry[j] # NoJob, SettleJob(j, outcome)
    PROVE  /\ registry'[j] = outcome
           /\ snapshot'[j] = outcome
           /\ \A k \in Jobs \ {j} :
                /\ snapshot'[k] = snapshot[k]
                /\ registry'[k] \in {registry[k], NoJob}
                /\ ~IsTerminal(registry[k]) => registry'[k] = registry[k]
<1> DEFINE written == UpdateEntry(j, outcome)
<1>1. written[j] = outcome /\ \A k \in Jobs \ {j} : written[k] = registry[k]
  BY DEF UpdateEntry, TypeOK
<1>2. registry' = evict_oldest_terminal_jobs_over_cap(written, j)
  BY DEF SettleJob
<1>3. registry'[j] = outcome
  BY <1>1, <1>2, EvictionRemovesOnly
<1>4. ASSUME NEW k \in Jobs \ {j}
      PROVE  /\ registry'[k] \in {registry[k], NoJob}
             /\ ~IsTerminal(registry[k]) => registry'[k] = registry[k]
  BY <1>1, <1>2, EvictionRemovesOnly
<1> QED
  BY <1>3, <1>4 DEF SettleJob, TypeOK

(* What each recorded outcome says of the task. *)
LEMMA OutcomeFacts ==
    ASSUME NEW j \in Jobs, task[j] \in {"ok", "err", "panic", "aborted", "build_panic"}
    PROVE  /\ IsTerminal(JobOutcome(j))
           /\ JobOutcome(j).state = "Done" <=> task[j] = "ok"
           /\ JobOutcome(j).code = "job_cancelled" => task[j] = "aborted"
BY DEF JobOutcome, IsTerminal, complete_index_job, fail_index_job, fail_index_job_with_error

(* A job's own steps: they keep what the invariant says of the job, leave  *)
(* every other job alone, and move the job forward.                        *)
LEMMA JobStep ==
    ASSUME TypeOK, QueueHoldsQueued, NEW j \in Jobs, JobInv(j),
           Submit(j) \/ ProcessJob(j) \/ Cancel(j)
    PROVE  JobInv(j)' /\ Moves(j) /\ \A k \in Jobs \ {j} : Untouched(k)
<1> DEFINE Goal == JobInv(j)' /\ Moves(j) /\ \A k \in Jobs \ {j} : Untouched(k)
<1>inv. JobInv(j) /\ TypeOK
  OBVIOUS
<1>typ. /\ stage \in [Jobs -> Stages]
        /\ task \in [Jobs -> TaskStates]
        /\ registry \in [Jobs -> IndexJobs]
        /\ snapshot \in [Jobs -> IndexJobs]
        /\ events \in [Jobs -> Seq(JobEvents)]
        /\ Len(events[j]) \in Nat
        /\ now \in Nat
  BY <1>inv DEF TypeOK
<1> USE DEF ClosedStages, SettledStages
<1>r. ASSUME NEW s \in Stores, SubmitReserve(j, s) PROVE Goal
  <2>1. Moves(j) /\ \A k \in Jobs \ {j} : Untouched(k)
    BY <1>r, <1>typ DEF SubmitReserve, Moves, Untouched
  <2>2. JobInv(j)'
    BY <1>r, <1>typ, <1>inv DEF SubmitReserve, JobInv, Lifecycle, HandleSpan, CancelAccepted,
       OutcomeRecorded, ChannelContent
  <2> QED
    BY <2>1, <2>2
<1>1. CASE SubmitInstallHandle(j)
  <2>1. Moves(j) /\ \A k \in Jobs \ {j} : Untouched(k)
    BY <1>1, <1>typ DEF SubmitInstallHandle, Moves, Untouched
  <2>2. JobInv(j)'
    BY <1>1, <1>typ, <1>inv, DistinctValues DEF SubmitInstallHandle, JobInv, Lifecycle, HandleSpan,
       CancelAccepted, OutcomeRecorded, ChannelContent
  <2> QED
    BY <2>1, <2>2
<1>2. CASE SubmitRegister(j)
  <2>1. Moves(j) /\ \A k \in Jobs \ {j} : Untouched(k)
    BY <1>2, <1>typ DEF SubmitRegister, Moves, Untouched
  <2>2. JobInv(j)'
    BY <1>2, <1>typ, <1>inv, DistinctValues DEF SubmitRegister, JobInv, Lifecycle, HandleSpan,
       CancelAccepted, OutcomeRecorded, ChannelContent
  <2> QED
    BY <2>1, <2>2
<1>3. CASE SubmitEnqueue(j)
  <2>1. Moves(j) /\ \A k \in Jobs \ {j} : Untouched(k)
    BY <1>3, <1>typ DEF SubmitEnqueue, Moves, Untouched
  <2>2. JobInv(j)'
    BY <1>3, <1>typ, <1>inv, DistinctValues DEF SubmitEnqueue, JobInv, Lifecycle, HandleSpan,
       CancelAccepted, OutcomeRecorded, ChannelContent
  <2> QED
    BY <2>1, <2>2
<1>4. CASE SubmitSendFails(j)
  <2>1. Moves(j) /\ \A k \in Jobs \ {j} : Untouched(k)
    BY <1>4, <1>typ DEF SubmitSendFails, Moves, Untouched
  <2>2. JobInv(j)'
    BY <1>4, <1>typ, <1>inv, DistinctValues DEF SubmitSendFails, JobInv, Lifecycle, HandleSpan,
       CancelAccepted, OutcomeRecorded, ChannelContent
  <2> QED
    BY <2>1, <2>2
<1>5. CASE SubmitFailSettle(j)
  <2>1. fail_index_job \in IndexJobs /\ IsTerminal(fail_index_job)
    BY <1>typ, JobValues, OutcomeType, DistinctValues DEF Codes
  <2>2. registry[j] # NoJob
    BY <1>5, <1>inv, DistinctValues DEF SubmitFailSettle, JobInv, Lifecycle
  <2>3. /\ registry'[j] = fail_index_job
        /\ snapshot'[j] = fail_index_job
        /\ \A k \in Jobs \ {j} :
             /\ snapshot'[k] = snapshot[k]
             /\ registry'[k] \in {registry[k], NoJob}
             /\ ~IsTerminal(registry[k]) => registry'[k] = registry[k]
    BY <1>5, <1>inv, <2>1, <2>2, SettleEffect DEF SubmitFailSettle
  <2>4. Moves(j) /\ \A k \in Jobs \ {j} : Untouched(k)
    BY <1>5, <1>typ, <2>3 DEF SubmitFailSettle, Moves, Untouched
  <2>5. Lifecycle(j)' /\ HandleSpan(j)' /\ ChannelContent(j)'
    BY <1>5, <1>typ, <1>inv, <2>1, <2>3, DistinctValues DEF SubmitFailSettle, JobInv, Lifecycle, HandleSpan, CancelAccepted, OutcomeRecorded, ChannelContent
  <2>6. CancelAccepted(j)' /\ OutcomeRecorded(j)'
    BY <1>5, <1>typ, <1>inv, <2>1, <2>3 DEF SubmitFailSettle, JobInv, Lifecycle, HandleSpan, CancelAccepted, OutcomeRecorded, ChannelContent,
       fail_index_job, fail_index_job_with_error
  <2> QED
    BY <2>4, <2>5, <2>6 DEF JobInv
<1>6. CASE SubmitFailTearDown(j)
  <2>1. snapshot[j] # NoJob /\ IsTerminal(snapshot[j])
    BY <1>6, <1>inv, DistinctValues DEF SubmitFailTearDown, JobInv, Lifecycle
  <2>2. /\ events' = [events EXCEPT ![j] = Append(events[j], Terminal(snapshot[j]))]
        /\ handles' = handles \ {j}
    BY <1>6, <2>1 DEF SubmitFailTearDown, TearDownHandle
  <2>3. Terminal(snapshot[j]) \in JobEvents
    BY <1>typ DEF Terminal, JobEvents
  <2>4. Moves(j) /\ \A k \in Jobs \ {j} : Untouched(k)
    BY <1>6, <1>typ, <2>2, <2>3 DEF SubmitFailTearDown, Moves, Untouched
  <2>5. Lifecycle(j)' /\ HandleSpan(j)' /\ CancelAccepted(j)' /\ OutcomeRecorded(j)'
    BY <1>6, <1>typ, <1>inv, <2>2 DEF SubmitFailTearDown, JobInv, Lifecycle, HandleSpan, CancelAccepted, OutcomeRecorded, ChannelContent
  <2>6. ChannelContent(j)'
    <3> DEFINE sent == Append(events[j], Terminal(snapshot[j]))
    <3>1. /\ events'[j] = sent
          /\ stage'[j] \in ClosedStages
          /\ stage[j] \notin ClosedStages
          /\ snapshot' = snapshot
      BY <1>6, <1>typ, <2>2 DEF SubmitFailTearDown
    <3>2. /\ Len(sent) = Len(events[j]) + 1
          /\ sent[Len(sent)] = Terminal(snapshot[j])
          /\ \A i \in 1..Len(events[j]) : sent[i] = events[j][i]
      BY <1>typ, <2>3
    <3>3. \A i \in 1..Len(events[j]) : events[j][i].kind # "Terminal"
      BY <1>inv, <3>1 DEF JobInv, ChannelContent
    <3>4. \A i \in 1..Len(sent) : sent[i].kind = "Terminal" => i = Len(sent)
      BY <1>typ, <3>2, <3>3
    <3> QED
      BY <1>typ, <3>1, <3>2, <3>4 DEF ChannelContent
  <2> QED
    BY <2>4, <2>5, <2>6 DEF JobInv
<1>7. CASE SubmitDropped(j)
  <2>1. Moves(j) /\ \A k \in Jobs \ {j} : Untouched(k)
    BY <1>7, <1>typ DEF SubmitDropped, Moves, Untouched, SubmitStages, FailStages, SettledStages, ClosedStages
  <2>2. JobInv(j)'
    BY <1>7, <1>typ, <1>inv, DistinctValues DEF SubmitDropped, JobInv, Lifecycle, HandleSpan,
       CancelAccepted, OutcomeRecorded, ChannelContent, SubmitStages, FailStages, SettledStages, ClosedStages
  <2> QED
    BY <2>1, <2>2
<1>8. CASE WorkerRecv(j)
  <2>0. stage[j] = "queued"
    BY <1>8 DEF WorkerRecv, QueueHoldsQueued, TypeOK
  <2>1. Moves(j) /\ \A k \in Jobs \ {j} : Untouched(k)
    BY <1>8, <1>typ, <2>0 DEF WorkerRecv, Moves, Untouched
  <2>2. JobInv(j)'
    BY <1>8, <1>typ, <1>inv, <2>0, DistinctValues DEF WorkerRecv, JobInv, Lifecycle, HandleSpan,
       CancelAccepted, OutcomeRecorded, ChannelContent
  <2> QED
    BY <2>1, <2>2
<1>9. CASE WorkerStartJob(j)
  <2>1. Moves(j) /\ \A k \in Jobs \ {j} : Untouched(k)
    BY <1>9, <1>typ DEF WorkerStartJob, Moves, Untouched, UpdateEntry
  <2>2. JobInv(j)'
    BY <1>9, <1>typ, <1>inv, DistinctValues DEF WorkerStartJob, JobInv, Lifecycle, HandleSpan,
       CancelAccepted, OutcomeRecorded, ChannelContent, UpdateEntry
  <2> QED
    BY <2>1, <2>2
<1>10. CASE WorkerSkipCancelled(j)
  <2>1. fail_index_job_with_error("job_cancelled") \in IndexJobs /\ IsTerminal(fail_index_job_with_error("job_cancelled"))
    BY <1>typ, JobValues, OutcomeType, DistinctValues DEF Codes
  <2>2. registry[j] # NoJob
    BY <1>10, <1>inv, DistinctValues DEF WorkerSkipCancelled, JobInv, Lifecycle
  <2>3. /\ registry'[j] = fail_index_job_with_error("job_cancelled")
        /\ snapshot'[j] = fail_index_job_with_error("job_cancelled")
        /\ \A k \in Jobs \ {j} :
             /\ snapshot'[k] = snapshot[k]
             /\ registry'[k] \in {registry[k], NoJob}
             /\ ~IsTerminal(registry[k]) => registry'[k] = registry[k]
    BY <1>10, <1>inv, <2>1, <2>2, SettleEffect DEF WorkerSkipCancelled
  <2>4. Moves(j) /\ \A k \in Jobs \ {j} : Untouched(k)
    BY <1>10, <1>typ, <2>3 DEF WorkerSkipCancelled, Moves, Untouched
  <2>5. Lifecycle(j)' /\ HandleSpan(j)' /\ ChannelContent(j)'
    BY <1>10, <1>typ, <1>inv, <2>1, <2>3, DistinctValues DEF WorkerSkipCancelled, JobInv, Lifecycle, HandleSpan, CancelAccepted, OutcomeRecorded, ChannelContent
  <2>6. CancelAccepted(j)' /\ OutcomeRecorded(j)'
    BY <1>10, <1>typ, <1>inv, <2>1, <2>3 DEF WorkerSkipCancelled, JobInv, Lifecycle, HandleSpan, CancelAccepted, OutcomeRecorded, ChannelContent,
       fail_index_job, fail_index_job_with_error
  <2> QED
    BY <2>4, <2>5, <2>6 DEF JobInv
<1>11. CASE WorkerBuildTask(j)
  <2>1. Moves(j) /\ \A k \in Jobs \ {j} : Untouched(k)
    BY <1>11, <1>typ DEF WorkerBuildTask, Moves, Untouched
  <2>2. JobInv(j)'
    BY <1>11, <1>typ, <1>inv, DistinctValues DEF WorkerBuildTask, JobInv, Lifecycle, HandleSpan,
       CancelAccepted, OutcomeRecorded, ChannelContent, TaskResults
  <2> QED
    BY <2>1, <2>2
<1>12. CASE TaskProgress(j)
  <2>0. Progress \in JobEvents /\ Progress.kind = "Progress" /\ stage[j] \notin SettledStages
    BY <1>12, <1>typ, <1>inv, JobValues DEF TaskProgress, Progress, JobEvents, JobInv, Lifecycle, Stages
  <2>1. Moves(j) /\ \A k \in Jobs \ {j} : Untouched(k)
    BY <1>12, <1>typ, <2>0 DEF TaskProgress, Moves, Untouched
  <2>2. JobInv(j)'
    BY <1>12, <1>typ, <1>inv, <2>0, DistinctValues DEF TaskProgress, JobInv, Lifecycle, HandleSpan,
       CancelAccepted, OutcomeRecorded, ChannelContent
  <2> QED
    BY <2>1, <2>2
<1>13. CASE TaskEnds(j)
  <2>1. Moves(j) /\ \A k \in Jobs \ {j} : Untouched(k)
    BY <1>13, <1>typ DEF TaskEnds, Moves, Untouched
  <2>2. JobInv(j)'
    BY <1>13, <1>typ, <1>inv, DistinctValues DEF TaskEnds, JobInv, Lifecycle, HandleSpan,
       CancelAccepted, OutcomeRecorded, ChannelContent, TaskResults
  <2> QED
    BY <2>1, <2>2
<1>14. CASE WorkerAbort(j)
  <2>1. Moves(j) /\ \A k \in Jobs \ {j} : Untouched(k)
    BY <1>14, <1>typ DEF WorkerAbort, Moves, Untouched
  <2>2. JobInv(j)'
    BY <1>14, <1>typ, <1>inv, DistinctValues DEF WorkerAbort, JobInv, Lifecycle, HandleSpan,
       CancelAccepted, OutcomeRecorded, ChannelContent
  <2> QED
    BY <2>1, <2>2
<1>15. CASE TaskAborted(j)
  <2>1. Moves(j) /\ \A k \in Jobs \ {j} : Untouched(k)
    BY <1>15, <1>typ DEF TaskAborted, Moves, Untouched
  <2>2. JobInv(j)'
    BY <1>15, <1>typ, <1>inv, DistinctValues DEF TaskAborted, JobInv, Lifecycle, HandleSpan,
       CancelAccepted, OutcomeRecorded, ChannelContent, TaskResults
  <2> QED
    BY <2>1, <2>2
<1>16. CASE WorkerRecordOutcome(j)
  <2>0. task[j] \in {"ok", "err", "panic", "aborted", "build_panic"}
    BY <1>16, <1>typ, <1>inv DEF WorkerRecordOutcome, JobInv, Lifecycle, TaskStates, TaskResults
  <2>1. JobOutcome(j) \in IndexJobs /\ IsTerminal(JobOutcome(j))
    BY <2>0, OutcomeFacts, <1>typ, JobValues, OutcomeType, DistinctValues DEF Codes
  <2>2. registry[j] # NoJob
    BY <1>16, <1>inv, DistinctValues DEF WorkerRecordOutcome, JobInv, Lifecycle
  <2>3. /\ registry'[j] = JobOutcome(j)
        /\ snapshot'[j] = JobOutcome(j)
        /\ \A k \in Jobs \ {j} :
             /\ snapshot'[k] = snapshot[k]
             /\ registry'[k] \in {registry[k], NoJob}
             /\ ~IsTerminal(registry[k]) => registry'[k] = registry[k]
    BY <1>16, <1>inv, <2>1, <2>2, SettleEffect DEF WorkerRecordOutcome
  <2>4. Moves(j) /\ \A k \in Jobs \ {j} : Untouched(k)
    BY <1>16, <1>typ, <2>3 DEF WorkerRecordOutcome, Moves, Untouched
  <2>5. Lifecycle(j)' /\ HandleSpan(j)' /\ ChannelContent(j)'
    BY <1>16, <1>typ, <1>inv, <2>1, <2>3, DistinctValues DEF WorkerRecordOutcome, JobInv, Lifecycle, HandleSpan, CancelAccepted, OutcomeRecorded, ChannelContent
  <2>6. CancelAccepted(j)' /\ OutcomeRecorded(j)'
    BY <1>16, <1>typ, <1>inv, <2>1, <2>3, <2>0, OutcomeFacts DEF WorkerRecordOutcome, JobInv, Lifecycle, HandleSpan, CancelAccepted, OutcomeRecorded, ChannelContent,
       fail_index_job, fail_index_job_with_error
  <2> QED
    BY <2>4, <2>5, <2>6 DEF JobInv
<1>17. CASE WorkerTearDown(j)
  <2>1. snapshot[j] # NoJob /\ IsTerminal(snapshot[j])
    BY <1>17, <1>inv, DistinctValues DEF WorkerTearDown, JobInv, Lifecycle
  <2>2. /\ events' = [events EXCEPT ![j] = Append(events[j], Terminal(snapshot[j]))]
        /\ handles' = handles \ {j}
    BY <1>17, <2>1 DEF WorkerTearDown, TearDownHandle
  <2>3. Terminal(snapshot[j]) \in JobEvents
    BY <1>typ DEF Terminal, JobEvents
  <2>4. Moves(j) /\ \A k \in Jobs \ {j} : Untouched(k)
    BY <1>17, <1>typ, <2>2, <2>3 DEF WorkerTearDown, Moves, Untouched
  <2>5. Lifecycle(j)' /\ HandleSpan(j)' /\ CancelAccepted(j)' /\ OutcomeRecorded(j)'
    BY <1>17, <1>typ, <1>inv, <2>2 DEF WorkerTearDown, JobInv, Lifecycle, HandleSpan, CancelAccepted, OutcomeRecorded, ChannelContent
  <2>6. ChannelContent(j)'
    <3> DEFINE sent == Append(events[j], Terminal(snapshot[j]))
    <3>1. /\ events'[j] = sent
          /\ stage'[j] \in ClosedStages
          /\ stage[j] \notin ClosedStages
          /\ snapshot' = snapshot
      BY <1>17, <1>typ, <2>2 DEF WorkerTearDown
    <3>2. /\ Len(sent) = Len(events[j]) + 1
          /\ sent[Len(sent)] = Terminal(snapshot[j])
          /\ \A i \in 1..Len(events[j]) : sent[i] = events[j][i]
      BY <1>typ, <2>3
    <3>3. \A i \in 1..Len(events[j]) : events[j][i].kind # "Terminal"
      BY <1>inv, <3>1 DEF JobInv, ChannelContent
    <3>4. \A i \in 1..Len(sent) : sent[i].kind = "Terminal" => i = Len(sent)
      BY <1>typ, <3>2, <3>3
    <3> QED
      BY <1>typ, <3>1, <3>2, <3>4 DEF ChannelContent
  <2> QED
    BY <2>4, <2>5, <2>6 DEF JobInv
<1>18. CASE WorkerRelease(j)
  <2>1. Moves(j) /\ \A k \in Jobs \ {j} : Untouched(k)
    BY <1>18, <1>typ DEF WorkerRelease, Moves, Untouched
  <2>2. JobInv(j)'
    BY <1>18, <1>typ, <1>inv, DistinctValues DEF WorkerRelease, JobInv, Lifecycle, HandleSpan,
       CancelAccepted, OutcomeRecorded, ChannelContent
  <2> QED
    BY <2>1, <2>2
<1>19. CASE Cancel(j)
  <2>0. registry[j] = Pending =>
            stage[j] \in {"registered", "queued", "dequeued", "send_failed", "given_up", "dropped"}
    <3>1. registry[j] = Pending => stage[j] \notin SettledStages
      BY <1>inv, DistinctValues DEF JobInv, Lifecycle
    <3> QED
      BY <3>1, <1>typ, <1>inv, DistinctValues DEF JobInv, Lifecycle, Stages, SubmitStages,
         FailStages, WorkerStages, LeftStages
  <2>1. Moves(j) /\ \A k \in Jobs \ {j} : Untouched(k)
    BY <1>19, <1>typ, <2>0 DEF Cancel, Moves, Untouched
  <2>2. JobInv(j)'
    BY <1>19, <1>typ, <1>inv, <2>0, DistinctValues DEF Cancel, JobInv, Lifecycle, HandleSpan,
       CancelAccepted, OutcomeRecorded, ChannelContent
  <2> QED
    BY <2>1, <2>2
<1> QED
  BY <1>r, <1>1, <1>2, <1>3, <1>4, <1>5, <1>6, <1>7, <1>8, <1>9, <1>10, <1>11, <1>12, <1>13, <1>14, <1>15, <1>16, <1>17, <1>18, <1>19 DEF Submit, ProcessJob

(* The in-flight guard: a reservation finds the store free of active jobs, *)
(* and a release gives back a store no other active job has.               *)
LEMMA GuardStep ==
    ASSUME TypeOK, GuardExclusive, QueueHoldsQueued, NEW j \in Jobs, JobInv(j),
           Submit(j) \/ ProcessJob(j) \/ Cancel(j)
    PROVE  GuardExclusive'
<1>typ. /\ stage \in [Jobs -> Stages]
        /\ storeOf \in [Jobs -> Stores \cup {NoStore}]
        /\ inflight \subseteq Stores
        /\ GuardExclusive
        /\ Lifecycle(j)
  BY DEF JobInv, TypeOK
<1>1. ASSUME NEW s \in Stores, SubmitReserve(j, s) PROVE GuardExclusive'
  BY <1>1, <1>typ DEF SubmitReserve, GuardExclusive, Active
<1>2. CASE SubmitFailTearDown(j)
  BY <1>2, <1>typ DEF SubmitFailTearDown, GuardExclusive, Active
<1>9. CASE SubmitDropped(j) /\ stage'[j] # "dropped"
  <2>1. PICK x \in {"given_up", "abandoned"} : stage' = [stage EXCEPT ![j] = x]
    BY <1>9, <1>typ DEF SubmitDropped
  <2>2. Active(j) /\ UNCHANGED storeOf /\ inflight' = inflight \ {storeOf[j]}
    BY <1>9, <1>typ DEF SubmitDropped, FailStages, Active
  <2>3. \A k \in Jobs : Active(k)' <=> Active(k) /\ k # j
    BY <2>1, <2>2, <1>typ DEF Active
  <2> QED
    BY <2>2, <2>3, <1>typ DEF GuardExclusive
<1>3. CASE WorkerRelease(j)
  BY <1>3, <1>typ DEF WorkerRelease, GuardExclusive, Active
<1>4. ASSUME UNCHANGED <<storeOf, inflight>>, Active(j) \/ UNCHANGED stage,
             \A k \in Jobs \ {j} : stage'[k] = stage[k]
      PROVE  GuardExclusive'
  BY <1>4, <1>typ DEF GuardExclusive, Active
<1>5. CASE \/ SubmitInstallHandle(j) \/ SubmitRegister(j) \/ SubmitEnqueue(j)
           \/ SubmitSendFails(j) \/ SubmitFailSettle(j)
           \/ SubmitDropped(j) /\ stage'[j] = "dropped"
  BY <1>4, <1>5, <1>typ DEF SubmitInstallHandle, SubmitRegister, SubmitEnqueue, SubmitSendFails,
     SubmitFailSettle, SubmitDropped, SubmitStages, FailStages, Active
<1>6. CASE WorkerRecv(j)
  <2>1. stage[j] = "queued"
    BY <1>6 DEF WorkerRecv, QueueHoldsQueued, TypeOK
  <2> QED
    BY <1>4, <1>6, <2>1, <1>typ DEF WorkerRecv, Active
<1>7. CASE \/ WorkerStartJob(j) \/ WorkerSkipCancelled(j) \/ WorkerBuildTask(j)
           \/ WorkerAbort(j) \/ WorkerRecordOutcome(j) \/ WorkerTearDown(j)
  BY <1>4, <1>7, <1>typ DEF WorkerStartJob, WorkerSkipCancelled, WorkerBuildTask, WorkerAbort,
     WorkerRecordOutcome, WorkerTearDown, Active
<1>8. CASE TaskProgress(j) \/ TaskEnds(j) \/ TaskAborted(j) \/ Cancel(j)
  BY <1>4, <1>8, <1>typ DEF TaskProgress, TaskEnds, TaskAborted, Cancel
<1> QED
  BY <1>1, <1>2, <1>3, <1>5, <1>6, <1>7, <1>8, <1>9 DEF Submit, ProcessJob

(* The channel: only a job that is not queued is sent, and recv takes the  *)
(* head, so no job is ever in it twice.                                    *)
LEMMA ChannelStep ==
    ASSUME TypeOK, QueueHoldsQueued, NEW j \in Jobs, JobInv(j),
           Submit(j) \/ ProcessJob(j) \/ Cancel(j)
    PROVE  QueueHoldsQueued'
<1>typ. /\ stage \in [Jobs -> Stages]
        /\ queue \in Seq(Jobs)
        /\ QueueHoldsQueued
        /\ \A i \in 1..Len(queue) : queue[i] \in Jobs
        /\ Lifecycle(j)
  BY DEF JobInv, TypeOK
<1>1. CASE SubmitEnqueue(j)
  <2>1. queue' = Append(queue, j) /\ stage' = [stage EXCEPT ![j] = "queued"]
    BY <1>1 DEF SubmitEnqueue
  <2>2. /\ Len(queue') = Len(queue) + 1
        /\ queue'[Len(queue) + 1] = j
        /\ \A i \in 1..Len(queue) : queue'[i] = queue[i]
    BY <2>1, <1>typ
  <2>3. \A i \in 1..Len(queue) : queue[i] # j
    BY <1>1, <1>typ DEF SubmitEnqueue, QueueHoldsQueued
  <2>4. Len(queue) \in Nat
    BY <1>typ
  <2>5. \A i \in 1..Len(queue') : i \in 1..Len(queue) \/ i = Len(queue) + 1
    BY <2>2, <2>4
  <2>6. \A i \in 1..Len(queue') : stage'[queue'[i]] = "queued"
    BY <2>1, <2>2, <2>3, <2>5, <1>typ DEF QueueHoldsQueued
  <2>7. \A i, k \in 1..Len(queue') : queue'[i] = queue'[k] => i = k
    BY <2>2, <2>3, <2>5, <1>typ DEF QueueHoldsQueued
  <2> QED
    BY <2>6, <2>7 DEF QueueHoldsQueued
<1>2. CASE WorkerRecv(j)
  <2>1. queue # <<>> /\ j = queue[1] /\ queue' = Tail(queue)
        /\ stage' = [stage EXCEPT ![j] = "dequeued"]
    BY <1>2, <1>typ DEF WorkerRecv
  <2>2. Len(queue) \in Nat /\ Len(queue) > 0
    BY <2>1, <1>typ
  <2>3. /\ Len(queue') = Len(queue) - 1
        /\ \A i \in 1..Len(queue') : queue'[i] = queue[i + 1] /\ i + 1 \in 1..Len(queue)
    BY <2>1, <2>2, <1>typ
  <2>4. \A i \in 1..Len(queue') : queue'[i] # j
    BY <2>1, <2>2, <2>3, <1>typ DEF QueueHoldsQueued
  <2>5. \A i \in 1..Len(queue') : stage'[queue'[i]] = "queued"
    BY <2>1, <2>3, <2>4, <1>typ DEF QueueHoldsQueued
  <2>6. ASSUME NEW i \in 1..Len(queue'), NEW k \in 1..Len(queue'), queue'[i] = queue'[k]
        PROVE  i = k
    <3>1. /\ queue[i + 1] = queue[k + 1]
          /\ i + 1 \in 1..Len(queue)
          /\ k + 1 \in 1..Len(queue)
      BY <2>3, <2>6
    <3>2. i + 1 = k + 1
      BY <3>1, <1>typ DEF QueueHoldsQueued
    <3> QED
      BY <3>2
  <2> QED
    BY <2>5, <2>6 DEF QueueHoldsQueued
<1>3. ASSUME UNCHANGED queue, stage[j] # "queued" \/ UNCHANGED stage,
             \A k \in Jobs \ {j} : stage'[k] = stage[k]
      PROVE  QueueHoldsQueued'
  BY <1>3, <1>typ DEF QueueHoldsQueued
<1>4. CASE \/ \E s \in Stores : SubmitReserve(j, s)
           \/ SubmitInstallHandle(j) \/ SubmitRegister(j) \/ SubmitSendFails(j)
           \/ SubmitFailSettle(j) \/ SubmitFailTearDown(j) \/ SubmitDropped(j)
  BY <1>3, <1>4, <1>typ DEF SubmitReserve, SubmitInstallHandle, SubmitRegister, SubmitSendFails,
     SubmitFailSettle, SubmitFailTearDown, SubmitDropped, SubmitStages, FailStages
<1>5. CASE \/ WorkerStartJob(j) \/ WorkerSkipCancelled(j) \/ WorkerBuildTask(j)
           \/ WorkerAbort(j) \/ WorkerRecordOutcome(j) \/ WorkerTearDown(j) \/ WorkerRelease(j)
  BY <1>3, <1>5, <1>typ DEF WorkerStartJob, WorkerSkipCancelled, WorkerBuildTask, WorkerAbort,
     WorkerRecordOutcome, WorkerTearDown, WorkerRelease
<1>6. CASE TaskProgress(j) \/ TaskEnds(j) \/ TaskAborted(j) \/ Cancel(j)
  BY <1>3, <1>6, <1>typ DEF TaskProgress, TaskEnds, TaskAborted, Cancel
<1> QED
  BY <1>1, <1>2, <1>4, <1>5, <1>6 DEF Submit, ProcessJob

(* A step that is not the request's own keeps what is known of it. *)
LEMMA AttachKept ==
    ASSUME TypeOK, NEW a \in Attachers, AttachConsistent(a), attach' = attach,
           \A k \in Jobs : Moves(k), events' \in [Jobs -> Seq(JobEvents)]
    PROVE  AttachConsistent(a)'
<1> DEFINE j == attach[a].job
<1>1. CASE attach[a].pc = "idle"
  BY <1>1 DEF AttachConsistent
<1>2. CASE attach[a].pc # "idle"
  <2>1. j \in Jobs
    BY <1>2 DEF TypeOK, AttachRecs
  <2>2. /\ Moves(j)
        /\ Len(events[j]) \in Nat
        /\ Len(events'[j]) \in Nat
        /\ attach[a].pos \in Nat
    BY <2>1 DEF TypeOK, AttachRecs
  <2> QED
    BY <2>2 DEF AttachConsistent, Moves
<1> QED
  BY <1>1, <1>2

(* The request's own steps. *)
LEMMA AttachOwnStep ==
    ASSUME QueueHolds, NEW a \in Attachers, Attach(a)
    PROVE  AttachConsistent(a)'
<1> DEFINE r == attach[a]
           j == attach[a].job
<1>typ. /\ attach \in [Attachers -> AttachRecs]
        /\ events \in [Jobs -> Seq(JobEvents)]
        /\ stage \in [Jobs -> Stages]
        /\ AttachConsistent(a) /\ AttachKnown(a)
  BY DEF QueueHolds, TypeOK
<1>job. ASSUME r.pc \notin {"idle", "not_found"}
        PROVE  /\ j \in Jobs
               /\ Len(events[j]) \in Nat
               /\ r.pos \in Nat
               /\ JobInv(j) /\ Lifecycle(j) /\ HandleSpan(j) /\ ChannelContent(j)
  BY <1>typ, <1>job DEF AttachRecs, AttachKnown, JobInv
<1>rec. DOMAIN r = {"pc", "job", "pos", "frame"}
        /\ r = [pc |-> r.pc, job |-> r.job, pos |-> r.pos, frame |-> r.frame]
  BY <1>typ DEF AttachRecs
<1>frm. UNCHANGED <<stage, handles, events, registry, snapshot>>
  BY DEF Attach, AttachRead, AttachSubscribe, AttachReread, AttachLagged, AttachReceive, AttachStep
<1>1. ASSUME NEW k \in Jobs, AttachRead(a, k) PROVE AttachConsistent(a)'
  <2>1. /\ attach'[a].job = k
        /\ attach'[a].frame = IF IsTerminal(registry[k]) THEN registry[k] ELSE NoJob
        /\ attach'[a].pc = IF registry[k] = NoJob THEN "not_found"
                           ELSE IF IsTerminal(registry[k]) THEN "finished"
                           ELSE "subscribing"
    BY <1>1, <1>typ DEF AttachRead, AttachStep, IdleAttach
  <2>2. CASE registry[k] = NoJob
    BY <2>1, <2>2 DEF AttachConsistent
  <2>3. CASE registry[k] # NoJob
    <3>1. JobInv(k) /\ Lifecycle(k) /\ HandleSpan(k) /\ stage[k] \in Stages
      BY <2>3, <1>typ DEF QueueHolds, Forgotten, JobInv
    <3>2. IsTerminal(registry[k]) => stage[k] \in SettledStages /\ registry[k] = snapshot[k]
      BY <3>1, DistinctValues DEF Lifecycle, Stages, SubmitStages, FailStages, WorkerStages, LeftStages,
         SettledStages
    <3>3. ~IsTerminal(registry[k]) => k \in handles
      BY <2>3, <3>1, DistinctValues DEF Lifecycle, HandleSpan, Stages, SubmitStages, FailStages,
         WorkerStages, LeftStages, SettledStages, ClosedStages
    <3> QED
      BY <2>1, <2>3, <3>1, <3>2, <3>3, <1>frm DEF AttachConsistent
  <2> QED
    BY <2>2, <2>3
<1>2. CASE AttachSubscribe(a)
  <2>1. CASE j \in handles
    <3>1. attach'[a] = [r EXCEPT !.pc = "live", !.pos = Len(events[j]) + 1]
      BY <1>2, <2>1, <1>typ DEF AttachSubscribe, AttachStep
    <3>2. attach'[a].pc = "live" /\ attach'[a].pos = Len(events[j]) + 1 /\ attach'[a].job = j
      BY <3>1, <1>rec
    <3>3. stage[j] \notin ClosedStages /\ Len(events[j]) \in Nat
      BY <1>2, <2>1, <1>job DEF AttachSubscribe, HandleSpan
    <3> QED
      BY <2>1, <3>2, <3>3, <1>frm DEF AttachConsistent
  <2>2. CASE j \notin handles
    <3>1. attach'[a] = [r EXCEPT !.pc = "rereading"]
      BY <1>2, <2>2, <1>typ DEF AttachSubscribe, AttachStep
    <3>2. attach'[a].pc = "rereading" /\ attach'[a].job = j
      BY <3>1, <1>rec
    <3>3. stage[j] \in ClosedStages
      BY <1>2, <2>2, <1>typ DEF AttachSubscribe, AttachConsistent
    <3> QED
      BY <3>2, <3>3, <1>frm DEF AttachConsistent
  <2> QED
    BY <2>1, <2>2
<1>3. CASE AttachReread(a)
  <2>1. stage[j] \in ClosedStages /\ j \in Jobs /\ Lifecycle(j)
    BY <1>3, <1>typ, <1>job DEF AttachReread, AttachConsistent
  <2>2. stage[j] \in SettledStages /\ registry[j] \in {snapshot[j], NoJob}
    BY <2>1 DEF Lifecycle, ClosedStages, SettledStages
  <2>3. CASE registry[j] = NoJob
    <3>1. attach'[a] = [r EXCEPT !.pc = "not_found"]
      BY <1>3, <2>3, <1>typ DEF AttachReread, AttachStep
    <3> QED
      BY <3>1, <1>rec DEF AttachConsistent
  <2>4. CASE registry[j] # NoJob
    <3>1. attach'[a] = [r EXCEPT !.pc = "finished", !.frame = registry[j]]
      BY <1>3, <2>4, <1>typ DEF AttachReread, AttachStep
    <3>2. attach'[a].pc = "finished" /\ attach'[a].frame = registry[j] /\ attach'[a].job = j
      BY <3>1, <1>rec
    <3> QED
      BY <3>2, <2>2, <2>4, <1>frm DEF AttachConsistent
  <2> QED
    BY <2>3, <2>4
<1>4. CASE AttachLagged(a)
  <2>1. attach'[a] = [r EXCEPT !.pos = OldestRetained(j)] /\ r.pc = "live"
    BY <1>4, <1>typ DEF AttachLagged, AttachStep
  <2>2. attach'[a].pc = "live" /\ attach'[a].pos = OldestRetained(j) /\ attach'[a].job = j
    BY <2>1, <1>rec
  <2>3. /\ OldestRetained(j) \in 1..Len(events[j]) + 1
        /\ Len(events[j]) > 0 => OldestRetained(j) <= Len(events[j])
    <3> DEFINE n == Len(events[j])
    <3>1. n \in Nat
      BY <2>1, <1>job
    <3>2. EventCapacity \in Nat /\ EventCapacity > 0
      BY BoundsAssumption
    <3>3. OldestRetained(j) = IF n > EventCapacity THEN n - EventCapacity + 1 ELSE 1
      BY DEF OldestRetained
    <3> HIDE DEF n
    <3>4. OldestRetained(j) \in 1..n + 1 /\ (n > 0 => OldestRetained(j) <= n)
      BY <3>1, <3>2, <3>3
    <3> QED
      BY <3>4 DEF n
  <2>4. stage[j] \in ClosedStages => Len(events[j]) > 0
    BY <2>1, <1>job DEF ChannelContent
  <2> QED
    BY <2>1, <2>2, <2>3, <2>4, <1>typ, <1>frm DEF AttachConsistent
<1>5. CASE AttachReceive(a)
  <2>1. r.pc = "live" /\ r.pos >= OldestRetained(j) /\ r.pos <= Len(events[j])
    BY <1>5 DEF AttachReceive
  <2>2. r.pos \in 1..Len(events[j]) /\ j \in Jobs /\ ChannelContent(j)
    BY <2>1, <1>job, BoundsAssumption DEF OldestRetained
  <2>3. CASE events[j][r.pos].kind = "Terminal"
    <3>1. attach'[a] = [r EXCEPT !.pc = "finished", !.frame = events[j][r.pos].job]
      BY <1>5, <2>3, <1>typ DEF AttachReceive, AttachStep
    <3>2. /\ attach'[a].pc = "finished" /\ attach'[a].job = j
          /\ attach'[a].frame = events[j][r.pos].job
      BY <3>1, <1>rec
    <3>3. r.pos = Len(events[j]) /\ stage[j] \in ClosedStages
      BY <2>2, <2>3 DEF ChannelContent
    <3>4. events[j][r.pos] = Terminal(snapshot[j])
      BY <2>2, <3>3 DEF ChannelContent
    <3> QED
      BY <3>2, <3>3, <3>4, <1>frm DEF AttachConsistent, Terminal, ClosedStages, SettledStages
  <2>4. CASE events[j][r.pos].kind # "Terminal"
    <3>1. attach'[a] = [r EXCEPT !.pos = r.pos + 1]
      BY <1>5, <2>4, <1>typ DEF AttachReceive, AttachStep
    <3>2. attach'[a].pc = "live" /\ attach'[a].job = j /\ attach'[a].pos = r.pos + 1
      BY <3>1, <1>rec, <2>1
    <3>3. stage[j] \in ClosedStages => r.pos # Len(events[j])
      BY <2>2, <2>4 DEF ChannelContent, Terminal
    <3> QED
      BY <2>1, <2>2, <3>2, <3>3, <1>job, <1>typ, <1>frm DEF AttachConsistent
  <2> QED
    BY <2>3, <2>4
<1> QED
  BY <1>1, <1>2, <1>3, <1>4, <1>5 DEF Attach

(* A request that has read its job keeps to it. *)
LEMMA AttachStays ==
    ASSUME attach \in [Attachers -> AttachRecs], NEW a \in Attachers,
           AttachSubscribe(a) \/ AttachReread(a) \/ AttachLagged(a) \/ AttachReceive(a)
    PROVE  /\ attach[a].pc \in {"subscribing", "rereading", "live"}
           /\ attach'[a].job = attach[a].job
           /\ \A b \in Attachers \ {a} : attach'[b] = attach[b]
<1> DEFINE r == attach[a]
<1>1. DOMAIN r = {"pc", "job", "pos", "frame"}
  BY DEF AttachRecs
<1>2. ASSUME NEW rec, AttachStep(a, rec), rec.job = r.job
      PROVE  /\ attach'[a].job = r.job
             /\ \A b \in Attachers \ {a} : attach'[b] = attach[b]
  BY <1>2 DEF AttachStep
<1>3. ASSUME NEW pc, NEW pos, NEW frame
      PROVE  /\ [r EXCEPT !.pc = pc].job = r.job
             /\ [r EXCEPT !.pos = pos].job = r.job
             /\ [r EXCEPT !.pc = pc, !.pos = pos].job = r.job
             /\ [r EXCEPT !.pc = pc, !.frame = frame].job = r.job
  BY <1>1
<1>4. CASE AttachSubscribe(a)
  <2>1. r.pc = "subscribing"
    BY <1>4 DEF AttachSubscribe
  <2>2. \/ AttachStep(a, [r EXCEPT !.pc = "live", !.pos = Len(events[r.job]) + 1])
        \/ AttachStep(a, [r EXCEPT !.pc = "rereading"])
    BY <1>4, Zenon DEF AttachSubscribe
  <2>3. /\ [r EXCEPT !.pc = "live", !.pos = Len(events[r.job]) + 1].job = r.job
        /\ [r EXCEPT !.pc = "rereading"].job = r.job
    BY <1>3
  <2>4. PICK rec : AttachStep(a, rec) /\ rec.job = r.job
    BY <2>2, <2>3, Zenon
  <2> QED
    BY <1>2, <2>1, <2>4
<1>5. CASE AttachReread(a)
  <2>1. r.pc = "rereading"
    BY <1>5 DEF AttachReread
  <2>2. \/ AttachStep(a, [r EXCEPT !.pc = "not_found"])
        \/ AttachStep(a, [r EXCEPT !.pc = "finished", !.frame = registry[r.job]])
    BY <1>5, Zenon DEF AttachReread
  <2>3. /\ [r EXCEPT !.pc = "not_found"].job = r.job
        /\ [r EXCEPT !.pc = "finished", !.frame = registry[r.job]].job = r.job
    BY <1>3
  <2>4. PICK rec : AttachStep(a, rec) /\ rec.job = r.job
    BY <2>2, <2>3, Zenon
  <2> QED
    BY <1>2, <2>1, <2>4
<1>6. CASE AttachLagged(a)
  BY <1>2, <1>3, <1>6 DEF AttachLagged
<1>7. CASE AttachReceive(a)
  <2>1. r.pc = "live"
    BY <1>7 DEF AttachReceive
  <2>2. \/ AttachStep(a, [r EXCEPT !.pc = "finished", !.frame = events[r.job][r.pos].job])
        \/ AttachStep(a, [r EXCEPT !.pos = r.pos + 1])
    BY <1>7, Zenon DEF AttachReceive
  <2>3. /\ [r EXCEPT !.pc = "finished", !.frame = events[r.job][r.pos].job].job = r.job
        /\ [r EXCEPT !.pos = r.pos + 1].job = r.job
    BY <1>3
  <2>4. PICK rec : AttachStep(a, rec) /\ rec.job = r.job
    BY <2>2, <2>3, Zenon
  <2> QED
    BY <1>2, <2>1, <2>4
<1> QED
  BY <1>4, <1>5, <1>6, <1>7

LEMMA AttachTarget ==
    ASSUME QueueHolds, NEW a \in Attachers, Attach(a),
           attach'[a].pc \notin {"idle", "not_found"}
    PROVE  attach'[a].job \in Jobs /\ JobInv(attach'[a].job)
<1> DEFINE r == attach[a]
<1>typ. /\ attach \in [Attachers -> AttachRecs]
        /\ r.pc \notin {"idle", "not_found"} => r.job \in Jobs /\ JobInv(r.job)
  BY DEF QueueHolds, TypeOK, AttachKnown
<1>1. ASSUME NEW k \in Jobs, AttachRead(a, k)
      PROVE  attach'[a].job \in Jobs /\ JobInv(attach'[a].job)
  <2>1. attach'[a].job = k /\ registry[k] # NoJob
    BY <1>1, <1>typ DEF AttachRead, AttachStep, IdleAttach
  <2> QED
    BY <2>1 DEF QueueHolds, Forgotten
<1>2. ASSUME AttachSubscribe(a) \/ AttachReread(a) \/ AttachLagged(a) \/ AttachReceive(a)
      PROVE  r.pc \in {"subscribing", "rereading", "live"} /\ attach'[a].job = r.job
  BY <1>2, <1>typ, AttachStays
<1> QED
  BY <1>1, <1>2, <1>typ DEF Attach

(* The steps that are about no job in particular leave every job alone. *)
LEMMA OtherStep ==
    ASSUME ListJobs \/ (\E a \in Attachers : Attach(a)) \/ Tick \/ ShutDown
                           \/ UNCHANGED vars
    PROVE  /\ \A k \in Jobs : Untouched(k)
           /\ UNCHANGED <<stage, storeOf, inflight, queue, events>>
<1>1. CASE ListJobs
  <2>1. ASSUME NEW k \in Jobs
        PROVE  /\ registry'[k] \in {registry[k], NoJob}
               /\ ~IsTerminal(registry[k]) => registry'[k] = registry[k]
    BY <1>1, EvictionRemovesOnly DEF ListJobs
  <2> QED
    BY <1>1, <2>1 DEF ListJobs, Untouched
<1>2. ASSUME NEW a \in Attachers, Attach(a)
      PROVE  UNCHANGED <<now, open, stage, storeOf, inflight, handles, cancelled, events, registry,
                         queue, task, snapshot, acked>>
  BY <1>2 DEF Attach, AttachRead, AttachSubscribe, AttachReread, AttachLagged, AttachReceive, AttachStep
<1>3. CASE \E a \in Attachers : Attach(a)
  BY <1>2, <1>3 DEF Untouched
<1>4. CASE Tick
  BY <1>4 DEF Tick, Untouched
<1>5. CASE ShutDown
  BY <1>5 DEF ShutDown, Untouched
<1>6. CASE UNCHANGED vars
  BY <1>6 DEF vars, Untouched
<1> QED
  BY <1>1, <1>3, <1>4, <1>5, <1>6

(* An SSE request's own step leaves the other requests alone. *)
LEMMA OtherAttach ==
    ASSUME TypeOK, NEW a \in Attachers, Attach(a), NEW b \in Attachers \ {a}
    PROVE  attach'[b] = attach[b]
BY DEF TypeOK, Attach, AttachRead, AttachSubscribe, AttachReread, AttachLagged, AttachReceive,
       AttachStep

(* Every step is one job's own, of a job the queue knows, or about none. *)
LEMMA StepIsOwnOrOther ==
    ASSUME QueueHolds, [Next]_vars
    PROVE  \/ \E j \in Jobs : JobInv(j) /\ (Submit(j) \/ ProcessJob(j) \/ Cancel(j))
           \/ ListJobs \/ (\E a \in Attachers : Attach(a)) \/ Tick \/ ShutDown \/ UNCHANGED vars
<1>1. ASSUME NEW j \in Jobs, Submit(j) \/ ProcessJob(j) \/ Cancel(j) PROVE JobInv(j)
  BY <1>1, ForgottenRests DEF QueueHolds
<1> QED
  BY <1>1 DEF Next

(* What the invariant says of each job, and of each request, carries over. *)
LEMMA JobsGoOn ==
    ASSUME QueueHolds, [Next]_vars, NEW k \in Jobs
    PROVE  /\ Moves(k)
           /\ JobInv(k) => JobInv(k)'
           /\ Forgotten(k) => Forgotten(k)'
<1>typ. TypeOK /\ QueueHoldsQueued
  BY DEF QueueHolds
<1>1. ASSUME NEW j \in Jobs, JobInv(j), Submit(j) \/ ProcessJob(j) \/ Cancel(j)
      PROVE  Untouched(k) \/ (JobInv(k)' /\ Moves(k) /\ k = j)
  BY <1>1, <1>typ, JobStep
<1>2. ASSUME NEW j \in Jobs, JobInv(j), Submit(j) \/ ProcessJob(j) \/ Cancel(j)
      PROVE  k = j => ~Forgotten(k)
  BY <1>2, <1>typ, ForgottenRests
<1>3. ASSUME ListJobs \/ (\E a \in Attachers : Attach(a)) \/ Tick \/ ShutDown \/ UNCHANGED vars
      PROVE  Untouched(k)
  BY <1>3, OtherStep
<1> QED
  BY <1>1, <1>2, <1>3, <1>typ, StepIsOwnOrOther, UntouchedInv, UntouchedMoves, ForgottenStays

LEMMA QueueGoesOn ==
    ASSUME QueueHolds, [Next]_vars
    PROVE  QueueHolds'
<1>typ. TypeOK /\ TypeOK' /\ QueueHoldsQueued /\ GuardExclusive /\ events' \in [Jobs -> Seq(JobEvents)]
  BY StepType DEF QueueHolds, TypeOK
<1>1. \A k \in Jobs : (JobInv(k) \/ Forgotten(k))' /\ Moves(k) /\ (JobInv(k) => JobInv(k)')
  BY JobsGoOn DEF QueueHolds
<1>2. ASSUME NEW b \in Attachers, attach'[b] = attach[b] PROVE AttachKnown(b)'
  BY <1>1, <1>2 DEF QueueHolds, AttachKnown
<1>3. ASSUME NEW j \in Jobs, JobInv(j), Submit(j) \/ ProcessJob(j) \/ Cancel(j)
      PROVE  QueueHolds'
  <2>1. attach' = attach
    BY <1>3 DEF Submit, ProcessJob, Cancel, SubmitReserve, SubmitInstallHandle, SubmitRegister,
       SubmitEnqueue, SubmitSendFails, SubmitFailSettle, SubmitFailTearDown, SubmitDropped,
       WorkerRecv, WorkerStartJob, WorkerSkipCancelled, WorkerBuildTask, TaskProgress, TaskEnds,
       WorkerAbort, TaskAborted, WorkerRecordOutcome, WorkerTearDown, WorkerRelease
  <2>2. \A a \in Attachers : AttachConsistent(a)'
    BY <1>typ, <1>1, <2>1, AttachKept DEF QueueHolds
  <2>3. \A a \in Attachers : AttachKnown(a)'
    BY <1>2, <2>1
  <2>4. GuardExclusive' /\ QueueHoldsQueued'
    BY <1>typ, <1>3, GuardStep, ChannelStep
  <2> QED
    BY <1>typ, <1>1, <2>2, <2>3, <2>4 DEF QueueHolds
<1>4. ASSUME ListJobs \/ (\E a \in Attachers : Attach(a)) \/ Tick \/ ShutDown \/ UNCHANGED vars
      PROVE  QueueHolds'
  <2>1. UNCHANGED <<stage, storeOf, inflight, queue, events>>
    BY <1>4, OtherStep
  <2>2. GuardExclusive' /\ QueueHoldsQueued'
    BY <1>typ, <2>1 DEF GuardExclusive, Active, QueueHoldsQueued
  <2>3. ASSUME NEW b \in Attachers PROVE AttachConsistent(b)' /\ AttachKnown(b)'
    <3>1. CASE attach' = attach
      BY <1>typ, <1>1, <1>2, <3>1, AttachKept DEF QueueHolds
    <3>2. ASSUME NEW a \in Attachers, Attach(a) PROVE AttachConsistent(b)' /\ AttachKnown(b)'
      <4>1. CASE a = b
        <5>1. Attach(b)
          BY <3>2, <4>1
        <5>2. AttachConsistent(b)'
          BY <5>1, AttachOwnStep
        <5>3. AttachKnown(b)'
          BY <5>1, <1>1, AttachTarget DEF AttachKnown
        <5> QED
          BY <5>2, <5>3
      <4>2. CASE a # b
        <5>1. attach'[b] = attach[b]
          BY <1>typ, <3>2, <4>2, OtherAttach
        <5>2. UNCHANGED <<stage, handles, events, snapshot>>
          BY <3>2 DEF Attach, AttachRead, AttachSubscribe, AttachReread, AttachLagged,
             AttachReceive, AttachStep
        <5> QED
          BY <1>2, <5>1, <5>2 DEF QueueHolds, AttachConsistent
      <4> QED
        BY <4>1, <4>2
    <3> QED
      BY <1>4, <3>1, <3>2 DEF ListJobs, Tick, ShutDown, vars
  <2> QED
    BY <1>typ, <1>1, <2>2, <2>3 DEF QueueHolds
<1> QED
  BY <1>3, <1>4, StepIsOwnOrOther

LEMMA NoneForgotten == QueueInvariant <=> QueueHolds /\ \A j \in Jobs : JobInv(j)
<1>1. ASSUME QueueInvariant PROVE QueueHolds /\ \A j \in Jobs : JobInv(j)
  <2>1. \A j \in Jobs : JobInv(j)
    BY <1>1 DEF QueueInvariant, JobInv
  <2>2. \A a \in Attachers : AttachKnown(a)
    BY <1>1, <2>1 DEF QueueInvariant, TypeOK, AttachKnown, AttachRecs
  <2> QED
    BY <1>1, <2>1, <2>2 DEF QueueInvariant, QueueHolds
<1>2. ASSUME QueueHolds, \A j \in Jobs : JobInv(j) PROVE QueueInvariant
  BY <1>2 DEF QueueHolds, QueueInvariant, JobInv
<1> QED
  BY <1>1, <1>2

LEMMA InitHolds == Init => QueueInvariant
<1> SUFFICES ASSUME Init PROVE QueueInvariant
  OBVIOUS
<1>1. ASSUME NEW j \in Jobs
      PROVE  Lifecycle(j) /\ HandleSpan(j) /\ CancelAccepted(j) /\ OutcomeRecorded(j)
  BY DEF Init, Lifecycle, HandleSpan, CancelAccepted, OutcomeRecorded, SettledStages, ClosedStages
<1>2. ASSUME NEW j \in Jobs PROVE ChannelContent(j)
  BY DEF Init, ChannelContent, ClosedStages
<1>3. GuardExclusive /\ QueueHoldsQueued
  BY DEF Init, GuardExclusive, Active, QueueHoldsQueued
<1>4. ASSUME NEW a \in Attachers PROVE AttachConsistent(a)
  BY DEF Init, AttachConsistent, IdleAttach
<1> QED
  BY InitType, <1>1, <1>2, <1>3, <1>4 DEF QueueInvariant

(* The invariant is inductive. *)
THEOREM InvariantHolds == Spec => []QueueInvariant
<1>1. ASSUME QueueInvariant, [Next]_vars PROVE QueueInvariant'
  <2>1. QueueHolds /\ \A j \in Jobs : JobInv(j)
    BY <1>1, NoneForgotten
  <2>2. QueueHolds' /\ \A j \in Jobs : JobInv(j)'
    BY <1>1, <2>1, QueueGoesOn, JobsGoOn
  <2> QED
    BY <2>2 DEF QueueHolds, QueueInvariant, JobInv
<1> QED
  BY <1>1, InitHolds, PTL DEF Spec

(* Every registry entry of a settled job is the job's snapshot; a running  *)
(* task belongs to a job between its start and its terminal write.         *)
LEMMA LifecycleFacts ==
    ASSUME QueueInvariant, NEW j \in Jobs
    PROVE  /\ IsTerminal(registry[j]) => stage[j] \in SettledStages /\ registry[j] = snapshot[j]
           /\ task[j] = "live" => stage[j] \in {"running", "aborting"}
           /\ registry[j] # NoJob /\ ~IsTerminal(registry[j]) => j \in handles
<1>1. Lifecycle(j) /\ HandleSpan(j) /\ stage[j] \in Stages
  BY DEF QueueInvariant, TypeOK
<1> QED
  BY <1>1, DistinctValues DEF Lifecycle, HandleSpan, Stages, SubmitStages, FailStages, WorkerStages, LeftStages,
     SettledStages, ClosedStages

(* Jobs of one store never run together, whatever the number of workers,   *)
(* jobs and stores: OneTaskPerStore holds in every reachable state.        *)
THEOREM StoresSerialized == Spec => []OneTaskPerStore
<1>1. QueueInvariant => OneTaskPerStore
  BY LifecycleFacts DEF QueueInvariant, OneTaskPerStore, GuardExclusive, Active
<1> QED
  BY <1>1, InvariantHolds, PTL

(* cancel() always finds the handle of a non-terminal job. *)
THEOREM CancelFindsHandle == Spec => []NonTerminalHasHandle
<1>1. QueueInvariant => NonTerminalHasHandle
  BY LifecycleFacts DEF NonTerminalHasHandle
<1> QED
  BY <1>1, InvariantHolds, PTL

(* A cancellation accepted while the job is pending keeps it from running. *)
THEOREM PendingCancelSticks == Spec => []CancelledPendingNeverRuns
<1>1. QueueInvariant => CancelledPendingNeverRuns
  BY LifecycleFacts DEF QueueInvariant, TypeOK, CancelAccepted, CancelledPendingNeverRuns
<1> QED
  BY <1>1, InvariantHolds, PTL

(* The recorded outcome is what the task really did. *)
THEOREM OutcomesReal == Spec => []OutcomeIsReal
<1>1. QueueInvariant => OutcomeIsReal
  BY LifecycleFacts DEF QueueInvariant, OutcomeRecorded, OutcomeIsReal
<1> QED
  BY <1>1, InvariantHolds, PTL

(* No live receiver is left without its Terminal event. *)
THEOREM TerminalNeverLost == Spec => []TerminalStillAhead
<1>1. ASSUME QueueInvariant PROVE TerminalStillAhead
  <2> SUFFICES ASSUME NEW a \in Attachers, attach[a].pc = "live", attach[a].job \notin handles
               PROVE  /\ attach[a].pos <= Len(events[attach[a].job])
                      /\ events[attach[a].job][Len(events[attach[a].job])].kind = "Terminal"
    BY DEF TerminalStillAhead
  <2>1. attach[a].job \in Jobs
    BY <1>1 DEF QueueInvariant, TypeOK, AttachRecs
  <2>2. AttachConsistent(a) /\ ChannelContent(attach[a].job)
    BY <1>1, <2>1 DEF QueueInvariant
  <2> QED
    BY <2>2 DEF AttachConsistent, ChannelContent, Terminal
<1> QED
  BY <1>1, InvariantHolds, PTL

(* Terminal is the last message of every channel. *)
THEOREM TerminalLast == Spec => []TerminalIsLast
<1>1. QueueInvariant => TerminalIsLast
  BY DEF QueueInvariant, ChannelContent, TerminalIsLast
<1> QED
  BY <1>1, InvariantHolds, PTL

(* The frame a stream ends with is the job's final state. *)
THEOREM FramesFinal == Spec => []FrameIsFinal
<1>1. ASSUME QueueInvariant PROVE FrameIsFinal
  <2> SUFFICES ASSUME NEW a \in Attachers, attach[a].pc = "finished"
               PROVE  /\ IsTerminal(attach[a].frame)
                      /\ attach[a].frame = snapshot[attach[a].job]
                      /\ registry[attach[a].job] \in {attach[a].frame, NoJob}
    BY DEF FrameIsFinal
  <2>1. attach[a].job \in Jobs
    BY <1>1 DEF QueueInvariant, TypeOK, AttachRecs
  <2>2. AttachConsistent(a) /\ Lifecycle(attach[a].job)
    BY <1>1, <2>1 DEF QueueInvariant
  <2> QED
    BY <2>2 DEF AttachConsistent, Lifecycle, SettledStages
<1> QED
  BY <1>1, InvariantHolds, PTL

(* No step changes a recorded outcome. *)
THEOREM OutcomesNeverChange == Spec => OutcomesAreFinal
<1>1. ASSUME QueueInvariant, [Next]_vars
      PROVE  \A j \in Jobs : IsTerminal(registry[j]) => registry'[j] \in {registry[j], NoJob}
  <2> SUFFICES ASSUME NEW k \in Jobs, IsTerminal(registry[k])
               PROVE  registry'[k] \in {registry[k], NoJob}
    OBVIOUS
  <2>1. stage[k] \in SettledStages
    BY <1>1, LifecycleFacts
  <2>2. ASSUME NEW j \in Jobs, Submit(j) \/ ProcessJob(j) \/ Cancel(j)
        PROVE  registry'[k] \in {registry[k], NoJob}
    <3>1. CASE j # k
      BY <1>1, <2>2, <3>1, JobStep DEF Untouched, QueueInvariant, JobInv
    <3>2. CASE j = k
      <4>1. k \in Jobs /\ (Submit(k) \/ ProcessJob(k) \/ Cancel(k))
        BY <2>2, <3>2
      <4>2. JobInv(k)' /\ Moves(k)
        BY <1>1, JobsGoOn, NoneForgotten
      <4>3. registry[k] = snapshot[k]
        BY <1>1, LifecycleFacts
      <4> QED
        BY <2>1, <4>2, <4>3 DEF JobInv, Lifecycle, Moves
    <3> QED
      BY <3>1, <3>2
  <2>3. CASE ListJobs \/ (\E a \in Attachers : Attach(a)) \/ Tick \/ ShutDown \/ UNCHANGED vars
    BY <1>1, <2>3, OtherStep DEF Untouched
  <2> QED
    BY <1>1, <2>2, <2>3 DEF Next
<1> QED
  BY <1>1, InvariantHolds, PTL DEF Spec, OutcomesAreFinal

-----------------------------------------------------------------------------
(* Retention *)

(* A settled job that is no longer in the registry has been terminal for    *)
(* longer than the grace.                                                  *)
AgedOut(j) ==
    registry[j] = NoJob /\ IsTerminal(snapshot[j]) => now > snapshot[j].completed_at + Grace

Retention == \A j \in Jobs : AgedOut(j)

(* Eviction waits for the grace, whatever the number of jobs. *)
LEMMA EvictionWaits ==
    ASSUME TypeOK, NEW reg \in [Jobs -> IndexJobs], NEW protect, NEW k \in Jobs,
           evict_oldest_terminal_jobs_over_cap(reg, protect)[k] # reg[k]
    PROVE  now > reg[k].completed_at + Grace
<1>1. k \in EvictionCandidates(reg, protect)
  BY DEF evict_oldest_terminal_jobs_over_cap, Evicted
<1>2. reg[k].completed_at < terminal_eviction_cutoff /\ reg[k] \in IndexJobs
  BY <1>1 DEF EvictionCandidates
<1>3. reg[k].completed_at \in Nat /\ now \in Nat /\ Grace \in Nat
  BY <1>2, BoundsAssumption DEF IndexJobs, TypeOK
<1> QED
  BY <1>2, <1>3 DEF terminal_eviction_cutoff

(* A terminal write is seen in the registry, and what else it removes from *)
(* it has aged.                                                            *)
LEMMA SettleWaits ==
    ASSUME TypeOK, NEW j \in Jobs, NEW outcome \in IndexJobs, IsTerminal(outcome),
           registry[j] # NoJob, SettleJob(j, outcome)
    PROVE  /\ registry'[j] # NoJob
           /\ \A k \in Jobs \ {j} :
                registry'[k] # registry[k] => now > registry[k].completed_at + Grace
<1> DEFINE written == UpdateEntry(j, outcome)
<1>1. written \in [Jobs -> IndexJobs] /\ \A k \in Jobs \ {j} : written[k] = registry[k]
  BY DEF UpdateEntry, TypeOK
<1>2. registry' = evict_oldest_terminal_jobs_over_cap(written, j)
  BY DEF SettleJob
<1>3. registry'[j] # NoJob
  BY SettleEffect, DistinctValues
<1> HIDE DEF written
<1> QED
  BY <1>1, <1>2, <1>3, EvictionWaits

(* The terminal writes among a job's own steps. *)
LEMMA OwnStepSettles ==
    ASSUME TypeOK, NEW j \in Jobs, JobInv(j), Submit(j) \/ ProcessJob(j) \/ Cancel(j)
    PROVE  \/ registry[j] # NoJob /\ \E outcome \in IndexJobs :
                IsTerminal(outcome) /\ SettleJob(j, outcome)
           \/ /\ snapshot' = snapshot
              /\ \A k \in Jobs \ {j} : registry'[k] = registry[k]
              /\ registry'[j] = NoJob => registry[j] = NoJob
<1>typ. now \in Nat /\ registry \in [Jobs -> IndexJobs] /\ Lifecycle(j)
  BY DEF TypeOK, JobInv
<1>1. CASE SubmitFailSettle(j)
  <2>1. fail_index_job \in IndexJobs /\ IsTerminal(fail_index_job) /\ registry[j] # NoJob
    BY <1>1, <1>typ, JobValues, DistinctValues DEF SubmitFailSettle, Lifecycle
  <2> QED
    BY <1>1, <2>1 DEF SubmitFailSettle
<1>2. CASE WorkerSkipCancelled(j)
  <2> DEFINE outcome == fail_index_job_with_error("job_cancelled")
  <2>1. outcome \in IndexJobs /\ IsTerminal(outcome) /\ registry[j] # NoJob
    BY <1>2, <1>typ, JobValues, DistinctValues DEF WorkerSkipCancelled, Lifecycle, Codes
  <2> QED
    BY <1>2, <2>1 DEF WorkerSkipCancelled
<1>3. CASE WorkerRecordOutcome(j)
  <2>1. task[j] \in {"ok", "err", "panic", "aborted", "build_panic"} /\ registry[j] # NoJob
    BY <1>3, <1>typ, DistinctValues DEF WorkerRecordOutcome, TypeOK, Lifecycle, TaskStates, TaskResults
  <2>2. JobOutcome(j) \in IndexJobs /\ IsTerminal(JobOutcome(j))
    BY <1>typ, <2>1, OutcomeType, OutcomeFacts
  <2> QED
    BY <1>3, <2>1, <2>2 DEF WorkerRecordOutcome
<1>4. ASSUME NEW s \in Stores, SubmitReserve(j, s) PROVE UNCHANGED <<registry, snapshot>>
  BY <1>4 DEF SubmitReserve
<1>5. CASE SubmitRegister(j) \/ WorkerStartJob(j)
  BY <1>5, <1>typ, DistinctValues DEF SubmitRegister, WorkerStartJob, UpdateEntry
<1>6. CASE \/ SubmitInstallHandle(j) \/ SubmitEnqueue(j) \/ SubmitSendFails(j)
           \/ SubmitFailTearDown(j) \/ SubmitDropped(j) \/ WorkerRecv(j) \/ WorkerBuildTask(j)
           \/ TaskProgress(j) \/ TaskEnds(j) \/ WorkerAbort(j) \/ TaskAborted(j)
           \/ WorkerTearDown(j) \/ WorkerRelease(j) \/ Cancel(j)
  BY <1>6 DEF SubmitInstallHandle, SubmitEnqueue, SubmitSendFails, SubmitFailTearDown,
     SubmitDropped, WorkerRecv, WorkerBuildTask, TaskProgress, TaskEnds, WorkerAbort, TaskAborted,
     WorkerTearDown, WorkerRelease, Cancel
<1> QED
  BY <1>1, <1>2, <1>3, <1>4, <1>5, <1>6 DEF Submit, ProcessJob

LEMMA OwnStepKeepsTime ==
    ASSUME NEW j \in Jobs, Submit(j) \/ ProcessJob(j) \/ Cancel(j)
    PROVE  now' = now
BY DEF Submit, ProcessJob, Cancel, SubmitReserve, SubmitInstallHandle, SubmitRegister,
   SubmitEnqueue, SubmitSendFails, SubmitFailSettle, SubmitFailTearDown, SubmitDropped,
   WorkerRecv, WorkerStartJob, WorkerSkipCancelled, WorkerBuildTask, TaskProgress, TaskEnds,
   WorkerAbort, TaskAborted, WorkerRecordOutcome, WorkerTearDown, WorkerRelease

LEMMA OtherStepEvicts ==
    ASSUME TypeOK, NEW k \in Jobs,
           ListJobs \/ (\E a \in Attachers : Attach(a)) \/ Tick \/ ShutDown \/ UNCHANGED vars
    PROVE  /\ now' \in {now, now + 1}
           /\ registry'[k] # registry[k] => now > registry[k].completed_at + Grace
<1>1. CASE ListJobs
  BY <1>1, EvictionWaits DEF ListJobs, TypeOK
<1>2. ASSUME NEW a \in Attachers, Attach(a) PROVE UNCHANGED <<now, registry>>
  BY <1>2 DEF Attach, AttachRead, AttachSubscribe, AttachReread, AttachLagged, AttachReceive, AttachStep
<1> QED
  BY <1>1, <1>2 DEF Tick, ShutDown, vars

LEMMA AgedStep ==
    ASSUME QueueHolds, [Next]_vars, NEW k \in Jobs, AgedOut(k)
    PROVE  AgedOut(k)'
<1> SUFFICES ASSUME registry'[k] = NoJob, IsTerminal(snapshot'[k])
             PROVE  now' > snapshot'[k].completed_at + Grace
  BY DEF AgedOut
<1>typ. /\ TypeOK /\ QueueHoldsQueued
        /\ now \in Nat /\ snapshot[k].completed_at \in Nat /\ Grace \in Nat
  BY BoundsAssumption DEF QueueHolds, TypeOK, IndexJobs
<1>1. ASSUME Untouched(k), now' \in {now, now + 1},
             registry'[k] # registry[k] => now > registry[k].completed_at + Grace
      PROVE  now' > snapshot'[k].completed_at + Grace
  <2>1. snapshot'[k] = snapshot[k]
    BY <1>1 DEF Untouched
  <2>2. CASE registry[k] = NoJob
    BY <1>1, <1>typ, <2>1, <2>2 DEF AgedOut
  <2>3. CASE registry[k] # NoJob
    <3>1. IsTerminal(registry[k]) /\ JobInv(k)
      BY <1>1, <2>3 DEF Untouched, QueueHolds, Forgotten
    <3>2. registry[k] = snapshot[k]
      BY <1>typ, <3>1, DistinctValues DEF JobInv, Lifecycle, TypeOK, Stages, SubmitStages,
         FailStages, WorkerStages, LeftStages, SettledStages
    <3> QED
      BY <1>1, <1>typ, <2>1, <2>3, <3>2
  <2> QED
    BY <2>2, <2>3
<1>2. ASSUME NEW j \in Jobs, JobInv(j), Submit(j) \/ ProcessJob(j) \/ Cancel(j)
      PROVE  now' > snapshot'[k].completed_at + Grace
  <2>1. now' = now
    BY <1>2, OwnStepKeepsTime
  <2>2. CASE k # j
    <3>1. Untouched(k)
      BY <1>2, <1>typ, <2>2, JobStep
    <3>2. registry'[k] # registry[k] => now > registry[k].completed_at + Grace
      BY <1>2, <1>typ, <2>2, OwnStepSettles, SettleWaits
    <3> QED
      BY <1>1, <2>1, <3>1, <3>2
  <2>3. CASE k = j
    <3>1. registry[j] = NoJob /\ snapshot' = snapshot
      BY <1>2, <1>typ, <2>3, OwnStepSettles, SettleWaits
    <3> QED
      BY <2>1, <2>3, <3>1 DEF AgedOut
  <2> QED
    BY <2>2, <2>3
<1>3. CASE ListJobs \/ (\E a \in Attachers : Attach(a)) \/ Tick \/ ShutDown \/ UNCHANGED vars
  BY <1>1, <1>3, <1>typ, OtherStep, OtherStepEvicts
<1> QED
  BY <1>2, <1>3, StepIsOwnOrOther

(* Retention keeps every settled job for the grace. *)
THEOREM RetentionHolds == Spec => []Retention
<1>1. Init => Retention
  BY DistinctValues DEF Init, Retention, AgedOut
<1>2. ASSUME QueueInvariant, [Next]_vars, Retention PROVE Retention'
  BY <1>2, NoneForgotten, AgedStep DEF Retention
<1> QED
  BY <1>1, <1>2, InvariantHolds, PTL DEF Spec

(* An events request is answered 404 only for a job that was terminal for   *)
(* longer than the grace, wherever the job ends between its three looks.    *)
THEOREM NotFoundAfterGrace == Spec => NotFoundOnlyAfterGrace
<1>1. ASSUME QueueInvariant, Retention, [Next]_vars
      PROVE  \A a \in Attachers :
                attach[a].pc # "not_found" /\ attach'[a].pc = "not_found" =>
                    now > snapshot[attach'[a].job].completed_at + Grace
  <2> SUFFICES ASSUME NEW a \in Attachers, attach[a].pc # "not_found", attach'[a].pc = "not_found"
               PROVE  now > snapshot[attach'[a].job].completed_at + Grace
    OBVIOUS
  <2>typ. TypeOK /\ attach \in [Attachers -> AttachRecs]
    BY <1>1 DEF QueueInvariant, TypeOK
  <2>1. Attach(a)
    <3>1. \A j \in Jobs : Submit(j) \/ ProcessJob(j) \/ Cancel(j) => attach' = attach
      BY DEF Submit, ProcessJob, Cancel, SubmitReserve, SubmitInstallHandle, SubmitRegister,
         SubmitEnqueue, SubmitSendFails, SubmitFailSettle, SubmitFailTearDown, SubmitDropped,
         WorkerRecv, WorkerStartJob, WorkerSkipCancelled, WorkerBuildTask, TaskProgress, TaskEnds,
         WorkerAbort, TaskAborted, WorkerRecordOutcome, WorkerTearDown, WorkerRelease
    <3>2. \A b \in Attachers \ {a} : Attach(b) => attach'[a] = attach[a]
      BY <2>typ, OtherAttach
    <3> QED
      BY <1>1, <3>1, <3>2 DEF Next, ListJobs, Tick, ShutDown, vars
  <2>2. ASSUME NEW j \in Jobs, registry[j] = NoJob, snapshot[j] # NoJob
        PROVE  now > snapshot[j].completed_at + Grace
    <3>1. Lifecycle(j) /\ stage[j] \in Stages
      BY <1>1 DEF QueueInvariant, TypeOK
    <3>2. IsTerminal(snapshot[j])
      BY <2>2, <3>1 DEF Lifecycle, Stages, SubmitStages, FailStages, WorkerStages, LeftStages, SettledStages
    <3> QED
      BY <1>1, <2>2, <3>2 DEF Retention, AgedOut
  <2>3. ASSUME NEW j \in Jobs, AttachRead(a, j) PROVE now > snapshot[attach'[a].job].completed_at + Grace
    <3>1. attach'[a].job = j /\ registry[j] = NoJob /\ snapshot[j] # NoJob
      BY <2>3, <2>typ DEF AttachRead, AttachStep, IdleAttach, Published
    <3> QED
      BY <2>2, <3>1
  <2>4. CASE AttachReread(a)
    <3>1. /\ attach[a].pc = "rereading" /\ attach[a].job \in Jobs
          /\ attach'[a].job = attach[a].job /\ registry[attach[a].job] = NoJob
      BY <2>4, <2>typ DEF AttachReread, AttachStep, AttachRecs
    <3>2. stage[attach[a].job] \in ClosedStages /\ Lifecycle(attach[a].job)
      BY <1>1, <3>1 DEF QueueInvariant, AttachConsistent
    <3>3. snapshot[attach[a].job] # NoJob
      BY <3>2, DistinctValues DEF Lifecycle, ClosedStages, SettledStages
    <3> QED
      BY <2>2, <3>1, <3>3
  <2>5. CASE AttachSubscribe(a) \/ AttachLagged(a) \/ AttachReceive(a)
    BY <2>5, <2>typ DEF AttachSubscribe, AttachLagged, AttachReceive, AttachStep, AttachRecs
  <2> QED
    BY <2>1, <2>3, <2>4, <2>5 DEF Attach
<1> QED
  BY <1>1, InvariantHolds, RetentionHolds, PTL DEF Spec, NotFoundOnlyAfterGrace

-----------------------------------------------------------------------------
(* JobQueue implements JobService. *)

(* The outcomes a client can be told are none of the other statuses. *)
LEMMA StatusRange ==
    ASSUME NEW j \in Jobs
    PROVE  StatusOf(j) \in Service!Statuses
BY DEF StatusOf, Service!Statuses, Service!Outcomes

(* A terminal entry is an outcome of the service. *)
LEMMA TerminalStatus ==
    ASSUME QueueInvariant, NEW j \in Jobs, IsTerminal(registry[j])
    PROVE  /\ StatusOf(j) \in Service!Outcomes
           /\ StatusOf(j) = "done" => registry[j].state = "Done"
<1>1. stage[j] # "new" /\ registry[j] # NoJob
  BY LifecycleFacts, DistinctValues DEF SettledStages
<1> QED
  BY <1>1 DEF StatusOf, Service!Outcomes, IsTerminal, NoJob, Pending, Running

(* A settled job has an outcome, or had one that was forgotten. *)
LEMMA SettledStatus ==
    ASSUME QueueInvariant, NEW j \in Jobs, stage[j] \in SettledStages
    PROVE  StatusOf(j) \in Service!Outcomes \cup {"forgotten"}
<1>1. /\ registry[j] \in {snapshot[j], NoJob}
      /\ IsTerminal(snapshot[j]) /\ snapshot[j] # NoJob
  BY DistinctValues DEF QueueInvariant, Lifecycle
<1>2. CASE registry[j] = NoJob
  BY <1>1, <1>2 DEF StatusOf, SettledStages
<1>3. CASE registry[j] = snapshot[j]
  BY <1>1, <1>3, TerminalStatus
<1> QED
  BY <1>1, <1>2, <1>3

(* The holder of an active job's store is that job. *)
LEMMA HolderIs ==
    ASSUME QueueInvariant, NEW j \in Jobs, Active(j)
    PROVE  /\ storeOf[j] \in Stores
           /\ Owners(storeOf[j]) = {j}
           /\ HolderOf(storeOf[j]) = j
<1>1. GuardExclusive /\ inflight \subseteq Stores
  BY DEF QueueInvariant, TypeOK
<1>2. storeOf[j] \in Stores /\ Owners(storeOf[j]) = {j}
  BY <1>1 DEF GuardExclusive, Owners, Active
<1> QED
  BY <1>2 DEF HolderOf

(* Whoever is active before and after a step keeps its store. *)
LEMMA HoldersKept ==
    ASSUME UNCHANGED storeOf, \A k \in Jobs : Active(k)' <=> Active(k)
    PROVE  UNCHANGED [s \in Stores |-> HolderOf(s)]
<1>1. ASSUME NEW s \in Stores PROVE HolderOf(s)' = HolderOf(s)
  <2>1. Owners(s)' = Owners(s)
    BY DEF Owners, Active
  <2> QED
    BY <2>1 DEF HolderOf
<1> QED
  BY <1>1

(* What the service sees of a job that a step leaves alone. *)
LEMMA StatusKept ==
    ASSUME QueueInvariant, NEW k \in Jobs, Untouched(k)
    PROVE  \/ StatusOf(k)' = StatusOf(k)
           \/ StatusOf(k) \in Service!Outcomes /\ StatusOf(k)' = "forgotten"
<1>1. CASE registry'[k] = registry[k]
  BY <1>1 DEF Untouched, StatusOf
<1>2. CASE registry'[k] # registry[k]
  <2>1. registry'[k] = NoJob /\ IsTerminal(registry[k])
    BY <1>2 DEF Untouched
  <2>2. StatusOf(k) \in Service!Outcomes
    BY <2>1, TerminalStatus
  <2>3. stage[k] # "new" /\ snapshot[k] # NoJob
    BY <2>1, LifecycleFacts, DistinctValues DEF SettledStages
  <2>4. StatusOf(k)' = "forgotten"
    BY <2>1, <2>3 DEF StatusOf, Untouched
  <2> QED
    BY <2>2, <2>4
<1> QED
  BY <1>1, <1>2

-----------------------------------------------------------------------------
(* Steps *)

(* A step in which every job keeps its status, and every store its holder. *)
LEMMA Stutters ==
    ASSUME UNCHANGED <<open, storeOf>>, \A k \in Jobs : Active(k)' <=> Active(k),
           \A k \in Jobs : StatusOf(k)' = StatusOf(k)
    PROVE  UNCHANGED Service!svars
<1>1. UNCHANGED [j \in Jobs |-> StatusOf(j)]
  OBVIOUS
<1> QED
  BY <1>1, HoldersKept DEF Service!svars

(* A reservation accepts the job. *)
LEMMA ReserveAccepts ==
    ASSUME QueueInvariant, NEW j \in Jobs, NEW s \in Stores, SubmitReserve(j, s)
    PROVE  Service!Accept(j, s)
<1>1. /\ stage[j] = "new" /\ stage' = [stage EXCEPT ![j] = "reserved"]
      /\ storeOf' = [storeOf EXCEPT ![j] = s] /\ s \notin inflight
      /\ UNCHANGED <<open, registry, snapshot>>
      /\ stage \in [Jobs -> Stages] /\ storeOf \in [Jobs -> Stores \cup {NoStore}]
  BY DEF SubmitReserve, QueueInvariant, TypeOK
<1>2. Owners(s) = {}
  BY <1>1 DEF QueueInvariant, GuardExclusive, Active, Owners
<1>3. Owners(s)' = {j}
  BY <1>1, <1>2 DEF Owners, Active
<1>4. \A t \in Stores \ {s} : Owners(t)' = Owners(t)
  BY <1>1 DEF Owners, Active
<1>5. registry[j] = NoJob /\ snapshot[j] = NoJob
  BY <1>1 DEF QueueInvariant, Lifecycle
<1>6. /\ StatusOf(j) = "new" /\ StatusOf(j)' = "accepted"
      /\ \A k \in Jobs \ {j} : StatusOf(k)' = StatusOf(k)
  BY <1>1, <1>5 DEF StatusOf
<1>7. /\ HolderOf(s) = NoId /\ HolderOf(s)' = j
      /\ \A t \in Stores \ {s} : HolderOf(t)' = HolderOf(t)
  <2>1. HolderOf(s) = NoId
    BY <1>2 DEF HolderOf
  <2>2. HolderOf(s)' = j
    BY <1>3 DEF HolderOf
  <2>3. ASSUME NEW t \in Stores \ {s} PROVE HolderOf(t)' = HolderOf(t)
    <3>1. Owners(t)' = Owners(t)
      BY <1>4
    <3> QED
      BY <3>1 DEF HolderOf
  <2> QED
    BY <2>1, <2>2, <2>3
<1> QED
  BY <1>1, <1>6, <1>7 DEF Service!Accept

(* The worker's start starts the job, which holds its store. *)
LEMMA StartStarts ==
    ASSUME QueueInvariant, NEW j \in Jobs, WorkerStartJob(j)
    PROVE  Service!Start(j)
<1>1. /\ stage[j] = "dequeued" /\ stage' = [stage EXCEPT ![j] = "starting"]
      /\ registry[j] = Pending
      /\ UNCHANGED <<open, storeOf, snapshot>>
      /\ stage \in [Jobs -> Stages] /\ registry \in [Jobs -> IndexJobs]
  BY DEF WorkerStartJob, QueueInvariant, TypeOK, Lifecycle
<1>2. registry' = [registry EXCEPT ![j] = Running]
  BY <1>1, DistinctValues DEF WorkerStartJob, UpdateEntry
<1>3. /\ StatusOf(j) = "accepted" /\ StatusOf(j)' = "running"
      /\ \A k \in Jobs \ {j} : StatusOf(k)' = StatusOf(k)
  BY <1>1, <1>2, DistinctValues DEF StatusOf, Pending, Running
<1>4. UNCHANGED [s \in Stores |-> HolderOf(s)]
  BY <1>1, HoldersKept DEF Active
<1>5. storeOf[j] \in Stores /\ HolderOf(storeOf[j]) = j
  BY <1>1, HolderIs DEF Active
<1> QED
  BY <1>1, <1>3, <1>4, <1>5 DEF Service!Start, Service!HoldsItsStore

(* What a terminal write leaves in the registry, and who can be done. *)
LEMMA SettledEntry ==
    ASSUME QueueInvariant, NEW j \in Jobs,
           SubmitFailSettle(j) \/ WorkerSkipCancelled(j) \/ WorkerRecordOutcome(j)
    PROVE  /\ IsTerminal(registry'[j])
           /\ registry'[j].state = "Done" => stage[j] \in {"running", "aborting"}
<1>1. TypeOK /\ now \in Nat /\ Lifecycle(j)
  BY DEF QueueInvariant, TypeOK
<1>2. ASSUME NEW outcome \in IndexJobs, SettleJob(j, outcome), registry[j] # NoJob
      PROVE  registry'[j] = outcome
  BY <1>1, <1>2, SettleEffect
<1>3. CASE SubmitFailSettle(j)
  <2>1. registry'[j] = fail_index_job
    BY <1>1, <1>2, <1>3, JobValues, DistinctValues DEF SubmitFailSettle, Lifecycle
  <2> QED
    BY <2>1, DistinctValues DEF fail_index_job
<1>4. CASE WorkerSkipCancelled(j)
  <2>1. registry'[j] = fail_index_job_with_error("job_cancelled")
    BY <1>1, <1>2, <1>4, JobValues, DistinctValues DEF WorkerSkipCancelled, Lifecycle, Codes
  <2> QED
    BY <2>1, DistinctValues DEF fail_index_job_with_error
<1>5. CASE WorkerRecordOutcome(j)
  <2>1. task[j] \in {"ok", "err", "panic", "aborted", "build_panic"}
    BY <1>1, <1>5 DEF WorkerRecordOutcome, TypeOK, Lifecycle, TaskStates, TaskResults
  <2>2. registry[j] = Running
    BY <1>1, <1>5 DEF WorkerRecordOutcome, Lifecycle
  <2>3. registry'[j] = JobOutcome(j)
    BY <1>1, <1>2, <1>5, <2>2, OutcomeType, DistinctValues DEF WorkerRecordOutcome
  <2> QED
    BY <1>5, <2>1, <2>3, OutcomeFacts DEF WorkerRecordOutcome
<1> QED
  BY <1>3, <1>4, <1>5

(* A terminal write settles the job, and may evict others' outcomes. *)
LEMMA SettleSettles ==
    ASSUME QueueInvariant, NEW j \in Jobs,
           SubmitFailSettle(j) \/ WorkerSkipCancelled(j) \/ WorkerRecordOutcome(j)
    PROVE  Service!Settle(j)
<1>1. \A k \in Jobs \ {j} : Untouched(k)
  BY JobStep DEF Submit, ProcessJob, QueueInvariant, JobInv
<1>2. /\ stage[j] \in {"send_failed", "dequeued", "running", "aborting"}
      /\ stage'[j] \in {"fail_teardown", "teardown"}
      /\ \A k \in Jobs : Active(k)' <=> Active(k)
      /\ UNCHANGED <<open, storeOf>>
  BY DEF SubmitFailSettle, WorkerSkipCancelled, WorkerRecordOutcome, QueueInvariant, TypeOK, Active
<1>3. /\ registry[j] \in {Pending, Running}
      /\ registry[j] = Pending => stage[j] \in {"send_failed", "dequeued"}
  BY <1>2, DistinctValues DEF QueueInvariant, Lifecycle
<1>4. StatusOf(j) = IF registry[j] = Pending THEN "accepted" ELSE "running"
  BY <1>2, <1>3, DistinctValues DEF StatusOf, Pending, Running
<1>5. /\ StatusOf(j)' \in Service!Outcomes
      /\ StatusOf(j)' = "done" => registry'[j].state = "Done"
  <2>1. IsTerminal(registry'[j]) /\ registry'[j] # NoJob /\ stage'[j] # "new"
    BY <1>2, SettledEntry, DistinctValues
  <2> QED
    BY <2>1 DEF StatusOf, IsTerminal, Service!Outcomes
<1>6. StatusOf(j)' = "done" => StatusOf(j) = "running"
  BY <1>2, <1>3, <1>4, <1>5, SettledEntry
<1>7. UNCHANGED [s \in Stores |-> HolderOf(s)]
  BY <1>2, HoldersKept
<1>8. storeOf[j] \in Stores /\ HolderOf(storeOf[j]) = j
  BY <1>2, HolderIs DEF Active
<1>9. /\ \A k \in Jobs \ {j} :
           \/ StatusOf(k)' = StatusOf(k)
           \/ StatusOf(k) \in Service!Outcomes /\ StatusOf(k)' = "forgotten"
      /\ \A k \in Jobs : StatusOf(k)' \in Service!Statuses
  <2>1. ASSUME NEW k \in Jobs \ {j}
        PROVE  \/ StatusOf(k)' = StatusOf(k)
               \/ StatusOf(k) \in Service!Outcomes /\ StatusOf(k)' = "forgotten"
    BY <1>1, StatusKept
  <2> QED
    BY <2>1, <1>5, StatusRange DEF Service!Statuses
<1> QED
  BY <1>2, <1>4, <1>5, <1>6, <1>7, <1>8, <1>9
     DEF Service!Settle, Service!HoldsItsStore, Service!OthersKept

(* A job that gives its store back has ended, or is given up unstarted by a  *)
(* queue that is closed.                                                     *)
LEMMA ReleaseFrees ==
    ASSUME QueueInvariant, NEW j \in Jobs,
           \/ SubmitFailTearDown(j) \/ WorkerRelease(j)
           \/ SubmitDropped(j) /\ stage[j] \in FailStages /\ stage'[j] # "dropped"
    PROVE  Service!Free(storeOf[j]) \/ Service!GiveUp(storeOf[j])
<1>1. /\ stage[j] \in {"send_failed", "fail_teardown", "release"}
      /\ UNCHANGED <<open, storeOf, registry, snapshot>>
      /\ stage \in [Jobs -> Stages]
  BY DEF SubmitFailTearDown, WorkerRelease, SubmitDropped, FailStages, QueueInvariant, TypeOK
<1>9. PICK x \in {"over", "given_up", "abandoned"} : stage' = [stage EXCEPT ![j] = x]
  BY <1>1 DEF SubmitFailTearDown, WorkerRelease, SubmitDropped, FailStages
<1>2. \A k \in Jobs : StatusOf(k)' = StatusOf(k)
  BY <1>1, <1>9 DEF StatusOf
<1>3. \/ StatusOf(j) \in Service!Outcomes \cup {"forgotten"}
      \/ StatusOf(j) = "accepted" /\ ~open
  <2>1. CASE stage[j] = "send_failed"
    BY <2>1, DistinctValues DEF QueueInvariant, Lifecycle, StatusOf, Pending
  <2>2. CASE stage[j] # "send_failed"
    BY <1>1, <2>2, SettledStatus DEF SettledStages
  <2> QED
    BY <2>1, <2>2
<1>4. PICK s \in Stores : s = storeOf[j] /\ Owners(s) = {j} /\ HolderOf(s) = j
  BY <1>1, HolderIs DEF Active
<1>5. /\ Owners(s)' = {}
      /\ \A t \in Stores \ {s} : Owners(t)' = Owners(t)
  <2>1. \A k \in Jobs : Active(k)' <=> Active(k) /\ k # j
    BY <1>1, <1>9 DEF Active
  <2> QED
    BY <1>1, <1>4, <2>1 DEF Owners
<1>6. /\ HolderOf(s)' = NoId
      /\ \A t \in Stores \ {s} : HolderOf(t)' = HolderOf(t)
  <2>1. HolderOf(s)' = NoId
    BY <1>5 DEF HolderOf
  <2>2. ASSUME NEW t \in Stores \ {s} PROVE HolderOf(t)' = HolderOf(t)
    <3>1. Owners(t)' = Owners(t)
      BY <1>5
    <3> QED
      BY <3>1 DEF HolderOf
  <2> QED
    BY <2>1, <2>2
<1>7. j # NoId
  BY JobsAssumption DEF NoId
<1>8. /\ UNCHANGED [k \in Jobs |-> StatusOf(k)]
      /\ [t \in Stores |-> HolderOf(t)]' = [[t \in Stores |-> HolderOf(t)] EXCEPT ![s] = NoId]
      /\ [t \in Stores |-> HolderOf(t)][s] = j
      /\ [k \in Jobs |-> StatusOf(k)][j] = StatusOf(j)
      /\ UNCHANGED open
  BY <1>1, <1>2, <1>4, <1>6
<1> QED
  BY <1>3, <1>4, <1>7, <1>8 DEF Service!Free, Service!GiveUp

(* The remaining steps of a job are of no concern to the service. *)
LEMMA InternalSteps ==
    ASSUME QueueInvariant, NEW j \in Jobs,
           \/ SubmitInstallHandle(j) \/ SubmitRegister(j) \/ SubmitEnqueue(j)
           \/ SubmitSendFails(j) \/ (SubmitDropped(j) /\ stage'[j] = "dropped")
           \/ WorkerRecv(j) \/ WorkerBuildTask(j)
           \/ TaskProgress(j) \/ TaskEnds(j) \/ WorkerAbort(j) \/ TaskAborted(j)
           \/ WorkerTearDown(j) \/ Cancel(j)
    PROVE  UNCHANGED Service!svars
<1>typ. stage \in [Jobs -> Stages] /\ registry \in [Jobs -> IndexJobs] /\ Lifecycle(j)
  BY DEF QueueInvariant, TypeOK
<1>1. CASE SubmitRegister(j)
  <2>1. /\ \A k \in Jobs : Active(k)' <=> Active(k)
        /\ UNCHANGED <<open, storeOf>>
    BY <1>1, <1>typ DEF SubmitRegister, Active
  <2>2. \A k \in Jobs : StatusOf(k)' = StatusOf(k)
    BY <1>1, <1>typ, DistinctValues DEF SubmitRegister, StatusOf, Lifecycle, Pending
  <2> QED
    BY <2>1, <2>2, Stutters
<1>2. ASSUME UNCHANGED <<open, storeOf, registry, snapshot>>,
             (Active(j) /\ Active(j)') \/ UNCHANGED stage,
             \A k \in Jobs \ {j} : stage'[k] = stage[k]
      PROVE  UNCHANGED Service!svars
  <2>1. \A k \in Jobs : (Active(k)' <=> Active(k)) /\ StatusOf(k)' = StatusOf(k)
    BY <1>2 DEF Active, StatusOf
  <2> QED
    BY <1>2, <2>1, Stutters
<1>3. CASE \/ SubmitInstallHandle(j) \/ SubmitEnqueue(j) \/ SubmitSendFails(j)
           \/ (SubmitDropped(j) /\ stage'[j] = "dropped")
           \/ WorkerBuildTask(j) \/ WorkerAbort(j) \/ WorkerTearDown(j)
  BY <1>2, <1>3, <1>typ DEF SubmitInstallHandle, SubmitEnqueue, SubmitSendFails, SubmitDropped,
     WorkerBuildTask, WorkerAbort, WorkerTearDown, SubmitStages, Active
<1>4. CASE WorkerRecv(j)
  <2>1. stage[j] = "queued"
    BY <1>4 DEF WorkerRecv, QueueInvariant, QueueHoldsQueued, TypeOK
  <2> QED
    BY <1>2, <1>4, <2>1, <1>typ DEF WorkerRecv, Active
<1>5. CASE TaskProgress(j) \/ TaskEnds(j) \/ TaskAborted(j) \/ Cancel(j)
  BY <1>2, <1>5, <1>typ DEF TaskProgress, TaskEnds, TaskAborted, Cancel
<1> QED
  BY <1>1, <1>3, <1>4, <1>5

(* Steps about no job in particular: a listing forgets outcomes, the rest  *)
(* changes nothing the service shows.                                      *)
LEMMA OtherStepsForget ==
    ASSUME QueueInvariant,
           \A k \in Jobs : Untouched(k), UNCHANGED <<open, stage, storeOf>>
    PROVE  Service!Forget
<1>1. UNCHANGED [s \in Stores |-> HolderOf(s)]
  BY HoldersKept DEF Active
<1>2. ASSUME NEW k \in Jobs
      PROVE  \/ StatusOf(k)' = StatusOf(k)
             \/ StatusOf(k) \in Service!Outcomes /\ StatusOf(k)' = "forgotten"
  BY StatusKept
<1>3. \A k \in Jobs : StatusOf(k)' \in Service!Statuses
  BY <1>2, StatusRange DEF Service!Statuses
<1> QED
  BY <1>1, <1>2, <1>3 DEF Service!Forget, Service!OthersKept

(* The queue implements the service: whatever happens to it, its callers   *)
(* see jobs that are accepted while their store is free, run while they    *)
(* hold it, end once, and are forgotten only afterwards.                   *)
THEOREM QueueImplementsService == Spec => ImplementsJobService
<1>1. Init => Service!Init
  <2> SUFFICES ASSUME Init PROVE Service!Init
    OBVIOUS
  <2>1. \A s \in Stores : Owners(s) = {}
    BY DEF Init, Owners, Active
  <2> QED
    BY <2>1 DEF Init, Service!Init, StatusOf, HolderOf
<1>2. ASSUME QueueInvariant, [Next]_vars PROVE [Service!Next]_Service!svars
  <2>1. ASSUME NEW j \in Jobs, Submit(j) \/ ProcessJob(j) \/ Cancel(j)
        PROVE  [Service!Next]_Service!svars
    <3>1. ASSUME NEW s \in Stores, SubmitReserve(j, s) PROVE Service!Next
      BY <1>2, <3>1, ReserveAccepts DEF Service!Next
    <3>2. CASE WorkerStartJob(j)
      BY <1>2, <3>2, StartStarts DEF Service!Next
    <3>3. CASE SubmitFailSettle(j) \/ WorkerSkipCancelled(j) \/ WorkerRecordOutcome(j)
      BY <1>2, <3>3, SettleSettles DEF Service!Next
    <3>4. CASE \/ SubmitFailTearDown(j) \/ WorkerRelease(j)
               \/ SubmitDropped(j) /\ stage[j] \in FailStages /\ stage'[j] # "dropped"
      <4>1. storeOf[j] \in Stores
        BY <1>2, <3>4, HolderIs DEF Active, SubmitFailTearDown, WorkerRelease, FailStages
      <4> QED
        BY <1>2, <3>4, <4>1, ReleaseFrees DEF Service!Next
    <3>5. SubmitDropped(j) => stage'[j] = "dropped" \/ stage[j] \in FailStages
      BY <1>2 DEF SubmitDropped, QueueInvariant, TypeOK
    <3> QED
      BY <1>2, <2>1, <3>1, <3>2, <3>3, <3>4, <3>5, InternalSteps DEF Submit, ProcessJob
  <2>2. ASSUME ListJobs \/ (\E a \in Attachers : Attach(a)) \/ Tick \/ ShutDown \/ UNCHANGED vars
        PROVE  Service!Next
    <3>1. CASE ShutDown
      <4>1. /\ UNCHANGED <<stage, storeOf, registry, snapshot>> /\ (~open)' = TRUE
            /\ \A k \in Jobs : (Active(k)' <=> Active(k)) /\ StatusOf(k)' = StatusOf(k)
        BY <3>1 DEF ShutDown, Active, StatusOf
      <4>2. Service!Close
        BY <4>1, HoldersKept DEF Service!Close
      <4> QED
        BY <4>2 DEF Service!Next
    <3>2. CASE UNCHANGED open
      BY <1>2, <2>2, <3>2, OtherStep, OtherStepsForget DEF Service!Next
    <3> QED
      BY <2>2, <3>1, <3>2 DEF ListJobs, Attach, AttachRead, AttachSubscribe, AttachReread, AttachLagged,
         AttachReceive, AttachStep, Tick, vars
  <2> QED
    BY <1>2, <2>1, <2>2 DEF Next
<1> QED
  BY <1>1, <1>2, InvariantHolds, PTL DEF Spec, ImplementsJobService, Service!Spec

-----------------------------------------------------------------------------
(* The queue's clients *)

CommandStages == {"unused", "submit", "submitting", "attach", "follow", "poll", "ended"}
WithJob == {"submitting", "attach", "follow", "poll"}
Reports == [said : Sayings, job : Jobs \cup {NoId}]
ClientRecs ==
    [pc : CommandStages, strict : BOOLEAN, todo : SUBSET Stores, store : Stores \cup {NoStore},
     job : Jobs \cup {NoId}, report : [Stores -> Reports]]

CommandTypes ==
    /\ client \in [Attachers -> ClientRecs]
    /\ transport \in Transports /\ restarted \in BOOLEAN
    /\ restarted => transport = "daemon"

(* Submit has answered for it, or a restart has made it a job of the past. *)
Accepted == {"queued", "over"} \cup WorkerStages

(* The job a command follows is the one it submitted for the store it is at. *)
Follows(c) ==
    /\ client[c].pc \in WithJob =>
         /\ client[c].job \in Jobs /\ client[c].store \in Stores
         /\ storeOf[client[c].job] = client[c].store
         /\ stage[client[c].job] \notin {"new"} \cup LeftStages
    /\ client[c].pc \in WithJob \ {"submitting"} => stage[client[c].job] \in Accepted
    /\ client[c].pc # "follow" => attach[c].pc = "idle"
    /\ attach[c].pc # "idle" => attach[c].job = client[c].job

FollowsOwn ==
    \A c, d \in Attachers :
        client[c].pc \in WithJob /\ client[d].pc \in WithJob /\ client[c].job = client[d].job => c = d

(* What has been said of s, with job j, still is so. *)
StillSo(said, j, s) ==
    /\ said \in {"ok", "failed"} =>
         j \in Jobs /\ storeOf[j] = s /\ stage[j] \in SettledStages /\ (said = "ok" <=> task[j] = "ok")
    /\ said = "gone" /\ ~restarted =>
         /\ j \in Jobs /\ stage[j] \in SettledStages
         /\ IsTerminal(snapshot[j]) /\ now > snapshot[j].completed_at + Grace

Truthful(c) == \A s \in Stores : StillSo(client[c].report[s].said, client[c].report[s].job, s)

(* The inductive invariant: the queue's, in which jobs are forgotten after a *)
(* restart only, and what each command knows and has said.                  *)
CommandInvariant ==
    /\ QueueHolds /\ Retention /\ CommandTypes
    /\ ~restarted => \A j \in Jobs : JobInv(j)
    /\ \A c \in Attachers : Follows(c) /\ Truthful(c)
    /\ FollowsOwn

(* What no step takes back, not even a restart. *)
GoesOn(k) ==
    /\ stage[k] # "new" => stage'[k] # "new" /\ storeOf'[k] = storeOf[k]
    /\ stage[k] \in Accepted => stage'[k] \in Accepted
    /\ stage[k] \in SettledStages => stage'[k] \in SettledStages /\ task'[k] = task[k]

LEMMA OwnGoesOn ==
    ASSUME TypeOK, QueueHoldsQueued, NEW j \in Jobs, JobInv(j),
           Submit(j) \/ ProcessJob(j) \/ Cancel(j)
    PROVE  GoesOn(j) /\ \A k \in Jobs \ {j} : storeOf'[k] = storeOf[k]
<1>typ. /\ stage \in [Jobs -> Stages] /\ task \in [Jobs -> TaskStates]
        /\ storeOf \in [Jobs -> Stores \cup {NoStore}]
        /\ stage[j] \in SettledStages => task[j] # "live"
  BY DEF TypeOK, JobInv, Lifecycle
<1> USE DEF Accepted, WorkerStages, SettledStages, SubmitStages, FailStages, GoesOn
<1>1. ASSUME NEW s \in Stores, SubmitReserve(j, s)
      PROVE  GoesOn(j) /\ \A k \in Jobs \ {j} : storeOf'[k] = storeOf[k]
  BY <1>1, <1>typ DEF SubmitReserve
<1>2. WorkerRecv(j) => stage[j] = "queued"
  BY DEF WorkerRecv, QueueHoldsQueued, TypeOK
<1>3. CASE \/ SubmitInstallHandle(j) \/ SubmitRegister(j) \/ SubmitEnqueue(j) \/ SubmitSendFails(j)
           \/ SubmitFailSettle(j) \/ SubmitFailTearDown(j) \/ SubmitDropped(j)
  BY <1>3, <1>typ DEF SubmitInstallHandle, SubmitRegister, SubmitEnqueue, SubmitSendFails,
     SubmitFailSettle, SubmitFailTearDown, SubmitDropped
<1>4. CASE \/ WorkerRecv(j) \/ WorkerStartJob(j) \/ WorkerSkipCancelled(j) \/ WorkerBuildTask(j)
           \/ WorkerAbort(j) \/ WorkerRecordOutcome(j) \/ WorkerTearDown(j) \/ WorkerRelease(j)
  BY <1>2, <1>4, <1>typ DEF WorkerRecv, WorkerStartJob, WorkerSkipCancelled, WorkerBuildTask,
     WorkerAbort, WorkerRecordOutcome, WorkerTearDown, WorkerRelease
<1>5. CASE TaskProgress(j) \/ TaskEnds(j) \/ TaskAborted(j) \/ Cancel(j)
  BY <1>5, <1>typ DEF TaskProgress, TaskEnds, TaskAborted, Cancel
<1> QED
  BY <1>1, <1>3, <1>4, <1>5 DEF Submit, ProcessJob

LEMMA StepGoesOn ==
    ASSUME QueueHolds, [Next]_vars, NEW k \in Jobs
    PROVE  GoesOn(k)
<1>typ. TypeOK /\ QueueHoldsQueued
  BY DEF QueueHolds
<1>1. ASSUME Untouched(k), storeOf'[k] = storeOf[k] PROVE GoesOn(k)
  BY <1>1 DEF Untouched, GoesOn
<1>2. ASSUME NEW j \in Jobs, JobInv(j), Submit(j) \/ ProcessJob(j) \/ Cancel(j) PROVE GoesOn(k)
  <2>1. CASE k = j
    BY <1>2, <1>typ, <2>1, OwnGoesOn
  <2>2. CASE k # j
    BY <1>1, <1>2, <1>typ, <2>2, OwnGoesOn, JobStep
  <2> QED
    BY <2>1, <2>2
<1>3. CASE ListJobs \/ (\E a \in Attachers : Attach(a)) \/ Tick \/ ShutDown \/ UNCHANGED vars
  BY <1>1, <1>3, OtherStep
<1> QED
  BY <1>2, <1>3, StepIsOwnOrOther

(* A command's attach steps beyond those of job_events: it closes its        *)
(* request, an embedded one subscribes without a look at the registry, and  *)
(* a restarted daemon does not know the job.                                *)
Direct(rec) ==
    \/ rec = IdleAttach
    \/ \E j \in Jobs : rec = [IdleAttach EXCEPT !.job = j, !.pc = "not_found"]
    \/ \E j \in Jobs : /\ rec = [IdleAttach EXCEPT !.job = j, !.pc = "subscribing"]
                       /\ JobInv(j) /\ (j \in handles \/ stage[j] \in ClosedStages)

(* The steps of a queue's commands are the queue's, these, or a restart. *)
LEMMA DirectAttach ==
    ASSUME QueueHolds, NEW c \in Attachers, NEW rec, AttachStep(c, rec), Direct(rec)
    PROVE  QueueHolds' /\ \A k \in Jobs : JobInv(k) => JobInv(k)'
<1>1. /\ UNCHANGED <<now, open, stage, storeOf, inflight, handles, cancelled, events, registry, queue,
                     task, snapshot, acked>>
      /\ attach' = [attach EXCEPT ![c] = rec]
  BY DEF AttachStep
<1>2. /\ rec.pc \in {"idle", "not_found", "subscribing"}
      /\ rec \in AttachRecs
      /\ rec.pc = "subscribing" =>
            /\ rec.job \in Jobs /\ JobInv(rec.job)
            /\ rec.job \in handles \/ stage[rec.job] \in ClosedStages
  <2>1. NoJob \in IndexJobs
    BY JobValues DEF QueueHolds, TypeOK
  <2>2. CASE rec = IdleAttach
    BY <2>1, <2>2 DEF IdleAttach, AttachRecs, AttachStages, NoId
  <2>3. ASSUME NEW j \in Jobs, NEW x \in {"not_found", "subscribing"},
               rec = [IdleAttach EXCEPT !.job = j, !.pc = x]
        PROVE  rec \in AttachRecs /\ rec.pc = x /\ rec.job = j
    <3>1. rec = [pc |-> x, job |-> j, pos |-> 0, frame |-> NoJob]
      BY <2>3 DEF IdleAttach
    <3> QED
      BY <2>1, <3>1 DEF AttachRecs, AttachStages
  <2>4. ASSUME NEW j \in Jobs, rec = [IdleAttach EXCEPT !.job = j, !.pc = "not_found"]
        PROVE  rec \in AttachRecs /\ rec.pc = "not_found"
    BY <2>3, <2>4
  <2>5. ASSUME NEW j \in Jobs, rec = [IdleAttach EXCEPT !.job = j, !.pc = "subscribing"]
        PROVE  rec \in AttachRecs /\ rec.pc = "subscribing" /\ rec.job = j
    BY <2>3, <2>5
  <2>6. IdleAttach.pc = "idle"
    BY DEF IdleAttach
  <2> QED
    BY <2>2, <2>4, <2>5, <2>6 DEF Direct
<1>3. TypeOK'
  BY <1>1, <1>2 DEF QueueHolds, TypeOK
<1>4. \A k \in Jobs : (JobInv(k)' <=> JobInv(k)) /\ (Forgotten(k)' <=> Forgotten(k))
  BY <1>1 DEF JobInv, Lifecycle, HandleSpan, CancelAccepted, OutcomeRecorded, ChannelContent, Forgotten
<1>5. GuardExclusive' /\ QueueHoldsQueued'
  BY <1>1 DEF QueueHolds, GuardExclusive, Active, QueueHoldsQueued
<1>6. ASSUME NEW a \in Attachers PROVE AttachConsistent(a)' /\ AttachKnown(a)'
  <2>1. CASE a = c
    <3>1. attach'[a] = rec
      BY <1>1, <2>1 DEF QueueHolds, TypeOK
    <3> QED
      BY <1>1, <1>2, <1>4, <3>1 DEF AttachConsistent, AttachKnown
  <2>2. CASE a # c
    <3>1. attach'[a] = attach[a]
      BY <1>1, <2>2 DEF QueueHolds, TypeOK
    <3> QED
      BY <1>1, <1>4, <3>1 DEF QueueHolds, AttachConsistent, AttachKnown
  <2> QED
    BY <2>1, <2>2
<1> QED
  BY <1>3, <1>4, <1>5, <1>6 DEF QueueHolds

(* A restart forgets all jobs and leaves the queue new. *)
LEMMA RestartForgets ==
    ASSUME QueueHolds, DaemonRestarts
    PROVE  /\ QueueHolds' /\ Retention'
           /\ \A k \in Jobs : GoesOn(k)
<1>1. /\ stage' = [j \in Jobs |-> IF stage[j] = "new" THEN "new" ELSE "over"]
      /\ task' = [j \in Jobs |-> IF task[j] = "live" THEN "aborted" ELSE task[j]]
      /\ registry' = [j \in Jobs |-> NoJob]
      /\ attach' = [c \in Attachers |-> IdleAttach]
      /\ snapshot' = [j \in Jobs |-> NoJob] /\ events' = [j \in Jobs |-> <<>>]
      /\ inflight' = {} /\ handles' = {} /\ queue' = <<>> /\ cancelled' = {} /\ acked' = {}
      /\ UNCHANGED <<now, open, storeOf>>
  BY DEF DaemonRestarts
<1>2. TypeOK'
  <2>1. TypeOK /\ NoJob \in IndexJobs
    BY JobValues DEF QueueHolds, TypeOK
  <2>2. stage' \in [Jobs -> Stages] /\ task' \in [Jobs -> TaskStates]
    BY <1>1, <2>1 DEF TypeOK, Stages, TaskStates
  <2>3. attach' \in [Attachers -> AttachRecs]
    BY <1>1, <2>1 DEF IdleAttach, AttachRecs, AttachStages, NoId
  <2> QED
    BY <1>1, <2>1, <2>2, <2>3 DEF TypeOK
<1>3. ASSUME NEW k \in Jobs PROVE (JobInv(k) \/ Forgotten(k))' /\ GoesOn(k)
  <2>1. /\ stage[k] = "new" => task[k] = "none"
        /\ stage[k] \in SettledStages => task[k] # "live"
    BY DEF QueueHolds, JobInv, Lifecycle, Forgotten
  <2>2. CASE stage[k] = "new"
    <3>1. /\ stage'[k] = "new" /\ task'[k] = "none" /\ registry'[k] = NoJob /\ snapshot'[k] = NoJob
          /\ events'[k] = <<>> /\ handles' = {} /\ acked' = {}
      BY <1>1, <2>1, <2>2
    <3>2. Lifecycle(k)' /\ HandleSpan(k)'
      BY <3>1 DEF Lifecycle, HandleSpan, SettledStages, ClosedStages
    <3>3. CancelAccepted(k)' /\ OutcomeRecorded(k)'
      BY <3>1 DEF CancelAccepted, OutcomeRecorded, SettledStages
    <3>4. ChannelContent(k)'
      BY <3>1 DEF ChannelContent, ClosedStages
    <3> QED
      BY <2>2, <3>2, <3>3, <3>4 DEF JobInv, GoesOn, Accepted, SettledStages, WorkerStages, LeftStages
  <2>3. CASE stage[k] # "new"
    <3>1. /\ stage'[k] = "over" /\ task'[k] # "live" /\ registry'[k] = NoJob /\ snapshot'[k] = NoJob
          /\ storeOf'[k] = storeOf[k] /\ handles' = {} /\ acked' = {}
          /\ stage[k] \in SettledStages => task'[k] = task[k]
      BY <1>1, <2>1, <2>3
    <3> QED
      BY <3>1 DEF Forgotten, GoesOn, Accepted, SettledStages
  <2> QED
    BY <2>2, <2>3
<1>4. GuardExclusive' /\ QueueHoldsQueued'
  BY <1>1 DEF GuardExclusive, Active, QueueHoldsQueued
<1>5. \A a \in Attachers : AttachConsistent(a)' /\ AttachKnown(a)'
  BY <1>1 DEF AttachConsistent, AttachKnown, IdleAttach
<1>6. Retention'
  BY <1>1, DistinctValues DEF Retention, AgedOut
<1> QED
  BY <1>2, <1>3, <1>4, <1>5, <1>6 DEF QueueHolds

LEMMA CommandSteps ==
    ASSUME CommandInvariant, [CommandNext]_cmdVars
    PROVE  \/ DaemonRestarts
           \/ [Next]_vars /\ UNCHANGED <<transport, restarted>>
           \/ \E c \in Attachers, rec \in AttachRecs :
                AttachStep(c, rec) /\ Direct(rec) /\ UNCHANGED <<transport, restarted>>
<1> DEFINE Goal == \/ DaemonRestarts
                   \/ [Next]_vars /\ UNCHANGED <<transport, restarted>>
                   \/ \E c \in Attachers, rec \in AttachRecs :
                        AttachStep(c, rec) /\ Direct(rec) /\ UNCHANGED <<transport, restarted>>
<1>typ. \A j \in Jobs : IdleAttach \in AttachRecs
           /\ [IdleAttach EXCEPT !.job = j, !.pc = "not_found"] \in AttachRecs
           /\ [IdleAttach EXCEPT !.job = j, !.pc = "subscribing"] \in AttachRecs
  BY JobValues DEF CommandInvariant, QueueHolds, TypeOK, IdleAttach, AttachRecs, AttachStages, NoId
<1>idle. IdleAttach \in AttachRecs
  BY JobValues DEF CommandInvariant, QueueHolds, TypeOK, IdleAttach, AttachRecs, AttachStages, NoId
<1>1. CASE QueueStep /\ UNCHANGED <<transport, client, restarted>>
  BY <1>1 DEF QueueStep, Next, Submit
<1>2. ASSUME NEW c \in Attachers, UNCHANGED <<vars, transport, restarted>> PROVE Goal
  BY <1>2
<1>3. ASSUME NEW c \in Attachers, NEW s \in Stores, NEW j \in Jobs, SubmitJob(c, j, s) PROVE Goal
  BY <1>3 DEF SubmitJob, Next, Submit
<1>4. ASSUME NEW c \in Attachers, SubmitTimesOut(c) PROVE Goal
  <2>1. client[c].job \in Jobs
    BY <1>4 DEF SubmitTimesOut, CommandInvariant, Follows, WithJob
  <2> QED
    BY <1>4, <2>1 DEF SubmitTimesOut, Next, Submit
<1>5. ASSUME NEW c \in Attachers, AttachStarts(c) PROVE Goal
  <2> DEFINE j == client[c].job
  <2>1. j \in Jobs /\ stage[j] \in Accepted /\ UNCHANGED <<transport, restarted>>
    BY <1>5 DEF AttachStarts, CommandInvariant, Follows, WithJob
  <2>2. CASE AttachRead(c, j)
    BY <2>1, <2>2 DEF Next, Attach
  <2>3. CASE AttachStep(c, [IdleAttach EXCEPT !.job = j, !.pc = "not_found"])
    BY <2>1, <2>3, <1>typ DEF Direct
  <2>4. CASE /\ transport # "daemon"
             /\ AttachStep(c, [IdleAttach EXCEPT !.job = j, !.pc = "subscribing"])
    <3>1. JobInv(j)
      BY <2>1, <2>4 DEF CommandInvariant, CommandTypes
    <3>2. j \in handles \/ stage[j] \in ClosedStages
      BY <2>1, <3>1 DEF JobInv, HandleSpan, Accepted, WorkerStages, LeftStages, ClosedStages
    <3> QED
      BY <2>1, <2>4, <3>1, <3>2, <1>typ DEF Direct
  <2> QED
    BY <1>5, <2>2, <2>3, <2>4 DEF AttachStarts
<1>6. ASSUME NEW c \in Attachers, Following(c) PROVE Goal
  BY <1>6 DEF Following, Next, Attach
<1>7. ASSUME NEW c \in Attachers, FollowEnds(c) \/ FallsBackToPolling(c) \/ StreamBreaks(c) PROVE Goal
  BY <1>7, <1>idle DEF FollowEnds, FallsBackToPolling, StreamBreaks, Direct
<1>8. ASSUME NEW c \in Attachers, CommandStep(c) \/ Fault(c) PROVE Goal
  BY <1>2, <1>3, <1>4, <1>5, <1>6, <1>7, <1>8
     DEF CommandStep, Fault, SubmitRefused, NothingToIndex, SubmitAnswered, AnswerLost, Poll, PollFails
<1>9. CASE UNCHANGED cmdVars
  BY <1>9 DEF cmdVars
<1> QED
  BY <1>1, <1>2, <1>8, <1>9 DEF CommandNext, CommandStarts

(* The queue's part of a step, and what it keeps of jobs. *)
CarriesOn ==
    /\ \A k \in Jobs : GoesOn(k)
    /\ ~restarted' => ~restarted /\ \A k \in Jobs : stage[k] \in SettledStages => snapshot'[k] = snapshot[k]
    /\ now \in Nat /\ now' \in {now, now + 1}

LEMMA TimeGoesOn ==
    ASSUME [Next]_vars
    PROVE  now' \in {now, now + 1}
<1>1. ASSUME NEW a \in Attachers, Attach(a) PROVE now' = now
  BY <1>1 DEF Attach, AttachRead, AttachSubscribe, AttachReread, AttachLagged, AttachReceive, AttachStep
<1> QED
  BY <1>1, OwnStepKeepsTime DEF Next, ListJobs, Tick, ShutDown, vars

LEMMA QueueCarriesOn ==
    ASSUME CommandInvariant, [CommandNext]_cmdVars
    PROVE  /\ QueueHolds' /\ Retention'
           /\ ~restarted' => \A j \in Jobs : JobInv(j)'
           /\ CarriesOn
           /\ transport' = transport /\ restarted' \in BOOLEAN /\ (restarted' => transport' = "daemon")
<1>typ. QueueHolds /\ Retention /\ TypeOK /\ now \in Nat /\ CommandTypes
  BY DEF CommandInvariant, QueueHolds, TypeOK
<1>1. CASE DaemonRestarts
  BY <1>1, <1>typ, RestartForgets DEF DaemonRestarts, CarriesOn
<1>2. CASE [Next]_vars /\ UNCHANGED <<transport, restarted>>
  <2>1. QueueHolds' /\ \A k \in Jobs : (JobInv(k) => JobInv(k)') /\ Moves(k) /\ GoesOn(k)
    BY <1>2, <1>typ, QueueGoesOn, JobsGoOn, StepGoesOn
  <2>2. Retention'
    BY <1>2, <1>typ, AgedStep DEF Retention
  <2>3. now' \in {now, now + 1}
    BY <1>2, TimeGoesOn
  <2> QED
    BY <1>2, <1>typ, <2>1, <2>2, <2>3 DEF CommandInvariant, CommandTypes, CarriesOn, Moves
<1>3. ASSUME NEW c \in Attachers, NEW rec \in AttachRecs, AttachStep(c, rec), Direct(rec),
             UNCHANGED <<transport, restarted>>
      PROVE  /\ QueueHolds' /\ Retention'
             /\ ~restarted' => \A j \in Jobs : JobInv(j)'
             /\ CarriesOn
  <2>1. QueueHolds' /\ \A k \in Jobs : JobInv(k) => JobInv(k)'
    BY <1>3, <1>typ, DirectAttach
  <2>2. UNCHANGED <<now, stage, storeOf, registry, task, snapshot>>
    BY <1>3 DEF AttachStep
  <2>3. Retention' /\ CarriesOn
    BY <1>3, <1>typ, <2>2 DEF Retention, AgedOut, CarriesOn, GoesOn
  <2> QED
    BY <1>3, <2>1, <2>3 DEF CommandInvariant
<1> QED
  BY <1>1, <1>2, <1>3, <1>typ, CommandSteps DEF CommandTypes

(* What has been said once stays true. *)
LEMMA StaysSo ==
    ASSUME CommandInvariant, CarriesOn, NEW said, NEW j, NEW s, StillSo(said, j, s)
    PROVE  StillSo(said, j, s)'
<1>1. /\ \A k \in Jobs : GoesOn(k)
      /\ ~restarted' => ~restarted /\ \A k \in Jobs : stage[k] \in SettledStages => snapshot'[k] = snapshot[k]
      /\ now \in Nat /\ now' \in {now, now + 1}
  BY DEF CarriesOn
<1>2. \A k \in Jobs : snapshot[k].completed_at + Grace \in Nat
  BY BoundsAssumption DEF CommandInvariant, QueueHolds, TypeOK, IndexJobs
<1>3. ASSUME said \in {"ok", "failed"}
      PROVE  j \in Jobs /\ storeOf'[j] = s /\ stage'[j] \in SettledStages /\ (said = "ok" <=> task'[j] = "ok")
  BY <1>1, <1>3 DEF StillSo, GoesOn, SettledStages
<1>4. ASSUME said = "gone", ~restarted'
      PROVE  /\ j \in Jobs /\ stage'[j] \in SettledStages
             /\ IsTerminal(snapshot'[j]) /\ now' > snapshot'[j].completed_at + Grace
  BY <1>1, <1>2, <1>4 DEF StillSo, GoesOn
<1> QED
  BY <1>3, <1>4 DEF StillSo

(* Only a request that times out drops a submit, its own. *)
LEMMA DropsOwn ==
    ASSUME CommandInvariant, [CommandNext]_cmdVars, NEW k \in Jobs,
           stage[k] \notin LeftStages, stage'[k] \in LeftStages
    PROVE  \E c \in Attachers : SubmitTimesOut(c) /\ client[c].job = k
<1>typ. /\ stage \in [Jobs -> Stages] /\ TypeOK
        /\ \A c \in Attachers : client[c].pc = "submitting" => client[c].job \in Jobs
  BY DEF CommandInvariant, QueueHolds, TypeOK, Follows, WithJob
<1>1. ASSUME UNCHANGED stage PROVE FALSE
  BY <1>1
<1>2. ASSUME NEW j \in Jobs, NEW x \in Stages \ LeftStages, stage' = [stage EXCEPT ![j] = x]
      PROVE  FALSE
  BY <1>2, <1>typ
<1>3. ASSUME NEW j \in Jobs, NEW s \in Stores, SubmitReserve(j, s) PROVE FALSE
  BY <1>2, <1>3 DEF SubmitReserve, Stages, SubmitStages, LeftStages
<1>4. ASSUME NEW j \in Jobs,
             \/ SubmitInstallHandle(j) \/ SubmitRegister(j) \/ SubmitEnqueue(j)
             \/ SubmitSendFails(j) \/ SubmitFailSettle(j) \/ SubmitFailTearDown(j)
      PROVE  FALSE
  BY <1>2, <1>4 DEF SubmitInstallHandle, SubmitRegister, SubmitEnqueue, SubmitSendFails,
     SubmitFailSettle, SubmitFailTearDown, Stages, SubmitStages, FailStages, LeftStages
<1>5. ASSUME NEW j \in Jobs, ProcessJob(j) PROVE FALSE
  BY <1>1, <1>2, <1>5 DEF ProcessJob, WorkerRecv, WorkerStartJob, WorkerSkipCancelled, WorkerBuildTask,
     TaskProgress, TaskEnds, WorkerAbort, TaskAborted, WorkerRecordOutcome, WorkerTearDown,
     WorkerRelease, Stages, WorkerStages, LeftStages
<1>6. CASE QueueStep
  BY <1>1, <1>3, <1>4, <1>5, <1>6 DEF QueueStep, Cancel, ListJobs, Tick, ShutDown
<1>7. CASE DaemonRestarts
  BY <1>7 DEF DaemonRestarts, LeftStages
<1>8. ASSUME NEW c \in Attachers, SubmitTimesOut(c) PROVE client[c].job = k
  BY <1>8, <1>typ DEF SubmitTimesOut, SubmitDropped
<1>9. ASSUME NEW c \in Attachers, CommandStep(c) \/ Fault(c), ~SubmitTimesOut(c) PROVE FALSE
  <2>1. ASSUME NEW s \in Stores, NEW j \in Jobs, SubmitJob(c, j, s) PROVE FALSE
    BY <1>3, <2>1 DEF SubmitJob
  <2>2. ASSUME AttachStarts(c) \/ Following(c) \/ FollowEnds(c) \/ FallsBackToPolling(c) \/ StreamBreaks(c)
        PROVE  UNCHANGED stage
    BY <2>2 DEF AttachStarts, Following, FollowEnds, FallsBackToPolling, StreamBreaks, AttachRead,
       AttachSubscribe, AttachReread, AttachLagged, AttachReceive, AttachStep
  <2> QED
    BY <1>1, <1>9, <2>1, <2>2 DEF CommandStep, Fault, SubmitRefused, NothingToIndex, SubmitAnswered, AnswerLost,
       Poll, PollFails, vars
<1> QED
  BY <1>1, <1>6, <1>7, <1>8, <1>9 DEF CommandNext, CommandStarts, cmdVars, vars

(* A command's step is about itself. *)
OwnEffect(c) ==
    /\ client' \in [Attachers -> ClientRecs]
    /\ \A d \in Attachers \ {c} : client'[d] = client[d] /\ attach'[d] = attach[d]
    /\ client'[c].pc \in WithJob =>
          \/ client[c].pc \in WithJob /\ client'[c].job = client[c].job
          \/ stage[client'[c].job] = "new"
    /\ Follows(c)' /\ Truthful(c)'

(* What a step keeps of a command it is not about. *)
LEMMA CommandKept ==
    ASSUME CommandInvariant, CarriesOn, NEW d \in Attachers, client'[d] = client[d],
           \/ attach'[d].pc = "idle"
           \/ client[d].pc = "follow" /\ attach'[d].job = client[d].job,
           client[d].pc \in WithJob => stage'[client[d].job] \notin LeftStages
    PROVE  Follows(d)' /\ Truthful(d)'
<1>1. Follows(d) /\ Truthful(d)
  BY DEF CommandInvariant
<1>2. Truthful(d)'
  <2> SUFFICES ASSUME NEW s \in Stores
               PROVE  StillSo(client[d].report[s].said, client[d].report[s].job, s)'
    BY DEF Truthful
  <2>1. PICK said, j : said = client[d].report[s].said /\ j = client[d].report[s].job
    OBVIOUS
  <2>2. StillSo(said, j, s)'
    BY <1>1, <2>1, StaysSo DEF Truthful
  <2> QED
    BY <2>1, <2>2 DEF StillSo
<1>3. client[d].pc \in WithJob => GoesOn(client[d].job)
  BY <1>1 DEF Follows, CarriesOn
<1>4. Follows(d)'
  BY <1>1, <1>3 DEF Follows, GoesOn, WithJob
<1> QED
  BY <1>2, <1>4

(* A command says something of s. *)
LEMMA SaidSo ==
    ASSUME CommandInvariant, CarriesOn, NEW c \in Attachers, NEW s \in Stores, NEW what \in Sayings,
           NEW j \in Jobs \cup {NoId}, Said(c, s, what, j), StillSo(what, j, s)',
           attach'[c].pc = "idle", \A d \in Attachers \ {c} : attach'[d] = attach[d]
    PROVE  OwnEffect(c)
<1> DEFINE r == client[c]
           left == r.todo \ {s}
           pc == IF left = {} \/ (r.strict /\ what \notin {"ok", "empty"}) THEN "ended" ELSE "submit"
           n == [r EXCEPT !.pc = pc, !.todo = left, !.store = NoStore, !.job = NoId,
                          !.report[s] = [said |-> what, job |-> j]]
<1>1. client \in [Attachers -> ClientRecs] /\ r \in ClientRecs /\ Truthful(c)
  BY DEF CommandInvariant, CommandTypes
<1>2. client' = [client EXCEPT ![c] = n]
  BY DEF Said
<1>3. /\ n \in ClientRecs /\ n.pc \in {"ended", "submit"}
      /\ n.report = [r.report EXCEPT ![s] = [said |-> what, job |-> j]]
  <2>1. /\ pc \in CommandStages /\ left \in SUBSET Stores
        /\ [r.report EXCEPT ![s] = [said |-> what, job |-> j]] \in [Stores -> Reports]
    BY <1>1 DEF ClientRecs, CommandStages, Reports
  <2> QED
    BY <1>1, <2>1 DEF ClientRecs
<1> HIDE DEF n
<1>4. client'[c] = n /\ client' \in [Attachers -> ClientRecs]
  BY <1>1, <1>2, <1>3
<1>5. Follows(c)'
  BY <1>3, <1>4 DEF Follows, WithJob
<1>6. Truthful(c)'
  <2> SUFFICES ASSUME NEW t \in Stores
               PROVE  StillSo(client[c].report[t].said, client[c].report[t].job, t)'
    BY DEF Truthful
  <2>1. CASE t = s
    <3>1. client'[c].report[t].said = what /\ client'[c].report[t].job = j
      BY <1>1, <1>3, <1>4, <2>1 DEF ClientRecs
    <3> QED
      BY <2>1, <3>1 DEF StillSo
  <2>2. CASE t # s
    <3>1. client'[c].report[t] = r.report[t]
      BY <1>1, <1>3, <1>4, <2>2 DEF ClientRecs
    <3>2. PICK said, k : said = r.report[t].said /\ k = r.report[t].job
      OBVIOUS
    <3>3. StillSo(said, k, t)'
      BY <1>1, <3>2, StaysSo DEF Truthful
    <3> QED
      BY <3>1, <3>2, <3>3 DEF StillSo
  <2> QED
    BY <2>1, <2>2
<1>7. client'[c].pc \notin WithJob
  BY <1>3, <1>4 DEF WithJob
<1> QED
  BY <1>1, <1>2, <1>4, <1>5, <1>6, <1>7 DEF OwnEffect

(* Words that claim nothing. *)
LEMMA SaysNothing ==
    ASSUME NEW what \in {"refused", "empty", "unreachable"}, NEW j, NEW s
    PROVE  StillSo(what, j, s)'
BY DEF StillSo

(* A command moves on with the job it has. *)
LEMMA MovesOn ==
    ASSUME CommandInvariant, CarriesOn, NEW c \in Attachers, client[c].pc \in WithJob,
           NEW pc \in CommandStages, client' = [client EXCEPT ![c].pc = pc],
           \A d \in Attachers \ {c} : attach'[d] = attach[d], Follows(c)'
    PROVE  OwnEffect(c)
<1> DEFINE r == client[c]
<1>1. client \in [Attachers -> ClientRecs] /\ r \in ClientRecs /\ Truthful(c)
  BY DEF CommandInvariant, CommandTypes
<1>2. [r EXCEPT !.pc = pc] \in ClientRecs
  BY <1>1 DEF ClientRecs
<1>3. /\ client'[c] = [r EXCEPT !.pc = pc] /\ client' \in [Attachers -> ClientRecs]
      /\ client'[c].job = r.job /\ client'[c].report = r.report
      /\ \A d \in Attachers \ {c} : client'[d] = client[d]
  BY <1>1, <1>2 DEF ClientRecs
<1>4. Truthful(c)'
  <2> SUFFICES ASSUME NEW t \in Stores
               PROVE  StillSo(client[c].report[t].said, client[c].report[t].job, t)'
    BY DEF Truthful
  <2>1. PICK said, k : said = r.report[t].said /\ k = r.report[t].job
    OBVIOUS
  <2>2. StillSo(said, k, t)'
    BY <1>1, <2>1, StaysSo DEF Truthful
  <2> QED
    BY <1>3, <2>1, <2>2 DEF StillSo
<1> QED
  BY <1>3, <1>4 DEF OwnEffect

(* A job that has ended, and what a command that sees its end says. *)
LEMMA EndsTold ==
    ASSUME QueueHolds, NEW j \in Jobs, JobInv(j), stage[j] \in SettledStages,
           NEW job, job = snapshot[j]
    PROVE  Verdict(job) \in {"ok", "failed"} /\ (Verdict(job) = "ok" <=> task[j] = "ok")
BY DEF JobInv, OutcomeRecorded, Verdict

LEMMA Starts ==
    ASSUME CommandInvariant, CarriesOn, NEW c \in Attachers, NEW strict \in BOOLEAN,
           NEW scope \in SUBSET Stores, CommandStarts(c, strict, scope)
    PROVE  OwnEffect(c)
<1> DEFINE n == [Unused EXCEPT !.pc = "submit", !.strict = strict, !.todo = scope]
<1>1. client \in [Attachers -> ClientRecs] /\ Follows(c) /\ client[c].pc = "unused"
  BY DEF CommandInvariant, CommandTypes, CommandStarts
<1>2. n \in ClientRecs /\ n.pc = "submit" /\ n.report = [s \in Stores |-> Unsaid]
  BY DEF ClientRecs, CommandStages, Reports, Unsaid, Sayings, Unused
<1>4. client' = [client EXCEPT ![c] = n] /\ attach' = attach
  BY DEF CommandStarts, vars
<1> HIDE DEF n
<1>5. client'[c] = n /\ client' \in [Attachers -> ClientRecs]
  BY <1>1, <1>2, <1>4
<1>6. Follows(c)'
  BY <1>1, <1>2, <1>4, <1>5 DEF Follows, WithJob, LeftStages
<1>7. Truthful(c)'
  BY <1>2, <1>5 DEF Truthful, StillSo, Unsaid
<1> QED
  BY <1>1, <1>2, <1>4, <1>5, <1>6, <1>7 DEF OwnEffect, WithJob

LEMMA Submits ==
    ASSUME CommandInvariant, CarriesOn, NEW c \in Attachers, NEW j \in Jobs, NEW s \in Stores,
           SubmitJob(c, j, s)
    PROVE  OwnEffect(c)
<1> DEFINE r == client[c]
           n == [r EXCEPT !.pc = "submitting", !.job = j, !.store = s]
<1>1. /\ client \in [Attachers -> ClientRecs] /\ r \in ClientRecs /\ Follows(c) /\ Truthful(c)
      /\ r.pc = "submit" /\ stage \in [Jobs -> Stages] /\ storeOf \in [Jobs -> Stores \cup {NoStore}]
  BY DEF CommandInvariant, CommandTypes, SubmitJob, QueueHolds, TypeOK
<1>2. /\ n \in ClientRecs /\ n.pc = "submitting" /\ n.job = j /\ n.store = s
      /\ n.report = r.report
  BY <1>1 DEF ClientRecs, CommandStages
<1>3. client' = [client EXCEPT ![c] = n]
  <2>1. client' = [client EXCEPT ![c].pc = "submitting", ![c].job = j, ![c].store = s]
    BY DEF SubmitJob
  <2> QED
    BY <1>1, <2>1
<1> HIDE DEF n
<1>4. /\ attach' = attach /\ stage[j] = "new"
      /\ stage' = [stage EXCEPT ![j] = "reserved"] /\ storeOf' = [storeOf EXCEPT ![j] = s]
  BY DEF SubmitJob, SubmitReserve
<1>5. client'[c] = n /\ client' \in [Attachers -> ClientRecs]
  BY <1>1, <1>2, <1>3
<1>6. Follows(c)'
  BY <1>1, <1>2, <1>4, <1>5 DEF Follows, WithJob, LeftStages
<1>7. Truthful(c)'
  <2> SUFFICES ASSUME NEW t \in Stores
               PROVE  StillSo(client[c].report[t].said, client[c].report[t].job, t)'
    BY DEF Truthful
  <2>1. PICK said, k : said = r.report[t].said /\ k = r.report[t].job
    OBVIOUS
  <2>2. StillSo(said, k, t)'
    BY <1>1, <2>1, StaysSo DEF Truthful
  <2> QED
    BY <1>2, <1>5, <2>1, <2>2 DEF StillSo
<1> QED
  BY <1>1, <1>2, <1>3, <1>4, <1>5, <1>6, <1>7 DEF OwnEffect

(* A command whose job has been accepted goes on with it. *)
LEMMA GoesFurther ==
    ASSUME CommandInvariant, CarriesOn, NEW c \in Attachers, client[c].pc \in WithJob,
           stage[client[c].job] \in Accepted, NEW pc \in {"attach", "follow", "poll"},
           client' = [client EXCEPT ![c].pc = pc],
           \A d \in Attachers \ {c} : attach'[d] = attach[d],
           attach'[c].pc = "idle" \/ (pc = "follow" /\ attach'[c].job = client[c].job)
    PROVE  OwnEffect(c)
<1>1. client \in [Attachers -> ClientRecs] /\ client[c] \in ClientRecs /\ Follows(c)
  BY DEF CommandInvariant, CommandTypes
<1>2. /\ client'[c].pc = pc /\ client'[c].job = client[c].job
      /\ client'[c].store = client[c].store
  BY <1>1 DEF ClientRecs
<1>3. GoesOn(client[c].job) /\ client[c].job \in Jobs
  BY <1>1 DEF CarriesOn, Follows
<1>4. Follows(c)'
  BY <1>1, <1>2, <1>3 DEF Follows, GoesOn, Accepted, WorkerStages, LeftStages, WithJob
<1>5. pc \in CommandStages
  BY DEF CommandStages
<1> QED
  BY <1>4, <1>5, MovesOn

(* A command that has no stream claims nothing. *)
LEMMA Gives ==
    ASSUME CommandInvariant, CarriesOn, NEW c \in Attachers, client[c].pc # "follow", attach' = attach,
           NEW s \in Stores, NEW what \in {"refused", "empty", "unreachable"}, NEW j \in Jobs \cup {NoId},
           Said(c, s, what, j)
    PROVE  OwnEffect(c)
<1>1. attach'[c].pc = "idle"
  BY DEF CommandInvariant, Follows
<1>2. what \in Sayings
  BY DEF Sayings
<1>3. StillSo(what, j, s)'
  BY SaysNothing
<1> QED
  BY <1>1, <1>2, <1>3, SaidSo

LEMMA SubmitEnds ==
    ASSUME CommandInvariant, CarriesOn, NEW c \in Attachers,
           \/ \E s \in Stores : SubmitRefused(c, s) \/ NothingToIndex(c, s)
           \/ SubmitTimesOut(c) \/ AnswerLost(c) \/ PollFails(c) \/ SubmitAnswered(c)
    PROVE  OwnEffect(c)
<1>1. /\ client[c].pc \in WithJob => client[c].job \in Jobs /\ client[c].store \in Stores
      /\ client[c].pc \in WithJob => stage[client[c].job] \notin {"new"} \cup LeftStages
      /\ client[c].pc # "follow" => attach[c].pc = "idle"
      /\ stage \in [Jobs -> Stages]
  BY DEF CommandInvariant, Follows, QueueHolds, TypeOK
<1>2. ASSUME NEW s \in Stores, SubmitRefused(c, s) \/ NothingToIndex(c, s) PROVE OwnEffect(c)
  BY <1>2, Gives DEF SubmitRefused, NothingToIndex, vars
<1>3. CASE SubmitTimesOut(c)
  BY <1>1, <1>3, Gives DEF SubmitTimesOut, SubmitDropped, WithJob
<1>4. CASE AnswerLost(c)
  BY <1>1, <1>4, Gives DEF AnswerLost, WithJob, vars
<1>5. CASE PollFails(c)
  BY <1>1, <1>5, Gives DEF PollFails, WithJob, vars
<1>6. CASE SubmitAnswered(c)
  <2>1. /\ client[c].pc = "submitting" /\ attach' = attach
        /\ stage[client[c].job] \notin SubmitStages \cup FailStages
        /\ client' = [client EXCEPT ![c].pc = "attach"]
    BY <1>6 DEF SubmitAnswered, vars
  <2>2. stage[client[c].job] \in Accepted
    BY <1>1, <2>1 DEF WithJob, Stages, Accepted
  <2> QED
    BY <1>1, <2>1, <2>2, GoesFurther DEF WithJob
<1> QED
  BY <1>2, <1>3, <1>4, <1>5, <1>6

(* Its stream starts, goes on, or breaks. *)
LEMMA Streams ==
    ASSUME CommandInvariant, CarriesOn, NEW c \in Attachers,
           AttachStarts(c) \/ FallsBackToPolling(c) \/ StreamBreaks(c) \/ Following(c)
    PROVE  OwnEffect(c)
<1> DEFINE j == client[c].job
<1>1. /\ Follows(c) /\ attach \in [Attachers -> AttachRecs]
      /\ client \in [Attachers -> ClientRecs]
  BY DEF CommandInvariant, CommandTypes, QueueHolds, TypeOK
<1>2. client[c].pc \in {"attach", "follow"} => stage[j] \in Accepted /\ j \in Jobs
  BY <1>1 DEF Follows, WithJob
<1>3. ASSUME NEW rec, AttachStep(c, rec)
      PROVE  attach'[c] = rec /\ \A d \in Attachers \ {c} : attach'[d] = attach[d]
  BY <1>1, <1>3 DEF AttachStep
<1>4. CASE AttachStarts(c)
  <2>1. client[c].pc = "attach" /\ client' = [client EXCEPT ![c].pc = "follow"]
    BY <1>4 DEF AttachStarts
  <2>2. PICK rec : AttachStep(c, rec) /\ rec.job = j
    <3>1. CASE AttachRead(c, j)
      <4> DEFINE rec == [IdleAttach EXCEPT !.job = j,
                             !.frame = IF IsTerminal(registry[j]) THEN registry[j] ELSE NoJob,
                             !.pc = IF registry[j] = NoJob THEN "not_found"
                                    ELSE IF IsTerminal(registry[j]) THEN "finished"
                                    ELSE "subscribing"]
      <4>1. AttachStep(c, rec)
        BY <3>1 DEF AttachRead
      <4>2. rec.job = j
        BY DEF IdleAttach
      <4> HIDE DEF rec
      <4> QED
        BY <4>1, <4>2
    <3>2. ASSUME NEW x, AttachStep(c, [IdleAttach EXCEPT !.job = j, !.pc = x])
          PROVE  \E rec : AttachStep(c, rec) /\ rec.job = j
      <4> DEFINE rec == [IdleAttach EXCEPT !.job = j, !.pc = x]
      <4>1. rec.job = j
        BY DEF IdleAttach
      <4> HIDE DEF rec
      <4>2. AttachStep(c, rec)
        BY <3>2 DEF rec
      <4> QED
        BY <4>1, <4>2
    <3> QED
      BY <1>4, <3>1, <3>2 DEF AttachStarts
  <2>3. attach'[c].job = j /\ \A d \in Attachers \ {c} : attach'[d] = attach[d]
    BY <1>3, <2>2
  <2> QED
    BY <1>2, <2>1, <2>3, GoesFurther DEF WithJob
<1>5. CASE FallsBackToPolling(c) \/ StreamBreaks(c)
  <2>1. /\ client[c].pc = "follow" /\ client' = [client EXCEPT ![c].pc = "poll"]
        /\ AttachStep(c, IdleAttach)
    BY <1>5 DEF FallsBackToPolling, StreamBreaks
  <2>2. attach'[c].pc = "idle" /\ \A d \in Attachers \ {c} : attach'[d] = attach[d]
    BY <1>3, <2>1 DEF IdleAttach
  <2> QED
    BY <1>2, <2>1, <2>2, GoesFurther DEF WithJob
<1>6. CASE Following(c)
  <2>1. client[c].pc = "follow" /\ client' = client
    BY <1>6 DEF Following
  <2>2. /\ attach[c].pc # "idle" /\ attach'[c].job = attach[c].job
        /\ \A d \in Attachers \ {c} : attach'[d] = attach[d]
    BY <1>1, <1>6, AttachStays DEF Following
  <2>3. stage'[j] \notin LeftStages
    BY <1>2, <2>1 DEF CarriesOn, GoesOn, Accepted, WorkerStages, LeftStages
  <2>4. Follows(c)' /\ Truthful(c)'
    BY <1>1, <2>1, <2>2, <2>3, CommandKept DEF Follows
  <2> QED
    BY <1>1, <2>1, <2>2, <2>4 DEF OwnEffect
<1> QED
  BY <1>4, <1>5, <1>6

(* It learns the job's end from the stream's last frame. *)
LEMMA FollowsToTheEnd ==
    ASSUME CommandInvariant, CarriesOn, NEW c \in Attachers, FollowEnds(c)
    PROVE  OwnEffect(c)
<1>1. /\ Follows(c) /\ attach \in [Attachers -> AttachRecs]
      /\ AttachConsistent(c) /\ AttachKnown(c) /\ QueueHolds
  BY DEF CommandInvariant, QueueHolds, TypeOK
<1>2. PICK j, s, what : j = client[c].job /\ s = client[c].store /\ what = Verdict(attach[c].frame)
  OBVIOUS
<1>3. /\ client[c].pc = "follow" /\ attach[c].pc = "finished"
      /\ Said(c, s, what, j) /\ AttachStep(c, IdleAttach)
  BY <1>2 DEF FollowEnds
<1>4. /\ j \in Jobs /\ s \in Stores /\ storeOf[j] = s
      /\ attach[c].job = j
  BY <1>1, <1>2, <1>3 DEF Follows, WithJob
<1>5. JobInv(j) /\ stage[j] \in SettledStages /\ attach[c].frame = snapshot[j]
  BY <1>1, <1>3, <1>4 DEF AttachConsistent, AttachKnown
<1>6. what \in {"ok", "failed"} /\ (what = "ok" <=> task[j] = "ok")
  BY <1>1, <1>2, <1>4, <1>5, EndsTold
<1>7. StillSo(what, j, s)'
  BY <1>4, <1>5, <1>6, StaysSo DEF StillSo
<1>8. attach'[c].pc = "idle" /\ \A d \in Attachers \ {c} : attach'[d] = attach[d]
  BY <1>1, <1>3 DEF AttachStep, IdleAttach
<1>9. what \in Sayings
  BY <1>6 DEF Sayings
<1> QED
  BY <1>3, <1>4, <1>7, <1>8, <1>9, SaidSo

(* What the registry says of a job that submit has accepted: it is terminal *)
(* when the job has settled, and empty only after the grace or a restart.   *)
LEMMA RegistryTells ==
    ASSUME CommandInvariant, NEW j \in Jobs, stage[j] \in Accepted
    PROVE  /\ IsTerminal(registry[j]) =>
                JobInv(j) /\ stage[j] \in SettledStages /\ registry[j] = snapshot[j]
           /\ registry[j] = NoJob /\ ~restarted =>
                /\ stage[j] \in SettledStages /\ IsTerminal(snapshot[j])
                /\ now > snapshot[j].completed_at + Grace
<1>1. ASSUME IsTerminal(registry[j])
      PROVE  JobInv(j) /\ stage[j] \in SettledStages /\ registry[j] = snapshot[j]
  <2>1. JobInv(j)
    BY <1>1, DistinctValues DEF CommandInvariant, QueueHolds, Forgotten
  <2> QED
    BY <1>1, <2>1, DistinctValues DEF JobInv, Lifecycle, Accepted, WorkerStages, LeftStages, SettledStages
<1>2. ASSUME registry[j] = NoJob, ~restarted
      PROVE  /\ stage[j] \in SettledStages /\ IsTerminal(snapshot[j])
             /\ now > snapshot[j].completed_at + Grace
  <2>1. Lifecycle(j) /\ AgedOut(j)
    BY <1>2 DEF CommandInvariant, JobInv, Retention
  <2>2. stage[j] \in SettledStages
    BY <1>2, <2>1, DistinctValues DEF Lifecycle, Accepted, WorkerStages, LeftStages, SettledStages
  <2> QED
    BY <1>2, <2>1, <2>2 DEF AgedOut, Lifecycle
<1> QED
  BY <1>1, <1>2

(* Or from the job itself, when it asks for it. *)
LEMMA Polls ==
    ASSUME CommandInvariant, CarriesOn, NEW c \in Attachers, Poll(c)
    PROVE  OwnEffect(c)
<1>1. client[c].pc = "poll" /\ attach' = attach
  BY DEF Poll, vars
<1>2. PICK j, s : j = client[c].job /\ s = client[c].store
  OBVIOUS
<1>3. /\ j \in Jobs /\ s \in Stores /\ storeOf[j] = s
      /\ stage[j] \in Accepted /\ attach'[c].pc = "idle"
  BY <1>1, <1>2 DEF CommandInvariant, Follows, WithJob
<1>4. ASSUME NEW what \in Sayings, Said(c, s, what, j), StillSo(what, j, s)
      PROVE  OwnEffect(c)
  BY <1>1, <1>3, <1>4, SaidSo, StaysSo
<1>5. CASE registry[j] = NoJob /\ Said(c, s, "gone", j)
  <2>1. StillSo("gone", j, s)
    BY <1>3, <1>5, RegistryTells DEF StillSo
  <2>2. "gone" \in Sayings
    BY DEF Sayings
  <2> QED
    BY <1>4, <1>5, <2>1, <2>2
<1>6. CASE IsTerminal(registry[j]) /\ Said(c, s, Verdict(registry[j]), j)
  <2>1. PICK what : what = Verdict(registry[j])
    OBVIOUS
  <2>2. JobInv(j) /\ stage[j] \in SettledStages /\ registry[j] = snapshot[j]
    BY <1>3, <1>6, RegistryTells
  <2>3. what \in {"ok", "failed"} /\ (what = "ok" <=> task[j] = "ok")
    BY <1>3, <2>1, <2>2, EndsTold DEF CommandInvariant
  <2>4. StillSo(what, j, s) /\ what \in Sayings
    BY <1>3, <2>2, <2>3 DEF StillSo, Sayings
  <2> QED
    BY <1>4, <1>6, <2>1, <2>4
<1> QED
  BY <1>2, <1>5, <1>6 DEF Poll

(* Every step of a command is one of these. *)
LEMMA OwnSteps ==
    ASSUME CommandInvariant, CarriesOn, NEW c \in Attachers,
           \/ \E strict \in BOOLEAN, scope \in Scopes[transport] : CommandStarts(c, strict, scope)
           \/ CommandStep(c) \/ Fault(c)
    PROVE  OwnEffect(c)
<1>1. Scopes[transport] \subseteq SUBSET Stores
  BY CommandAssumption DEF CommandInvariant, CommandTypes
<1> QED
  BY <1>1, Starts, SubmitEnds, Submits, Streams, FollowsToTheEnd, Polls DEF CommandStep, Fault

(* The commands a step is not about lose nothing by it. *)
LEMMA OthersLoseNothing ==
    ASSUME CommandInvariant, CarriesOn, [CommandNext]_cmdVars, NEW d \in Attachers,
           client'[d] = client[d], attach'[d] \in {attach[d], IdleAttach}
    PROVE  Follows(d)' /\ Truthful(d)'
<1>1. Follows(d) /\ client \in [Attachers -> ClientRecs] /\ FollowsOwn
  BY DEF CommandInvariant, CommandTypes
<1>2. \/ attach'[d].pc = "idle"
      \/ client[d].pc = "follow" /\ attach'[d].job = client[d].job
  BY <1>1 DEF Follows, IdleAttach
<1>3. ASSUME client[d].pc \in WithJob, stage'[client[d].job] \in LeftStages PROVE FALSE
  <2>1. client[d].job \in Jobs /\ stage[client[d].job] \notin LeftStages
    BY <1>1, <1>3 DEF Follows
  <2>2. PICK e \in Attachers : SubmitTimesOut(e) /\ client[e].job = client[d].job
    BY <1>3, <2>1, DropsOwn
  <2>3. e = d
    BY <1>1, <1>3, <2>2 DEF SubmitTimesOut, FollowsOwn, WithJob
  <2>4. client[d].pc = "submitting" /\ Said(d, client[d].store, "refused", NoId)
    BY <2>2, <2>3 DEF SubmitTimesOut
  <2>5. client'[d].pc \in {"ended", "submit"}
    BY <1>1, <2>4 DEF Said, ClientRecs
  <2> QED
    BY <2>4, <2>5
<1> QED
  BY <1>2, <1>3, CommandKept

(* Steps of the queue itself are no command's. *)
LEMMA QueueStepsAlone ==
    ASSUME [CommandNext]_cmdVars
    PROVE  \/ client' = client /\ \A d \in Attachers : attach'[d] \in {attach[d], IdleAttach}
           \/ \E c \in Attachers :
                \/ \E strict \in BOOLEAN, scope \in Scopes[transport] : CommandStarts(c, strict, scope)
                \/ CommandStep(c) \/ Fault(c)
<1>1. QueueStep => attach' = attach
  BY DEF QueueStep, SubmitReserve, SubmitInstallHandle, SubmitRegister, SubmitEnqueue, SubmitSendFails,
     SubmitFailSettle, SubmitFailTearDown, ProcessJob, WorkerRecv, WorkerStartJob, WorkerSkipCancelled,
     WorkerBuildTask, TaskProgress, TaskEnds, WorkerAbort, TaskAborted, WorkerRecordOutcome,
     WorkerTearDown, WorkerRelease, Cancel, ListJobs, Tick, ShutDown
<1>2. CASE DaemonRestarts
  BY <1>2 DEF DaemonRestarts
<1>3. CASE UNCHANGED cmdVars
  BY <1>3 DEF cmdVars, vars
<1> QED
  BY <1>1, <1>2, <1>3 DEF CommandNext

LEMMA CommandInvariantKept ==
    ASSUME CommandInvariant, [CommandNext]_cmdVars
    PROVE  CommandInvariant'
<1>1. /\ QueueHolds' /\ Retention'
      /\ ~restarted' => \A j \in Jobs : JobInv(j)'
      /\ CarriesOn
      /\ transport' = transport /\ restarted' \in BOOLEAN /\ (restarted' => transport' = "daemon")
  BY QueueCarriesOn
<1>2. /\ client \in [Attachers -> ClientRecs] /\ transport \in Transports /\ FollowsOwn
      /\ \A d \in Attachers : Follows(d)
  BY DEF CommandInvariant, CommandTypes
<1>3. /\ client' \in [Attachers -> ClientRecs] /\ FollowsOwn'
      /\ \A d \in Attachers : Follows(d)' /\ Truthful(d)'
  <2>1. CASE client' = client /\ \A d \in Attachers : attach'[d] \in {attach[d], IdleAttach}
    BY <1>1, <1>2, <2>1, OthersLoseNothing DEF FollowsOwn
  <2>2. ASSUME NEW c \in Attachers,
               \/ \E strict \in BOOLEAN, scope \in Scopes[transport] : CommandStarts(c, strict, scope)
               \/ CommandStep(c) \/ Fault(c)
        PROVE  /\ client' \in [Attachers -> ClientRecs] /\ FollowsOwn'
               /\ \A d \in Attachers : Follows(d)' /\ Truthful(d)'
    <3>1. OwnEffect(c)
      BY <1>1, <2>2, OwnSteps
    <3>2. \A d \in Attachers \ {c} : client'[d] = client[d] /\ attach'[d] = attach[d]
      BY <3>1 DEF OwnEffect
    <3>3. \A d \in Attachers : Follows(d)' /\ Truthful(d)'
      BY <1>1, <3>1, <3>2, OthersLoseNothing DEF OwnEffect
    <3>4. ASSUME NEW d \in Attachers \ {c},
                 client'[c].pc \in WithJob, client'[d].pc \in WithJob
          PROVE  client'[c].job # client'[d].job
      <4>1. client'[d] = client[d] /\ stage[client[d].job] # "new"
        BY <1>2, <3>2, <3>4 DEF Follows
      <4>2. client[c].pc \in WithJob => client[c].job # client[d].job
        BY <1>2, <3>4, <4>1 DEF FollowsOwn
      <4> QED
        BY <3>1, <3>4, <4>1, <4>2 DEF OwnEffect
    <3>5. FollowsOwn'
      BY <1>2, <3>2, <3>4 DEF FollowsOwn
    <3> QED
      BY <3>1, <3>3, <3>5 DEF OwnEffect
  <2> QED
    BY <2>1, <2>2, QueueStepsAlone
<1> QED
  BY <1>1, <1>2, <1>3 DEF CommandInvariant, CommandTypes

(* The invariant of the queue and its clients is inductive. *)
THEOREM CommandInvariantHolds == CommandSpec => []CommandInvariant
<1>1. CommandInit => CommandInvariant
  <2> SUFFICES ASSUME CommandInit PROVE CommandInvariant
    OBVIOUS
  <2>1. QueueHolds /\ \A j \in Jobs : JobInv(j)
    BY InitHolds, NoneForgotten DEF CommandInit
  <2>2. Retention
    BY DistinctValues DEF CommandInit, Init, Retention, AgedOut
  <2>3. CommandTypes
    <3>1. Unused \in ClientRecs
      BY DEF Unused, Unsaid, ClientRecs, CommandStages, Reports, Sayings
    <3> QED
      BY <3>1 DEF CommandInit, CommandTypes
  <2>4. ASSUME NEW c \in Attachers PROVE Follows(c) /\ Truthful(c)
    <3>1. client[c] = Unused /\ attach[c].pc = "idle"
      BY DEF CommandInit, Init, IdleAttach
    <3> QED
      BY <3>1 DEF Follows, Truthful, StillSo, Unused, Unsaid, WithJob
  <2>5. FollowsOwn
    BY DEF CommandInit, FollowsOwn, Unused, WithJob
  <2> QED
    BY <2>1, <2>2, <2>3, <2>4, <2>5 DEF CommandInvariant
<1>2. CommandInvariant /\ [CommandNext]_cmdVars => CommandInvariant'
  BY CommandInvariantKept
<1> QED
  BY <1>1, <1>2, PTL DEF CommandSpec

(* What `localdb index` tells its user is what became of the job: for every *)
(* number of commands, jobs and stores, through broken streams, re-reads,   *)
(* polling, timeouts and a daemon that is killed and started again, "ok"    *)
(* and "failed" are the task's own result, and "gone" means a new daemon or *)
(* a job that had ended longer than the grace before.                       *)
THEOREM ReportsTrue == CommandSpec => []ReportsAreTrue
<1>1. CommandInvariant => ReportsAreTrue
  <2> SUFFICES ASSUME CommandInvariant, NEW c \in Attachers, NEW s \in Stores
               PROVE  LET r == client[c].report[s]
                          j == r.job
                      IN /\ r.said \in {"ok", "failed"} => storeOf[j] = s /\ task[j] # "live"
                         /\ r.said = "ok" => task[j] = "ok"
                         /\ r.said = "failed" => task[j] # "ok"
                         /\ r.said = "gone" =>
                              restarted \/ (IsTerminal(snapshot[j]) /\ now > snapshot[j].completed_at + Grace)
    BY DEF ReportsAreTrue
  <2>1. StillSo(client[c].report[s].said, client[c].report[s].job, s)
    BY DEF CommandInvariant, Truthful
  <2>2. \A j \in Jobs : stage[j] \in SettledStages => task[j] # "live"
    BY DEF CommandInvariant, QueueHolds, JobInv, Lifecycle, Forgotten
  <2> QED
    BY <2>1, <2>2 DEF StillSo
<1> QED
  BY <1>1, CommandInvariantHolds, PTL

=============================================================================
