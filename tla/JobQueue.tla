------------------------------ MODULE JobQueue ------------------------------
(***************************************************************************)
(* The daemon's indexing job queue (server/src/job_queue.rs) together with *)
(* the SSE endpoint that watches a job (server/src/handlers/jobs.rs).      *)
(*                                                                         *)
(* A job passes through `submit`, the bounded channel and `process_job`;   *)
(* stage[j] is the program point the one task that currently owns job j    *)
(* has reached.  Every action is one critical section of the code (one     *)
(* lock held, or one channel operation), so actions of different jobs,     *)
(* `cancel`, `list_jobs` and the SSE requests interleave between them      *)
(* exactly where the code awaits.                                          *)
(*                                                                         *)
(* The N worker tasks are interchangeable: a worker is busy with the job   *)
(* whose stage is in WorkerStages, and `recv` needs one that is not.       *)
(***************************************************************************)
EXTENDS Naturals, Sequences, FiniteSets

CONSTANTS
    Jobs,           \* job ids; ULIDs, ordered, so natural numbers
    Stores,         \* store names a job can be keyed by
    NoStore,        \* the store of a job not yet created
    JobWorkers,     \* server.job_workers
    QueueCapacity,  \* QUEUE_CAPACITY
    EventCapacity,  \* EVENT_CHANNEL_CAPACITY
    MaxTerminal,    \* MAX_TERMINAL_JOBS
    Grace,          \* TERMINAL_RETENTION_GRACE_SECS
    Attachers,      \* GET /v1/jobs/{id}/events requests
    MaxProgress,    \* bound: progress events a task emits
    MaxTime,        \* bound: the clock stops here
    CallersMayLeave,\* an HTTP caller may disconnect, dropping its submit future
    MayShutDown     \* the runtime may shut down, dropping the worker tasks

ASSUME JobsAssumption == Jobs \subseteq Nat \ {0}
ASSUME StoresAssumption == NoStore \notin Stores
ASSUME BoundsAssumption ==
    /\ JobWorkers \in Nat \ {0}
    /\ QueueCapacity \in Nat \ {0}
    /\ EventCapacity \in Nat \ {0}
    /\ MaxTerminal \in Nat
    /\ Grace \in Nat
    /\ MaxProgress \in Nat
    /\ MaxTime \in Nat
ASSUME SwitchesAssumption ==
    /\ CallersMayLeave \in BOOLEAN
    /\ MayShutDown \in BOOLEAN

VARIABLES
    now,        \* the wall clock, in whole seconds
    open,       \* the channel's receiver is alive
    stage,      \* [Jobs -> Stages]
    storeOf,    \* [Jobs -> Stores \cup {NoStore}]: QueuedJob.store_id
    inflight,   \* the in-flight set
    handles,    \* ids with a JobHandle
    cancelled,  \* ids whose CancellationToken has been triggered
    events,     \* [Jobs -> Seq(JobEvent)]: all that was ever sent on the job's channel
    registry,   \* [Jobs -> IndexJob], NoJob where the map has no entry
    queue,      \* the mpsc channel's content
    task,       \* [Jobs -> TaskStates]: the spawned future and its JoinHandle
    snapshot,   \* [Jobs -> IndexJob]: process_job's terminal_snapshot
    attach,     \* [Attachers -> AttachRecs]: the SSE requests
    acked       \* history: ids a cancel() call answered Ok for while they were Pending

vars == <<now, open, stage, storeOf, inflight, handles, cancelled, events, registry,
          queue, task, snapshot, attach, acked>>

-----------------------------------------------------------------------------
(* Data *)

NoId == 0

SubmitStages == {"reserved", "installed", "registered"}
FailStages   == {"send_failed", "fail_teardown"}
WorkerStages == {"dequeued", "starting", "running", "aborting", "teardown", "release"}
LeftStages   == {"dropped", "given_up", "abandoned"}   \* submit's future dropped: see SubmitDropped
Stages == {"new", "queued", "over"} \cup SubmitStages \cup FailStages \cup WorkerStages \cup LeftStages

TaskResults == {"ok", "err", "panic"}
TaskStates  == {"none", "live", "aborted", "build_panic"} \cup TaskResults

(* IndexJob, reduced to what a client can tell apart. *)
NoJob == [state |-> "absent", code |-> "none", completed_at |-> 0]
Pending == [state |-> "Pending", code |-> "none", completed_at |-> 0]
Running == [state |-> "Running", code |-> "none", completed_at |-> 0]

Codes == {"none", "task_error", "job_cancelled", "internal"}
IndexJobs == [state : {"absent", "Pending", "Running", "Done", "Failed"},
              code : Codes, completed_at : Nat]

IsTerminal(job) == job.state \in {"Done", "Failed"}

complete_index_job == [state |-> "Done", code |-> "none", completed_at |-> now]
fail_index_job == [state |-> "Failed", code |-> "none", completed_at |-> now]
fail_index_job_with_error(code) == [state |-> "Failed", code |-> code, completed_at |-> now]

Progress == [kind |-> "Progress", job |-> NoJob]
Terminal(job) == [kind |-> "Terminal", job |-> job]
JobEvents == [kind : {"Progress", "Terminal"}, job : IndexJobs]

AttachStages == {"idle", "subscribing", "rereading", "live", "finished", "not_found"}
AttachRecs ==
    {r \in [pc : AttachStages, job : Jobs \cup {NoId}, pos : Nat, frame : IndexJobs] :
        r.pc # "idle" => r.job \in Jobs}
IdleAttach == [pc |-> "idle", job |-> NoId, pos |-> 0, frame |-> NoJob]

Init ==
    /\ now = 0
    /\ open = TRUE
    /\ stage = [j \in Jobs |-> "new"]
    /\ storeOf = [j \in Jobs |-> NoStore]
    /\ inflight = {}
    /\ handles = {}
    /\ cancelled = {}
    /\ events = [j \in Jobs |-> <<>>]
    /\ registry = [j \in Jobs |-> NoJob]
    /\ queue = <<>>
    /\ task = [j \in Jobs |-> "none"]
    /\ snapshot = [j \in Jobs |-> NoJob]
    /\ attach = [a \in Attachers |-> IdleAttach]
    /\ acked = {}

-----------------------------------------------------------------------------
(* Bounded retention of terminal jobs *)

TerminalIds(reg) == {j \in Jobs : IsTerminal(reg[j])}

(* now_secs.saturating_sub(TERMINAL_RETENTION_GRACE_SECS) *)
terminal_eviction_cutoff == IF now < Grace THEN 0 ELSE now - Grace

(* ascending by (completed_at, id) *)
Older(reg, j, k) ==
    \/ reg[j].completed_at < reg[k].completed_at
    \/ reg[j].completed_at = reg[k].completed_at /\ j < k

(* Variant: no grace, every terminal job but the protected one may go. *)
EvictionCandidatesNoGrace(reg, protect) == {j \in TerminalIds(reg) : j # protect}

EvictionCandidates(reg, protect) ==
    {j \in TerminalIds(reg) : j # protect /\ reg[j].completed_at < terminal_eviction_cutoff}

(* The `overflow` oldest candidates. *)
Evicted(reg, protect) ==
    LET candidates == EvictionCandidates(reg, protect)
    IN {j \in candidates :
          Cardinality({k \in candidates : Older(reg, k, j)}) + MaxTerminal
              < Cardinality(TerminalIds(reg))}

evict_oldest_terminal_jobs_over_cap(reg, protect) ==
    [j \in Jobs |-> IF j \in Evicted(reg, protect) THEN NoJob ELSE reg[j]]

(* if let Some(job) = reg.get_mut(&job_id) *)
UpdateEntry(j, job) == IF registry[j] = NoJob THEN registry ELSE [registry EXCEPT ![j] = job]

(* Variant: the snapshot is taken before the terminal write. *)
SettleJobStaleSnapshot(j, outcome) ==
    /\ registry' = evict_oldest_terminal_jobs_over_cap(UpdateEntry(j, outcome), j)
    /\ snapshot' = [snapshot EXCEPT ![j] = registry[j]]

(* One terminal write: record the outcome, evict, take the snapshot. *)
SettleJob(j, outcome) ==
    LET written == UpdateEntry(j, outcome)
    IN /\ registry' = evict_oldest_terminal_jobs_over_cap(written, j)
       /\ snapshot' = [snapshot EXCEPT ![j] = registry'[j]]

(* Variant: the channel just closes, without a Terminal event. *)
TearDownHandleSilently(j) ==
    /\ handles' = handles \ {j}
    /\ UNCHANGED events

(* The handle teardown: Terminal is sent and the handle removed under one  *)
(* `handles` write lock.                                                   *)
TearDownHandle(j) ==
    /\ events' = IF snapshot[j] = NoJob
                 THEN events
                 ELSE [events EXCEPT ![j] = Append(@, Terminal(snapshot[j]))]
    /\ handles' = handles \ {j}

-----------------------------------------------------------------------------
(* submit *)

(* Variant: the job is published before its handle exists. *)
SubmitReserveAndPublish(j, s) ==
    /\ stage[j] = "new"
    /\ s \notin inflight
    /\ inflight' = inflight \cup {s}
    /\ storeOf' = [storeOf EXCEPT ![j] = s]
    /\ registry' = [registry EXCEPT ![j] = Pending]
    /\ stage' = [stage EXCEPT ![j] = "reserved"]
    /\ UNCHANGED <<now, open, handles, cancelled, events, queue, task, snapshot, attach, acked>>

(* The in-flight set is checked and the store reserved in one critical     *)
(* section; a store already there is refused with IndexInProgress and      *)
(* nothing changes.  create_index_job follows without an await.            *)
SubmitReserve(j, s) ==
    /\ stage[j] = "new"
    /\ s \notin inflight
    /\ inflight' = inflight \cup {s}
    /\ storeOf' = [storeOf EXCEPT ![j] = s]
    /\ stage' = [stage EXCEPT ![j] = "reserved"]
    /\ UNCHANGED <<now, open, handles, cancelled, events, registry, queue, task, snapshot, attach, acked>>

SubmitInstallHandle(j) ==
    /\ stage[j] = "reserved"
    /\ handles' = handles \cup {j}
    /\ stage' = [stage EXCEPT ![j] = "installed"]
    /\ UNCHANGED <<now, open, storeOf, inflight, cancelled, events, registry, queue, task, snapshot, attach, acked>>

SubmitRegister(j) ==
    /\ stage[j] = "installed"
    /\ registry' = [registry EXCEPT ![j] = Pending]
    /\ stage' = [stage EXCEPT ![j] = "registered"]
    /\ UNCHANGED <<now, open, storeOf, inflight, handles, cancelled, events, queue, task, snapshot, attach, acked>>

(* sender.send(queued).await waits for a free slot. *)
SubmitEnqueue(j) ==
    /\ stage[j] = "registered"
    /\ open
    /\ Len(queue) < QueueCapacity
    /\ queue' = Append(queue, j)
    /\ stage' = [stage EXCEPT ![j] = "queued"]
    /\ UNCHANGED <<now, open, storeOf, inflight, handles, cancelled, events, registry, task, snapshot, attach, acked>>

(* The receiver is gone: the send fails and submit itself settles the job. *)
(* The in-flight lock is taken first and held until the handle is torn     *)
(* down, so nobody sees the store free before SubmitFailTearDown.          *)
SubmitSendFails(j) ==
    /\ stage[j] = "registered"
    /\ ~open
    /\ stage' = [stage EXCEPT ![j] = "send_failed"]
    /\ UNCHANGED <<now, open, storeOf, inflight, handles, cancelled, events, registry, queue, task, snapshot, attach, acked>>

SubmitFailSettle(j) ==
    /\ stage[j] = "send_failed"
    /\ SettleJob(j, fail_index_job)
    /\ stage' = [stage EXCEPT ![j] = "fail_teardown"]
    /\ UNCHANGED <<now, open, storeOf, inflight, handles, cancelled, events, queue, task, attach, acked>>

SubmitFailTearDown(j) ==
    /\ stage[j] = "fail_teardown"
    /\ TearDownHandle(j)
    /\ inflight' = inflight \ {storeOf[j]}
    /\ stage' = [stage EXCEPT ![j] = "over"]
    /\ UNCHANGED <<now, open, storeOf, cancelled, registry, queue, task, snapshot, attach, acked>>

(* POST /v1/jobs runs submit inside its handler: when the client goes away *)
(* the future is dropped at the await it is parked on, and nothing undoes  *)
(* what it has done so far.  After a failed send that is the in-flight     *)
(* lock, then, with the store released, the registry's (the job stays      *)
(* Pending) or the handles' (its channel stays open).                      *)
SubmitDropped(j) ==
    /\ CallersMayLeave
    /\ \/ /\ stage[j] \in SubmitStages \cup {"send_failed"}
          /\ stage' = [stage EXCEPT ![j] = "dropped"]
          /\ UNCHANGED inflight
       \/ /\ stage[j] \in FailStages
          /\ stage' = [stage EXCEPT ![j] = IF stage[j] = "send_failed" THEN "given_up" ELSE "abandoned"]
          /\ inflight' = inflight \ {storeOf[j]}
    /\ UNCHANGED <<now, open, storeOf, handles, cancelled, events, registry, queue, task, snapshot, attach, acked>>

Submit(j) ==
    \/ \E s \in Stores : SubmitReserve(j, s)
    \/ SubmitInstallHandle(j)
    \/ SubmitRegister(j)
    \/ SubmitEnqueue(j)
    \/ SubmitSendFails(j)
    \/ SubmitFailSettle(j)
    \/ SubmitFailTearDown(j)
    \/ SubmitDropped(j)

-----------------------------------------------------------------------------
(* run_worker and process_job *)

Busy == {j \in Jobs : stage[j] \in WorkerStages}

WorkerRecv(j) ==
    /\ open
    /\ queue # <<>>
    /\ j = Head(queue)
    /\ Cardinality(Busy) < JobWorkers
    /\ queue' = Tail(queue)
    /\ stage' = [stage EXCEPT ![j] = "dequeued"]
    /\ UNCHANGED <<now, open, storeOf, inflight, handles, cancelled, events, registry, task, snapshot, attach, acked>>

(* Variant: the token is not looked at before the start. *)
WorkerStartJobUnchecked(j) ==
    /\ open
    /\ stage[j] = "dequeued"
    /\ registry' = UpdateEntry(j, Running)
    /\ stage' = [stage EXCEPT ![j] = "starting"]
    /\ UNCHANGED <<now, open, storeOf, inflight, handles, cancelled, events, queue, task, snapshot, attach, acked>>

(* The token check and the resulting registry write share one critical     *)
(* section with cancel's check-and-trigger.                                *)
WorkerStartJob(j) ==
    /\ open
    /\ stage[j] = "dequeued"
    /\ j \notin cancelled
    /\ registry' = UpdateEntry(j, Running)
    /\ stage' = [stage EXCEPT ![j] = "starting"]
    /\ UNCHANGED <<now, open, storeOf, inflight, handles, cancelled, events, queue, task, snapshot, attach, acked>>

WorkerSkipCancelled(j) ==
    /\ open
    /\ stage[j] = "dequeued"
    /\ j \in cancelled
    /\ SettleJob(j, fail_index_job_with_error("job_cancelled"))
    /\ stage' = [stage EXCEPT ![j] = "teardown"]
    /\ UNCHANGED <<now, open, storeOf, inflight, handles, cancelled, events, queue, task, attach, acked>>

(* (queued.task)() builds the future; a panic there is caught, otherwise   *)
(* the future is spawned.                                                  *)
WorkerBuildTask(j) ==
    /\ open
    /\ stage[j] = "starting"
    /\ \E t \in {"live", "build_panic"} : task' = [task EXCEPT ![j] = t]
    /\ stage' = [stage EXCEPT ![j] = "running"]
    /\ UNCHANGED <<now, open, storeOf, inflight, handles, cancelled, events, registry, queue, snapshot, attach, acked>>

(* The task reports through its ProgressSink.  Bounded by MaxProgress.     *)
TaskProgress(j) ==
    /\ open
    /\ task[j] = "live"
    /\ Len(events[j]) < MaxProgress
    /\ events' = [events EXCEPT ![j] = Append(@, Progress)]
    /\ UNCHANGED <<now, open, stage, storeOf, inflight, handles, cancelled, registry, queue, task, snapshot, attach, acked>>

(* The future resolves, also while an abort is only requested: a           *)
(* block_in_place section runs to its end.                                 *)
TaskEnds(j) ==
    /\ open
    /\ task[j] = "live"
    /\ \E r \in TaskResults : task' = [task EXCEPT ![j] = r]
    /\ UNCHANGED <<now, open, stage, storeOf, inflight, handles, cancelled, events, registry, queue, snapshot, attach, acked>>

(* Variant: the in-flight guard is released on the abort request. *)
WorkerAbortReleasing(j) ==
    /\ open
    /\ stage[j] = "running"
    /\ task[j] # "build_panic"
    /\ j \in cancelled
    /\ stage' = [stage EXCEPT ![j] = "aborting"]
    /\ inflight' = inflight \ {storeOf[j]}
    /\ UNCHANGED <<now, open, storeOf, handles, cancelled, events, registry, queue, task, snapshot, attach, acked>>

(* Variant: the cancellation branch forgets handle.abort(). *)
WorkerAbortForgotten(j) ==
    /\ open
    /\ stage[j] = "running"
    /\ j \in cancelled
    /\ UNCHANGED vars

(* select!'s cancellation branch wins and calls handle.abort().            *)
WorkerAbort(j) ==
    /\ open
    /\ stage[j] = "running"
    /\ task[j] # "build_panic"
    /\ j \in cancelled
    /\ stage' = [stage EXCEPT ![j] = "aborting"]
    /\ UNCHANGED <<now, open, storeOf, inflight, handles, cancelled, events, registry, queue, task, snapshot, attach, acked>>

(* The abort pre-empts the task at a yield point: its future is dropped.   *)
TaskAborted(j) ==
    /\ open
    /\ stage[j] = "aborting"
    /\ task[j] = "live"
    /\ task' = [task EXCEPT ![j] = "aborted"]
    /\ UNCHANGED <<now, open, stage, storeOf, inflight, handles, cancelled, events, registry, queue, snapshot, attach, acked>>

(* Variant: the cancellation flag wins over the task's result. *)
JobOutcomeFlagWins(j) ==
    IF j \in cancelled THEN fail_index_job_with_error("job_cancelled")
    ELSE IF task[j] = "ok" THEN complete_index_job
    ELSE fail_index_job_with_error("task_error")

(* What select! and resolve_aborted make of the JoinHandle: a real result  *)
(* wins over the cancellation flag.                                        *)
JobOutcome(j) ==
    IF task[j] = "ok" THEN complete_index_job
    ELSE IF task[j] = "err" THEN fail_index_job_with_error("task_error")
    ELSE IF task[j] = "panic" THEN fail_index_job
    ELSE IF task[j] = "aborted" THEN fail_index_job_with_error("job_cancelled")
    ELSE fail_index_job_with_error("internal")

WorkerRecordOutcome(j) ==
    /\ open
    /\ stage[j] \in {"running", "aborting"}
    /\ task[j] # "live"
    /\ SettleJob(j, JobOutcome(j))
    /\ stage' = [stage EXCEPT ![j] = "teardown"]
    /\ UNCHANGED <<now, open, storeOf, inflight, handles, cancelled, events, queue, task, attach, acked>>

(* Variant: the worker forgets to release the in-flight guard. *)
WorkerTearDownLeaking(j) ==
    /\ open
    /\ stage[j] = "teardown"
    /\ TearDownHandle(j)
    /\ stage' = [stage EXCEPT ![j] = "over"]
    /\ UNCHANGED <<now, open, storeOf, inflight, cancelled, registry, queue, task, snapshot, attach, acked>>

WorkerTearDown(j) ==
    /\ open
    /\ stage[j] = "teardown"
    /\ TearDownHandle(j)
    /\ stage' = [stage EXCEPT ![j] = "release"]
    /\ UNCHANGED <<now, open, storeOf, inflight, cancelled, registry, queue, task, snapshot, attach, acked>>

WorkerRelease(j) ==
    /\ open
    /\ stage[j] = "release"
    /\ inflight' = inflight \ {storeOf[j]}
    /\ stage' = [stage EXCEPT ![j] = "over"]
    /\ UNCHANGED <<now, open, storeOf, handles, cancelled, events, registry, queue, task, snapshot, attach, acked>>

ProcessJob(j) ==
    \/ WorkerRecv(j)
    \/ WorkerStartJob(j)
    \/ WorkerSkipCancelled(j)
    \/ WorkerBuildTask(j)
    \/ TaskProgress(j)
    \/ TaskEnds(j)
    \/ WorkerAbort(j)
    \/ TaskAborted(j)
    \/ WorkerRecordOutcome(j)
    \/ WorkerTearDown(j)
    \/ WorkerRelease(j)

-----------------------------------------------------------------------------
(* cancel and list_jobs *)

(* Check and trigger under one registry write lock.  The refusals          *)
(* (JobNotFound, JobAlreadyTerminal, the missing-handle internal error)    *)
(* change nothing.                                                         *)
Cancel(j) ==
    /\ registry[j] # NoJob
    /\ ~IsTerminal(registry[j])
    /\ j \in handles
    /\ cancelled' = cancelled \cup {j}
    /\ acked' = IF registry[j] = Pending THEN acked \cup {j} ELSE acked
    /\ UNCHANGED <<now, open, stage, storeOf, inflight, handles, events, registry, queue, task, snapshot, attach>>

(* GET /v1/jobs sweeps aged terminal jobs first; no id is protected. *)
ListJobs ==
    /\ registry' = evict_oldest_terminal_jobs_over_cap(registry, NoId)
    /\ UNCHANGED <<now, open, stage, storeOf, inflight, handles, cancelled, events, queue, task, snapshot, attach, acked>>

-----------------------------------------------------------------------------
(* GET /v1/jobs/{id}/events *)

(* A client can only ask for an id that was published at some time. *)
Published(j) == registry[j] # NoJob \/ snapshot[j] # NoJob

AttachStep(a, rec) ==
    /\ attach' = [attach EXCEPT ![a] = rec]
    /\ UNCHANGED <<now, open, stage, storeOf, inflight, handles, cancelled, events, registry, queue, task, snapshot, acked>>

(* job_events' first get_job.  A terminal job is answered with its one     *)
(* `job` frame.                                                            *)
AttachRead(a, j) ==
    /\ attach[a].pc = "idle"
    /\ Published(j)
    /\ AttachStep(a, [IdleAttach EXCEPT !.job = j,
                          !.frame = IF IsTerminal(registry[j]) THEN registry[j] ELSE NoJob,
                          !.pc = IF registry[j] = NoJob THEN "not_found"
                                 ELSE IF IsTerminal(registry[j]) THEN "finished"
                                 ELSE "subscribing"])

(* queue.subscribe: a receiver positioned after everything sent so far, or *)
(* None when the handle is gone.                                           *)
AttachSubscribe(a) ==
    LET j == attach[a].job IN
    /\ attach[a].pc = "subscribing"
    /\ AttachStep(a, IF j \in handles
                     THEN [attach[a] EXCEPT !.pc = "live", !.pos = Len(events[j]) + 1]
                     ELSE [attach[a] EXCEPT !.pc = "rereading"])

(* The second get_job, of a job whose channel was torn down meanwhile. *)
AttachReread(a) ==
    LET j == attach[a].job IN
    /\ attach[a].pc = "rereading"
    /\ AttachStep(a, IF registry[j] = NoJob
                     THEN [attach[a] EXCEPT !.pc = "not_found"]
                     ELSE [attach[a] EXCEPT !.pc = "finished", !.frame = registry[j]])

(* next_job_event on a live receiver: skip ahead when lagged, stream a     *)
(* progress frame, or deliver the terminal one and finish.                 *)
OldestRetained(j) == IF Len(events[j]) > EventCapacity THEN Len(events[j]) - EventCapacity + 1 ELSE 1

AttachLagged(a) ==
    /\ attach[a].pc = "live"
    /\ attach[a].pos < OldestRetained(attach[a].job)
    /\ AttachStep(a, [attach[a] EXCEPT !.pos = OldestRetained(attach[a].job)])

AttachReceive(a) ==
    LET j == attach[a].job
        p == attach[a].pos
    IN /\ attach[a].pc = "live"
       /\ p >= OldestRetained(j)
       /\ p <= Len(events[j])
       /\ AttachStep(a, IF events[j][p].kind = "Terminal"
                        THEN [attach[a] EXCEPT !.pc = "finished", !.frame = events[j][p].job]
                        ELSE [attach[a] EXCEPT !.pos = p + 1])

Attach(a) ==
    \/ \E j \in Jobs : AttachRead(a, j)
    \/ AttachSubscribe(a)
    \/ AttachReread(a)
    \/ AttachLagged(a)
    \/ AttachReceive(a)

-----------------------------------------------------------------------------
(* Environment *)

(* Bounded by MaxTime. *)
Tick ==
    /\ now < MaxTime
    /\ now' = now + 1
    /\ UNCHANGED <<open, stage, storeOf, inflight, handles, cancelled, events, registry, queue, task, snapshot, attach, acked>>

(* The runtime drops the worker tasks, and the receiver with them. *)
ShutDown ==
    /\ MayShutDown
    /\ open
    /\ open' = FALSE
    /\ UNCHANGED <<now, stage, storeOf, inflight, handles, cancelled, events, registry, queue, task, snapshot, attach, acked>>

Next ==
    \/ \E j \in Jobs : Submit(j) \/ ProcessJob(j) \/ Cancel(j)
    \/ ListJobs
    \/ \E a \in Attachers : Attach(a)
    \/ Tick
    \/ ShutDown

Spec == Init /\ [][Next]_vars

-----------------------------------------------------------------------------
(* Fairness.  Every future the runtime has been given is polled again once *)
(* it can make progress, so each step of submit, of a worker and of an SSE *)
(* stream is weakly fair; a blocked `send` queues on tokio's FIFO          *)
(* semaphore, so no other sender overtakes it for ever (strong fairness).  *)
(* An aborted task reaches a yield point.                                  *)
QueueFairness ==
    /\ \A j \in Jobs :
        /\ WF_vars(SubmitInstallHandle(j))
        /\ WF_vars(SubmitRegister(j))
        /\ SF_vars(SubmitEnqueue(j))
        /\ WF_vars(WorkerRecv(j))
        /\ WF_vars(WorkerStartJob(j) \/ WorkerSkipCancelled(j))
        /\ WF_vars(WorkerBuildTask(j))
        /\ WF_vars(WorkerAbort(j))
        /\ WF_vars(TaskAborted(j))
        /\ WF_vars(WorkerRecordOutcome(j))
        /\ WF_vars(WorkerTearDown(j))
        /\ WF_vars(WorkerRelease(j))
    /\ \A a \in Attachers : WF_vars(Attach(a) /\ attach[a].pc # "idle")

(* Ingestion itself ends: every fetch has a timeout and a retry budget.    *)
(* Only the properties that need it assume it; cancellation must work on a *)
(* task that would never end by itself.                                    *)
TasksEnd == \A j \in Jobs : WF_vars(TaskEnds(j))

-----------------------------------------------------------------------------
(* Properties *)

(* Every variable has its type. *)
TypeOK ==
    /\ now \in Nat
    /\ open \in BOOLEAN
    /\ stage \in [Jobs -> Stages]
    /\ storeOf \in [Jobs -> Stores \cup {NoStore}]
    /\ inflight \subseteq Stores
    /\ handles \subseteq Jobs
    /\ cancelled \subseteq Jobs
    /\ events \in [Jobs -> Seq(JobEvents)]
    /\ registry \in [Jobs -> IndexJobs]
    /\ queue \in Seq(Jobs)
    /\ task \in [Jobs -> TaskStates]
    /\ snapshot \in [Jobs -> IndexJobs]
    /\ attach \in [Attachers -> AttachRecs]
    /\ acked \subseteq Jobs

(* Jobs of one store are serialized, whatever the number of workers: no    *)
(* two spawned tasks of the same store are ever alive together, also while *)
(* one of them is only being aborted ("the in-flight guard released below  *)
(* is never premature").                                                   *)
OneTaskPerStore ==
    \A j, k \in Jobs :
        task[j] = "live" /\ task[k] = "live" /\ storeOf[j] = storeOf[k] => j = k

(* cancel() relies on it: a non-terminal registry entry always has its     *)
(* handle, so a cancel of it always reaches a token.                       *)
NonTerminalHasHandle ==
    \A j \in Jobs : registry[j] # NoJob /\ ~IsTerminal(registry[j]) => j \in handles

(* A job whose cancellation was accepted while it was Pending never runs:  *)
(* its task is not even built, and it can only end as job_cancelled (or as *)
(* the queue's own failure when the queue closed under it).                *)
CancelledPendingNeverRuns ==
    \A j \in acked :
        /\ task[j] = "none"
        /\ IsTerminal(registry[j]) =>
             registry[j].code = "job_cancelled" \/ ~open

(* A real result always wins over the cancellation flag: a recorded        *)
(* outcome says what the task really did, and only a task that produced    *)
(* nothing is reported as cancelled.                                       *)
OutcomeIsReal ==
    \A j \in Jobs : IsTerminal(registry[j]) =>
        /\ registry[j].state = "Done" <=> task[j] = "ok"
        /\ registry[j].code = "job_cancelled" =>
             j \in cancelled /\ task[j] \in {"none", "aborted"}

(* A live receiver whose channel has been torn down still has the Terminal *)
(* event ahead of it, inside the ring: next_job_event's Closed arm is      *)
(* unreachable and no lag can cost a subscriber its terminal frame.        *)
TerminalStillAhead ==
    \A a \in Attachers :
        LET j == attach[a].job IN
        attach[a].pc = "live" /\ j \notin handles =>
            /\ attach[a].pos <= Len(events[j])
            /\ events[j][Len(events[j])].kind = "Terminal"

(* Terminal is sent at most once and nothing follows it on the channel. *)
TerminalIsLast ==
    \A j \in Jobs : \A i \in 1..Len(events[j]) :
        events[j][i].kind = "Terminal" => i = Len(events[j])

(* The frame an SSE stream ends with is the job's one final state: never a *)
(* non-terminal one, and the one the registry has for as long as it keeps  *)
(* the job.                                                                *)
FrameIsFinal ==
    \A a \in Attachers :
        LET j == attach[a].job IN
        attach[a].pc = "finished" =>
            /\ IsTerminal(attach[a].frame)
            /\ attach[a].frame = snapshot[j]
            /\ registry[j] \in {attach[a].frame, NoJob}

(* A recorded outcome is final: no later step (a late cancel, another      *)
(* job's eviction) changes it; the entry can only be evicted.              *)
OutcomesAreFinal ==
    [][\A j \in Jobs : IsTerminal(registry[j]) => registry'[j] \in {registry[j], NoJob}]_vars

(* "With the grace, the client's first request always still finds the      *)
(* job": an events request is answered 404 only for a job that was         *)
(* terminal for longer than the grace, also when the job ends between the  *)
(* request's registry read, its subscribe and its second registry read.    *)
NotFoundOnlyAfterGrace ==
    [][\A a \in Attachers :
         attach[a].pc # "not_found" /\ attach'[a].pc = "not_found" =>
            now > snapshot[attach'[a].job].completed_at + Grace]_vars

(* "Shared set of store ids with a job currently queued or running": every *)
(* reserved store has a job that some running future still owns.           *)
GuardMeansQueuedOrRunning ==
    \A s \in inflight : \E j \in Jobs :
        storeOf[j] = s /\ stage[j] \notin {"new", "over"} \cup LeftStages

(* No store stays refused with IndexInProgress for ever, except behind a    *)
(* submission its caller abandoned (the leak GuardMeansQueuedOrRunning is    *)
(* about).                                                                   *)
StoresFreed ==
    TasksEnd => \A s \in Stores :
        s \in inflight ~> \/ s \notin inflight
                         \/ \E j \in Jobs : storeOf[j] = s /\ stage[j] = "dropped"

(* A cancelled running job comes to its end and frees its store even when  *)
(* its task would never have finished.                                     *)
CancelledRunningStops ==
    \A j \in Jobs : registry[j].state = "Running" /\ j \in cancelled ~> stage[j] = "over"

-----------------------------------------------------------------------------
(* The inductive invariant the safety properties rest on, in parts. *)

SettledStages == {"fail_teardown", "abandoned", "teardown", "release", "over"}
ClosedStages  == {"release", "over"}

(* What a job's stage says about its entry, its task and its snapshot. *)
Lifecycle(j) ==
    /\ stage[j] \in {"new", "reserved", "installed"} =>
         registry[j] = NoJob /\ snapshot[j] = NoJob /\ task[j] = "none"
    /\ stage[j] \in {"registered", "queued", "dequeued", "send_failed", "given_up"} =>
         registry[j] = Pending /\ snapshot[j] = NoJob /\ task[j] = "none"
    /\ stage[j] = "dropped" =>
         registry[j] \in {NoJob, Pending} /\ snapshot[j] = NoJob /\ task[j] = "none"
    /\ stage[j] = "starting" =>
         registry[j] = Running /\ snapshot[j] = NoJob /\ task[j] = "none"
    /\ stage[j] = "running" =>
         registry[j] = Running /\ snapshot[j] = NoJob /\ task[j] \notin {"none", "aborted"}
    /\ stage[j] = "aborting" =>
         /\ registry[j] = Running /\ snapshot[j] = NoJob
         /\ task[j] \notin {"none", "build_panic"} /\ j \in cancelled
    /\ stage[j] \in SettledStages =>
         registry[j] \in {snapshot[j], NoJob} /\ IsTerminal(snapshot[j]) /\ task[j] # "live"
    /\ stage[j] \in {"send_failed", "given_up", "fail_teardown", "abandoned"} => ~open

(* A handle lives from before publication to the teardown. *)
HandleSpan(j) ==
    /\ stage[j] \notin {"new", "reserved", "dropped"} \cup ClosedStages => j \in handles
    /\ stage[j] = "dropped" /\ registry[j] = Pending => j \in handles
    /\ stage[j] \in {"new", "reserved"} \cup ClosedStages => j \notin handles

(* Every job between its reservation and its release has its store         *)
(* reserved, for itself alone.                                             *)
Active(j) == stage[j] \notin {"new", "over", "given_up", "abandoned"}

GuardExclusive ==
    /\ \A j \in Jobs : Active(j) => storeOf[j] \in inflight
    /\ \A j, k \in Jobs : Active(j) /\ Active(k) /\ storeOf[j] = storeOf[k] => j = k

QueueHoldsQueued ==
    /\ \A i \in 1..Len(queue) : stage[queue[i]] = "queued"
    /\ \A i, k \in 1..Len(queue) : queue[i] = queue[k] => i = k

CancelAccepted(j) ==
    j \in acked =>
        /\ j \in cancelled
        /\ task[j] = "none"
        /\ stage[j] \notin {"starting", "running", "aborting"}
        /\ stage[j] \in SettledStages => snapshot[j].code = "job_cancelled" \/ ~open

OutcomeRecorded(j) ==
    stage[j] \in SettledStages =>
        /\ snapshot[j].state = "Done" <=> task[j] = "ok"
        /\ snapshot[j].code = "job_cancelled" =>
             j \in cancelled /\ task[j] \in {"none", "aborted"}

(* Only progress before the teardown; afterwards exactly the snapshot last. *)
ChannelContent(j) ==
    /\ \A i \in 1..Len(events[j]) :
         events[j][i].kind = "Terminal" => i = Len(events[j]) /\ stage[j] \in ClosedStages
    /\ stage[j] \in ClosedStages =>
         Len(events[j]) > 0 /\ events[j][Len(events[j])] = Terminal(snapshot[j])

AttachConsistent(a) ==
    LET j == attach[a].job IN
    /\ attach[a].pc \in {"subscribing", "rereading", "live"} =>
         j \in handles \/ stage[j] \in ClosedStages
    /\ attach[a].pc = "rereading" => stage[j] \in ClosedStages
    /\ attach[a].pc = "live" =>
         /\ attach[a].pos \in 1..Len(events[j]) + 1
         /\ stage[j] \in ClosedStages => attach[a].pos <= Len(events[j])
    /\ attach[a].pc = "finished" =>
         stage[j] \in SettledStages /\ attach[a].frame = snapshot[j]

QueueInvariant ==
    /\ TypeOK
    /\ \A j \in Jobs : Lifecycle(j)
    /\ \A j \in Jobs : HandleSpan(j)
    /\ GuardExclusive
    /\ QueueHoldsQueued
    /\ \A j \in Jobs : CancelAccepted(j)
    /\ \A j \in Jobs : OutcomeRecorded(j)
    /\ \A j \in Jobs : ChannelContent(j)
    /\ \A a \in Attachers : AttachConsistent(a)

=============================================================================
