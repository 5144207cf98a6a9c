---------------------------- MODULE IndexCommand ----------------------------
(***************************************************************************)
(* The job queue's clients: `localdb index` and the auto-index of `source   *)
(* add` (cli/src/job_attach.rs, cmds/index.rs, cmds/source.rs).  A command  *)
(* takes its stores one after the other, submits a job for each, follows it *)
(* over SSE, falls back to polling when the stream breaks, and turns the    *)
(* job's end into what it tells the user.  Composes with JobQueue: the      *)
(* client's requests are the queue's own submit, attach and registry reads. *)
(*                                                                          *)
(* transport says whose queue it is: a daemon's, shared with the scheduler  *)
(* and every other command, or the command's own ("embedded": one worker,   *)
(* one client, nobody who could cancel or list).                            *)
(***************************************************************************)
EXTENDS JobQueue

CONSTANTS
    Transports,     \* the transports to consider
    Scopes,         \* [Transports -> the sets of stores a command may be about]
    NetworkFails,   \* a request or a stream to the daemon may break
    MayRestart      \* the daemon may be killed and started again, once

ASSUME CommandAssumption ==
    /\ Transports \subseteq {"daemon", "embedded"}
    /\ Scopes \in [Transports -> SUBSET (SUBSET Stores \ {{}})]
    /\ NetworkFails \in BOOLEAN /\ MayRestart \in BOOLEAN

VARIABLES
    transport,  \* which of them this behaviour is about
    client,     \* [Attachers -> ClientRecs]
    restarted   \* the daemon has been started again

cmdVars == <<vars, transport, client, restarted>>

(* What a command says about one store, with the job it is about.           *)
(* "empty": there was nothing to index, so no job; "refused": no job was    *)
(* accepted; "gone": the job is unknown to the daemon; "unreachable": the   *)
(* daemon stopped answering.                                                *)
Sayings == {"nothing", "empty", "ok", "failed", "refused", "gone", "unreachable"}
Unsaid == [said |-> "nothing", job |-> NoId]

Unused == [pc |-> "unused", strict |-> FALSE, todo |-> {}, store |-> NoStore, job |-> NoId,
           report |-> [s \in Stores |-> Unsaid]]

CommandInit ==
    /\ Init
    /\ transport \in Transports
    /\ client = [c \in Attachers |-> Unused]
    /\ restarted = FALSE

-----------------------------------------------------------------------------
(* One command *)

(* Ids are ULIDs: a later submit gets a greater one. *)
NextId(j) == \A k \in Jobs : stage[k] = "new" => j <= k

(* strict: IndexErrorMode, StrictExit for `index` and WarnAndContinue for    *)
(* the auto-index.  An embedded queue has one user.                          *)
CommandStarts(c, strict, scope) ==
    /\ client[c].pc = "unused"
    /\ transport = "embedded" => \A d \in Attachers : client[d].pc = "unused"
    /\ client' = [client EXCEPT ![c] = [Unused EXCEPT !.pc = "submit", !.strict = strict, !.todo = scope]]
    /\ UNCHANGED <<vars, transport, restarted>>

(* The command has learnt what it will say of store s: a strict one stops   *)
(* at the first store that has failed (exit_err), the other only warns.      *)
Said(c, s, what, j) ==
    LET left == client[c].todo \ {s}
    IN client' = [client EXCEPT ![c] =
         [@ EXCEPT !.pc = IF left = {} \/ (client[c].strict /\ what \notin {"ok", "empty"})
                          THEN "ended" ELSE "submit",
                   !.todo = left, !.store = NoStore, !.job = NoId,
                   !.report[s] = [said |-> what, job |-> j]]]

(* Refused before a job exists: the store is busy (IndexInProgress), the     *)
(* daemon cannot be reached or cannot do --refetch, or, embedded, the        *)
(* sources or the embedder cannot be had.                                    *)
SubmitRefused(c, s) ==
    /\ client[c].pc = "submit" /\ s \in client[c].todo
    /\ Said(c, s, "refused", NoId)
    /\ UNCHANGED <<vars, transport, restarted>>

(* A command of its own looks for the store's sources before it submits. *)
NothingToIndex(c, s) ==
    /\ client[c].pc = "submit" /\ s \in client[c].todo
    /\ transport = "embedded"
    /\ Said(c, s, "empty", NoId)
    /\ UNCHANGED <<vars, transport, restarted>>

(* POST /v1/jobs, or submit on the command's own queue. *)
SubmitJob(c, j, s) ==
    /\ client[c].pc = "submit" /\ s \in client[c].todo
    /\ NextId(j)
    /\ SubmitReserve(j, s)
    /\ client' = [client EXCEPT ![c].pc = "submitting", ![c].job = j, ![c].store = s]
    /\ UNCHANGED <<transport, restarted>>

(* submit answers once the job is in the channel, or has failed because the *)
(* channel is closed; either way the answer is a job.                       *)
SubmitAnswered(c) ==
    /\ client[c].pc = "submitting"
    /\ stage[client[c].job] \notin SubmitStages \cup FailStages
    /\ client' = [client EXCEPT ![c].pc = "attach"]
    /\ UNCHANGED <<vars, transport, restarted>>

(* The request's 30 s timeout: the daemon drops the handler where it waits. *)
SubmitTimesOut(c) ==
    /\ client[c].pc = "submitting" /\ transport = "daemon"
    /\ SubmitDropped(client[c].job)
    /\ Said(c, client[c].store, "refused", NoId)
    /\ UNCHANGED <<transport, restarted>>

(* The answer is lost after submit is done: the job goes on unwatched. *)
AnswerLost(c) ==
    /\ NetworkFails
    /\ client[c].pc = "submitting" /\ transport = "daemon"
    /\ stage[client[c].job] \notin SubmitStages \cup FailStages
    /\ Said(c, client[c].store, "refused", NoId)
    /\ UNCHANGED <<vars, transport, restarted>>

-----------------------------------------------------------------------------
(* attach_daemon_job and drive_embedded_job *)

(* The daemon answers the events request as job_events does, a restarted    *)
(* one with a 404; an embedded command subscribes at once.                  *)
AttachStarts(c) ==
    LET j == client[c].job IN
    /\ client[c].pc = "attach"
    /\ client' = [client EXCEPT ![c].pc = "follow"]
    /\ IF transport = "daemon"
       THEN \/ AttachRead(c, j)
            \/ /\ restarted /\ registry[j] = NoJob
               /\ AttachStep(c, [IdleAttach EXCEPT !.job = j, !.pc = "not_found"])
       ELSE /\ attach[c].pc = "idle"
            /\ AttachStep(c, [IdleAttach EXCEPT !.job = j, !.pc = "subscribing"])
    /\ UNCHANGED <<transport, restarted>>

(* The stream goes on until its `job` frame, or an answer that is not 2xx. *)
Following(c) ==
    /\ client[c].pc = "follow"
    /\ AttachSubscribe(c) \/ AttachReread(c) \/ AttachLagged(c) \/ AttachReceive(c)
    /\ UNCHANGED <<transport, client, restarted>>

(* finish_job.  A job that is not terminal would be an internal error. *)
Verdict(job) == IF job.state = "Done" THEN "ok" ELSE "failed"

FollowEnds(c) ==
    /\ client[c].pc = "follow" /\ attach[c].pc = "finished"
    /\ Said(c, client[c].store, Verdict(attach[c].frame), client[c].job)
    /\ AttachStep(c, IdleAttach)
    /\ UNCHANGED <<transport, restarted>>

(* An answer that is not 2xx, or a connection a dying daemon closed. *)
FallsBackToPolling(c) ==
    /\ client[c].pc = "follow" /\ transport = "daemon"
    /\ attach[c].pc \in {"not_found", "idle"}
    /\ client' = [client EXCEPT ![c].pc = "poll"]
    /\ AttachStep(c, IdleAttach)
    /\ UNCHANGED <<transport, restarted>>

(* The stream or its connection breaks without a `job` frame.  An embedded  *)
(* command has none to lose.                                                *)
StreamBreaks(c) ==
    /\ NetworkFails
    /\ client[c].pc = "follow" /\ transport = "daemon"
    /\ attach[c].pc \notin {"idle", "finished"}
    /\ client' = [client EXCEPT ![c].pc = "poll"]
    /\ AttachStep(c, IdleAttach)
    /\ UNCHANGED <<transport, restarted>>

(* Variant: a job the daemon no longer knows is taken for a finished one. *)
PollGoneIsDone(c) ==
    LET j == client[c].job IN
    /\ client[c].pc = "poll"
    /\ \/ registry[j] = NoJob /\ Said(c, client[c].store, "ok", j)
       \/ IsTerminal(registry[j]) /\ Said(c, client[c].store, Verdict(registry[j]), j)
    /\ UNCHANGED <<vars, transport, restarted>>

(* Variant: only Done counts as an end. *)
PollUntilDone(c) ==
    LET j == client[c].job IN
    /\ client[c].pc = "poll"
    /\ registry[j].state = "Done"
    /\ Said(c, client[c].store, "ok", j)
    /\ UNCHANGED <<vars, transport, restarted>>

(* poll_job_until_terminal: a job that is not terminal is asked for again;  *)
(* an unknown one ends the attempt, and so does a request that fails.       *)
Poll(c) ==
    LET j == client[c].job IN
    /\ client[c].pc = "poll"
    /\ \/ registry[j] = NoJob /\ Said(c, client[c].store, "gone", j)
       \/ IsTerminal(registry[j]) /\ Said(c, client[c].store, Verdict(registry[j]), j)
    /\ UNCHANGED <<vars, transport, restarted>>

PollFails(c) ==
    /\ NetworkFails
    /\ client[c].pc = "poll"
    /\ Said(c, client[c].store, "unreachable", client[c].job)
    /\ UNCHANGED <<vars, transport, restarted>>

CommandStep(c) ==
    \/ \E s \in Stores : SubmitRefused(c, s) \/ NothingToIndex(c, s)
    \/ \E s \in Stores, j \in Jobs : SubmitJob(c, j, s)
    \/ SubmitAnswered(c)
    \/ AttachStarts(c) \/ Following(c) \/ FollowEnds(c)
    \/ FallsBackToPolling(c) \/ Poll(c)

Fault(c) == SubmitTimesOut(c) \/ AnswerLost(c) \/ StreamBreaks(c) \/ PollFails(c)

-----------------------------------------------------------------------------
(* The queue goes on by itself; submissions by others (the scheduler), job   *)
(* cancel and job list reach a daemon's queue only.                          *)
QueueStep ==
    \/ \E j \in Jobs :
        \/ SubmitInstallHandle(j) \/ SubmitRegister(j) \/ SubmitEnqueue(j)
        \/ SubmitSendFails(j) \/ SubmitFailSettle(j) \/ SubmitFailTearDown(j)
        \/ ProcessJob(j)
        \/ /\ transport = "daemon"
           /\ \/ NextId(j) /\ \E s \in Stores : SubmitReserve(j, s)
              \/ Cancel(j)
    \/ transport = "daemon" /\ ListJobs
    \/ Tick
    \/ ShutDown

(* The daemon is killed and started again: its queue lives in memory only,   *)
(* so the new process knows none of the jobs.                                *)
DaemonRestarts ==
    /\ MayRestart /\ ~restarted /\ transport = "daemon"
    /\ restarted' = TRUE
    /\ stage' = [j \in Jobs |-> IF stage[j] = "new" THEN "new" ELSE "over"]
    /\ task' = [j \in Jobs |-> IF task[j] = "live" THEN "aborted" ELSE task[j]]
    /\ registry' = [j \in Jobs |-> NoJob]
    /\ attach' = [c \in Attachers |-> IdleAttach]
    /\ snapshot' = [j \in Jobs |-> NoJob] /\ events' = [j \in Jobs |-> <<>>]
    /\ inflight' = {} /\ handles' = {} /\ queue' = <<>> /\ cancelled' = {} /\ acked' = {}
    /\ UNCHANGED <<now, open, storeOf, transport, client>>

CommandNext ==
    \/ DaemonRestarts
    \/ QueueStep /\ UNCHANGED <<transport, client, restarted>>
    \/ \E c \in Attachers :
        \/ \E strict \in BOOLEAN, scope \in Scopes[transport] : CommandStarts(c, strict, scope)
        \/ CommandStep(c)
        \/ Fault(c)

(* A running command goes on; nothing makes a user start one, and no request *)
(* has to fail.                                                              *)
CommandSpec ==
    /\ CommandInit /\ [][CommandNext]_cmdVars
    /\ QueueFairness
    /\ \A c \in Attachers : WF_cmdVars(CommandStep(c))

-----------------------------------------------------------------------------
(* Properties *)

(* What a command tells the user is what became of its job: "ok" and         *)
(* "failed" are the task's own result, whichever of stream, re-read and      *)
(* polling brought it, for the store that was asked for; and a job is only   *)
(* called unknown when a new daemon answers, or after it has been terminal   *)
(* for longer than the grace.                                                *)
ReportsAreTrue ==
    \A c \in Attachers, s \in Stores :
        LET r == client[c].report[s]
            j == r.job
        IN /\ r.said \in {"ok", "failed"} => storeOf[j] = s /\ task[j] # "live"
           /\ r.said = "ok" => task[j] = "ok"
           /\ r.said = "failed" => task[j] # "ok"
           /\ r.said = "gone" =>
                restarted \/ (IsTerminal(snapshot[j]) /\ now > snapshot[j].completed_at + Grace)

(* Every command comes to its end, also when its stream breaks, its job is   *)
(* cancelled by another command or lost with a daemon that was killed.       *)
CommandsEnd ==
    TasksEnd => \A c \in Attachers : client[c].pc = "submit" ~> client[c].pc = "ended"
=============================================================================
