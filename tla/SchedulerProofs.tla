-------------------------- MODULE SchedulerProofs --------------------------
(***************************************************************************)
(* Proofs about the refresh scheduler, for every set of sources, stores,   *)
(* administrators and jobs, and every interval.  The registration task of  *)
(* the start is over: while it runs a source can be registered twice, and  *)
(* the second registration forgets that it was just refreshed.             *)
(***************************************************************************)
EXTENDS Scheduler, TLAPS

(* A refresh job that has not been stamped yet: it runs, its watcher waits, *)
(* or the loop has submitted it and not spawned the watcher.                *)
Unfinished(s, j) ==
    /\ RefreshOf(s, j)
    /\ jobs[j].phase = "live" \/ jobs[j].watched \/ j \in loop.job

(* The last refresh of s ended an interval ago, and none is under way. *)
Rested(s) == rested[s] >= Interval[s] /\ \A j \in JobIds : ~Unfinished(s, j)

(* The request c will insert or register s. *)
Adding(c, s) == client[c].op \in {"add_upsert", "add_register"} /\ s \in client[c].arg

Types ==
    /\ used \subseteq Sources
    /\ records \in [Sources -> Records]
    /\ \A s \in Sources : records[s].since <= Interval[s]
    /\ loop \in [pc : {"sleeping", "submitting", "marking"}, due : SUBSET Sources,
                 job : SUBSET JobIds]
    /\ jobs \in [JobIds -> JobRecs]
    /\ client \in [Clients -> ClientRecs]
    /\ rested \in [Sources -> Nat]
    /\ boot.pc = "done"

(* What belongs together in a job, in the loop and in a request. *)
Shapes ==
    /\ \A j \in JobIds : \A s \in jobs[j].source : jobs[j].source = {s}
    /\ \A j \in JobIds : jobs[j].watched => jobs[j].phase # "free"
    /\ \A j \in JobIds : jobs[j].phase = "live" /\ jobs[j].source # {} =>
         jobs[j].watched \/ j \in loop.job
    /\ \A j \in loop.job : jobs[j].phase # "free" /\ ~jobs[j].watched /\ jobs[j].source # {}
    /\ loop.pc # "marking" => loop.job = {}
    /\ \A i, j \in loop.job : i = j
    /\ \A c \in Clients : client[c].op \in {"add_upsert", "add_register"} =>
         \E s \in Sources : client[c].arg = {s}

OneUnfinished ==
    \A s \in Sources : \A i, j \in JobIds : Unfinished(s, i) /\ Unfinished(s, j) => i = j

(* A snapshot of the due sources stays right until it is used up. *)
DueRested == \A s \in loop.due : Rested(s)

(* The flag is up as long as a refresh has not been stamped; when it is    *)
(* down, the record does not claim a longer rest than the source had.      *)
FlagTells ==
    \A s \in Sources : records[s].registered =>
        /\ \A j \in JobIds : Unfinished(s, j) /\ j \notin loop.job => records[s].refresh_inflight
        /\ \/ records[s].refresh_inflight
           \/ records[s].since <= rested[s]
           \/ \E j \in loop.job : RefreshOf(s, j)

(* A source is registered once: before that it was never refreshed. *)
AddedOnce ==
    /\ \A s \in Sources : s \notin used \/ (\E c \in Clients : Adding(c, s)) =>
         ~records[s].registered /\ s \notin loop.due /\ Rested(s)
    /\ \A c, d \in Clients : \A s \in Sources : Adding(c, s) /\ Adding(d, s) => c = d
    /\ \A c \in Clients : \A s \in Sources : Adding(c, s) => s \in used

SchedulerInvariant ==
    Types /\ Shapes /\ OneUnfinished /\ DueRested /\ FlagTells /\ AddedOnce

-----------------------------------------------------------------------------
(* Types *)

LEMMA RecordTypes ==
    ASSUME NEW s \in Sources
    PROVE  /\ NoRecord \in Records /\ NoRecord.since <= Interval[s] /\ ~NoRecord.registered
           /\ NewRecord(s) \in Records /\ NewRecord(s).since <= Interval[s]
           /\ NewRecord(s).since = Interval[s] /\ ~NewRecord(s).refresh_inflight
           /\ Interval[s] \in Nat
BY SourceAssumption DEF NoRecord, NewRecord, Records

LEMMA FreeJobType ==
    /\ FreeJob \in JobRecs
    /\ FreeJob.source = {} /\ ~FreeJob.watched /\ FreeJob.phase = "free"
BY DEF FreeJob, JobRecs, JobPhases

(* The steps of the run loop keep the types. *)
LEMMA LoopTypes ==
    ASSUME Types, Shapes, RunLoop
    PROVE  Types'
<1>1. CASE TickDue
  BY <1>1 DEF TickDue, Types, rows
<1>2. ASSUME NEW s \in Sources, NEW j \in JobIds, TickSubmit(s, j) PROVE Types'
  <2>1. [source |-> {s}, store |-> {Home[s]}, phase |-> "live", watched |-> FALSE] \in JobRecs
    BY SourceAssumption DEF JobRecs, JobPhases
  <2> QED
    BY <1>2, <2>1 DEF TickSubmit, Types, rows
<1>3. ASSUME NEW s \in Sources, TickRefused(s) PROVE Types'
  BY <1>3 DEF TickRefused, Types, rows
<1>4. CASE TickMark
  <2>1. PICK j \in loop.job, s \in Sources :
          /\ jobs[j].source = {s}
          /\ records' = [records EXCEPT ![s].refresh_inflight = records[s].registered]
          /\ jobs' = [jobs EXCEPT ![j].watched = TRUE]
    BY <1>4 DEF TickMark
  <2>2. jobs' \in [JobIds -> JobRecs]
    <3>1. jobs \in [JobIds -> JobRecs]
      BY DEF Types
    <3>2. \A i \in JobIds : [jobs[i] EXCEPT !.watched = TRUE] \in JobRecs
      BY <3>1 DEF JobRecs
    <3> QED
      BY <2>1, <3>1, <3>2
  <2>3. /\ records' \in [Sources -> Records]
        /\ \A t \in Sources : records'[t].since = records[t].since
    BY <2>1 DEF Types, Records
  <2>4. UNCHANGED <<used, client, boot, rested>> /\ loop' = [loop EXCEPT !.pc = "submitting", !.job = {}]
    BY <1>4 DEF TickMark, rows
  <2> QED
    BY <2>2, <2>3, <2>4 DEF Types
<1>5. CASE TickDone
  BY <1>5 DEF TickDone, Types, rows
<1> QED
  BY <1>1, <1>2, <1>3, <1>4, <1>5 DEF RunLoop

-----------------------------------------------------------------------------
(* What a step keeps that submits no refresh and starts no other. *)

LEMMA StaysRested ==
    ASSUME SchedulerInvariant, loop'.due \subseteq loop.due,
           \A s \in Sources, j \in JobIds : Unfinished(s, j)' => Unfinished(s, j),
           \A s \in Sources : Rested(s) => rested'[s] >= Interval[s]
    PROVE  OneUnfinished' /\ DueRested' /\ \A s \in Sources : Rested(s) => Rested(s)'
<1>1. OneUnfinished'
  BY DEF SchedulerInvariant, OneUnfinished
<1>2. \A s \in Sources : Rested(s) => Rested(s)'
  BY DEF Rested
<1>3. loop.due \subseteq Sources
  BY DEF SchedulerInvariant, Types
<1> QED
  BY <1>1, <1>2, <1>3 DEF SchedulerInvariant, DueRested

LEMMA StaysToBeAdded ==
    ASSUME SchedulerInvariant, UNCHANGED <<used, client>>, loop'.due \subseteq loop.due,
           \A s \in Sources : Rested(s) => Rested(s)',
           \A s \in Sources : records'[s].registered => records[s].registered
    PROVE  AddedOnce'
BY DEF SchedulerInvariant, AddedOnce, Adding

-----------------------------------------------------------------------------
(* The run loop *)

(* The snapshot: a record that is due is that of a rested source. *)
LEMMA TickDueKeeps ==
    ASSUME SchedulerInvariant, TickDue
    PROVE  SchedulerInvariant'
<1>1. /\ loop.pc = "sleeping" /\ loop' = [loop EXCEPT !.pc = "submitting", !.due = {s \in Sources : is_due(s)}]
      /\ UNCHANGED <<used, records, jobs, client, boot, rested>>
  BY DEF TickDue, rows
<1>2. Types /\ Shapes
  BY DEF SchedulerInvariant
<1>3. loop.job = {} /\ loop'.job = {} /\ loop'.due = {s \in Sources : is_due(s)}
      /\ loop'.pc = "submitting"
  BY <1>1, <1>2 DEF Types, Shapes
<1>4. Types' /\ Shapes'
  BY <1>1, <1>2, <1>3 DEF Types, Shapes, rows
<1>5. \A s \in Sources, j \in JobIds : Unfinished(s, j)' <=> Unfinished(s, j)
  BY <1>1, <1>3 DEF Unfinished, RefreshOf
<1>6. ASSUME NEW s \in Sources, is_due(s) PROVE Rested(s)
  <2>1. /\ records[s].since \in Nat /\ Interval[s] \in Nat /\ rested[s] \in Nat
        /\ records[s].since >= Interval[s]
        /\ records[s].registered /\ ~records[s].refresh_inflight
    BY <1>2, <1>6, SourceAssumption DEF is_due, Types, Records
  <2>2. records[s].since <= rested[s] /\ \A j \in JobIds : ~Unfinished(s, j)
    BY <1>3, <2>1 DEF SchedulerInvariant, FlagTells
  <2> QED
    BY <2>1, <2>2 DEF Rested
<1>7. OneUnfinished' /\ FlagTells'
  BY <1>1, <1>3, <1>5 DEF SchedulerInvariant, OneUnfinished, FlagTells
<1>8. \A s \in Sources : Rested(s)' <=> Rested(s)
  BY <1>1, <1>5 DEF Rested
<1>9. DueRested' /\ AddedOnce'
  BY <1>1, <1>3, <1>6, <1>8 DEF SchedulerInvariant, DueRested, AddedOnce, Adding, is_due
<1> QED
  BY <1>4, <1>7, <1>9 DEF SchedulerInvariant

(* A submission takes a rested source off the snapshot. *)
LEMMA TickSubmitKeeps ==
    ASSUME SchedulerInvariant, NEW s \in Sources, NEW j \in JobIds, TickSubmit(s, j)
    PROVE  SchedulerInvariant'
<1>1. /\ loop.pc = "submitting" /\ s \in loop.due /\ jobs[j].phase = "free"
      /\ loop' = [pc |-> "marking", due |-> loop.due \ {s}, job |-> {j}]
      /\ jobs' = [jobs EXCEPT ![j] =
                    [source |-> {s}, store |-> {Home[s]}, phase |-> "live", watched |-> FALSE]]
      /\ UNCHANGED <<used, records, client, boot, rested>>
  BY DEF TickSubmit, rows
<1>2. /\ Types /\ Shapes /\ Types' /\ loop.job = {}
  BY <1>1, LoopTypes DEF SchedulerInvariant, RunLoop, Shapes
<1>3. /\ jobs'[j].source = {s} /\ jobs'[j].phase = "live" /\ ~jobs'[j].watched
      /\ \A k \in JobIds \ {j} : jobs'[k] = jobs[k]
      /\ loop'.pc = "marking" /\ loop'.due = loop.due \ {s} /\ loop'.job = {j}
  BY <1>1, <1>2 DEF Types
<1>4. Shapes'
  BY <1>1, <1>2, <1>3 DEF Shapes
<1>5. /\ \A t \in Sources \ {s}, k \in JobIds : Unfinished(t, k)' <=> Unfinished(t, k)
      /\ \A k \in JobIds : Unfinished(s, k)' <=> k = j
      /\ \A k \in JobIds : ~Unfinished(s, k)
  <2>1. \A k \in JobIds : ~Unfinished(s, k)
    BY <1>1 DEF SchedulerInvariant, DueRested, Rested
  <2>2. \A t \in Sources, k \in JobIds : k # j => (Unfinished(t, k)' <=> Unfinished(t, k))
    BY <1>2, <1>3 DEF Unfinished, RefreshOf
  <2>3. \A t \in Sources : ~Unfinished(t, j) /\ (Unfinished(t, j)' <=> t = s)
    BY <1>1, <1>2, <1>3 DEF Unfinished, RefreshOf
  <2> QED
    BY <2>1, <2>2, <2>3
<1>6. OneUnfinished'
  BY <1>5 DEF SchedulerInvariant, OneUnfinished
<1>7. \A t \in Sources \ {s} : Rested(t) => Rested(t)'
  BY <1>1, <1>5 DEF Rested
<1>8. DueRested'
  BY <1>2, <1>3, <1>7 DEF SchedulerInvariant, DueRested, Types
<1>9. FlagTells'
  <2>1. \A t \in Sources \ {s} : \A k \in loop'.job : ~RefreshOf(t, k)'
    BY <1>3 DEF RefreshOf
  <2>2. \E k \in loop'.job : RefreshOf(s, k)'
    BY <1>3 DEF RefreshOf
  <2> QED
    BY <1>1, <1>2, <1>3, <1>5, <2>2 DEF SchedulerInvariant, FlagTells
<1>10. AddedOnce'
  BY <1>1, <1>3, <1>7 DEF SchedulerInvariant, AddedOnce, Adding
<1> QED
  BY <1>2, <1>4, <1>6, <1>8, <1>9, <1>10 DEF SchedulerInvariant

(* The mark: the flag goes up before the loop looks at anything else. *)
LEMMA TickMarkKeeps ==
    ASSUME SchedulerInvariant, TickMark
    PROVE  SchedulerInvariant'
<1>1. Types /\ Shapes /\ Types'
  BY LoopTypes DEF SchedulerInvariant, RunLoop
<1>2. PICK j \in loop.job, s \in Sources :
        /\ jobs[j].source = {s}
        /\ records' = [records EXCEPT ![s].refresh_inflight = records[s].registered]
        /\ jobs' = [jobs EXCEPT ![j].watched = TRUE]
  BY DEF TickMark
<1>3. /\ loop.pc = "marking" /\ loop' = [loop EXCEPT !.pc = "submitting", !.job = {}]
      /\ UNCHANGED <<used, client, boot, rested>>
  BY DEF TickMark, rows
<1>4. /\ j \in JobIds /\ loop.job = {j}
      /\ loop'.pc = "submitting" /\ loop'.job = {} /\ loop'.due = loop.due
      /\ jobs'[j].source = {s} /\ jobs'[j].phase = jobs[j].phase /\ jobs'[j].watched
      /\ \A k \in JobIds \ {j} : jobs'[k] = jobs[k]
      /\ records'[s].registered = records[s].registered
      /\ records'[s].since = records[s].since
      /\ records[s].registered => records'[s].refresh_inflight
      /\ \A t \in Sources \ {s} : records'[t] = records[t]
  <2>1. j \in JobIds /\ loop.job = {j}
    BY <1>1, <1>2 DEF Types, Shapes
  <2>2. records[s] \in Records /\ jobs[j] \in JobRecs
    BY <1>1, <2>1 DEF Types
  <2>3. records'[s] = [records[s] EXCEPT !.refresh_inflight = records[s].registered]
    BY <1>1, <1>2 DEF Types
  <2>4. jobs'[j] = [jobs[j] EXCEPT !.watched = TRUE]
    BY <1>1, <1>2, <2>1 DEF Types
  <2>5. \A k \in JobIds \ {j} : jobs'[k] = jobs[k]
    BY <1>1, <1>2 DEF Types
  <2>6. \A t \in Sources \ {s} : records'[t] = records[t]
    BY <1>1, <1>2 DEF Types
  <2>7. loop'.pc = "submitting" /\ loop'.job = {} /\ loop'.due = loop.due
    BY <1>1, <1>3 DEF Types
  <2> QED
    BY <1>2, <2>1, <2>2, <2>3, <2>4, <2>5, <2>6, <2>7 DEF Records, JobRecs
<1>5. Shapes'
  BY <1>1, <1>2, <1>3, <1>4 DEF Shapes
<1>6. /\ \A t \in Sources, k \in JobIds : RefreshOf(t, k)' <=> RefreshOf(t, k)
      /\ \A t \in Sources, k \in JobIds : Unfinished(t, k)' <=> Unfinished(t, k)
  BY <1>2, <1>4 DEF Unfinished, RefreshOf
<1>7. /\ OneUnfinished' /\ DueRested'
      /\ \A t \in Sources : Rested(t) => Rested(t)'
  BY <1>3, <1>4, <1>6, StaysRested DEF Rested
<1>8. AddedOnce'
  BY <1>3, <1>4, <1>7, StaysToBeAdded
<1>9. FlagTells'
  <2>1. \A t \in Sources \ {s} : ~RefreshOf(t, j)
    BY <1>2 DEF RefreshOf
  <2>2. ASSUME NEW t \in Sources, records'[t].registered
        PROVE  /\ \A k \in JobIds : Unfinished(t, k)' => records'[t].refresh_inflight
               /\ records'[t].refresh_inflight \/ records'[t].since <= rested'[t]
    <3>1. CASE t = s
      BY <1>4, <2>2, <3>1
    <3>2. CASE t # s
      <4>1. records'[t] = records[t] /\ ~Unfinished(t, j)
        BY <1>4, <2>1, <3>2 DEF Unfinished
      <4> QED
        BY <1>3, <1>4, <1>6, <2>1, <2>2, <3>2, <4>1 DEF SchedulerInvariant, FlagTells
    <3> QED
      BY <3>1, <3>2
  <2> QED
    BY <2>2 DEF FlagTells
<1> QED
  BY <1>1, <1>5, <1>7, <1>8, <1>9 DEF SchedulerInvariant

(* A refused submission and the end of a tick. *)
LEMMA TickGoesOn ==
    ASSUME SchedulerInvariant, (\E s \in Sources : TickRefused(s)) \/ TickDone
    PROVE  SchedulerInvariant'
<1>1. /\ loop.pc = "submitting" /\ loop'.pc \in {"submitting", "sleeping"}
      /\ loop'.due \subseteq loop.due /\ loop'.job = loop.job
      /\ UNCHANGED <<used, records, jobs, client, boot, rested>>
  BY DEF TickRefused, TickDone, rows, SchedulerInvariant, Types
<1>2. Types' /\ Shapes'
  BY <1>1, LoopTypes DEF SchedulerInvariant, RunLoop, Shapes
<1>3. \A s \in Sources, j \in JobIds : Unfinished(s, j)' <=> Unfinished(s, j)
  BY <1>1 DEF Unfinished, RefreshOf
<1>4. /\ OneUnfinished' /\ DueRested'
      /\ \A s \in Sources : Rested(s) => Rested(s)'
  BY <1>1, <1>3, StaysRested DEF Rested
<1>5. AddedOnce'
  BY <1>1, <1>4, StaysToBeAdded
<1>6. FlagTells'
  BY <1>1, <1>3 DEF SchedulerInvariant, FlagTells, RefreshOf
<1> QED
  BY <1>2, <1>4, <1>5, <1>6 DEF SchedulerInvariant

-----------------------------------------------------------------------------
(* The queue's jobs, the watchers and the clock *)

(* A refresh that ends starts its source's rest; it was not a rested one. *)
LEMMA JobSettlesKeeps ==
    ASSUME SchedulerInvariant, NEW j \in JobIds, JobSettles(j)
    PROVE  SchedulerInvariant'
<1>1. /\ jobs[j].phase = "live" /\ jobs' = [jobs EXCEPT ![j].phase = "settled"]
      /\ rested' = [s \in Sources |-> IF s \in jobs[j].source THEN 0 ELSE rested[s]]
      /\ UNCHANGED <<used, records, loop, client, boot>>
  BY DEF JobSettles, rows
<1>2. Types /\ Shapes
  BY DEF SchedulerInvariant
<1>3. /\ jobs'[j] = [jobs[j] EXCEPT !.phase = "settled"] /\ jobs[j] \in JobRecs
      /\ \A k \in JobIds \ {j} : jobs'[k] = jobs[k]
  BY <1>1, <1>2 DEF Types
<1>4. /\ jobs'[j].source = jobs[j].source /\ jobs'[j].watched = jobs[j].watched
      /\ jobs'[j].phase = "settled" /\ jobs'[j] \in JobRecs
  BY <1>3 DEF JobRecs, JobPhases
<1>5. Types'
  BY <1>1, <1>2, <1>3, <1>4 DEF Types
<1>6. Shapes'
  BY <1>1, <1>2, <1>3, <1>4 DEF Shapes
<1>7. /\ \A s \in Sources, k \in JobIds : RefreshOf(s, k)' <=> RefreshOf(s, k)
      /\ \A s \in Sources, k \in JobIds : Unfinished(s, k)' <=> Unfinished(s, k)
  <2>1. \A s \in Sources, k \in JobIds : RefreshOf(s, k)' <=> RefreshOf(s, k)
    BY <1>1, <1>3, <1>4 DEF RefreshOf
  <2>2. \A s \in Sources : RefreshOf(s, j) => jobs[j].watched \/ j \in loop.job
    BY <1>1, <1>2 DEF RefreshOf, Shapes
  <2> QED
    BY <1>1, <1>3, <1>4, <2>1, <2>2 DEF Unfinished
<1>8. \A s \in Sources : s \in jobs[j].source => Unfinished(s, j)
  BY <1>1, <1>2 DEF Unfinished, RefreshOf, Shapes
<1>9. /\ OneUnfinished' /\ DueRested'
      /\ \A s \in Sources : Rested(s) => Rested(s)'
  BY <1>1, <1>7, <1>8, StaysRested DEF Rested
<1>10. AddedOnce'
  BY <1>1, <1>9, StaysToBeAdded
<1>11. FlagTells'
  <2>1. ASSUME NEW s \in Sources, records[s].registered
        PROVE  \/ records[s].refresh_inflight
               \/ records[s].since <= rested'[s]
               \/ \E k \in loop.job : RefreshOf(s, k)
    <3>1. CASE s \in jobs[j].source
      BY <1>8, <2>1, <3>1 DEF SchedulerInvariant, FlagTells, Unfinished
    <3>2. CASE s \notin jobs[j].source
      BY <1>1, <2>1, <3>2 DEF SchedulerInvariant, FlagTells
    <3> QED
      BY <3>1, <3>2
  <2>2. \A s \in Sources : \A k \in loop.job : RefreshOf(s, k)' <=> RefreshOf(s, k)
    BY <1>2, <1>7 DEF Types
  <2> QED
    BY <1>1, <1>7, <2>1, <2>2 DEF SchedulerInvariant, FlagTells
<1> QED
  BY <1>5, <1>6, <1>9, <1>10, <1>11 DEF SchedulerInvariant

(* The store is given back; a job nothing refers to is forgotten. *)
LEMMA JobReleasesKeeps ==
    ASSUME SchedulerInvariant, NEW j \in JobIds, JobReleases(j)
    PROVE  SchedulerInvariant'
<1>1. /\ jobs[j].phase = "settled"
      /\ jobs' = [jobs EXCEPT ![j] = IF jobs[j].watched \/ j \in loop.job
                                     THEN [jobs[j] EXCEPT !.phase = "released"] ELSE FreeJob]
      /\ UNCHANGED <<used, records, loop, client, boot, rested>>
  BY DEF JobReleases, rows
<1>2. Types /\ Shapes
  BY DEF SchedulerInvariant
<1>3. /\ jobs'[j] = IF jobs[j].watched \/ j \in loop.job
                    THEN [jobs[j] EXCEPT !.phase = "released"] ELSE FreeJob
      /\ jobs[j] \in JobRecs
      /\ \A k \in JobIds \ {j} : jobs'[k] = jobs[k]
  BY <1>1, <1>2 DEF Types
<1>4. /\ jobs'[j] \in JobRecs
      /\ \/ /\ jobs[j].watched \/ j \in loop.job
            /\ jobs'[j].source = jobs[j].source /\ jobs'[j].watched = jobs[j].watched
            /\ jobs'[j].phase = "released"
         \/ /\ ~jobs[j].watched /\ j \notin loop.job
            /\ jobs'[j].source = {} /\ ~jobs'[j].watched /\ jobs'[j].phase = "free"
  <2>1. CASE jobs[j].watched \/ j \in loop.job
    <3>1. jobs'[j] = [jobs[j] EXCEPT !.phase = "released"]
      BY <1>3, <2>1
    <3> QED
      BY <1>3, <2>1, <3>1 DEF JobRecs, JobPhases
  <2>2. CASE ~(jobs[j].watched \/ j \in loop.job)
    <3>1. jobs'[j] = FreeJob
      BY <1>3, <2>2
    <3> QED
      BY <2>2, <3>1, FreeJobType
  <2> QED
    BY <2>1, <2>2
<1>5. Types'
  BY <1>1, <1>2, <1>3, <1>4 DEF Types
<1>6. Shapes'
  BY <1>1, <1>2, <1>3, <1>4 DEF Shapes
<1>7. /\ \A s \in Sources, k \in JobIds : Unfinished(s, k)' <=> Unfinished(s, k)
      /\ \A s \in Sources : \A k \in loop.job : RefreshOf(s, k)' <=> RefreshOf(s, k)
  BY <1>1, <1>2, <1>3, <1>4 DEF Unfinished, RefreshOf, Types
<1>8. /\ OneUnfinished' /\ DueRested'
      /\ \A s \in Sources : Rested(s) => Rested(s)'
  BY <1>1, <1>7, StaysRested DEF Rested
<1>9. AddedOnce'
  BY <1>1, <1>8, StaysToBeAdded
<1>10. FlagTells'
  BY <1>1, <1>7 DEF SchedulerInvariant, FlagTells
<1> QED
  BY <1>5, <1>6, <1>8, <1>9, <1>10 DEF SchedulerInvariant

(* The watcher of the one unfinished refresh stamps the record, which then *)
(* claims no rest at all.                                                  *)
LEMMA WatcherStampsKeeps ==
    ASSUME SchedulerInvariant, NEW j \in JobIds, WatcherStamps(j)
    PROVE  SchedulerInvariant'
<1>1. /\ jobs[j].watched /\ ChannelClosed(j)
      /\ records' = [s \in Sources |->
                       IF s \in jobs[j].source /\ records[s].registered
                       THEN [records[s] EXCEPT !.since = 0, !.refresh_inflight = FALSE]
                       ELSE records[s]]
      /\ jobs' = [jobs EXCEPT ![j] = IF jobs[j].phase = "settled"
                                     THEN [jobs[j] EXCEPT !.watched = FALSE] ELSE FreeJob]
      /\ UNCHANGED <<used, loop, client, boot, rested>>
  BY DEF WatcherStamps, rows
<1>2. Types /\ Shapes
  BY DEF SchedulerInvariant
<1>3. /\ jobs'[j] = IF jobs[j].phase = "settled"
                    THEN [jobs[j] EXCEPT !.watched = FALSE] ELSE FreeJob
      /\ jobs[j] \in JobRecs
      /\ \A k \in JobIds \ {j} : jobs'[k] = jobs[k]
  BY <1>1, <1>2 DEF Types
<1>4. /\ jobs'[j] \in JobRecs /\ ~jobs'[j].watched
      /\ \/ jobs'[j].phase = "settled" /\ jobs'[j].source = jobs[j].source
         \/ jobs'[j].phase = "free" /\ jobs'[j].source = {}
      /\ j \notin loop.job
  <2>1. j \notin loop.job
    BY <1>1, <1>2 DEF Shapes
  <2>2. CASE jobs[j].phase = "settled"
    <3>1. jobs'[j] = [jobs[j] EXCEPT !.watched = FALSE]
      BY <1>3, <2>2
    <3> QED
      BY <1>3, <2>1, <2>2, <3>1 DEF JobRecs
  <2>3. CASE jobs[j].phase # "settled"
    <3>1. jobs'[j] = FreeJob
      BY <1>3, <2>3
    <3> QED
      BY <2>1, <3>1, FreeJobType
  <2> QED
    BY <2>2, <2>3
<1>5. /\ records' \in [Sources -> Records]
      /\ \A s \in Sources : records'[s].since <= Interval[s]
      /\ \A s \in Sources : records'[s].registered = records[s].registered
  <2>1. ASSUME NEW s \in Sources
        PROVE  records'[s] \in Records /\ records'[s].since <= Interval[s]
               /\ records'[s].registered = records[s].registered
    <3>1. records[s] \in Records /\ records[s].since <= Interval[s] /\ Interval[s] \in Nat
      BY <1>2, RecordTypes DEF Types
    <3>2. CASE s \in jobs[j].source /\ records[s].registered
      <4>1. records'[s] = [records[s] EXCEPT !.since = 0, !.refresh_inflight = FALSE]
        BY <1>1, <3>2
      <4>2. records'[s] = [registered |-> records[s].registered, since |-> 0,
                           refresh_inflight |-> FALSE]
        BY <3>1, <4>1 DEF Records
      <4> QED
        BY <3>1, <4>2 DEF Records
    <3>3. CASE ~(s \in jobs[j].source /\ records[s].registered)
      <4>1. records'[s] = records[s]
        BY <1>1, <3>3
      <4> QED
        BY <3>1, <4>1
    <3> QED
      BY <3>2, <3>3
  <2> QED
    BY <1>1, <2>1
<1>6. Types'
  BY <1>1, <1>2, <1>3, <1>4, <1>5 DEF Types
<1>7. Shapes'
  <2>k. \A k \in JobIds \ {j} : jobs'[k] = jobs[k]
    BY <1>3
  <2>1. /\ \A k \in JobIds : \A s \in jobs'[k].source : jobs'[k].source = {s}
        /\ \A k \in JobIds : jobs'[k].watched => jobs'[k].phase # "free"
        /\ \A k \in JobIds : jobs'[k].phase = "live" /\ jobs'[k].source # {} =>
             jobs'[k].watched \/ k \in loop.job
    BY <1>2, <2>k, <1>4 DEF Shapes
  <2>2. \A k \in loop.job : jobs'[k].phase # "free" /\ ~jobs'[k].watched /\ jobs'[k].source # {}
    BY <1>2, <2>k, <1>4 DEF Shapes, Types
  <2> QED
    BY <1>1, <1>2, <2>1, <2>2 DEF Shapes
<1>8. /\ \A s \in Sources, k \in JobIds \ {j} : RefreshOf(s, k)' <=> RefreshOf(s, k)
      /\ \A s \in Sources, k \in JobIds \ {j} : Unfinished(s, k)' <=> Unfinished(s, k)
      /\ \A s \in Sources : ~Unfinished(s, j)'
  BY <1>1, <1>3, <1>4 DEF Unfinished, RefreshOf
<1>9. /\ OneUnfinished' /\ DueRested'
      /\ \A s \in Sources : Rested(s) => Rested(s)'
  BY <1>1, <1>8, StaysRested DEF Rested
<1>10. AddedOnce'
  BY <1>1, <1>5, <1>9, StaysToBeAdded
<1>11. FlagTells'
  <2>1. ASSUME NEW s \in Sources, records'[s].registered
        PROVE  /\ \A k \in JobIds : Unfinished(s, k)' /\ k \notin loop.job => records'[s].refresh_inflight
               /\ \/ records'[s].refresh_inflight
                  \/ records'[s].since <= rested[s]
                  \/ \E k \in loop.job : RefreshOf(s, k)'
    <3>1. CASE s \in jobs[j].source
      <4>1. Unfinished(s, j)
        BY <1>1, <1>2, <3>1 DEF Unfinished, RefreshOf, Shapes
      <4>2. \A k \in JobIds : ~Unfinished(s, k)'
        BY <1>8, <4>1 DEF SchedulerInvariant, OneUnfinished
      <4>3. records'[s].since = 0 /\ rested[s] \in Nat
        BY <1>1, <1>2, <1>5, <2>1, <3>1 DEF Types, Records
      <4> QED
        BY <4>2, <4>3
    <3>2. CASE s \notin jobs[j].source
      <4>1. records'[s] = records[s]
        BY <1>1, <3>2
      <4>2. \A k \in loop.job : RefreshOf(s, k)' <=> RefreshOf(s, k)
        BY <1>2, <1>4, <1>8 DEF Types
      <4> QED
        BY <1>8, <2>1, <4>1, <4>2 DEF SchedulerInvariant, FlagTells
    <3> QED
      BY <3>1, <3>2
  <2> QED
    BY <1>1, <2>1 DEF FlagTells
<1> QED
  BY <1>6, <1>7, <1>9, <1>10, <1>11 DEF SchedulerInvariant

(* A job submitted by a client is nobody's refresh. *)
LEMMA OtherJobKeeps ==
    ASSUME SchedulerInvariant, NEW n \in Names, NEW j \in JobIds, OtherJob(n, j)
    PROVE  SchedulerInvariant'
<1>1. /\ jobs[j].phase = "free"
      /\ jobs' = [jobs EXCEPT ![j] = [FreeJob EXCEPT !.store = {n}, !.phase = "live"]]
      /\ UNCHANGED <<used, records, loop, client, boot, rested>>
  BY DEF OtherJob, rows
<1>2. Types /\ Shapes
  BY DEF SchedulerInvariant
<1>3. /\ jobs'[j] = [FreeJob EXCEPT !.store = {n}, !.phase = "live"]
      /\ \A k \in JobIds \ {j} : jobs'[k] = jobs[k]
  BY <1>1, <1>2 DEF Types
<1>4. /\ jobs'[j] \in JobRecs /\ jobs'[j].source = {} /\ ~jobs'[j].watched
      /\ j \notin loop.job /\ ~jobs[j].watched
  <2>1. jobs'[j] = [source |-> {}, store |-> {n}, phase |-> "live", watched |-> FALSE]
    BY <1>3 DEF FreeJob
  <2>2. j \notin loop.job /\ ~jobs[j].watched
    BY <1>1, <1>2 DEF Shapes
  <2> QED
    BY <2>1, <2>2 DEF JobRecs, JobPhases
<1>5. Types' /\ Shapes'
  BY <1>1, <1>2, <1>3, <1>4 DEF Types, Shapes
<1>6. /\ \A s \in Sources, k \in JobIds : Unfinished(s, k)' <=> Unfinished(s, k)
      /\ \A s \in Sources : \A k \in loop.job : RefreshOf(s, k)' <=> RefreshOf(s, k)
  BY <1>1, <1>2, <1>3, <1>4 DEF Unfinished, RefreshOf, Types
<1>7. /\ OneUnfinished' /\ DueRested'
      /\ \A s \in Sources : Rested(s) => Rested(s)'
  BY <1>1, <1>6, StaysRested DEF Rested
<1>8. AddedOnce'
  BY <1>1, <1>7, StaysToBeAdded
<1>9. FlagTells'
  BY <1>1, <1>6 DEF SchedulerInvariant, FlagTells
<1> QED
  BY <1>5, <1>7, <1>8, <1>9 DEF SchedulerInvariant

(* Time passes for a record and for the source's rest alike. *)
LEMMA ClockKeeps ==
    ASSUME SchedulerInvariant, Clock
    PROVE  SchedulerInvariant'
<1>1. /\ records' = [s \in Sources |->
                       [records[s] EXCEPT !.since =
                          IF records[s].registered /\ @ < Interval[s] THEN @ + 1 ELSE @]]
      /\ rested' = Older(rested)
      /\ UNCHANGED <<used, loop, jobs, client, boot>>
  BY DEF Clock, rows
<1>2. Types /\ Shapes /\ \A s \in Sources : Interval[s] \in Nat
  BY SourceAssumption DEF SchedulerInvariant
<1>3. ASSUME NEW s \in Sources
      PROVE  /\ records'[s] \in Records /\ records'[s].since <= Interval[s]
             /\ records'[s].registered = records[s].registered
             /\ records'[s].refresh_inflight = records[s].refresh_inflight
             /\ records'[s].since = IF records[s].registered /\ records[s].since < Interval[s]
                                    THEN records[s].since + 1 ELSE records[s].since
             /\ records[s].since \in Nat
             /\ rested[s] \in Nat /\ rested'[s] \in Nat
             /\ rested'[s] = IF rested[s] < Interval[s] THEN rested[s] + 1 ELSE rested[s]
  BY <1>1, <1>2 DEF Types, Records, Older
<1>4. Types'
  <2>1. rested' \in [Sources -> Nat] /\ records' \in [Sources -> Records]
    BY <1>1, <1>3 DEF Older
  <2> QED
    BY <1>1, <1>2, <1>3, <2>1 DEF Types
<1>5. Shapes'
  BY <1>1, <1>2 DEF Shapes
<1>6. \A s \in Sources, j \in JobIds : Unfinished(s, j)' <=> Unfinished(s, j)
  BY <1>1 DEF Unfinished, RefreshOf
<1>7. /\ OneUnfinished' /\ DueRested'
      /\ \A s \in Sources : Rested(s) => Rested(s)'
  BY <1>1, <1>2, <1>3, <1>6, StaysRested DEF Rested
<1>8. AddedOnce'
  BY <1>1, <1>3, <1>7, StaysToBeAdded
<1>9. FlagTells'
  <2>1. ASSUME NEW s \in Sources, records[s].since <= rested[s]
        PROVE  records'[s].since <= rested'[s]
    BY <1>2, <1>3, <2>1 DEF Types
  <2>2. loop' = loop /\ \A s \in Sources, j \in JobIds : RefreshOf(s, j)' <=> RefreshOf(s, j)
    BY <1>1 DEF RefreshOf
  <2>3. ASSUME NEW s \in Sources, records[s].registered
        PROVE  /\ \A j \in JobIds : Unfinished(s, j) /\ j \notin loop.job => records[s].refresh_inflight
               /\ \/ records[s].refresh_inflight
                  \/ records[s].since <= rested[s]
                  \/ \E j \in loop.job : RefreshOf(s, j)
    BY <2>3 DEF SchedulerInvariant, FlagTells
  <2>4. \A s \in Sources : /\ records'[s].registered = records[s].registered
                           /\ records'[s].refresh_inflight = records[s].refresh_inflight
    BY <1>3
  <2>5. loop.job \subseteq JobIds
    BY <1>2 DEF Types
  <2> QED
    BY <1>6, <2>1, <2>2, <2>3, <2>4, <2>5 DEF FlagTells
<1> QED
  BY <1>4, <1>5, <1>7, <1>8, <1>9 DEF SchedulerInvariant

-----------------------------------------------------------------------------
(* Administration *)

(* A request's step that registers nothing: what it is adding it was       *)
(* adding before, and a record is as it was or gone.                       *)
LEMMA RegistersNothing ==
    ASSUME SchedulerInvariant, NEW c \in Clients, NEW next \in ClientRecs,
           client' = [client EXCEPT ![c] = next],
           next.op \in {"add_upsert", "add_register"} =>
             /\ client[c].op \in {"add_upsert", "add_register"}
             /\ next.arg = client[c].arg,
           UNCHANGED <<used, loop, jobs, boot, rested>>,
           records' \in [Sources -> Records],
           \A s \in Sources : records'[s] \in {records[s], NoRecord}
    PROVE  SchedulerInvariant'
<1>1. Types /\ Shapes
  BY DEF SchedulerInvariant
<1>2. client' \in [Clients -> ClientRecs]
      /\ \A d \in Clients : client'[d] = IF d = c THEN next ELSE client[d]
  BY <1>1 DEF Types
<1>3. \A s \in Sources : /\ records'[s].since <= Interval[s]
                         /\ records'[s].registered => records'[s] = records[s]
  BY <1>1, RecordTypes DEF Types
<1>4. Types'
  BY <1>1, <1>2, <1>3 DEF Types
<1>5. Shapes'
  <2>1. \A d \in Clients : client'[d].op \in {"add_upsert", "add_register"} =>
          \E s \in Sources : client'[d].arg = {s}
    BY <1>1, <1>2 DEF Shapes
  <2> QED
    BY <1>1, <2>1 DEF Shapes
<1>6. \A s \in Sources, j \in JobIds : Unfinished(s, j)' <=> Unfinished(s, j)
  BY DEF Unfinished, RefreshOf
<1>7. /\ OneUnfinished' /\ DueRested'
      /\ \A s \in Sources : Rested(s) => Rested(s)'
  BY <1>6, StaysRested DEF Rested
<1>8. \A d \in Clients : \A s \in Sources : Adding(d, s)' => Adding(d, s)
  BY <1>2 DEF Adding
<1>9. AddedOnce'
  <2>1. \A s \in Sources : s \notin used' \/ (\E d \in Clients : Adding(d, s)') =>
          ~records'[s].registered /\ s \notin loop'.due /\ Rested(s)'
    BY <1>3, <1>7, <1>8 DEF SchedulerInvariant, AddedOnce
  <2> QED
    BY <1>8, <2>1 DEF SchedulerInvariant, AddedOnce
<1>10. FlagTells'
  BY <1>3, <1>6 DEF SchedulerInvariant, FlagTells, RefreshOf
<1> QED
  BY <1>4, <1>5, <1>7, <1>9, <1>10 DEF SchedulerInvariant

(* A new id is taken by one request, and never was a job's. *)
LEMMA AddSourceKeeps ==
    ASSUME SchedulerInvariant, NEW c \in Clients, NEW s \in Sources, AddSource(c, s),
           storeId \in [Names -> Nat]
    PROVE  SchedulerInvariant'
<1> DEFINE next == [op |-> "add_upsert", arg |-> {s}, sid |-> storeId[Home[s]], todo |-> {}]
<1>1. /\ client[c] = Idle /\ s \notin used /\ used' = used \cup {s}
      /\ client' = [client EXCEPT ![c] = next]
      /\ UNCHANGED <<records, loop, jobs, boot, rested>>
  BY DEF AddSource, Become
<1>2. Types /\ Shapes
  BY DEF SchedulerInvariant
<1>3. next \in ClientRecs
  BY SourceAssumption DEF ClientRecs
<1>4. /\ client' \in [Clients -> ClientRecs]
      /\ client'[c].op = "add_upsert" /\ client'[c].arg = {s}
      /\ \A d \in Clients \ {c} : client'[d] = client[d]
  BY <1>1, <1>2, <1>3 DEF Types
<1>5. Types' /\ Shapes'
  BY <1>1, <1>2, <1>4 DEF Types, Shapes
<1>6. \A t \in Sources, j \in JobIds : Unfinished(t, j)' <=> Unfinished(t, j)
  BY <1>1 DEF Unfinished, RefreshOf
<1>7. /\ OneUnfinished' /\ DueRested'
      /\ \A t \in Sources : Rested(t) => Rested(t)'
  BY <1>1, <1>6, StaysRested DEF Rested
<1>8. \A d \in Clients : ~Adding(d, s)
  BY <1>1 DEF SchedulerInvariant, AddedOnce
<1>9. \A d \in Clients, t \in Sources : Adding(d, t)' => Adding(d, t) \/ (d = c /\ t = s)
  BY <1>4 DEF Adding
<1>10. AddedOnce'
  BY <1>1, <1>7, <1>8, <1>9 DEF SchedulerInvariant, AddedOnce
<1>11. FlagTells'
  BY <1>1, <1>6 DEF SchedulerInvariant, FlagTells, RefreshOf
<1> QED
  BY <1>5, <1>7, <1>10, <1>11 DEF SchedulerInvariant

(* The one registration of a source finds it rested, as its record says. *)
LEMMA AddSourceRegisterKeeps ==
    ASSUME SchedulerInvariant, NEW c \in Clients, AddSourceRegister(c)
    PROVE  SchedulerInvariant'
<1>1. Types /\ Shapes
  BY DEF SchedulerInvariant
<1>2. PICK s \in Sources : client[c].arg = {s}
  BY <1>1 DEF AddSourceRegister, Shapes
<1>3. /\ client[c].op = "add_register" /\ client' = [client EXCEPT ![c] = Idle]
      /\ records' = [records EXCEPT ![s] = NewRecord(s)]
      /\ UNCHANGED <<used, loop, jobs, boot, rested>>
  BY <1>2 DEF AddSourceRegister, Become, register, rows
<1>4. Adding(c, s)
  BY <1>2, <1>3 DEF Adding
<1>5. /\ Idle \in ClientRecs
      /\ client' \in [Clients -> ClientRecs] /\ client'[c] = Idle
      /\ \A d \in Clients \ {c} : client'[d] = client[d]
  BY <1>1, <1>3 DEF Types, Idle, ClientRecs
<1>6. /\ records' \in [Sources -> Records] /\ records'[s] = NewRecord(s)
      /\ \A t \in Sources \ {s} : records'[t] = records[t]
  BY <1>1, <1>3, RecordTypes DEF Types
<1>7. Types'
  BY <1>1, <1>3, <1>5, <1>6, RecordTypes DEF Types
<1>8. Shapes'
  <2>1. \A d \in Clients : client'[d].op \in {"add_upsert", "add_register"} =>
          \E t \in Sources : client'[d].arg = {t}
    BY <1>1, <1>5 DEF Shapes, Idle
  <2> QED
    BY <1>1, <1>3, <2>1 DEF Shapes
<1>9. \A t \in Sources, j \in JobIds : Unfinished(t, j)' <=> Unfinished(t, j)
  BY <1>3 DEF Unfinished, RefreshOf
<1>10. /\ OneUnfinished' /\ DueRested'
       /\ \A t \in Sources : Rested(t) => Rested(t)'
  BY <1>3, <1>9, StaysRested DEF Rested
<1>11. \A d \in Clients, t \in Sources : Adding(d, t)' => Adding(d, t) /\ t # s
  <2>1. \A d \in Clients, t \in Sources : Adding(d, t)' => Adding(d, t) /\ d # c
    BY <1>5 DEF Adding, Idle
  <2> QED
    BY <1>4, <2>1 DEF SchedulerInvariant, AddedOnce
<1>12. s \in used
  BY <1>4 DEF SchedulerInvariant, AddedOnce
<1>13. AddedOnce'
  <2>1. \A t \in Sources : t \notin used' \/ (\E d \in Clients : Adding(d, t)') =>
          ~records'[t].registered /\ t \notin loop'.due /\ Rested(t)'
    BY <1>3, <1>6, <1>10, <1>11, <1>12 DEF SchedulerInvariant, AddedOnce
  <2> QED
    BY <1>3, <1>11, <2>1 DEF SchedulerInvariant, AddedOnce
<1>14. FlagTells'
  <2>1. Rested(s)
    BY <1>4 DEF SchedulerInvariant, AddedOnce
  <2>2. /\ \A j \in JobIds : ~Unfinished(s, j)'
        /\ records'[s].since <= rested[s]
    BY <1>6, <1>9, <2>1, RecordTypes DEF Rested
  <2> QED
    BY <1>3, <1>6, <1>9, <2>2 DEF SchedulerInvariant, FlagTells, RefreshOf
<1> QED
  BY <1>7, <1>8, <1>10, <1>13, <1>14 DEF SchedulerInvariant

(* Store ids are numbers. *)
StoreIds == storeId \in [Names -> Nat] /\ lastId \in Nat

LEMMA StoreIdsKept ==
    ASSUME StoreIds, [Next]_vars
    PROVE  StoreIds'
<1>1. CASE \E n \in Names : AddStore(n)
  BY <1>1 DEF AddStore, StoreIds
<1>2. ASSUME UNCHANGED <<storeId, lastId>> PROVE StoreIds'
  BY <1>2 DEF StoreIds
<1>3. ASSUME NEW c \in Clients, Admin(c) PROVE StoreIds'
  <2>1. CASE RemoveStoreDelete(c)
    <3>1. PICK n : storeId' = [storeId EXCEPT ![n] = IF @ = client[c].sid THEN 0 ELSE @]
      BY <2>1 DEF RemoveStoreDelete
    <3>2. ASSUME NEW m \in Names PROVE storeId'[m] \in {storeId[m], 0}
      BY <3>1 DEF StoreIds
    <3>3. /\ lastId' = lastId
          /\ storeId' = [m \in Names |-> storeId'[m]]
      BY <2>1, <3>1 DEF RemoveStoreDelete, StoreIds
    <3> QED
      BY <3>2, <3>3 DEF StoreIds
  <2>2. CASE ~RemoveStoreDelete(c)
    BY <1>2, <1>3, <2>2 DEF Admin, AddSource, AddSourceUpsert, AddSourceRegister, RemoveSource,
       RemoveSourceUnregister, RemoveStore, RemoveStoreList, RemoveStoreUnregister, rows
  <2> QED
    BY <2>1, <2>2
<1>4. CASE RunLoop \/ Boot \/ Clock \/ UNCHANGED vars
  BY <1>2, <1>4 DEF RunLoop, TickDue, TickSubmit, TickRefused, TickMark, TickDone, Boot,
     BootListStores, BootListSources, BootRegister, BootDone, Clock, rows, vars
<1>5. CASE \E j \in JobIds : \/ JobSettles(j) \/ JobReleases(j) \/ WatcherStamps(j)
                             \/ \E n \in Names : OtherJob(n, j)
  BY <1>2, <1>5 DEF JobSettles, JobReleases, WatcherStamps, OtherJob, rows
<1> QED
  BY <1>1, <1>3, <1>4, <1>5 DEF Next

(* The administration calls. *)
LEMMA AdminKeeps ==
    ASSUME SchedulerInvariant, StoreIds, NEW c \in Clients, Admin(c)
    PROVE  SchedulerInvariant'
<1>1. /\ Types /\ client[c] \in ClientRecs
      /\ Idle \in ClientRecs /\ Idle.op = "idle"
      /\ records \in [Sources -> Records] /\ NoRecord \in Records
  BY DEF SchedulerInvariant, Types, Idle, ClientRecs, NoRecord, Records
<1>2. ASSUME NEW s \in Sources, AddSource(c, s) PROVE SchedulerInvariant'
  BY <1>2, AddSourceKeeps DEF StoreIds
<1>3. CASE AddSourceRegister(c)
  BY <1>3, AddSourceRegisterKeeps
<1>4. CASE AddSourceUpsert(c)
  <2>1. /\ client[c].op = "add_upsert"
        /\ client' \in {[client EXCEPT ![c] = [client[c] EXCEPT !.op = "add_register"]],
                        [client EXCEPT ![c] = Idle]}
        /\ UNCHANGED <<used, records, loop, jobs, boot, rested>>
    BY <1>4 DEF AddSourceUpsert, Become
  <2>2. /\ [client[c] EXCEPT !.op = "add_register"] \in ClientRecs
        /\ [client[c] EXCEPT !.op = "add_register"].arg = client[c].arg
    BY <1>1 DEF ClientRecs
  <2>3. records' \in [Sources -> Records] /\ \A s \in Sources : records'[s] \in {records[s], NoRecord}
    BY <1>1, <2>1
  <2> QED
    BY <1>1, <2>1, <2>2, <2>3, RegistersNothing
<1>5. ASSUME NEW next \in ClientRecs, next.op \notin {"add_upsert", "add_register"},
             Become(c, next), UNCHANGED <<used, loop, jobs, boot, rested>>,
             \/ UNCHANGED records
             \/ \E s \in Sources : unregister(s)
      PROVE  SchedulerInvariant'
  <2>1. records' \in [Sources -> Records] /\ \A s \in Sources : records'[s] \in {records[s], NoRecord}
    BY <1>1, <1>5 DEF unregister
  <2> QED
    BY <1>5, <2>1, RegistersNothing DEF Become
<1>6. ASSUME NEW s \in Sources, RemoveSource(c, s) PROVE SchedulerInvariant'
  <2> DEFINE next == [Idle EXCEPT !.op = "remove_unregister", !.arg = {s}]
  <2>1. next \in ClientRecs /\ next.op = "remove_unregister"
    BY <1>1 DEF ClientRecs
  <2>2. Become(c, next) /\ UNCHANGED <<used, records, loop, jobs, boot, rested>>
    BY <1>6 DEF RemoveSource
  <2> HIDE DEF next
  <2> QED
    BY <1>5, <2>1, <2>2
<1>7. CASE RemoveSourceUnregister(c)
  <2>1. client[c].arg \subseteq Sources \cup Names /\ Become(c, Idle)
        /\ UNCHANGED <<used, loop, jobs, boot, rested>>
    BY <1>1, <1>7 DEF RemoveSourceUnregister, ClientRecs, rows
  <2>2. UNCHANGED records \/ \E s \in Sources : unregister(s)
    BY <1>1, <1>7 DEF RemoveSourceUnregister, unregister
  <2> QED
    BY <1>1, <1>5, <2>1, <2>2
<1>8. ASSUME NEW n \in Names, RemoveStore(c, n) PROVE SchedulerInvariant'
  <2>1. [op |-> "store_list", arg |-> {n}, sid |-> storeId[n], todo |-> {}] \in ClientRecs
    BY DEF ClientRecs, StoreIds
  <2> QED
    BY <1>5, <1>8, <2>1 DEF RemoveStore, rows
<1>9. CASE RemoveStoreList(c)
  <2>1. PICK n \in client[c].arg :
          Become(c, [client[c] EXCEPT !.op = "store_unregister", !.todo = RowsOf(n, client[c].sid)])
    BY <1>9 DEF RemoveStoreList
  <2> DEFINE next == [client[c] EXCEPT !.op = "store_unregister", !.todo = RowsOf(n, client[c].sid)]
  <2>2. RowsOf(n, client[c].sid) \subseteq Sources
    BY DEF RowsOf
  <2>4. next \in ClientRecs /\ next.op = "store_unregister"
    BY <1>1, <2>2 DEF ClientRecs
  <2> QED
    BY <1>5, <1>9, <2>1, <2>4 DEF RemoveStoreList, rows
<1>10. ASSUME NEW s \in Sources, RemoveStoreUnregister(c, s) PROVE SchedulerInvariant'
  <2> DEFINE next == [client[c] EXCEPT !.todo = @ \ {s}]
  <2>1. /\ client[c].op = "store_unregister" /\ Become(c, next) /\ unregister(s)
        /\ UNCHANGED <<used, loop, jobs, boot, rested>>
    BY <1>10 DEF RemoveStoreUnregister, rows
  <2>2. next \in ClientRecs /\ next.op = client[c].op
    BY <1>1 DEF ClientRecs
  <2> QED
    BY <1>5, <2>1, <2>2
<1>11. CASE RemoveStoreDelete(c)
  BY <1>1, <1>5, <1>11 DEF RemoveStoreDelete
<1> QED
  BY <1>2, <1>3, <1>4, <1>6, <1>7, <1>8, <1>9, <1>10, <1>11 DEF Admin

(* The invariant is inductive once the registration task is over. *)
LEMMA StepKeeps ==
    ASSUME SchedulerInvariant, StoreIds, [Next]_vars
    PROVE  SchedulerInvariant'
<1>1. CASE RunLoop
  BY <1>1, TickDueKeeps, TickSubmitKeeps, TickMarkKeeps, TickGoesOn DEF RunLoop
<1>2. ASSUME NEW j \in JobIds, JobSettles(j) \/ JobReleases(j) \/ WatcherStamps(j)
      PROVE  SchedulerInvariant'
  BY <1>2, JobSettlesKeeps, JobReleasesKeeps, WatcherStampsKeeps
<1>3. ASSUME NEW n \in Names, NEW j \in JobIds, OtherJob(n, j) PROVE SchedulerInvariant'
  BY <1>3, OtherJobKeeps
<1>4. ASSUME NEW c \in Clients, Admin(c) PROVE SchedulerInvariant'
  BY <1>4, AdminKeeps
<1>5. CASE Clock
  BY <1>5, ClockKeeps
<1>6. CASE Boot
  BY <1>6 DEF SchedulerInvariant, Types, Boot, BootListStores, BootListSources, BootRegister, BootDone
<1>7. CASE (\E n \in Names : AddStore(n)) \/ UNCHANGED vars
  <2>1. UNCHANGED <<used, records, loop, jobs, client, boot, rested>>
    BY <1>7 DEF AddStore, vars
  <2>2. Types' /\ Shapes'
    BY <2>1 DEF SchedulerInvariant, Types, Shapes
  <2>3. \A s \in Sources, j \in JobIds : Unfinished(s, j)' <=> Unfinished(s, j)
    BY <2>1 DEF Unfinished, RefreshOf
  <2>4. /\ OneUnfinished' /\ DueRested'
        /\ \A s \in Sources : Rested(s) => Rested(s)'
    BY <2>1, <2>3, StaysRested DEF Rested
  <2>5. AddedOnce'
    BY <2>1, <2>4, StaysToBeAdded
  <2>6. FlagTells'
    BY <2>1, <2>3 DEF SchedulerInvariant, FlagTells, RefreshOf
  <2> QED
    BY <2>2, <2>4, <2>5, <2>6 DEF SchedulerInvariant
<1> QED
  BY <1>1, <1>2, <1>3, <1>4, <1>5, <1>6, <1>7 DEF Next

LEMMA InitHolds ==
    ASSUME Init, BootOverlaps = FALSE
    PROVE  SchedulerInvariant /\ StoreIds
<1>1. \A s \in Sources : records[s] = NewRecord(s) \/ (records[s] = NoRecord /\ s \notin used)
  BY DEF Init
<1>2. Types /\ StoreIds
  BY RecordTypes, FreeJobType, SourceAssumption DEF Init, Types, StoreIds, Idle, ClientRecs
<1>3. /\ \A j \in JobIds : jobs[j] = FreeJob
      /\ loop.pc = "sleeping" /\ loop.due = {} /\ loop.job = {}
      /\ \A c \in Clients : client[c].op = "idle"
  BY DEF Init, Idle
<1>4. \A s \in Sources, j \in JobIds : ~Unfinished(s, j)
  BY <1>3, FreeJobType DEF Unfinished, RefreshOf
<1>5. \A s \in Sources : rested[s] = Interval[s] /\ Interval[s] \in Nat
  BY SourceAssumption DEF Init
<1>6. Shapes
  BY <1>3, FreeJobType DEF Shapes
<1>7. AddedOnce /\ DueRested /\ OneUnfinished
  BY <1>1, <1>3, <1>4, <1>5, RecordTypes DEF AddedOnce, DueRested, OneUnfinished, Rested, Adding, Init
<1>8. FlagTells
  BY <1>1, <1>4, <1>5, RecordTypes DEF FlagTells
<1> QED
  BY <1>2, <1>6, <1>7, <1>8 DEF SchedulerInvariant

(* The invariant holds of every behaviour in which the registration task   *)
(* ended before the requests began.                                        *)
THEOREM SchedulerInvariantHolds ==
    ASSUME BootOverlaps = FALSE
    PROVE  Spec => [](SchedulerInvariant /\ StoreIds)
<1>1. Init => SchedulerInvariant /\ StoreIds
  BY InitHolds
<1>2. SchedulerInvariant /\ StoreIds /\ [Next]_vars => (SchedulerInvariant /\ StoreIds)'
  BY StepKeeps, StoreIdsKept
<1> QED
  BY <1>1, <1>2, PTL DEF Spec

(* A refresh is only submitted when the source's previous one ended at     *)
(* least an interval ago, however requests, ticks, jobs and the watchers'  *)
(* late stamps interleave.                                                 *)
THEOREM IntervalWaitedOut ==
    ASSUME BootOverlaps = FALSE
    PROVE  Spec => WaitsOutTheInterval
<1>1. ASSUME SchedulerInvariant, [Next]_vars, NEW s \in Sources, NEW j \in JobIds,
             ~RefreshOf(s, j), RefreshOf(s, j)'
      PROVE  rested[s] >= Interval[s]
  <2>0. Types
    BY <1>1 DEF SchedulerInvariant
  <2>1. ASSUME jobs' = jobs PROVE FALSE
    BY <1>1, <2>1 DEF RefreshOf
  <2>2. ASSUME NEW t \in Sources, NEW k \in JobIds, TickSubmit(t, k) PROVE rested[s] >= Interval[s]
    <3>1. t = s
      BY <1>1, <2>0, <2>2 DEF TickSubmit, RefreshOf, Types
    <3> QED
      BY <1>1, <2>2, <3>1 DEF TickSubmit, SchedulerInvariant, DueRested, Rested
  <2>3. ASSUME NEW k \in JobIds, \A i \in JobIds \ {k} : jobs'[i] = jobs[i],
               jobs'[k].source \in {jobs[k].source, {}},
               jobs[k].phase = "free" => jobs'[k].source = {}
        PROVE  FALSE
    BY <1>1, <2>3 DEF RefreshOf
  <2>4. CASE TickMark
    <3>1. PICK k \in loop.job : jobs' = [jobs EXCEPT ![k].watched = TRUE]
      BY <2>4 DEF TickMark
    <3>2. k \in JobIds /\ jobs[k].phase # "free" /\ jobs[k] \in JobRecs
      BY <1>1, <2>0 DEF SchedulerInvariant, Shapes, Types
    <3>3. /\ jobs'[k] = [jobs[k] EXCEPT !.watched = TRUE]
          /\ \A i \in JobIds \ {k} : jobs'[i] = jobs[i]
      BY <2>0, <3>1, <3>2 DEF Types
    <3>4. jobs'[k].source = jobs[k].source
      BY <3>2, <3>3 DEF JobRecs
    <3> QED
      BY <2>3, <3>2, <3>3, <3>4
  <2>5. ASSUME NEW k \in JobIds, JobSettles(k) \/ JobReleases(k) \/ WatcherStamps(k)
        PROVE  FALSE
    <3>1. jobs[k].phase # "free" /\ jobs[k] \in JobRecs
      BY <1>1, <2>0, <2>5 DEF JobSettles, JobReleases, WatcherStamps, SchedulerInvariant, Shapes, Types
    <3>2. PICK next \in {[jobs[k] EXCEPT !.phase = "settled"], [jobs[k] EXCEPT !.phase = "released"],
                         [jobs[k] EXCEPT !.watched = FALSE], FreeJob} :
            jobs' = [jobs EXCEPT ![k] = next]
      BY <2>5 DEF JobSettles, JobReleases, WatcherStamps
    <3>3. jobs'[k] = next /\ \A i \in JobIds \ {k} : jobs'[i] = jobs[i]
      BY <2>0, <3>2 DEF Types
    <3>4. next.source \in {jobs[k].source, {}}
      BY <3>1, <3>2, FreeJobType DEF JobRecs
    <3> QED
      BY <2>3, <3>1, <3>3, <3>4
  <2>6. ASSUME NEW n \in Names, NEW k \in JobIds, OtherJob(n, k) PROVE FALSE
    <3>1. /\ jobs'[k] = [FreeJob EXCEPT !.store = {n}, !.phase = "live"]
          /\ \A i \in JobIds \ {k} : jobs'[i] = jobs[i]
      BY <2>0, <2>6 DEF OtherJob, Types
    <3>2. jobs'[k].source = {}
      BY <3>1 DEF FreeJob
    <3> QED
      BY <2>3, <3>1, <3>2
  <2>7. CASE \/ \E c \in Clients : Admin(c)
             \/ \E n \in Names : AddStore(n)
             \/ Boot \/ Clock \/ UNCHANGED vars
    BY <2>1, <2>7 DEF Admin, AddSource, AddSourceUpsert, AddSourceRegister, RemoveSource,
       RemoveSourceUnregister, RemoveStore, RemoveStoreList, RemoveStoreUnregister,
       RemoveStoreDelete, AddStore, Boot, BootListStores, BootListSources, BootRegister, BootDone,
       Clock, vars
  <2>8. CASE TickDue \/ (\E t \in Sources : TickRefused(t)) \/ TickDone
    BY <2>1, <2>8 DEF TickDue, TickRefused, TickDone
  <2> QED
    BY <1>1, <2>2, <2>4, <2>5, <2>6, <2>7, <2>8 DEF Next, RunLoop
<1>2. SchedulerInvariant /\ [Next]_vars =>
        [\A s \in Sources, j \in JobIds :
           ~RefreshOf(s, j) /\ RefreshOf(s, j)' => rested[s] >= Interval[s]]_vars
  BY <1>1
<1> QED
  BY <1>2, SchedulerInvariantHolds, PTL DEF Spec, WaitsOutTheInterval

-----------------------------------------------------------------------------
(* The records follow the rows.  Of two administrators one can register a   *)
(* source whose store the other has just deleted, so the theorem is about   *)
(* requests that are made one after the other.                              *)
OneAdministrator == \A c, d \in Clients : c = d

(* Between the two halves of a request the row and the record of s differ. *)
Underway(c, s) ==
    \/ client[c].op \in {"add_upsert", "add_register", "remove_unregister"} /\ s \in client[c].arg
    \/ client[c].op = "store_unregister" /\ Home[s] \in client[c].arg

(* What the request in progress has found and has not undone yet. *)
AddGoesOn(c) ==
    /\ client[c].op = "add_upsert" => \A s \in client[c].arg :
         row[s] = 0 /\ client[c].sid = storeId[Home[s]] /\ client[c].sid # 0
    /\ client[c].op = "add_register" => \A s \in client[c].arg : row[s] # 0

RemoveGoesOn(c) ==
    client[c].op = "remove_unregister" => \E s \in Sources : client[c].arg = {s} /\ row[s] = 0

(* Of the store's sources those still to do are the registered ones. *)
RemoveStoreGoesOn(c) ==
    client[c].op \in {"store_list", "store_unregister"} => \E n \in Names :
      /\ client[c].arg = {n} /\ client[c].sid = storeId[n] /\ client[c].sid # 0
      /\ client[c].op = "store_unregister" =>
           /\ client[c].todo \subseteq RowsOf(n, client[c].sid)
           /\ \A s \in Sources : Home[s] = n => (records[s].registered <=> s \in client[c].todo)

RowsOfTheStore ==
    /\ row \in [Sources -> Nat]
    /\ \A s \in Sources : row[s] # 0 => row[s] = storeId[Home[s]]

RequestsGoOn == \A c \in Clients : AddGoesOn(c) /\ RemoveGoesOn(c) /\ RemoveStoreGoesOn(c)

OthersMatch ==
    \A s \in Sources : (\A c \in Clients : ~Underway(c, s)) => (records[s].registered <=> row[s] # 0)

RecordsAgree == RowsOfTheStore /\ RequestsGoOn /\ OthersMatch

(* With one administrator its request is all that is in progress. *)
RequestGoesOn(c) ==
    /\ AddGoesOn(c) /\ RemoveGoesOn(c) /\ RemoveStoreGoesOn(c)
    /\ \A s \in Sources : ~Underway(c, s) => (records[s].registered <=> row[s] # 0)

LEMMA OneRequest ==
    ASSUME OneAdministrator, NEW c \in Clients
    PROVE  /\ RequestsGoOn /\ OthersMatch <=> RequestGoesOn(c)
           /\ RequestsGoOn' /\ OthersMatch' <=> RequestGoesOn(c)'
<1>1. \A d \in Clients : d = c
  BY DEF OneAdministrator
<1> QED
  BY <1>1 DEF RequestsGoOn, OthersMatch, RequestGoesOn

(* A step that leaves the rows, the requests and the registrations alone. *)
LEMMA AgreementUntouched ==
    ASSUME RecordsAgree, UNCHANGED <<storeId, row, client>>,
           \A s \in Sources : records'[s].registered <=> records[s].registered
    PROVE  RecordsAgree'
<1>1. RowsOfTheStore'
  BY DEF RecordsAgree, RowsOfTheStore
<1>2. \A c \in Clients : AddGoesOn(c)' /\ RemoveGoesOn(c)'
  BY DEF RecordsAgree, RequestsGoOn, AddGoesOn, RemoveGoesOn
<1>3. \A c \in Clients : RemoveStoreGoesOn(c)'
  BY DEF RecordsAgree, RequestsGoOn, RemoveStoreGoesOn, RowsOf
<1>4. OthersMatch'
  BY DEF RecordsAgree, OthersMatch, Underway
<1> QED
  BY <1>1, <1>2, <1>3, <1>4 DEF RecordsAgree, RequestsGoOn

(* The loop, the watchers and the clock change no registration. *)
LEMMA RegistrationsStay ==
    ASSUME SchedulerInvariant,
           \/ RunLoop \/ Clock \/ UNCHANGED vars
           \/ \E j \in JobIds : \/ JobSettles(j) \/ JobReleases(j) \/ WatcherStamps(j)
                                \/ \E n \in Names : OtherJob(n, j)
    PROVE  /\ UNCHANGED <<storeId, row, client>>
           /\ \A s \in Sources : records'[s].registered <=> records[s].registered
<1>1. UNCHANGED <<storeId, row, client>>
  BY DEF RunLoop, TickDue, TickSubmit, TickRefused, TickMark, TickDone, Clock, JobSettles,
     JobReleases, WatcherStamps, OtherJob, rows, vars
<1>2. \A s \in Sources : records[s] \in Records
  BY DEF SchedulerInvariant, Types
<1>3. ASSUME TickMark, NEW s \in Sources PROVE records'[s].registered <=> records[s].registered
  <2>1. PICK t \in Sources : records' = [records EXCEPT ![t].refresh_inflight = records[t].registered]
    BY <1>3 DEF TickMark
  <2>2. records'[s] = IF s = t THEN [records[s] EXCEPT !.refresh_inflight = records[s].registered]
                      ELSE records[s]
    BY <2>1 DEF SchedulerInvariant, Types
  <2> QED
    BY <1>2, <2>2 DEF Records
<1>4. ASSUME NEW j \in JobIds, WatcherStamps(j), NEW s \in Sources
      PROVE  records'[s].registered <=> records[s].registered
  <2>1. records'[s] = IF s \in jobs[j].source /\ records[s].registered
                      THEN [records[s] EXCEPT !.since = 0, !.refresh_inflight = FALSE]
                      ELSE records[s]
    BY <1>4 DEF WatcherStamps
  <2> QED
    BY <1>2, <2>1 DEF Records
<1>5. ASSUME Clock, NEW s \in Sources PROVE records'[s].registered <=> records[s].registered
  <2>1. \E x : records'[s] = [records[s] EXCEPT !.since = x]
    BY <1>5 DEF Clock
  <2> QED
    BY <1>2, <2>1 DEF Records
<1>6. \/ UNCHANGED records \/ TickMark \/ Clock
      \/ \E j \in JobIds : WatcherStamps(j)
  BY DEF RunLoop, TickDue, TickSubmit, TickRefused, TickDone, JobSettles, JobReleases, OtherJob, vars
<1> QED
  BY <1>1, <1>3, <1>4, <1>5, <1>6

(* A new store has no rows yet, and no request is about it. *)
LEMMA AddStoreAgrees ==
    ASSUME RecordsAgree, StoreIds, NEW n \in Names, AddStore(n)
    PROVE  RecordsAgree'
<1>1. /\ storeId[n] = 0 /\ UNCHANGED <<row, records, client>>
      /\ \A m \in Names : m # n => storeId'[m] = storeId[m]
  BY DEF AddStore, StoreIds
<1>2. RowsOfTheStore'
  BY <1>1, SourceAssumption DEF RecordsAgree, RowsOfTheStore
<1>3. ASSUME NEW c \in Clients PROVE AddGoesOn(c)' /\ RemoveGoesOn(c)'
  <2>1. AddGoesOn(c) /\ RemoveGoesOn(c)
    BY DEF RecordsAgree, RequestsGoOn
  <2>2. ASSUME client[c].op = "add_upsert", NEW s \in client[c].arg
        PROVE  storeId'[Home[s]] = storeId[Home[s]]
    <3>1. storeId[Home[s]] # 0 /\ Home[s] # n
      BY <1>1, <2>1, <2>2 DEF AddGoesOn
    <3> QED
      BY <3>1 DEF AddStore
  <2> QED
    BY <1>1, <2>1, <2>2 DEF AddGoesOn, RemoveGoesOn
<1>4. ASSUME NEW c \in Clients PROVE RemoveStoreGoesOn(c)'
  BY <1>1 DEF RecordsAgree, RequestsGoOn, RemoveStoreGoesOn, RowsOf
<1>5. OthersMatch'
  BY <1>1 DEF RecordsAgree, OthersMatch, Underway
<1> QED
  BY <1>2, <1>3, <1>4, <1>5 DEF RecordsAgree, RequestsGoOn

(* A new source has no row: nobody is concerned with it. *)
LEMMA AddSourceAgrees ==
    ASSUME SchedulerInvariant, RecordsAgree, OneAdministrator, NEW c \in Clients,
           NEW s \in Sources, AddSource(c, s)
    PROVE  RecordsAgree'
<1> DEFINE next == [op |-> "add_upsert", arg |-> {s}, sid |-> storeId[Home[s]], todo |-> {}]
<1>1. /\ client[c] = Idle /\ s \notin used /\ storeId[Home[s]] # 0
      /\ client' = [client EXCEPT ![c] = next]
      /\ UNCHANGED <<storeId, row, records>>
  BY DEF AddSource, Become
<1>2. client'[c] = next
  BY <1>1 DEF SchedulerInvariant, Types
<1>3. RequestGoesOn(c)
  BY OneRequest DEF RecordsAgree
<1>4. \A t \in Sources : ~Underway(c, t)
  BY <1>1 DEF Underway, Idle
<1>5. row[s] = 0
  BY <1>1, <1>3, <1>4 DEF RequestGoesOn, SchedulerInvariant, AddedOnce
<1>6. AddGoesOn(c)' /\ RemoveGoesOn(c)' /\ RemoveStoreGoesOn(c)'
  BY <1>1, <1>2, <1>5 DEF AddGoesOn, RemoveGoesOn, RemoveStoreGoesOn
<1>7. \A t \in Sources : records'[t].registered <=> row'[t] # 0
  BY <1>1, <1>3, <1>4 DEF RequestGoesOn
<1>8. RowsOfTheStore'
  BY <1>1 DEF RecordsAgree, RowsOfTheStore
<1> QED
  BY <1>6, <1>7, <1>8, OneRequest DEF RecordsAgree, RequestGoesOn

LEMMA AddSourceUpsertAgrees ==
    ASSUME SchedulerInvariant, RecordsAgree, StoreIds, OneAdministrator, NEW c \in Clients,
           AddSourceUpsert(c)
    PROVE  RecordsAgree'
<1>1. RequestGoesOn(c) /\ RowsOfTheStore /\ client[c] \in ClientRecs
  BY OneRequest DEF RecordsAgree, SchedulerInvariant, Types
<1>2. PICK s \in Sources : client[c].arg = {s}
  BY DEF AddSourceUpsert, SchedulerInvariant, Shapes
<1>3. /\ client[c].op = "add_upsert" /\ client[c].sid = storeId[Home[s]] /\ client[c].sid # 0
      /\ client[c].sid \in Nat
  BY <1>1, <1>2 DEF AddSourceUpsert, RequestGoesOn, AddGoesOn, ClientRecs
<1>4. /\ row' = [row EXCEPT ![s] = client[c].sid]
      /\ client' = [client EXCEPT ![c] = [client[c] EXCEPT !.op = "add_register"]]
      /\ UNCHANGED <<storeId, records>>
  BY <1>2, <1>3 DEF AddSourceUpsert, Become
<1>5. client'[c] = [client[c] EXCEPT !.op = "add_register"]
  BY <1>4 DEF SchedulerInvariant, Types
<1>6. client'[c].op = "add_register" /\ client'[c].arg = {s}
  BY <1>1, <1>2, <1>5 DEF ClientRecs
<1>7. RowsOfTheStore' /\ row'[s] # 0 /\ \A t \in Sources \ {s} : row'[t] = row[t]
  BY <1>1, <1>3, <1>4 DEF RowsOfTheStore
<1>8. AddGoesOn(c)' /\ RemoveGoesOn(c)' /\ RemoveStoreGoesOn(c)'
  BY <1>6, <1>7 DEF AddGoesOn, RemoveGoesOn, RemoveStoreGoesOn
<1>9. \A t \in Sources : ~Underway(c, t)' => (records'[t].registered <=> row'[t] # 0)
  BY <1>1, <1>2, <1>3, <1>4, <1>6, <1>7 DEF RequestGoesOn, Underway
<1> QED
  BY <1>7, <1>8, <1>9, OneRequest DEF RecordsAgree, RequestGoesOn

LEMMA AddSourceRegisterAgrees ==
    ASSUME SchedulerInvariant, RecordsAgree, OneAdministrator, NEW c \in Clients,
           AddSourceRegister(c)
    PROVE  RecordsAgree'
<1>1. RequestGoesOn(c) /\ RowsOfTheStore
  BY OneRequest DEF RecordsAgree
<1>2. PICK s \in Sources : client[c].arg = {s}
  BY DEF AddSourceRegister, SchedulerInvariant, Shapes
<1>3. /\ client[c].op = "add_register" /\ client' = [client EXCEPT ![c] = Idle]
      /\ records' = [records EXCEPT ![s] = NewRecord(s)]
      /\ UNCHANGED <<storeId, row>>
  BY <1>2 DEF AddSourceRegister, Become, register, rows
<1>4. /\ client'[c] = Idle /\ records'[s].registered
      /\ \A t \in Sources \ {s} : records'[t] = records[t]
  BY <1>3 DEF SchedulerInvariant, Types, NewRecord
<1>5. RowsOfTheStore' /\ row[s] # 0
  BY <1>1, <1>2, <1>3 DEF RowsOfTheStore, RequestGoesOn, AddGoesOn
<1>6. AddGoesOn(c)' /\ RemoveGoesOn(c)' /\ RemoveStoreGoesOn(c)'
  BY <1>4 DEF AddGoesOn, RemoveGoesOn, RemoveStoreGoesOn, Idle
<1>7. \A t \in Sources : records'[t].registered <=> row'[t] # 0
  BY <1>1, <1>2, <1>3, <1>4, <1>5 DEF RequestGoesOn, Underway
<1> QED
  BY <1>5, <1>6, <1>7, OneRequest DEF RecordsAgree, RequestGoesOn

LEMMA RemoveSourceAgrees ==
    ASSUME SchedulerInvariant, RecordsAgree, OneAdministrator, NEW c \in Clients,
           NEW s \in Sources, RemoveSource(c, s)
    PROVE  RecordsAgree'
<1>1. RequestGoesOn(c) /\ RowsOfTheStore
  BY OneRequest DEF RecordsAgree
<1>2. /\ client[c] = Idle /\ row' = [row EXCEPT ![s] = 0]
      /\ client' = [client EXCEPT ![c] = [Idle EXCEPT !.op = "remove_unregister", !.arg = {s}]]
      /\ UNCHANGED <<storeId, records>>
  BY DEF RemoveSource, Become
<1>3. client'[c].op = "remove_unregister" /\ client'[c].arg = {s}
  BY <1>2 DEF SchedulerInvariant, Types, Idle
<1>4. RowsOfTheStore' /\ row'[s] = 0 /\ \A t \in Sources \ {s} : row'[t] = row[t]
  BY <1>1, <1>2 DEF RowsOfTheStore
<1>5. AddGoesOn(c)' /\ RemoveGoesOn(c)' /\ RemoveStoreGoesOn(c)'
  BY <1>3, <1>4 DEF AddGoesOn, RemoveGoesOn, RemoveStoreGoesOn
<1>6. \A t \in Sources : ~Underway(c, t)' => (records'[t].registered <=> row'[t] # 0)
  BY <1>1, <1>2, <1>3, <1>4 DEF RequestGoesOn, Underway, Idle
<1> QED
  BY <1>4, <1>5, <1>6, OneRequest DEF RecordsAgree, RequestGoesOn

LEMMA RemoveSourceUnregisterAgrees ==
    ASSUME SchedulerInvariant, RecordsAgree, OneAdministrator, NEW c \in Clients,
           RemoveSourceUnregister(c)
    PROVE  RecordsAgree'
<1>1. RequestGoesOn(c) /\ RowsOfTheStore
  BY OneRequest DEF RecordsAgree
<1>2. PICK s \in Sources : client[c].arg = {s} /\ row[s] = 0
  BY <1>1 DEF RemoveSourceUnregister, RequestGoesOn, RemoveGoesOn
<1>3. /\ client[c].op = "remove_unregister" /\ client' = [client EXCEPT ![c] = Idle]
      /\ records' = [records EXCEPT ![s] = NoRecord]
      /\ UNCHANGED <<storeId, row>>
  BY <1>2 DEF RemoveSourceUnregister, Become, unregister, rows
<1>4. /\ client'[c] = Idle /\ ~records'[s].registered
      /\ \A t \in Sources \ {s} : records'[t] = records[t]
  BY <1>3 DEF SchedulerInvariant, Types, NoRecord
<1>5. RowsOfTheStore'
  BY <1>1, <1>3 DEF RowsOfTheStore
<1>6. AddGoesOn(c)' /\ RemoveGoesOn(c)' /\ RemoveStoreGoesOn(c)'
  BY <1>4 DEF AddGoesOn, RemoveGoesOn, RemoveStoreGoesOn, Idle
<1>7. \A t \in Sources : records'[t].registered <=> row'[t] # 0
  BY <1>1, <1>2, <1>3, <1>4 DEF RequestGoesOn, Underway
<1> QED
  BY <1>5, <1>6, <1>7, OneRequest DEF RecordsAgree, RequestGoesOn

LEMMA RemoveStoreAgrees ==
    ASSUME SchedulerInvariant, RecordsAgree, OneAdministrator, NEW c \in Clients,
           NEW n \in Names, RemoveStore(c, n)
    PROVE  RecordsAgree'
<1> DEFINE next == [op |-> "store_list", arg |-> {n}, sid |-> storeId[n], todo |-> {}]
<1>1. RequestGoesOn(c) /\ RowsOfTheStore
  BY OneRequest DEF RecordsAgree
<1>2. /\ client[c] = Idle /\ storeId[n] # 0 /\ client' = [client EXCEPT ![c] = next]
      /\ UNCHANGED <<storeId, row, records>>
  BY DEF RemoveStore, Become, rows
<1>3. client'[c] = next
  BY <1>2 DEF SchedulerInvariant, Types
<1>4. AddGoesOn(c)' /\ RemoveGoesOn(c)' /\ RemoveStoreGoesOn(c)'
  BY <1>2, <1>3 DEF AddGoesOn, RemoveGoesOn, RemoveStoreGoesOn
<1>5. \A t \in Sources : records'[t].registered <=> row'[t] # 0
  BY <1>1, <1>2 DEF RequestGoesOn, Underway, Idle
<1>6. RowsOfTheStore'
  BY <1>1, <1>2 DEF RowsOfTheStore
<1> QED
  BY <1>4, <1>5, <1>6, OneRequest DEF RecordsAgree, RequestGoesOn

(* The list: the store's registered sources are those that have a row. *)
LEMMA RemoveStoreListAgrees ==
    ASSUME SchedulerInvariant, RecordsAgree, OneAdministrator, NEW c \in Clients,
           RemoveStoreList(c)
    PROVE  RecordsAgree'
<1>1. RequestGoesOn(c) /\ RowsOfTheStore /\ client[c] \in ClientRecs
  BY OneRequest DEF RecordsAgree, SchedulerInvariant, Types
<1>2. PICK n \in Names : client[c].arg = {n} /\ client[c].sid = storeId[n] /\ client[c].sid # 0
  BY <1>1 DEF RemoveStoreList, RequestGoesOn, RemoveStoreGoesOn
<1> DEFINE next == [client[c] EXCEPT !.op = "store_unregister", !.todo = RowsOf(n, client[c].sid)]
<1>3. /\ client[c].op = "store_list" /\ client' = [client EXCEPT ![c] = next]
      /\ UNCHANGED <<storeId, row, records>>
  BY <1>2 DEF RemoveStoreList, Become, rows
<1>4. client'[c] = next
  BY <1>3 DEF SchedulerInvariant, Types
<1>5. /\ client'[c].op = "store_unregister" /\ client'[c].arg = {n}
      /\ client'[c].sid = client[c].sid /\ client'[c].todo = RowsOf(n, client[c].sid)
  BY <1>1, <1>2, <1>4 DEF ClientRecs
<1>6. \A t \in Sources : records[t].registered <=> row[t] # 0
  BY <1>1, <1>3 DEF RequestGoesOn, Underway
<1>7. RowsOf(n, client[c].sid)' = RowsOf(n, client[c].sid)
      /\ \A s \in Sources : Home[s] = n => (s \in RowsOf(n, client[c].sid) <=> row[s] # 0)
  BY <1>1, <1>2, <1>3, <1>5 DEF RowsOf, RowsOfTheStore
<1>8. AddGoesOn(c)' /\ RemoveGoesOn(c)'
  BY <1>5 DEF AddGoesOn, RemoveGoesOn
<1>9. RemoveStoreGoesOn(c)'
  <2>1. \A s \in Sources : Home[s] = n => (records'[s].registered <=> s \in client'[c].todo)
    BY <1>3, <1>5, <1>6, <1>7
  <2> QED
    BY <1>2, <1>3, <1>5, <1>7, <2>1 DEF RemoveStoreGoesOn
<1>10. RowsOfTheStore'
  BY <1>1, <1>3 DEF RowsOfTheStore
<1> QED
  BY <1>3, <1>6, <1>8, <1>9, <1>10, OneRequest DEF RecordsAgree, RequestGoesOn

LEMMA RemoveStoreUnregisterAgrees ==
    ASSUME SchedulerInvariant, RecordsAgree, OneAdministrator, NEW c \in Clients,
           NEW s \in Sources, RemoveStoreUnregister(c, s)
    PROVE  RecordsAgree'
<1>1. RequestGoesOn(c) /\ RowsOfTheStore /\ client[c] \in ClientRecs
  BY OneRequest DEF RecordsAgree, SchedulerInvariant, Types
<1>2. client[c].op = "store_unregister" /\ s \in client[c].todo
  BY DEF RemoveStoreUnregister
<1>3. PICK n \in Names :
        /\ client[c].arg = {n} /\ client[c].sid = storeId[n] /\ client[c].sid # 0
        /\ client[c].todo \subseteq RowsOf(n, client[c].sid)
        /\ \A t \in Sources : Home[t] = n => (records[t].registered <=> t \in client[c].todo)
  BY <1>1, <1>2 DEF RequestGoesOn, RemoveStoreGoesOn
<1>4. /\ client' = [client EXCEPT ![c] = [client[c] EXCEPT !.todo = @ \ {s}]]
      /\ records' = [records EXCEPT ![s] = NoRecord]
      /\ UNCHANGED <<storeId, row>>
  BY DEF RemoveStoreUnregister, Become, unregister, rows
<1>5. client'[c] = [client[c] EXCEPT !.todo = @ \ {s}]
  BY <1>4 DEF SchedulerInvariant, Types
<1>6. /\ client'[c].op = "store_unregister" /\ client'[c].arg = {n}
      /\ client'[c].sid = client[c].sid /\ client'[c].todo = client[c].todo \ {s}
  BY <1>1, <1>2, <1>3, <1>5 DEF ClientRecs
<1>7. /\ ~records'[s].registered /\ Home[s] = n
      /\ \A t \in Sources \ {s} : records'[t] = records[t]
  BY <1>2, <1>3, <1>4 DEF SchedulerInvariant, Types, NoRecord, RowsOf
<1>8. RowsOf(n, client[c].sid)' = RowsOf(n, client[c].sid)
  BY <1>4, <1>6 DEF RowsOf
<1>9. AddGoesOn(c)' /\ RemoveGoesOn(c)'
  BY <1>6 DEF AddGoesOn, RemoveGoesOn
<1>10. RemoveStoreGoesOn(c)'
  <2>1. \A t \in Sources : Home[t] = n => (records'[t].registered <=> t \in client'[c].todo)
    BY <1>3, <1>6, <1>7
  <2> QED
    BY <1>3, <1>4, <1>6, <1>8, <2>1 DEF RemoveStoreGoesOn
<1>11. \A t \in Sources : ~Underway(c, t)' => (records'[t].registered <=> row'[t] # 0)
  BY <1>1, <1>2, <1>3, <1>4, <1>6, <1>7 DEF RequestGoesOn, Underway
<1>12. RowsOfTheStore'
  BY <1>1, <1>4 DEF RowsOfTheStore
<1> QED
  BY <1>9, <1>10, <1>11, <1>12, OneRequest DEF RecordsAgree, RequestGoesOn

(* The delete takes the rows of sources whose records are gone. *)
LEMMA RemoveStoreDeleteAgrees ==
    ASSUME SchedulerInvariant, RecordsAgree, StoreIds, OneAdministrator, NEW c \in Clients,
           RemoveStoreDelete(c)
    PROVE  RecordsAgree'
<1>1. RequestGoesOn(c) /\ RowsOfTheStore
  BY OneRequest DEF RecordsAgree
<1>2. client[c].op = "store_unregister" /\ client[c].todo = {}
  BY DEF RemoveStoreDelete
<1>3. PICK n \in Names :
        /\ client[c].arg = {n} /\ client[c].sid = storeId[n] /\ client[c].sid # 0
        /\ \A t \in Sources : Home[t] = n => ~records[t].registered
  BY <1>1, <1>2 DEF RequestGoesOn, RemoveStoreGoesOn
<1>4. /\ storeId' = [storeId EXCEPT ![n] = 0]
      /\ row' = [s \in Sources |-> IF s \in RowsOf(n, client[c].sid) THEN 0 ELSE row[s]]
      /\ client' = [client EXCEPT ![c] = Idle] /\ records' = records
  BY <1>3 DEF RemoveStoreDelete, Become, StoreIds
<1>5. client'[c] = Idle
  BY <1>4 DEF SchedulerInvariant, Types
<1>6. \A s \in Sources : row'[s] = IF Home[s] = n THEN 0 ELSE row[s]
  BY <1>1, <1>3, <1>4 DEF RowsOf, RowsOfTheStore
<1>7. RowsOfTheStore'
  <2>1. row' \in [Sources -> Nat]
    BY <1>1, <1>4 DEF RowsOfTheStore
  <2>2. \A s \in Sources : Home[s] # n => storeId'[Home[s]] = storeId[Home[s]]
    BY <1>4, SourceAssumption DEF StoreIds
  <2> QED
    BY <1>1, <1>6, <2>1, <2>2 DEF RowsOfTheStore
<1>8. AddGoesOn(c)' /\ RemoveGoesOn(c)' /\ RemoveStoreGoesOn(c)'
  BY <1>5 DEF AddGoesOn, RemoveGoesOn, RemoveStoreGoesOn, Idle
<1>9. \A t \in Sources : records'[t].registered <=> row'[t] # 0
  BY <1>1, <1>2, <1>3, <1>4, <1>6 DEF RequestGoesOn, Underway
<1> QED
  BY <1>7, <1>8, <1>9, OneRequest DEF RecordsAgree, RequestGoesOn

LEMMA AgreementKept ==
    ASSUME SchedulerInvariant, StoreIds, RecordsAgree, OneAdministrator, [Next]_vars
    PROVE  RecordsAgree'
<1>1. ASSUME NEW c \in Clients, Admin(c) PROVE RecordsAgree'
  BY <1>1, AddSourceAgrees, AddSourceUpsertAgrees, AddSourceRegisterAgrees, RemoveSourceAgrees,
     RemoveSourceUnregisterAgrees, RemoveStoreAgrees, RemoveStoreListAgrees,
     RemoveStoreUnregisterAgrees, RemoveStoreDeleteAgrees DEF Admin
<1>2. ~Boot
  BY DEF Boot, BootListStores, BootListSources, BootRegister, BootDone, SchedulerInvariant, Types
<1> QED
  BY <1>1, <1>2, AddStoreAgrees, RegistrationsStay, AgreementUntouched DEF Next

(* With the registration task over and requests made one after the other,  *)
(* the scheduler tracks exactly the sources that are in the database,      *)
(* whenever no request is about them: late stamps bring no record back.    *)
THEOREM RecordsFollowRows ==
    ASSUME BootOverlaps = FALSE, OneAdministrator
    PROVE  Spec => []RecordsMatchRows
<1>1. Init => RecordsAgree
  <2> SUFFICES ASSUME Init PROVE RecordsAgree
    OBVIOUS
  <2>1. \A s \in Sources : /\ row[s] = IF s \in Initial THEN 1 ELSE 0
                           /\ records[s].registered <=> s \in Initial
    BY DEF Init, NewRecord, NoRecord
  <2>2. RowsOfTheStore
    BY SourceAssumption DEF Init, RowsOfTheStore
  <2>3. RequestsGoOn
    BY DEF Init, Idle, RequestsGoOn, AddGoesOn, RemoveGoesOn, RemoveStoreGoesOn
  <2> QED
    BY <2>1, <2>2, <2>3 DEF RecordsAgree, OthersMatch
<1>2. SchedulerInvariant /\ StoreIds /\ RecordsAgree /\ [Next]_vars => RecordsAgree'
  BY AgreementKept
<1>3. SchedulerInvariant /\ RecordsAgree => RecordsMatchRows
  BY DEF RecordsAgree, OthersMatch, RecordsMatchRows, Quiet, Underway
<1> QED
  BY <1>1, <1>2, <1>3, SchedulerInvariantHolds, PTL DEF Spec

=============================================================================
