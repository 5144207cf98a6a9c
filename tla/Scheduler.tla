------------------------------ MODULE Scheduler ------------------------------
(***************************************************************************)
(* The URL refresh scheduler (server/src/scheduler.rs) and the three       *)
(* parties that change its records while it runs: the administration calls *)
(* of AppState (server/src/state.rs), the registration task the daemon     *)
(* spawns at start (server/src/daemon.rs) and the detached stamp watchers. *)
(*                                                                         *)
(* The job queue appears as what JobService promises of it: at most one    *)
(* job per store, published as terminal before its store is released.      *)
(*                                                                         *)
(* Time: only "has the interval passed?" is ever asked, so a record keeps  *)
(* the time since its stamp, saturating at its interval; a record never    *)
(* stamped is as due as one whose interval has passed.  The model thus     *)
(* needs no clock bound.                                                   *)
(***************************************************************************)
EXTENDS Naturals, FiniteSets

CONSTANTS
    Sources,        \* url and feed source ids (ULIDs: never used twice)
    Names,          \* store names
    Home,           \* [Sources -> Names]: the store a source is added to
    Interval,       \* [Sources -> Nat]: refresh interval, 0 when it has none
    Initial,        \* the sources in the database when the daemon starts
    Clients,        \* concurrent administration requests
    JobIds,         \* bound: jobs alive (or still watched) at the same time
    MaxStoreIds,    \* bound: store rows ever created
    BootOverlaps,   \* the registration task still runs when the model starts
    OtherJobs       \* POST /v1/jobs submits jobs too

ASSUME SourceAssumption ==
    /\ Home \in [Sources -> Names]
    /\ Interval \in [Sources -> Nat]
    /\ Initial \subseteq Sources
ASSUME BoundAssumption == MaxStoreIds \in Nat /\ BootOverlaps \in BOOLEAN /\ OtherJobs \in BOOLEAN

VARIABLES
    storeId,    \* [Names -> store id], 0 when no such store
    lastId,     \* the last store id given out
    row,        \* [Sources -> store id of the source's row], 0 when it has none
    used,       \* source ids given out
    records,    \* [Sources -> UrlRefreshRecord], NoRecord when not registered
    loop,       \* the run loop: where it is, and what is left of its due snapshot
    jobs,       \* [JobIds -> job]
    client,     \* [Clients -> the request in progress]
    boot,       \* the start-up registration task
    rested      \* history: time since a refresh of the source last ended, saturating

vars == <<storeId, lastId, row, used, records, loop, jobs, client, boot, rested>>
rows == <<storeId, lastId, row, used>>

-----------------------------------------------------------------------------
(* Data *)

NoRecord == [registered |-> FALSE, since |-> 0, refresh_inflight |-> FALSE]
Records == [registered : BOOLEAN, since : Nat, refresh_inflight : BOOLEAN]

(* register's new record: last_refreshed None, nothing in flight. *)
NewRecord(s) == [registered |-> TRUE, since |-> Interval[s], refresh_inflight |-> FALSE]

(* Variant: the flag is not looked at. *)
IsDueIgnoringInflight(s) ==
    records[s].registered /\ Interval[s] > 0 /\ records[s].since >= Interval[s]

is_due(s) ==
    /\ records[s].registered
    /\ ~records[s].refresh_inflight
    /\ Interval[s] > 0
    /\ records[s].since >= Interval[s]

(* A job: whose refresh it is ({} for a POST /v1/jobs one), the store name *)
(* it is keyed by, and whether a stamp watcher still has to act on it.     *)
JobPhases == {"free", "live", "settled", "released"}
FreeJob == [source |-> {}, store |-> {}, phase |-> "free", watched |-> FALSE]
JobRecs == [source : SUBSET Sources, store : SUBSET Names, phase : JobPhases, watched : BOOLEAN]

InFlightStores == {n \in Names : \E j \in JobIds :
                     n \in jobs[j].store /\ jobs[j].phase \in {"live", "settled"}}

RefreshOf(s, j) == jobs[j].source = {s} /\ jobs[j].phase # "free"

(* The source rows of the store called n while its id was i (ids are told   *)
(* apart within a name only).                                               *)
RowsOf(n, i) == {s \in Sources : Home[s] = n /\ row[s] = i /\ i # 0}

register(s)   == records' = [records EXCEPT ![s] = NewRecord(s)]
unregister(s) == records' = [records EXCEPT ![s] = NoRecord]

(* A request: what it does next, to which source or store, with which id. *)
Idle == [op |-> "idle", arg |-> {}, sid |-> 0, todo |-> {}]
ClientRecs == [op : {"idle", "add_upsert", "add_register", "remove_unregister",
                     "store_list", "store_unregister"},
               arg : SUBSET (Sources \cup Names), sid : Nat, todo : SUBSET Sources]

-----------------------------------------------------------------------------
Init ==
    /\ storeId = [n \in Names |-> 1]
    /\ lastId = 1
    /\ row = [s \in Sources |-> IF s \in Initial THEN 1 ELSE 0]
    /\ used = Initial
    /\ records = [s \in Sources |->
                    IF s \in Initial /\ ~BootOverlaps THEN NewRecord(s) ELSE NoRecord]
    /\ loop = [pc |-> "sleeping", due |-> {}, job |-> {}]
    /\ jobs = [j \in JobIds |-> FreeJob]
    /\ client = [c \in Clients |-> Idle]
    /\ boot = [pc |-> IF BootOverlaps THEN "stores" ELSE "done", stores |-> {},
               ids |-> storeId, sources |-> {}]
    /\ rested = Interval

-----------------------------------------------------------------------------
(* The run loop: sleep, then one tick.  Ticks are serial. *)

(* The poll interval has passed: tick takes its snapshot of due records. *)
TickDue ==
    /\ loop.pc = "sleeping"
    /\ loop' = [loop EXCEPT !.pc = "submitting", !.due = {s \in Sources : is_due(s)}]
    /\ UNCHANGED <<rows, records, jobs, client, boot, rested>>

(* submit for one record of the snapshot (HashMap order: any) succeeds, the *)
(* snapshot being used as it was taken.                                     *)
TickSubmit(s, j) ==
    /\ loop.pc = "submitting" /\ s \in loop.due
    /\ Home[s] \notin InFlightStores
    /\ jobs[j].phase = "free"
    /\ jobs' = [jobs EXCEPT ![j] =
                  [source |-> {s}, store |-> {Home[s]}, phase |-> "live", watched |-> FALSE]]
    /\ loop' = [pc |-> "marking", due |-> loop.due \ {s}, job |-> {j}]
    /\ UNCHANGED <<rows, records, client, boot, rested>>

(* submit fails with IndexInProgress: logged, the record is left as it is. *)
TickRefused(s) ==
    /\ loop.pc = "submitting" /\ s \in loop.due
    /\ Home[s] \in InFlightStores
    /\ loop' = [loop EXCEPT !.due = @ \ {s}]
    /\ UNCHANGED <<rows, records, jobs, client, boot, rested>>

(* mark_inflight (only a record that is still there), then the watcher is  *)
(* spawned; the job may have ended since submit returned.                  *)
TickMark ==
    /\ loop.pc = "marking"
    /\ \E j \in loop.job, s \in Sources :
        /\ jobs[j].source = {s}
        /\ records' = [records EXCEPT ![s].refresh_inflight = records[s].registered]
        /\ jobs' = [jobs EXCEPT ![j].watched = TRUE]
    /\ loop' = [loop EXCEPT !.pc = "submitting", !.job = {}]
    /\ UNCHANGED <<rows, client, boot, rested>>

TickDone ==
    /\ loop.pc = "submitting" /\ loop.due = {}
    /\ loop' = [loop EXCEPT !.pc = "sleeping"]
    /\ UNCHANGED <<rows, records, jobs, client, boot, rested>>

RunLoop ==
    \/ TickDue
    \/ \E s \in Sources : (\E j \in JobIds : TickSubmit(s, j)) \/ TickRefused(s)
    \/ TickMark
    \/ TickDone

(* The job reaches its terminal state and its channel is torn down, however *)
(* run_refresh_job ended: indexed, StoreNotFound, SourceNotFound, an error  *)
(* of the run, or a cancellation.  The store is released afterwards.        *)
JobSettles(j) ==
    /\ jobs[j].phase = "live"
    /\ jobs' = [jobs EXCEPT ![j].phase = "settled"]
    /\ rested' = [s \in Sources |-> IF s \in jobs[j].source THEN 0 ELSE rested[s]]
    /\ UNCHANGED <<rows, records, loop, client, boot>>

(* The id is free for the model to use again once nothing refers to it. *)
JobReleases(j) ==
    /\ jobs[j].phase = "settled"
    /\ jobs' = [jobs EXCEPT ![j] =
                  IF jobs[j].watched \/ j \in loop.job
                  THEN [jobs[j] EXCEPT !.phase = "released"]
                  ELSE FreeJob]
    /\ UNCHANGED <<rows, records, loop, client, boot, rested>>

(* wait_for_job_terminal returns: the channel is closed, or was torn down   *)
(* before the watcher subscribed.                                           *)
ChannelClosed(j) == jobs[j].phase \in {"settled", "released"}

(* Variant: a watcher that finds no handle waits for one. *)
WatcherStampsLive(j) ==
    /\ jobs[j].watched /\ jobs[j].phase = "settled"
    /\ records' = [s \in Sources |->
                     IF s \in jobs[j].source /\ records[s].registered
                     THEN [records[s] EXCEPT !.since = 0, !.refresh_inflight = FALSE]
                     ELSE records[s]]
    /\ jobs' = [jobs EXCEPT ![j].watched = FALSE]
    /\ UNCHANGED <<rows, loop, client, boot, rested>>

(* Variant: the stamp inserts the record when it is gone. *)
WatcherStampsInserting(j) ==
    /\ jobs[j].watched /\ ChannelClosed(j)
    /\ records' = [s \in Sources |->
                     IF s \in jobs[j].source THEN [NewRecord(s) EXCEPT !.since = 0]
                     ELSE records[s]]
    /\ jobs' = [jobs EXCEPT ![j] = IF jobs[j].phase = "settled"
                                   THEN [jobs[j] EXCEPT !.watched = FALSE]
                                   ELSE FreeJob]
    /\ UNCHANGED <<rows, loop, client, boot, rested>>

(* The detached watcher: the channel has closed (or subscribe found no     *)
(* handle any more), so it stamps the record if it is still registered.    *)
WatcherStamps(j) ==
    /\ jobs[j].watched /\ ChannelClosed(j)
    /\ records' = [s \in Sources |->
                     IF s \in jobs[j].source /\ records[s].registered
                     THEN [records[s] EXCEPT !.since = 0, !.refresh_inflight = FALSE]
                     ELSE records[s]]
    /\ jobs' = [jobs EXCEPT ![j] = IF jobs[j].phase = "settled"
                                   THEN [jobs[j] EXCEPT !.watched = FALSE]
                                   ELSE FreeJob]
    /\ UNCHANGED <<rows, loop, client, boot, rested>>

(* A POST /v1/jobs for the store. *)
OtherJob(n, j) ==
    /\ OtherJobs
    /\ n \notin InFlightStores /\ jobs[j].phase = "free"
    /\ jobs' = [jobs EXCEPT ![j] = [FreeJob EXCEPT !.store = {n}, !.phase = "live"]]
    /\ UNCHANGED <<rows, records, loop, client, boot, rested>>

Older(t) == [s \in Sources |-> IF t[s] < Interval[s] THEN t[s] + 1 ELSE t[s]]

Clock ==
    /\ records' = [s \in Sources |->
                     [records[s] EXCEPT !.since =
                        IF records[s].registered /\ @ < Interval[s] THEN @ + 1 ELSE @]]
    /\ rested' = Older(rested)
    /\ records' # records \/ rested' # rested
    /\ UNCHANGED <<rows, loop, jobs, client, boot>>

-----------------------------------------------------------------------------
(* Administration calls.  Each step is one backend call or one critical    *)
(* section of the scheduler's lock; calls of different clients interleave. *)

Become(c, rec) == client' = [client EXCEPT ![c] = rec]

(* add_source: find the store, *)
AddSource(c, s) ==
    /\ client[c] = Idle /\ s \notin used /\ storeId[Home[s]] # 0
    /\ used' = used \cup {s}
    /\ Become(c, [op |-> "add_upsert", arg |-> {s}, sid |-> storeId[Home[s]], todo |-> {}])
    /\ UNCHANGED <<storeId, lastId, row, records, loop, jobs, boot, rested>>

(* insert the row (the foreign key refuses a store id that is gone), *)
AddSourceUpsert(c) ==
    /\ client[c].op = "add_upsert"
    /\ \E s \in client[c].arg :
        IF storeId[Home[s]] = client[c].sid
        THEN /\ row' = [row EXCEPT ![s] = client[c].sid]
             /\ Become(c, [client[c] EXCEPT !.op = "add_register"])
        ELSE /\ row' = row
             /\ Become(c, Idle)
    /\ UNCHANGED <<storeId, lastId, used, records, loop, jobs, boot, rested>>

(* and register it with the scheduler. *)
AddSourceRegister(c) ==
    /\ client[c].op = "add_register"
    /\ \E s \in client[c].arg : register(s)
    /\ Become(c, Idle)
    /\ UNCHANGED <<rows, loop, jobs, boot, rested>>

(* remove_source: delete the row, *)
RemoveSource(c, s) ==
    /\ client[c] = Idle /\ row[s] # 0
    /\ row' = [row EXCEPT ![s] = 0]
    /\ Become(c, [Idle EXCEPT !.op = "remove_unregister", !.arg = {s}])
    /\ UNCHANGED <<storeId, lastId, used, records, loop, jobs, boot, rested>>

(* and unregister. *)
RemoveSourceUnregister(c) ==
    /\ client[c].op = "remove_unregister"
    /\ \E s \in client[c].arg : unregister(s)
    /\ Become(c, Idle)
    /\ UNCHANGED <<rows, loop, jobs, boot, rested>>

(* remove_store: find the store, *)
RemoveStore(c, n) ==
    /\ client[c] = Idle /\ storeId[n] # 0
    /\ Become(c, [op |-> "store_list", arg |-> {n}, sid |-> storeId[n], todo |-> {}])
    /\ UNCHANGED <<rows, records, loop, jobs, boot, rested>>

(* list its sources, *)
RemoveStoreList(c) ==
    /\ client[c].op = "store_list"
    /\ \E n \in client[c].arg :
        Become(c, [client[c] EXCEPT !.op = "store_unregister",
                                    !.todo = RowsOf(n, client[c].sid)])
    /\ UNCHANGED <<rows, records, loop, jobs, boot, rested>>

(* unregister them one by one, *)
RemoveStoreUnregister(c, s) ==
    /\ client[c].op = "store_unregister" /\ s \in client[c].todo
    /\ unregister(s)
    /\ Become(c, [client[c] EXCEPT !.todo = @ \ {s}])
    /\ UNCHANGED <<rows, loop, jobs, boot, rested>>

(* and delete the store; its source rows go with it (ON DELETE CASCADE). *)
RemoveStoreDelete(c) ==
    /\ client[c].op = "store_unregister" /\ client[c].todo = {}
    /\ \E n \in client[c].arg :
        /\ storeId' = [storeId EXCEPT ![n] = IF @ = client[c].sid THEN 0 ELSE @]
        /\ row' = [s \in Sources |-> IF s \in RowsOf(n, client[c].sid) THEN 0 ELSE row[s]]
    /\ Become(c, Idle)
    /\ UNCHANGED <<lastId, used, records, loop, jobs, boot, rested>>

(* add_store; the name column is unique, so of two racing calls one fails. *)
AddStore(n) ==
    /\ storeId[n] = 0 /\ lastId < MaxStoreIds
    /\ lastId' = lastId + 1
    /\ storeId' = [storeId EXCEPT ![n] = lastId + 1]
    /\ UNCHANGED <<row, used, records, loop, jobs, client, boot, rested>>

Admin(c) ==
    \/ \E s \in Sources : AddSource(c, s) \/ RemoveSource(c, s) \/ RemoveStoreUnregister(c, s)
    \/ \E n \in Names : RemoveStore(c, n)
    \/ AddSourceUpsert(c) \/ AddSourceRegister(c) \/ RemoveSourceUnregister(c)
    \/ RemoveStoreList(c) \/ RemoveStoreDelete(c)

-----------------------------------------------------------------------------
(* spawn_url_scheduler's registration task: list the stores, then for each  *)
(* one list its sources and register them.                                  *)

BootListStores ==
    /\ boot.pc = "stores"
    /\ boot' = [boot EXCEPT !.pc = "sources", !.ids = storeId,
                            !.stores = {n \in Names : storeId[n] # 0}]
    /\ UNCHANGED <<rows, records, loop, jobs, client, rested>>

BootListSources(n) ==
    /\ boot.pc = "sources" /\ boot.sources = {} /\ n \in boot.stores
    /\ boot' = [boot EXCEPT !.stores = @ \ {n},
                            !.sources = RowsOf(n, boot.ids[n])]
    /\ UNCHANGED <<rows, records, loop, jobs, client, rested>>

BootRegister(s) ==
    /\ boot.pc = "sources" /\ s \in boot.sources
    /\ register(s)
    /\ boot' = [boot EXCEPT !.sources = @ \ {s}]
    /\ UNCHANGED <<rows, loop, jobs, client, rested>>

BootDone ==
    /\ boot.pc = "sources" /\ boot.stores = {} /\ boot.sources = {}
    /\ boot' = [boot EXCEPT !.pc = "done"]
    /\ UNCHANGED <<rows, records, loop, jobs, client, rested>>

Boot ==
    \/ BootListStores \/ BootDone
    \/ \E n \in Names : BootListSources(n)
    \/ \E s \in Sources : BootRegister(s)

Next ==
    \/ RunLoop
    \/ \E j \in JobIds : JobSettles(j) \/ JobReleases(j) \/ WatcherStamps(j)
    \/ \E n \in Names : AddStore(n) \/ \E j \in JobIds : OtherJob(n, j)
    \/ \E c \in Clients : Admin(c)
    \/ Boot
    \/ Clock

Spec == Init /\ [][Next]_vars

(* Fairness.  The loop's timer fires and every spawned or awaited future is  *)
(* polled; the queue settles and releases each job (StoresFreed of the       *)
(* queue's run).  Nobody has to send another request.                        *)
Fairness ==
    /\ WF_vars(RunLoop) /\ WF_vars(Clock) /\ WF_vars(Boot)
    /\ \A j \in JobIds :
        WF_vars(JobSettles(j)) /\ WF_vars(JobReleases(j)) /\ WF_vars(WatcherStamps(j))
    /\ \A c \in Clients : WF_vars(client[c] # Idle /\ Admin(c))

FairSpec == Spec /\ Fairness

-----------------------------------------------------------------------------
(* Properties *)

(* "It waits out a full interval just like a successful refresh does": a    *)
(* refresh is only submitted when the source's previous refresh ended at    *)
(* least one interval ago, also for a tick in the window between the queue  *)
(* releasing the store and the watcher writing its stamp.                   *)
WaitsOutTheInterval ==
    [][\A s \in Sources, j \in JobIds :
         ~RefreshOf(s, j) /\ RefreshOf(s, j)' => rested[s] >= Interval[s]]_vars

(* No request or start-up step concerning s is under way. *)
Quiet(s) ==
    /\ boot.pc = "done"
    /\ \A c \in Clients : {s, Home[s]} \cap client[c].arg = {}

(* The scheduler tracks exactly the sources in the database: a removed      *)
(* source is not refreshed for ever, and completion "must never re-insert a *)
(* removed record".                                                         *)
RecordsMatchRows ==
    \A s \in Sources : Quiet(s) => (records[s].registered <=> row[s] # 0)

(* Every scheduled source is refreshed again and again while it stays       *)
(* registered: its in-flight flag is cleared however the job ended, also    *)
(* when that was over before the watcher subscribed.                        *)
RefreshesRecur ==
    \A s \in Sources :
        []<>(\/ ~records[s].registered
             \/ Interval[s] = 0
             \/ \E j \in JobIds : RefreshOf(s, j) /\ jobs[j].phase = "live")

=============================================================================
