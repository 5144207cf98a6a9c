------------------------------ MODULE Ingestion ------------------------------
(***************************************************************************)
(* An indexing job (server/src/job_exec.rs) over the sources of one store: *)
(* run_source_ingestion (core/src/ingestion.rs), its PipelineCallback, the *)
(* path, url and feed ingestors (ingest/src), the prune sweeps and the     *)
(* feed document cache.                                                    *)
(*                                                                         *)
(* Jobs of a store are serialized (JobQueue), so there is one job at a     *)
(* time; the origins, the configuration, the clock and `source remove`     *)
(* change under it between any two of its awaits, and it may be aborted at *)
(* any of them.  What it keeps in memory is then lost; the rows stay.      *)
(*                                                                         *)
(* Data: a page or file is a version number, 0 where the origin has none.  *)
(* Validators stand for the version they were issued for, so a conditional *)
(* request answers 304 exactly when the stored version is the current one. *)
(* Metadata-only rewrites leave version, owner and policy alone and are    *)
(* part of the "unchanged" arm; they show in that a changed claim reopens  *)
(* the recheck gate.                                                       *)
(***************************************************************************)
EXTENDS Naturals, FiniteSets

CONSTANTS
    Sources, Uris,
    Kind,           \* [Sources -> {"path", "url", "feed"}]
    Scope,          \* [Sources -> SUBSET Uris]: the URIs a source can ever list
    MaxVersion,     \* bound: versions of a page or file
    MaxFeedVersion, \* bound: versions of a feed document
    MaxPolicy,      \* bound: policy versions the configuration goes through
    MaxFaults,      \* bound: failures of origins, parsers, embedder, database
    BatchLimit,     \* FEED_LIVENESS_BATCH_LIMIT
    MayPrune,       \* jobs may ask for the Prune policy
    MayAbort,       \* jobs may be cancelled
    MayRemove,      \* sources may be removed
    StatErrors      \* a file's metadata may be unreadable while its directory is listed

ASSUME IngestionAssumption ==
    /\ Kind \in [Sources -> {"path", "url", "feed"}]
    /\ Scope \in [Sources -> SUBSET Uris]
    /\ \A s, t \in Sources : s # t => Scope[s] \cap Scope[t] = {}
    /\ {MaxVersion, MaxFeedVersion, MaxPolicy, MaxFaults, BatchLimit} \subseteq Nat
    /\ {MayPrune, MayAbort, MayRemove, StatErrors} \subseteq BOOLEAN

VARIABLES
    page,       \* [Uris -> version the origin serves]
    feed,       \* [Sources -> [ver, entries]]: a feed document and its window
    policy,     \* policy version of the current configuration
    alive,      \* sources in the database
    rows,       \* [Uris -> resource row], NoRow where nothing is indexed
    cache,      \* [Sources -> [ver, digest]]: the source row's feed columns
    job,        \* the job in progress
    faults,     \* failures left
    excused,    \* history: URIs a run legitimately left without a row
    absent      \* history: URIs absent at their origin at some point of this source's run

vars == <<page, feed, policy, alive, rows, cache, job, faults, excused, absent>>
origins == <<page, feed, policy>>

-----------------------------------------------------------------------------
(* Data *)

Versions == 1..MaxVersion
Embedded == MaxVersion + 1     \* the content a feed entry carries itself

NoRow == [owner |-> {}, content |-> 0, policy |-> 0, fresh |-> FALSE]
Rows == [owner : SUBSET Sources, content : 0..Embedded, policy : Nat, fresh : BOOLEAN]

(* fresh: last_checked_at is inside the recheck floor. *)
Touched(r) == IF r = NoRow THEN r ELSE [r EXCEPT !.fresh = TRUE]

NoCache == [ver |-> 0, digest |-> {}]
Caches == [ver : 0..MaxFeedVersion, digest : SUBSET (0..MaxPolicy)]

Idle == [pc |-> "idle", todo |-> {}, cur |-> {}, prune |-> FALSE, refetch |-> FALSE,
         pol |-> 0, snap |-> [s \in Sources |-> NoCache], idx |-> [u \in Uris |-> NoRow],
         uris |-> {}, revisit |-> FALSE, seen |-> {}, gone |-> {}, errors |-> FALSE,
         complete |-> TRUE, missed |-> {}, validators |-> {}]

Cur == CHOOSE s \in Sources : job.cur = {s}
Network == Kind[Cur] # "path"
Owned(u) == job.idx[u].owner = {Cur}

NoFault == UNCHANGED <<faults, excused>>
Fault == faults > 0 /\ faults' = faults - 1 /\ UNCHANGED excused

-----------------------------------------------------------------------------
Init ==
    /\ page \in [Uris -> 0..1]
    /\ feed \in [Sources -> {[ver |-> 1, entries |-> e] : e \in SUBSET Uris}]
    /\ \A s \in Sources : feed[s].entries = IF Kind[s] = "feed" THEN Scope[s] ELSE {}
    /\ policy = 0
    /\ alive = Sources
    /\ rows = [u \in Uris |-> NoRow]
    /\ cache = [s \in Sources |-> NoCache]
    /\ job = Idle
    /\ faults = MaxFaults
    /\ excused = {}
    /\ absent = {}

-----------------------------------------------------------------------------
(* The world *)

PageChanges(u) ==
    /\ page' \in {[page EXCEPT ![u] = v] : v \in {0} \cup {page[u] + 1}}
    /\ page'[u] # page[u] /\ page'[u] <= MaxVersion
    /\ absent' = IF page'[u] = 0 THEN absent \cup {u} ELSE absent
    /\ UNCHANGED <<feed, policy, alive, rows, cache, job, faults, excused>>

FeedPublishes(s) ==
    /\ Kind[s] = "feed" /\ feed[s].ver < MaxFeedVersion
    /\ \E e \in SUBSET Scope[s] : feed' = [feed EXCEPT ![s] = [ver |-> @.ver + 1, entries |-> e]]
    /\ UNCHANGED <<page, policy, alive, rows, cache, job, faults, excused, absent>>

PolicyChanges ==
    /\ policy < MaxPolicy
    /\ policy' = policy + 1
    /\ UNCHANGED <<page, feed, alive, rows, cache, job, faults, excused, absent>>

(* The recheck floor of a row passes; the job's index holds the same stamp. *)
FloorPasses(u) ==
    /\ rows[u].fresh
    /\ rows' = [rows EXCEPT ![u].fresh = FALSE]
    /\ job' = [job EXCEPT !.idx[u].fresh = FALSE]
    /\ UNCHANGED <<origins, alive, cache, faults, excused, absent>>

(* source remove: the source's row goes, its resources go with it. *)
RemoveSource(s) ==
    /\ MayRemove /\ s \in alive
    /\ alive' = alive \ {s}
    /\ rows' = [u \in Uris |-> IF rows[u].owner = {s} THEN NoRow ELSE rows[u]]
    /\ cache' = [cache EXCEPT ![s] = NoCache]
    /\ UNCHANGED <<origins, job, faults, excused, absent>>

-----------------------------------------------------------------------------
(* The job *)

Unread == UNCHANGED <<origins, alive, absent>>

(* resolve_job_sources: every source of the store, or one. *)
JobScopes == {alive} \cup {{s} : s \in alive}

(* run_job: resolve the sources (their cache columns are read here), read  *)
(* the policy and load the document index.                                 *)
StartJob(S, prune, refetch) ==
    /\ job.pc = "idle" /\ S # {} /\ S \in JobScopes
    /\ prune => MayPrune
    /\ job' = [Idle EXCEPT !.pc = "source", !.todo = S, !.prune = prune, !.refetch = refetch,
                           !.pol = policy, !.snap = cache, !.idx = rows]
    /\ UNCHANGED <<rows, cache>> /\ NoFault /\ Unread

Began(s, us, revisit, err, complete, validators) ==
    [job EXCEPT !.pc = "entries", !.todo = @ \ {s}, !.cur = {s}, !.uris = us,
                !.revisit = revisit, !.seen = {}, !.gone = {}, !.errors = err,
                !.complete = complete, !.missed = {}, !.validators = validators]

Begin(began) ==
    /\ job' = began
    /\ absent' = {u \in Uris : page[u] = 0}
    /\ UNCHANGED <<rows, cache, origins, alive>>

(* FileIngestor: the walk lists the files that exist.  A root that is not   *)
(* reachable is an incomplete enumeration; the empty mount point of a       *)
(* volume that is away is a complete one; a directory that cannot be read   *)
(* ends the run of the source.                                              *)
PathFiles(s) == {u \in Scope[s] : page[u] # 0}

BeginPath(s) ==
    /\ job.pc = "source" /\ s \in job.todo /\ Kind[s] = "path"
    /\ \/ Begin(Began(s, PathFiles(s), FALSE, FALSE, TRUE, {})) /\ NoFault
       \/ \E complete \in BOOLEAN : Begin(Began(s, {}, FALSE, FALSE, complete, {})) /\ Fault
       \/ /\ job' = [job EXCEPT !.todo = @ \ {s}]
          /\ UNCHANGED <<rows, cache>> /\ Fault /\ Unread

(* An entry whose metadata cannot be read is neither is_dir() nor is_file() *)
(* and is left out of an enumeration that still counts as complete.         *)
BeginPathStatError(s, u) ==
    /\ StatErrors
    /\ job.pc = "source" /\ s \in job.todo /\ Kind[s] = "path"
    /\ u \in PathFiles(s)
    /\ Begin([Began(s, PathFiles(s) \ {u}, FALSE, FALSE, TRUE, {}) EXCEPT !.missed = {u}])
    /\ Fault

(* UrlIngestor: the configured URL. *)
BeginUrl(s) ==
    /\ job.pc = "source" /\ s \in job.todo /\ Kind[s] = "url"
    /\ Begin(Began(s, Scope[s], FALSE, FALSE, TRUE, {})) /\ NoFault

(* The validators a feed run may replay: none under --refetch or when the   *)
(* local inputs are not the ones they were stored with.                     *)
document_validators(s) ==
    IF ~job.refetch /\ job.snap[s].digest = {job.pol} THEN job.snap[s].ver ELSE 0

(* us is a batch of candidates: all of them, or as many as the limit allows. *)
Batch(us, candidates) ==
    \/ us = candidates /\ Cardinality(us) <= BatchLimit
    \/ Cardinality(us) = BatchLimit

(* Variant: only another policy makes an entry due. *)
DueEntriesByPolicy(s) == {u \in Uris : job.idx[u].owner = {s} /\ job.idx[u].policy # job.pol}

(* due_entries_for_source: what this source owns and is stale or indexed    *)
(* under another policy, a bounded random choice.                           *)
DueEntries(s) == {u \in Uris : /\ job.idx[u].owner = {s}
                               /\ job.idx[u].policy # job.pol \/ ~job.idx[u].fresh}

(* FeedIngestor: 304 revisits due entries; 200 lists the window.            *)
BeginFeed(s) ==
    /\ job.pc = "source" /\ s \in job.todo /\ Kind[s] = "feed"
    /\ IF document_validators(s) = feed[s].ver
       THEN \E us \in SUBSET DueEntries(s) :
              /\ Batch(us, DueEntries(s))
              /\ Begin(Began(s, us, TRUE, FALSE, TRUE, {feed[s].ver}))
       ELSE Begin(Began(s, feed[s].entries, FALSE, FALSE, TRUE, {feed[s].ver}))
    /\ NoFault

(* The feed document cannot be fetched (error), is gone or blocked (not an  *)
(* error), or cannot be parsed (an error that arrives with validators).     *)
BeginFeedFails(s) ==
    /\ job.pc = "source" /\ s \in job.todo /\ Kind[s] = "feed"
    /\ \/ Begin(Began(s, {}, FALSE, TRUE, FALSE, {}))
       \/ Begin(Began(s, {}, FALSE, FALSE, FALSE, {}))
       \/ Begin(Began(s, {}, FALSE, TRUE, FALSE, {feed[s].ver}))
    /\ Fault

-----------------------------------------------------------------------------
(* PipelineCallback.  Each arm reports one URI. *)

Report(u, err, idxRow, row) ==
    /\ job' = [job EXCEPT !.uris = @ \ {u}, !.seen = @ \cup {u}, !.errors = @ \/ err,
                          !.idx[u] = idxRow]
    /\ rows' = [rows EXCEPT ![u] = row]
    /\ UNCHANGED cache /\ Unread

on_skipped(u, err) == Report(u, err, job.idx[u], rows[u])

(* Content and policy are as indexed.  Rewriting changed metadata may fail   *)
(* (an error), so may touch_checked (only logged); both find no row when the *)
(* source was removed meanwhile.                                             *)
on_unchanged(u, touches) ==
    \/ /\ rows[u] # NoRow /\ NoFault
       /\ IF touches THEN Report(u, FALSE, Touched(job.idx[u]), Touched(rows[u]))
                     ELSE on_skipped(u, FALSE)
    \/ \E err \in BOOLEAN : /\ on_skipped(u, err)
                           /\ IF rows[u] = NoRow THEN NoFault ELSE Fault

(* Variant: a feed entry's embedded content counts as contact. *)
OriginContactByKind(fetched_from_origin) == Network

(* Only an answer of the resource's own origin moves the check clock. *)
OriginContact(fetched_from_origin) == Network /\ fetched_from_origin

(* Variant: the empty result is recorded in the index. *)
IndexEmptyRecorded(u) ==
    Report(u, FALSE, [owner |-> {Cur}, content |-> page[u], policy |-> job.pol, fresh |-> FALSE],
           rows[u])

(* IndexOutcome::Empty: chunked to nothing, so nothing is written. *)
IndexEmpty(u) == on_skipped(u, FALSE)

(* Variant: foreign keys are not enforced. *)
ForeignKeysOff == TRUE

(* resources.source_id references sources: no row for a removed source. *)
ForeignKeyHolds == Cur \in alive

(* on_resource_impl: skip what is unchanged under the same policy, else      *)
(* index it: the new rows replace the old ones in one transaction.           *)
on_resource(u, v, fetched_from_origin) ==
    LET touches == OriginContact(fetched_from_origin)
        new(f) == [owner |-> {Cur}, content |-> v, policy |-> job.pol, fresh |-> f]
        (* the upsert of an existing resource id leaves last_checked_at alone *)
        kept == rows[u].content = v /\ rows[u].fresh
    IN IF job.idx[u].content = v /\ job.idx[u].policy = job.pol
       THEN on_unchanged(u, touches)
       ELSE \/ on_skipped(u, TRUE) /\ Fault
            \/ /\ IndexEmpty(u)
               /\ faults > 0 /\ faults' = faults - 1 /\ excused' = excused \cup {u}
            \/ ~ForeignKeyHolds /\ on_skipped(u, TRUE) /\ NoFault
            \/ /\ ForeignKeyHolds
               /\ excused' = excused \ {u}
               /\ \/ Report(u, FALSE, new(touches), new(touches \/ kept)) /\ UNCHANGED faults
                  \/ /\ touches            \* written, but touch_checked failed
                     /\ Report(u, FALSE, new(FALSE), new(kept))
                     /\ faults > 0 /\ faults' = faults - 1

(* The recheck gate of a listed feed entry.  The entry's claim is not part   *)
(* of the model: it may have changed, so an open gate is always possible.    *)
recheck_is_due(u) ==
    \/ job.idx[u] = NoRow
    \/ job.idx[u].policy # job.pol
    \/ job.refetch
    \/ ~job.idx[u].fresh

GateClosed(u) ==
    /\ Kind[Cur] = "feed" /\ ~job.revisit
    /\ ~recheck_is_due(u)
    /\ on_skipped(u, FALSE) /\ NoFault

(* lookup_fetch_metadata: a 304 needs a row of this policy. *)
NotModified(u) == job.idx[u].policy = job.pol /\ job.idx[u].content = page[u]

(* What the link itself gives: nothing usable (blocked, unsupported or empty *)
(* content), or gone.  A url source records the confirmed absence, a feed    *)
(* entry falls back to what the feed carries, a revisit has no fallback.     *)
EntryUnusable(u) ==
    IF Kind[Cur] = "feed" /\ ~job.revisit
    THEN on_resource(u, Embedded, FALSE)
    ELSE on_skipped(u, job.revisit) /\ Fault

EntryGone(u) ==
    IF Kind[Cur] = "feed" /\ ~job.revisit
    THEN on_resource(u, Embedded, FALSE)
    ELSE /\ job' = [job EXCEPT !.uris = @ \ {u},
                               !.gone = IF Kind[Cur] = "url" THEN @ \cup {u} ELSE @]
         /\ UNCHANGED <<rows, cache>> /\ NoFault /\ Unread

(* process_url for a url or feed entry. *)
ProcessUrl(u) ==
    /\ job.pc = "entries" /\ u \in job.uris /\ Network
    /\ \/ GateClosed(u)
       \/ on_skipped(u, TRUE) /\ Fault      \* fetch or parser error, no usable content
       \/ faults > 0 /\ EntryUnusable(u)
       \/ page[u] = 0 /\ EntryGone(u)
       \/ page[u] # 0 /\ NotModified(u) /\ on_unchanged(u, TRUE)
       \/ page[u] # 0 /\ ~NotModified(u) /\ on_resource(u, page[u], TRUE)

(* A file of the enumeration: unreadable, unusable or parsed. *)
ProcessFile(u) ==
    /\ job.pc = "entries" /\ u \in job.uris /\ ~Network
    /\ \/ on_skipped(u, TRUE) /\ Fault
       \/ on_skipped(u, FALSE) /\ Fault
       \/ page[u] = 0 /\ on_skipped(u, TRUE) /\ NoFault
       \/ page[u] # 0 /\ on_resource(u, page[u], TRUE)

-----------------------------------------------------------------------------
(* Pruning *)

EntriesDone ==
    /\ job.pc = "entries" /\ job.uris = {}
    /\ job' = [job EXCEPT !.pc = "gone", !.uris = {u \in job.gone : Owned(u)}]
    /\ UNCHANGED <<rows, cache>> /\ NoFault /\ Unread

(* prune_or_count; the index entry goes first, and a failing delete ends the *)
(* source's run.                                                             *)
Forget(u) == [job EXCEPT !.uris = @ \ {u}, !.idx[u] = NoRow]

prune_or_count(u) ==
    \/ /\ ~job.prune
       /\ job' = [job EXCEPT !.uris = @ \ {u}]
       /\ UNCHANGED rows /\ NoFault
    \/ /\ job.prune
       /\ job' = Forget(u)
       /\ rows' = [rows EXCEPT ![u] = NoRow]
       /\ excused' = excused \cup {u} /\ UNCHANGED faults
    \/ /\ job.prune
       /\ job' = [Forget(u) EXCEPT !.pc = "source", !.cur = {}]
       /\ UNCHANGED rows /\ Fault

PruneGone(u) ==
    /\ job.pc = "gone" /\ u \in job.uris
    /\ prune_or_count(u)
    /\ UNCHANGED cache /\ Unread

OwnedUris == {u \in Uris : Owned(u)}

(* Variant: without the zero-seen guard. *)
SuppressedWhenIncomplete == ~job.complete

Suppressed == ~job.complete \/ (OwnedUris # {} /\ OwnedUris \cap job.seen = {})

GoneDone ==
    /\ job.pc = "gone" /\ job.uris = {}
    /\ job' = [job EXCEPT
         !.pc = IF Kind[Cur] # "feed" THEN "sweep"
                ELSE IF job.prune /\ job.complete THEN "liveness" ELSE "finish",
         !.uris = IF Kind[Cur] # "feed"
                  THEN IF Suppressed THEN {} ELSE OwnedUris \ (job.seen \cup job.gone)
                  ELSE {}]
    /\ UNCHANGED <<rows, cache>> /\ NoFault /\ Unread

Sweep(u) ==
    /\ job.pc = "sweep" /\ u \in job.uris
    /\ prune_or_count(u)
    /\ UNCHANGED cache /\ Unread

SweepDone ==
    /\ job.pc = "sweep" /\ job.uris = {}
    /\ job' = [job EXCEPT !.pc = "finish"]
    /\ UNCHANGED <<rows, cache>> /\ NoFault /\ Unread

(* run_feed_liveness_sweep: the stale rows of the source that this run did   *)
(* not observe, read from the store; the oldest up to the batch limit.       *)
list_stale_feed_resources ==
    {u \in Uris \ job.seen : rows[u].owner = {Cur} /\ ~rows[u].fresh}

LivenessSweep ==
    /\ job.pc = "liveness"
    /\ \/ /\ \E us \in SUBSET list_stale_feed_resources :
             /\ Batch(us, list_stale_feed_resources)
             /\ job' = [job EXCEPT !.pc = "probe", !.uris = us]
          /\ NoFault
       \/ job' = [job EXCEPT !.pc = "source", !.cur = {}] /\ Fault
    /\ UNCHANGED <<rows, cache>> /\ Unread

(* Variant: a failing probe is taken for an absence. *)
ProbeTrustingErrors(u) ==
    /\ job.pc = "probe" /\ u \in job.uris
    /\ job' = Forget(u)
    /\ rows' = [rows EXCEPT ![u] = NoRow]
    /\ UNCHANGED cache /\ Unread
    /\ IF page[u] = 0 THEN NoFault ELSE Fault

(* probe_liveness_candidate: only a confirmed absence deletes; every other   *)
(* answer, an error included, only moves the row's check clock.              *)
Probe(u) ==
    /\ job.pc = "probe" /\ u \in job.uris
    /\ \/ /\ page[u] = 0
          /\ job' = Forget(u)
          /\ rows' = [rows EXCEPT ![u] = NoRow]
          /\ excused' = excused \cup {u} /\ UNCHANGED faults
       \/ /\ page[u] = 0
          /\ job' = [Forget(u) EXCEPT !.pc = "source", !.cur = {}]
          /\ UNCHANGED rows /\ Fault
       \/ /\ job' = [job EXCEPT !.uris = @ \ {u}]
          /\ rows' = [rows EXCEPT ![u] = Touched(rows[u])]
          /\ IF page[u] = 0 THEN Fault ELSE NoFault
       \/ /\ job' = [job EXCEPT !.uris = @ \ {u}]      \* the touch failed
          /\ UNCHANGED rows /\ Fault
    /\ UNCHANGED cache /\ Unread

ProbesDone ==
    /\ job.pc = "probe" /\ job.uris = {}
    /\ job' = [job EXCEPT !.pc = "finish"]
    /\ UNCHANGED <<rows, cache>> /\ NoFault /\ Unread

(* Variant: the validators are stored whatever failed. *)
FinishSourceDespiteErrors ==
    /\ job.pc = "finish"
    /\ IF job.validators # {} /\ Cur \in alive
       THEN \E v \in job.validators : cache' = [cache EXCEPT ![Cur] = [ver |-> v, digest |-> {job.pol}]]
       ELSE UNCHANGED cache
    /\ job' = [job EXCEPT !.pc = "source", !.cur = {}]
    /\ UNCHANGED rows /\ NoFault /\ Unread

(* run_job, after a source: the validators and the digest of the inputs they *)
(* were obtained under are stored together, and only by a run without error. *)
FinishSource ==
    /\ job.pc = "finish"
    /\ \/ /\ ~job.errors /\ job.validators # {} /\ Cur \in alive
          /\ \E v \in job.validators : cache' = [cache EXCEPT ![Cur] = [ver |-> v, digest |-> {job.pol}]]
          /\ NoFault
       \/ /\ job.errors \/ job.validators = {} \/ Cur \notin alive
          /\ UNCHANGED cache /\ NoFault
       \/ UNCHANGED cache /\ Fault
    /\ job' = [job EXCEPT !.pc = "source", !.cur = {}]
    /\ UNCHANGED rows /\ Unread

EndJob ==
    /\ job.pc = "source" /\ job.todo = {}
    /\ job' = Idle
    /\ UNCHANGED <<rows, cache>> /\ NoFault /\ Unread

(* The job's future is dropped at an await. *)
AbortJob ==
    /\ MayAbort /\ job.pc # "idle"
    /\ job' = Idle
    /\ UNCHANGED <<rows, cache>> /\ NoFault /\ Unread

Step(u) == ProcessUrl(u) \/ ProcessFile(u) \/ PruneGone(u) \/ Sweep(u) \/ Probe(u)

JobStep ==
    \/ \E s \in Sources : BeginPath(s) \/ BeginUrl(s) \/ BeginFeed(s) \/ BeginFeedFails(s)
                          \/ \E u \in Uris : BeginPathStatError(s, u)
    \/ \E u \in Uris : Step(u)
    \/ EntriesDone \/ GoneDone \/ SweepDone \/ LivenessSweep \/ ProbesDone
    \/ FinishSource \/ EndJob

Next ==
    \/ \E u \in Uris : PageChanges(u) \/ FloorPasses(u)
    \/ \E s \in Sources : FeedPublishes(s) \/ RemoveSource(s)
    \/ PolicyChanges
    \/ \E S \in JobScopes, prune, refetch \in BOOLEAN : StartJob(S, prune, refetch)
    \/ JobStep
    \/ AbortJob

Spec == Init /\ [][Next]_vars

(* A started job makes progress, time passes, and the scheduler submits a    *)
(* retaining refresh of every source again and again (Scheduler).            *)
Fairness ==
    /\ WF_vars(JobStep)
    /\ \A u \in Uris : WF_vars(FloorPasses(u))
    /\ \A s \in Sources : SF_vars(StartJob({s}, FALSE, FALSE))

FairSpec == Spec /\ Fairness

-----------------------------------------------------------------------------
(* Properties *)

Working == {"entries", "gone", "sweep", "liveness", "probe", "finish"}

(* run_source_ingestion deletes a document only when pruning was asked for,  *)
(* only one of the source being run, and only if the origin did not have it  *)
(* at some moment of this very run: an unreachable root, an unmounted        *)
(* volume, a failing fetch, a scrolled feed window or another source's run   *)
(* never costs a document.                                                   *)
DeletesOnlyAbsent ==
    [][\A u \in Uris : rows[u] # NoRow /\ rows'[u] = NoRow /\ alive' = alive =>
          job.prune /\ rows[u].owner = job.cur /\ u \in absent]_vars

(* The same for the sources whose files the walk may fail to look at: what   *)
(* is deleted was absent, or is the one file whose metadata was unreadable.  *)
DeletesOnlyMissing ==
    [][\A u \in Uris : rows[u] # NoRow /\ rows'[u] = NoRow /\ alive' = alive =>
          job.prune /\ rows[u].owner = job.cur /\ u \in absent \cup job.missed]_vars

(* Once a source is removed none of its documents is in the store, also when *)
(* a job was indexing it at that moment and goes on writing.                 *)
RemovedStaysRemoved == \A u \in Uris : rows[u].owner \subseteq alive

(* The in-memory document index a job decides from never claims content the  *)
(* store does not hold (the phantom that would freeze a document, since the  *)
(* skip check of on_resource_impl would take it for indexed).                *)
SkipCheckGrounded ==
    \A u \in Uris : job.idx[u].owner # {} /\ job.idx[u].owner \subseteq alive =>
        [job.idx[u] EXCEPT !.fresh = FALSE] = [rows[u] EXCEPT !.fresh = FALSE]

(* A feed document's 304 skips its entries, so validators are stored only    *)
(* when nothing is left to do behind them: while they would be replayed,     *)
(* every listed entry is indexed under the current policy, or a run found it *)
(* to have no content or deleted it as gone.                                 *)
CacheHidesNothing ==
    \A s \in alive : Kind[s] = "feed" /\ cache[s] = [ver |-> feed[s].ver, digest |-> {policy}] =>
        \A u \in feed[s].entries \ excused : rows[u] # NoRow /\ rows[u].policy = policy

(* last_checked_at moves, outside the liveness probe, only when the origin   *)
(* was reached and the row holds what it serves: a stamp on anything else    *)
(* would let the recheck gate keep a stale document.                         *)
TouchMeansVerified ==
    [][\A u \in Uris : rows'[u].fresh /\ ~rows[u].fresh /\ job.pc # "probe" =>
          rows'[u].content = page[u]]_vars

Listed(s) == IF Kind[s] = "feed" THEN feed[s].entries ELSE Scope[s]

(* Every listed document that stays as it is at its origin is eventually     *)
(* indexed with that content, whatever failed before: withheld validators,   *)
(* the revisit of due entries behind a 304 and the recheck floor together    *)
(* leave no entry behind.                                                    *)
CatchesUp ==
    \A s \in Sources : \A u \in Scope[s], v \in Versions :
        []<>(page[u] # v \/ rows[u].content = v \/ u \notin Listed(s)
             \/ u \in excused \/ s \notin alive)

=============================================================================
