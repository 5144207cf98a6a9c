--------------------------- MODULE IngestionProofs ---------------------------
(***************************************************************************)
(* Theorems about modules Ingestion and Http, the pipeline and the requests *)
(* it sends.  For any sources, URIs and number of versions, policies and    *)
(* failures: a job deletes only what its own run found missing, a removed   *)
(* source leaves nothing behind, the index a job decides from claims        *)
(* nothing the store does not hold, check stamps vouch for content, and a   *)
(* feed's stored validators hide no unfinished entry.  For every set of     *)
(* requests and hosts, every retry and redirect limit, budget and cap, and  *)
(* every Retry-After a server may send: requests stay within their budget,  *)
(* guarded requests stay outside, and cooldowns hold.                       *)
(***************************************************************************)
EXTENDS Ingestion, Http, TLAPS

AnyRows == [owner : SUBSET Sources, content : Nat, policy : Nat, fresh : BOOLEAN]
AnyCaches == [ver : Nat, digest : SUBSET Nat]
Feeds == [ver : Nat \ {0}, entries : SUBSET Uris]
JobRecs ==
    [pc : {"idle", "source"} \cup Working, todo : SUBSET Sources, cur : SUBSET Sources,
     prune : BOOLEAN, refetch : BOOLEAN, pol : Nat, snap : [Sources -> AnyCaches],
     idx : [Uris -> AnyRows], uris : SUBSET Uris, revisit : BOOLEAN, seen : SUBSET Uris,
     gone : SUBSET Uris, errors : BOOLEAN, complete : BOOLEAN, missed : SUBSET Uris,
     validators : SUBSET Nat]

IngestionTypes ==
    /\ page \in [Uris -> Nat]
    /\ feed \in [Sources -> Feeds]
    /\ \A s \in Sources : feed[s].entries \subseteq Scope[s]
    /\ policy \in Nat
    /\ alive \subseteq Sources
    /\ rows \in [Uris -> AnyRows]
    /\ cache \in [Sources -> AnyCaches]
    /\ job \in JobRecs

(* A row belongs to the source in whose scope its URI is. *)
Belongs(r, u) == r = NoRow \/ \E s \in Sources : r.owner = {s} /\ u \in Scope[s]

Ownership ==
    /\ \A u \in Uris : Belongs(rows[u], u) /\ Belongs(job.idx[u], u)
    /\ RemovedStaysRemoved
    /\ SkipCheckGrounded

(* The run of one source: whose it is and what its pending URIs are. *)
RunShape ==
    job.pc \in Working =>
        /\ Cur \in Sources \ job.todo /\ job.cur = {Cur}
        /\ job.pc = "entries" => job.uris \subseteq Scope[Cur]
        /\ job.pc \in {"gone", "sweep"} => \A u \in job.uris : Owned(u)
        /\ job.pc = "probe" => \A u \in job.uris : rows[u] = NoRow \/ rows[u].owner = {Cur}
        /\ job.pc \in {"liveness", "probe"} => job.prune

(* What of the source is still to be processed. *)
Pending == IF job.pc = "entries" THEN job.uris ELSE {}

(* What the run did not look at, it found missing; or it saw nothing at all. *)
Enumerated ==
    \/ Scope[Cur] \subseteq absent \cup job.missed \cup job.seen \cup job.gone \cup Pending
    \/ job.seen = {} /\ Pending = {}

Absences ==
    job.pc \in Working =>
        /\ \A u \in Uris : page[u] = 0 => u \in absent
        /\ job.gone \subseteq absent
        /\ Kind[Cur] # "feed" /\ job.pc \in {"entries", "gone"} => Enumerated
        /\ job.pc \in {"gone", "sweep"} => job.uris \subseteq absent \cup job.missed
        /\ StatErrors = FALSE => job.missed = {}

Indexed(u) == rows[u] # NoRow /\ rows[u].policy = job.pol

(* What storing the validators at the end of the run will vouch for. *)
RunHidesNothing ==
    job.pc \in Working /\ Cur \in alive /\ Kind[Cur] = "feed" /\ ~job.errors
    /\ job.pol = policy /\ feed[Cur].ver \in job.validators =>
        \A u \in feed[Cur].entries \ excused :
            Indexed(u) \/ (~job.revisit /\ u \in Pending)

(* Validators, and the policies they were stored under, are of the past. *)
Claims ==
    /\ \A s \in Sources : cache[s].ver <= feed[s].ver /\ \A p \in cache[s].digest : p <= policy
    /\ job.pc # "idle" =>
          /\ job.pol <= policy
          /\ \A s \in Sources : \A p \in cache[s].digest : p <= job.pol
          /\ \A s \in job.todo \cap alive : cache[s] = job.snap[s]
    /\ job.pc \in Working => \A v \in job.validators : v <= feed[Cur].ver
    /\ CacheHidesNothing
    /\ RunHidesNothing

(* The inductive invariant. *)
IngestionInvariant == IngestionTypes /\ Ownership /\ RunShape /\ Absences /\ Claims

-----------------------------------------------------------------------------
(* The source being run and what is known of its rows *)

LEMMA Started ==
    ASSUME NEW s \in Sources, job'.cur = {s}
    PROVE  Cur' = s
BY DEF Cur

LEMMA NoRows ==
    /\ NoRow \in AnyRows /\ NoRow.owner = {} /\ ~NoRow.fresh /\ NoRow.policy = 0 /\ NoRow.content = 0
    /\ \A r \in AnyRows : /\ Touched(r) \in AnyRows /\ Touched(r).owner = r.owner
                          /\ Touched(r).content = r.content /\ Touched(r).policy = r.policy
                          /\ [r EXCEPT !.fresh = FALSE] \in AnyRows
BY DEF NoRow, AnyRows, Touched

LEMMA SameButFresh ==
    ASSUME NEW r \in AnyRows, NEW q \in AnyRows,
           r.owner = q.owner, r.content = q.content, r.policy = q.policy
    PROVE  [r EXCEPT !.fresh = FALSE] = [q EXCEPT !.fresh = FALSE]
BY DEF AnyRows

LEMMA SameFields ==
    ASSUME NEW r \in AnyRows, NEW q \in AnyRows,
           [r EXCEPT !.fresh = FALSE] = [q EXCEPT !.fresh = FALSE]
    PROVE  r.owner = q.owner /\ r.content = q.content /\ r.policy = q.policy
BY DEF AnyRows

LEMMA IdleTypes ==
    /\ Idle \in JobRecs
    /\ Idle.pc = "idle" /\ Idle.idx = [u \in Uris |-> NoRow]
BY NoRows DEF Idle, JobRecs, NoCache, AnyCaches

(* A row that is not empty names its source, and that one only. *)
LEMMA OneOwner ==
    ASSUME IngestionAssumption, NEW u \in Uris, NEW r \in AnyRows, Belongs(r, u), NEW s \in Sources, u \in Scope[s]
    PROVE  r = NoRow \/ r.owner = {s}
BY DEF Belongs, IngestionAssumption

(* What the job's index says of a document of the source it runs is true. *)
LEMMA IndexIsTrue ==
    ASSUME IngestionAssumption, IngestionInvariant, job.pc \in Working,
           NEW u \in Scope[Cur]
    PROVE  /\ u \in Uris /\ rows[u] \in AnyRows /\ job.idx[u] \in AnyRows
           /\ rows[u] = NoRow \/ rows[u].owner = {Cur}
           /\ job.idx[u] = NoRow \/ job.idx[u].owner = {Cur}
           /\ Cur \notin alive => rows[u] = NoRow
           /\ Cur \in alive /\ job.idx[u] # NoRow =>
                 /\ rows[u] # NoRow
                 /\ rows[u].content = job.idx[u].content /\ rows[u].policy = job.idx[u].policy
<1>1. /\ u \in Uris /\ rows[u] \in AnyRows /\ job.idx[u] \in AnyRows /\ Cur \in Sources
      /\ Belongs(rows[u], u) /\ Belongs(job.idx[u], u)
  BY DEF IngestionInvariant, IngestionTypes, IngestionAssumption, Ownership, RunShape, JobRecs
<1>2. /\ rows[u] = NoRow \/ rows[u].owner = {Cur}
      /\ job.idx[u] = NoRow \/ job.idx[u].owner = {Cur}
  BY <1>1, OneOwner
<1>3. rows[u].owner \subseteq alive
  BY <1>1 DEF IngestionInvariant, Ownership, RemovedStaysRemoved
<1>4. ASSUME Cur \in alive, job.idx[u] # NoRow
      PROVE  /\ rows[u] # NoRow
             /\ rows[u].content = job.idx[u].content /\ rows[u].policy = job.idx[u].policy
  <2>1. [job.idx[u] EXCEPT !.fresh = FALSE] = [rows[u] EXCEPT !.fresh = FALSE]
    BY <1>1, <1>2, <1>4 DEF IngestionInvariant, Ownership, SkipCheckGrounded
  <2>2. /\ rows[u].content = job.idx[u].content /\ rows[u].policy = job.idx[u].policy
        /\ rows[u].owner = job.idx[u].owner
    BY <1>1, <2>1, SameFields
  <2> QED
    BY <1>2, <1>4, <2>2, NoRows
<1> QED
  BY <1>1, <1>2, <1>3, <1>4

-----------------------------------------------------------------------------
(* What a run does to the document it reports *)

(* The store has r for the document afterwards, the job's index i.           *)
Outcome(u, r, i, err) ==
    /\ r \in AnyRows /\ i \in AnyRows /\ err \in BOOLEAN
    /\ Belongs(r, u) /\ r.owner \subseteq alive
    /\ Belongs(i, u)
    /\ i.owner # {} /\ i.owner \subseteq alive => [i EXCEPT !.fresh = FALSE] = [r EXCEPT !.fresh = FALSE]
    /\ rows[u] # NoRow => r # NoRow
    /\ r.fresh /\ ~rows[u].fresh => r.content = page[u]
    /\ \/ r.policy = rows[u].policy /\ (u \in excused => u \in excused')
       \/ r # NoRow /\ r.policy = job.pol
    /\ \/ err \/ Kind[Cur] # "feed" \/ job.revisit \/ Cur \notin alive \/ u \in excused'
       \/ r # NoRow /\ r.policy = job.pol

Reported(u) ==
    \E r, i \in AnyRows, err \in BOOLEAN :
        /\ Report(u, err, i, r) /\ Outcome(u, r, i, err)
        /\ \A x \in Uris \ {u} : x \in excused' <=> x \in excused

LEMMA Skips ==
    ASSUME IngestionAssumption, IngestionInvariant, job.pc = "entries", NEW u \in job.uris,
           NEW err \in BOOLEAN, on_skipped(u, err),
           \A x \in Uris \ {u} : x \in excused' <=> x \in excused,
           u \in excused => u \in excused',
           \/ err \/ Kind[Cur] # "feed" \/ job.revisit \/ Cur \notin alive \/ u \in excused'
           \/ Indexed(u)
    PROVE  Reported(u)
<1>1. u \in Uris /\ rows[u] \in AnyRows /\ job.idx[u] \in AnyRows
  BY DEF IngestionInvariant, IngestionTypes, JobRecs
<1>2. /\ Belongs(rows[u], u) /\ Belongs(job.idx[u], u) /\ rows[u].owner \subseteq alive
      /\ job.idx[u].owner # {} /\ job.idx[u].owner \subseteq alive =>
            [job.idx[u] EXCEPT !.fresh = FALSE] = [rows[u] EXCEPT !.fresh = FALSE]
  BY <1>1 DEF IngestionInvariant, Ownership, RemovedStaysRemoved, SkipCheckGrounded
<1>3. Outcome(u, rows[u], job.idx[u], err)
  BY <1>1, <1>2 DEF Outcome, Indexed
<1> QED
  BY <1>1, <1>3 DEF Reported, on_skipped

(* The arm for a document whose content and policy are as indexed. *)
LEMMA Unchanged ==
    ASSUME IngestionAssumption, IngestionInvariant, job.pc = "entries", NEW u \in job.uris,
           job.idx[u] # NoRow, job.idx[u].policy = job.pol,
           NEW touches \in BOOLEAN, touches => job.idx[u].content = page[u],
           on_unchanged(u, touches)
    PROVE  Reported(u)
<1>1. u \in Scope[Cur] /\ job.pc \in Working
  BY DEF IngestionInvariant, RunShape, Working
<1>2. Cur \notin alive \/ Indexed(u)
  BY <1>1, IndexIsTrue DEF Indexed
<1>3. CASE \E err \in BOOLEAN : on_skipped(u, err) /\ excused' = excused
  BY <1>2, <1>3, Skips
<1>4. CASE rows[u] # NoRow /\ NoFault /\ touches /\ Report(u, FALSE, Touched(job.idx[u]), Touched(rows[u]))
  <2> DEFINE r == Touched(rows[u])  i == Touched(job.idx[u])
  <2>1. u \in Uris /\ rows[u] \in AnyRows /\ job.idx[u] \in AnyRows
    BY <1>1, IndexIsTrue
  <2>2. /\ r \in AnyRows /\ r.owner = rows[u].owner /\ r.policy = rows[u].policy /\ r.content = rows[u].content
        /\ i \in AnyRows /\ i.owner = job.idx[u].owner
    BY <2>1, NoRows
  <2>3. Cur \in alive /\ Indexed(u) /\ rows[u].content = job.idx[u].content /\ rows[u].owner = {Cur}
        /\ job.idx[u].owner = {Cur}
    BY <1>1, <1>4, IndexIsTrue DEF Indexed
  <2>4. r # NoRow /\ r.owner \subseteq alive /\ Belongs(r, u) /\ Belongs(i, u)
    BY <1>1, <2>2, <2>3, NoRows DEF Belongs, IngestionInvariant, RunShape
  <2>5. [i EXCEPT !.fresh = FALSE] = [r EXCEPT !.fresh = FALSE]
    <3>1. i.content = r.content /\ i.policy = r.policy /\ i.owner = r.owner
      BY <1>1, <1>4, <2>1, <2>2, <2>3, NoRows, IndexIsTrue
    <3> HIDE DEF r, i
    <3> QED
      BY <2>2, <3>1, SameButFresh
  <2>6. Outcome(u, r, i, FALSE)
    <3> HIDE DEF r, i
    <3> QED
      BY <1>4, <2>2, <2>3, <2>4, <2>5 DEF Outcome, Indexed, NoFault
  <2> QED
    BY <1>4, <2>2, <2>6 DEF Reported, NoFault
<1> QED
  BY <1>3, <1>4 DEF on_unchanged, NoFault, Fault

LEMMA Resource ==
    ASSUME IngestionAssumption, IngestionInvariant, job.pc = "entries", NEW u \in job.uris,
           NEW v \in Nat \ {0}, NEW fetched \in BOOLEAN, fetched => v = page[u],
           on_resource(u, v, fetched)
    PROVE  Reported(u)
<1> DEFINE touches == OriginContact(fetched)
           new(f) == [owner |-> {Cur}, content |-> v, policy |-> job.pol, fresh |-> f]
           kept == rows[u].content = v /\ rows[u].fresh
<1>1. /\ u \in Scope[Cur] /\ job.pc \in Working /\ Cur \in Sources
      /\ u \in Uris /\ rows[u] \in AnyRows /\ job.idx[u] \in AnyRows /\ job.pol \in Nat
  BY IndexIsTrue DEF IngestionInvariant, RunShape, Working, IngestionTypes, JobRecs
<1>2. touches \in BOOLEAN /\ kept \in BOOLEAN /\ (touches => v = page[u])
  BY <1>1 DEF OriginContact, Network, AnyRows
<1>3. CASE job.idx[u].content = v /\ job.idx[u].policy = job.pol
  <2>1. on_unchanged(u, touches)
    BY <1>3 DEF on_resource
  <2>2. job.idx[u] # NoRow
    BY <1>3, NoRows
  <2> QED
    BY <1>2, <1>3, <2>1, <2>2, Unchanged
<1>4. CASE on_skipped(u, TRUE) /\ excused' = excused
  BY <1>4, Skips
<1>5. CASE IndexEmpty(u) /\ excused' = excused \cup {u}
  BY <1>1, <1>5, Skips DEF IndexEmpty
<1>6. ASSUME Cur \in alive, excused' = excused \ {u}, NEW f \in BOOLEAN, NEW g \in BOOLEAN,
             Report(u, FALSE, new(g), new(f)), f => touches \/ kept
      PROVE  Reported(u)
  <2>0. ASSUME NEW h \in BOOLEAN
        PROVE  /\ new(h) \in AnyRows /\ new(h).owner = {Cur}
               /\ new(h).content = v /\ new(h).policy = job.pol
    BY <1>1 DEF AnyRows
  <2>a. new(f).fresh => f
    OBVIOUS
  <2>1. /\ new(f) \in AnyRows /\ new(g) \in AnyRows /\ new(f).owner = {Cur} /\ new(g).owner = {Cur}
        /\ new(f).content = v /\ new(f).policy = job.pol
        /\ new(g).content = v /\ new(g).policy = job.pol
    <3> HIDE DEF new
    <3> QED
      BY <1>6, <2>0
  <2>b. [new(g) EXCEPT !.fresh = FALSE] = [new(f) EXCEPT !.fresh = FALSE]
    <3> HIDE DEF new
    <3> QED
      BY <2>1, SameButFresh
  <2>2. new(f) # NoRow /\ new(f).owner \subseteq alive
    BY <1>6, <2>1, NoRows
  <2>3. Belongs(new(f), u) /\ Belongs(new(g), u)
    BY <1>1, <2>1 DEF Belongs
  <2>4. new(f).fresh /\ ~rows[u].fresh => new(f).content = page[u]
    BY <1>2, <1>6, <2>1, <2>a
  <2>5. Outcome(u, new(f), new(g), FALSE)
    <3> HIDE DEF new
    <3> QED
      BY <2>1, <2>2, <2>3, <2>4, <2>b DEF Outcome
  <2> HIDE DEF new
  <2> QED
    BY <1>6, <2>1, <2>5 DEF Reported
<1> HIDE DEF new
<1>7. CASE /\ Cur \in alive /\ excused' = excused \ {u}
           /\ \/ Report(u, FALSE, new(touches), new(touches \/ kept))
              \/ Report(u, FALSE, new(FALSE), new(kept))
  BY <1>2, <1>6, <1>7
<1> QED
  BY <1>3, <1>4, <1>5, <1>7 DEF on_resource, ForeignKeyHolds, Fault, NoFault, new

(* An origin that has no document of a url or of a revisited entry. *)
FoundGone(u) ==
    /\ page[u] = 0 /\ (Kind[Cur] = "feed" => job.revisit)
    /\ job' = [job EXCEPT !.uris = @ \ {u},
                          !.gone = IF Kind[Cur] = "url" THEN @ \cup {u} ELSE @]
    /\ UNCHANGED <<rows, cache>> /\ NoFault /\ Unread

(* A document of a run is reported, or found gone. *)
LEMMA EntryReported ==
    ASSUME IngestionAssumption, IngestionInvariant, NEW u \in Uris, ProcessUrl(u) \/ ProcessFile(u)
    PROVE  /\ job.pc = "entries" /\ u \in job.uris
           /\ Reported(u) \/ FoundGone(u)
<1>1. /\ job.pc = "entries" /\ u \in job.uris /\ job.pc \in Working /\ u \in Scope[Cur]
      /\ page[u] \in Nat
  BY DEF ProcessUrl, ProcessFile, Working, IngestionInvariant, RunShape, IngestionTypes
<1>2. CASE on_skipped(u, TRUE) /\ excused' = excused
  BY <1>1, <1>2, Skips
<1>3. CASE GateClosed(u)
  <2>1. job.idx[u] # NoRow /\ job.idx[u].policy = job.pol
    BY <1>3 DEF GateClosed, recheck_is_due
  <2>2. Cur \notin alive \/ Indexed(u)
    BY <1>1, <2>1, IndexIsTrue DEF Indexed
  <2> QED
    BY <1>1, <1>3, <2>2, Skips DEF GateClosed, NoFault
<1>4. CASE on_resource(u, Embedded, FALSE)
  <2>1. Embedded \in Nat \ {0}
    BY DEF Embedded, IngestionAssumption
  <2> QED
    BY <1>1, <1>4, <2>1, Resource
<1>5. CASE page[u] # 0 /\ on_resource(u, page[u], TRUE)
  BY <1>1, <1>5, Resource
<1>6. CASE EntryUnusable(u)
  <2>1. CASE Kind[Cur] = "feed" /\ ~job.revisit
    BY <1>4, <1>6, <2>1 DEF EntryUnusable
  <2>2. CASE ~(Kind[Cur] = "feed" /\ ~job.revisit)
    <3>1. on_skipped(u, job.revisit) /\ excused' = excused /\ job.revisit \in BOOLEAN
      BY <1>6, <2>2 DEF EntryUnusable, Fault, IngestionInvariant, IngestionTypes, JobRecs
    <3> QED
      BY <1>1, <2>2, <3>1, Skips
  <2> QED
    BY <2>1, <2>2
<1>7. CASE page[u] = 0 /\ EntryGone(u)
  BY <1>1, <1>4, <1>7 DEF EntryGone, FoundGone
<1>8. CASE page[u] # 0 /\ NotModified(u) /\ on_unchanged(u, TRUE)
  <2>1. job.idx[u] # NoRow /\ job.idx[u].policy = job.pol /\ job.idx[u].content = page[u]
    BY <1>8, NoRows DEF NotModified
  <2> QED
    BY <1>1, <1>8, <2>1, Unchanged
<1>9. CASE on_skipped(u, FALSE) /\ excused' = excused /\ ~Network
  BY <1>1, <1>9, Skips DEF Network
<1> QED
  BY <1>1, <1>2, <1>3, <1>4, <1>5, <1>6, <1>7, <1>8, <1>9 DEF ProcessUrl, ProcessFile, Fault, NoFault

-----------------------------------------------------------------------------
(* Steps of a run keep the invariant *)

(* The claims behind stored validators survive a step that leaves the feeds, *)
(* the policy and the validators alone and takes no row without an excuse.   *)
LEMMA ClaimsSurvive ==
    ASSUME IngestionAssumption, IngestionInvariant, UNCHANGED <<feed, policy, alive, cache>>,
           \A u \in Uris : \/ u \in excused'
                           \/ /\ u \notin excused /\ rows'[u].policy = rows[u].policy
                              /\ rows[u] # NoRow => rows'[u] # NoRow
                           \/ /\ rows'[u] # NoRow
                              /\ rows'[u].policy = policy \/ (job.pc # "idle" /\ job.pol # policy)
    PROVE  CacheHidesNothing'
<1> SUFFICES ASSUME NEW s \in alive, Kind[s] = "feed", cache[s] = [ver |-> feed[s].ver, digest |-> {policy}],
                    NEW u \in feed[s].entries \ excused'
             PROVE  rows'[u] # NoRow /\ rows'[u].policy = policy
  BY DEF CacheHidesNothing
<1>1. s \in Sources /\ u \in Uris
  BY DEF IngestionInvariant, IngestionTypes, Feeds
<1>2. u \notin excused => rows[u] # NoRow /\ rows[u].policy = policy
  BY DEF IngestionInvariant, Claims, CacheHidesNothing
<1>3. job.pc # "idle" => job.pol = policy
  <2>1. policy \in cache[s].digest
    OBVIOUS
  <2>2. job.pc # "idle" => policy <= job.pol /\ job.pol <= policy
    BY <1>1, <2>1 DEF IngestionInvariant, Claims
  <2>3. policy \in Nat /\ job.pol \in Nat
    BY DEF IngestionInvariant, IngestionTypes, JobRecs
  <2> QED
    BY <2>2, <2>3
<1> QED
  BY <1>1, <1>2, <1>3

LEMMA ReportKeeps ==
    ASSUME IngestionAssumption, IngestionInvariant, job.pc = "entries", NEW u \in job.uris, Reported(u)
    PROVE  IngestionInvariant'
<1>1. PICK r \in AnyRows, i \in AnyRows, err \in BOOLEAN :
        /\ Report(u, err, i, r) /\ Outcome(u, r, i, err)
        /\ \A x \in Uris \ {u} : x \in excused' <=> x \in excused
  BY DEF Reported
<1>2. /\ u \in Uris /\ u \in Scope[Cur] /\ Cur \in Sources /\ job.pc \in Working /\ job \in JobRecs
      /\ rows \in [Uris -> AnyRows] /\ job.idx \in [Uris -> AnyRows]
  BY DEF IngestionInvariant, IngestionTypes, RunShape, Working, JobRecs
<1>3. /\ job' = [job EXCEPT !.uris = job.uris \ {u}, !.seen = job.seen \cup {u},
                            !.errors = job.errors \/ err, !.idx = [job.idx EXCEPT ![u] = i]]
      /\ rows' = [rows EXCEPT ![u] = r]
      /\ UNCHANGED <<cache, page, feed, policy, alive, absent>>
  BY <1>1 DEF Report, Unread, origins
<1>4. /\ job' \in JobRecs /\ rows' \in [Uris -> AnyRows]
      /\ job'.pc = "entries" /\ job'.uris = job.uris \ {u} /\ job'.seen = job.seen \cup {u}
      /\ job'.errors = (job.errors \/ err) /\ job'.idx = [job.idx EXCEPT ![u] = i]
      /\ job'.cur = job.cur /\ job'.todo = job.todo /\ job'.pol = job.pol /\ job'.gone = job.gone
      /\ job'.snap = job.snap /\ job'.missed = job.missed /\ job'.validators = job.validators
      /\ job'.revisit = job.revisit /\ job'.prune = job.prune /\ job'.complete = job.complete
  BY <1>2, <1>3 DEF JobRecs
<1>5. Cur' = Cur /\ job'.pc \in Working
  BY <1>4 DEF Cur, Working
<1>6. IngestionTypes'
  BY <1>3, <1>4 DEF IngestionInvariant, IngestionTypes
<1>7. Ownership'
  <2>1. \A x \in Uris : /\ rows'[x] = IF x = u THEN r ELSE rows[x]
                        /\ job'.idx[x] = IF x = u THEN i ELSE job.idx[x]
    BY <1>2, <1>3, <1>4
  <2>2. \A x \in Uris : Belongs(rows'[x], x) /\ Belongs(job'.idx[x], x)
    BY <1>1, <2>1 DEF Outcome, IngestionInvariant, Ownership
  <2>3. RemovedStaysRemoved'
    BY <1>1, <1>3, <2>1 DEF Outcome, IngestionInvariant, Ownership, RemovedStaysRemoved
  <2>4. SkipCheckGrounded'
    <3> SUFFICES ASSUME NEW x \in Uris, job'.idx[x].owner # {}, job'.idx[x].owner \subseteq alive
                 PROVE  [job'.idx[x] EXCEPT !.fresh = FALSE] = [rows'[x] EXCEPT !.fresh = FALSE]
      BY <1>3 DEF SkipCheckGrounded
    <3>1. CASE x = u
      BY <1>1, <2>1, <3>1 DEF Outcome
    <3>2. CASE x # u
      BY <2>1, <3>2 DEF IngestionInvariant, Ownership, SkipCheckGrounded
    <3> QED
      BY <3>1, <3>2
  <2> QED
    BY <2>2, <2>3, <2>4 DEF Ownership, Belongs
<1>8. RunShape'
  BY <1>2, <1>4, <1>5 DEF IngestionInvariant, RunShape
<1>9. Absences'
  BY <1>2, <1>3, <1>4, <1>5 DEF IngestionInvariant, Absences, Enumerated, Pending
<1>10. Claims'
  <2>1. \/ r # NoRow /\ r.policy = job.pol
        \/ r.policy = rows[u].policy /\ (u \in excused => u \in excused')
    BY <1>1 DEF Outcome
  <2>2. CacheHidesNothing'
    <3>1. \A x \in Uris : \/ x \in excused'
                          \/ /\ x \notin excused /\ rows'[x].policy = rows[x].policy
                             /\ rows[x] # NoRow => rows'[x] # NoRow
                          \/ /\ rows'[x] # NoRow
                             /\ rows'[x].policy = policy \/ (job.pc # "idle" /\ job.pol # policy)
      BY <1>1, <1>2, <1>3, <2>1 DEF Outcome
    <3> QED
      BY <1>3, <3>1, ClaimsSurvive
  <2>3. RunHidesNothing'
    <3> SUFFICES ASSUME Cur \in alive, Kind[Cur] = "feed", ~job.errors, ~err,
                        job.pol = policy, feed[Cur].ver \in job.validators,
                        NEW x \in feed[Cur].entries \ excused'
                 PROVE  (rows'[x] # NoRow /\ rows'[x].policy = job.pol) \/ (~job.revisit /\ x \in job.uris \ {u})
      BY <1>3, <1>4, <1>5 DEF RunHidesNothing, Indexed, Pending
    <3>1. x \in Uris
      BY <1>2 DEF IngestionInvariant, IngestionTypes, Feeds
    <3>2. x \notin excused => Indexed(x) \/ (~job.revisit /\ x \in job.uris)
      BY <1>2 DEF IngestionInvariant, Claims, RunHidesNothing, Pending
    <3>3. CASE x # u
      BY <1>1, <1>3, <3>1, <3>2, <3>3 DEF Indexed
    <3>4. CASE x = u
      <4>1. rows'[x] = r
        BY <1>2, <1>3, <3>4
      <4>2. CASE r # NoRow /\ r.policy = job.pol
        BY <4>1, <4>2
      <4>3. CASE ~(r # NoRow /\ r.policy = job.pol)
        <5>1. job.revisit /\ x \notin excused /\ r.policy = rows[u].policy
          BY <1>1, <2>1, <3>4, <4>3 DEF Outcome
        <5>2. Indexed(u)
          BY <3>2, <3>4, <5>1
        <5> QED
          BY <1>1, <4>3, <5>1, <5>2 DEF Outcome, Indexed
      <4> QED
        BY <4>2, <4>3
    <3> QED
      BY <3>3, <3>4
  <2> QED
    BY <1>2, <1>3, <1>4, <1>5, <2>2, <2>3 DEF IngestionInvariant, Claims
<1> QED
  BY <1>6, <1>7, <1>8, <1>9, <1>10 DEF IngestionInvariant

(* A run goes on, with the rows and its index as they were. *)
LEMMA RunGoesOn ==
    ASSUME IngestionAssumption, IngestionInvariant, job.pc \in Working, job' \in JobRecs,
           job'.pc \in Working,
           UNCHANGED <<page, feed, policy, alive, rows, cache, excused, absent>>,
           UNCHANGED <<job.idx, job.cur, job.todo, job.pol, job.snap, job.validators, job.errors,
                       job.revisit, job.prune, job.missed>>,
           RunShape', Absences',
           Pending \subseteq Pending' \/ Kind[Cur] # "feed" \/ job.revisit
    PROVE  IngestionInvariant'
<1>1. Cur' = Cur
  BY DEF Cur
<1>2. IngestionTypes'
  BY DEF IngestionInvariant, IngestionTypes
<1>3. Ownership'
  BY DEF IngestionInvariant, Ownership, RemovedStaysRemoved, SkipCheckGrounded, Belongs
<1>4. RunHidesNothing'
  BY <1>1 DEF IngestionInvariant, Claims, RunHidesNothing, Indexed
<1>5. CacheHidesNothing'
  BY DEF IngestionInvariant, Claims, CacheHidesNothing
<1>6. Claims'
  BY <1>1, <1>4, <1>5 DEF IngestionInvariant, Claims, Working
<1> QED
  BY <1>2, <1>3, <1>6 DEF IngestionInvariant

(* The job gives a source up, or ends.                                       *)
LEMMA RunEnds ==
    ASSUME IngestionAssumption, IngestionInvariant, job' \in JobRecs, job'.pc \in {"idle", "source"},
           UNCHANGED <<page, feed, policy, alive, rows, cache, excused>>,
           \A u \in Uris : job'.idx[u] = job.idx[u] \/ job'.idx[u] = NoRow,
           job'.pc = "source" => /\ job.pc # "idle" /\ job'.todo \subseteq job.todo
                                 /\ job'.pol = job.pol /\ job'.snap = job.snap
    PROVE  IngestionInvariant'
<1>1. job'.pc \notin Working
  BY DEF Working
<1>2. IngestionTypes'
  BY DEF IngestionInvariant, IngestionTypes
<1>3. Ownership'
  <2>1. RemovedStaysRemoved'
    BY DEF IngestionInvariant, Ownership, RemovedStaysRemoved
  <2>2. SkipCheckGrounded'
    BY NoRows DEF IngestionInvariant, Ownership, SkipCheckGrounded
  <2> QED
    BY <2>1, <2>2 DEF IngestionInvariant, Ownership, Belongs
<1>4. RunShape' /\ Absences' /\ RunHidesNothing'
  BY <1>1 DEF RunShape, Absences, RunHidesNothing
<1>5. CacheHidesNothing'
  BY DEF IngestionInvariant, Claims, CacheHidesNothing
<1>6. Claims'
  BY <1>1, <1>4, <1>5 DEF IngestionInvariant, Claims
<1> QED
  BY <1>2, <1>3, <1>4, <1>6 DEF IngestionInvariant

LEMMA FoundGoneKeeps ==
    ASSUME IngestionAssumption, IngestionInvariant, job.pc = "entries", NEW u \in job.uris, FoundGone(u)
    PROVE  IngestionInvariant'
<1> DEFINE g == IF Kind[Cur] = "url" THEN job.gone \cup {u} ELSE job.gone
<1>1. /\ u \in Uris /\ u \in Scope[Cur] /\ Cur \in Sources /\ job.pc \in Working /\ job \in JobRecs
      /\ job.uris \subseteq Scope[Cur]
  BY DEF IngestionInvariant, IngestionTypes, RunShape, Working, JobRecs
<1>2. /\ job' = [job EXCEPT !.uris = job.uris \ {u}, !.gone = g]
      /\ UNCHANGED <<rows, cache, page, feed, policy, alive, absent, excused>>
      /\ u \in absent
  BY <1>1 DEF FoundGone, Unread, NoFault, origins, IngestionInvariant, Absences
<1>3. /\ job' \in JobRecs /\ job'.pc = "entries" /\ job'.uris = job.uris \ {u} /\ job'.gone = g
      /\ UNCHANGED <<job.idx, job.cur, job.todo, job.pol, job.snap, job.validators, job.errors,
                     job.revisit, job.prune, job.missed, job.seen, job.complete>>
  BY <1>1, <1>2 DEF JobRecs
<1>4. Cur' = Cur /\ job'.pc \in Working
  BY <1>3 DEF Cur, Working
<1>5. RunShape'
  BY <1>1, <1>3, <1>4 DEF IngestionInvariant, RunShape
<1>6. Absences'
  BY <1>1, <1>2, <1>3, <1>4 DEF IngestionInvariant, Absences, Enumerated, Pending
<1>7. Kind[Cur] # "feed" \/ job.revisit
  BY DEF FoundGone
<1> HIDE DEF g
<1> QED
  BY <1>1, <1>2, <1>3, <1>4, <1>5, <1>6, <1>7, RunGoesOn

LEMMA EntriesDoneKeeps ==
    ASSUME IngestionAssumption, IngestionInvariant, EntriesDone
    PROVE  IngestionInvariant'
<1>1. /\ job.pc = "entries" /\ job.uris = {} /\ job.pc \in Working /\ job \in JobRecs /\ Cur \in Sources
      /\ job' = [job EXCEPT !.pc = "gone", !.uris = {u \in job.gone : Owned(u)}]
      /\ UNCHANGED <<rows, cache, page, feed, policy, alive, absent, excused>>
  BY DEF EntriesDone, Unread, NoFault, origins, IngestionInvariant, IngestionTypes, Working, RunShape
<1>2. /\ job' \in JobRecs /\ job'.pc = "gone" /\ job'.uris = {u \in job.gone : Owned(u)}
      /\ UNCHANGED <<job.idx, job.cur, job.todo, job.pol, job.snap, job.validators, job.errors,
                     job.revisit, job.prune, job.missed, job.seen, job.complete, job.gone>>
  BY <1>1 DEF JobRecs, Working
<1>3. Cur' = Cur /\ job'.pc \in Working
  BY <1>2 DEF Cur, Working
<1>4. RunShape'
  BY <1>1, <1>2, <1>3 DEF IngestionInvariant, RunShape, Owned
<1>5. Absences'
  BY <1>1, <1>2, <1>3 DEF IngestionInvariant, Absences, Enumerated, Pending
<1>6. Pending \subseteq Pending'
  BY <1>1 DEF Pending
<1> QED
  BY <1>1, <1>2, <1>3, <1>4, <1>5, <1>6, RunGoesOn

(* The sweep's candidates: what the run did not see of what it owns, unless  *)
(* it saw nothing it owns.                                                   *)
LEMMA GoneDoneKeeps ==
    ASSUME IngestionAssumption, IngestionInvariant, GoneDone
    PROVE  IngestionInvariant'
<1> DEFINE us == IF Kind[Cur] # "feed"
                 THEN IF Suppressed THEN {} ELSE OwnedUris \ (job.seen \cup job.gone)
                 ELSE {}
           next == IF Kind[Cur] # "feed" THEN "sweep"
                   ELSE IF job.prune /\ job.complete THEN "liveness" ELSE "finish"
<1>1. /\ job.pc = "gone" /\ job.pc \in Working /\ job \in JobRecs /\ Cur \in Sources
      /\ job' = [job EXCEPT !.pc = next, !.uris = us]
      /\ UNCHANGED <<rows, cache, page, feed, policy, alive, absent, excused>>
  BY DEF GoneDone, Unread, NoFault, origins, IngestionInvariant, IngestionTypes, Working, RunShape
<1>2. us \subseteq OwnedUris /\ us \subseteq Uris /\ next \in Working \ {"entries", "gone", "probe"}
  BY DEF OwnedUris, Working
<1>3. us \subseteq absent \cup job.missed /\ (next = "sweep" => us \subseteq OwnedUris)
  <2>1. CASE us = {}
    BY <2>1, <1>2
  <2>2. CASE us # {}
    <3>1. Kind[Cur] # "feed" /\ us = OwnedUris \ (job.seen \cup job.gone) /\ OwnedUris # {}
          /\ OwnedUris \cap job.seen # {}
      BY <2>2 DEF Suppressed
    <3>2. Enumerated /\ Pending = {}
      BY <1>1, <3>1 DEF IngestionInvariant, Absences, Pending
    <3>3. OwnedUris \subseteq Scope[Cur]
      <4> SUFFICES ASSUME NEW u \in Uris, job.idx[u].owner = {Cur}
                   PROVE  u \in Scope[Cur]
        BY DEF OwnedUris, Owned
      <4>1. Belongs(job.idx[u], u)
        BY DEF IngestionInvariant, Ownership
      <4> QED
        BY <4>1, NoRows DEF Belongs
    <3> QED
      BY <3>1, <3>2, <3>3 DEF Enumerated
  <2> QED
    BY <2>1, <2>2
<1>4. next = "liveness" => job.prune
  OBVIOUS
<1> HIDE DEF us, next
<1>5. /\ job' \in JobRecs /\ job'.pc = next /\ job'.uris = us
      /\ UNCHANGED <<job.idx, job.cur, job.todo, job.pol, job.snap, job.validators, job.errors,
                     job.revisit, job.prune, job.missed, job.seen, job.complete, job.gone>>
  BY <1>1, <1>2 DEF JobRecs
<1>6. Cur' = Cur /\ job'.pc \in Working
  BY <1>2, <1>5 DEF Cur
<1>7. RunShape'
  BY <1>1, <1>2, <1>3, <1>4, <1>5, <1>6 DEF IngestionInvariant, RunShape, Owned, OwnedUris
<1>8. Absences'
  BY <1>1, <1>2, <1>3, <1>5, <1>6 DEF IngestionInvariant, Absences
<1>9. Pending \subseteq Pending'
  BY <1>1 DEF Pending
<1> QED
  BY <1>1, <1>5, <1>6, <1>7, <1>8, <1>9, RunGoesOn

(* Steps that only move the run on to its next phase. *)
LEMMA PhaseKeeps ==
    ASSUME IngestionAssumption, IngestionInvariant, NEW next \in {"probe", "finish"}, NEW us \in SUBSET Uris,
           job.pc \in Working \ {"entries"}, job' = [job EXCEPT !.pc = next, !.uris = us],
           UNCHANGED <<rows, cache, page, feed, policy, alive, absent, excused>>,
           next = "probe" => job.prune /\ \A u \in us : rows[u].owner = {Cur}
    PROVE  IngestionInvariant'
<1>1. job \in JobRecs /\ job.pc \in Working
  BY DEF IngestionInvariant, IngestionTypes
<1>2. /\ job' \in JobRecs /\ job'.pc = next /\ job'.uris = us
      /\ UNCHANGED <<job.idx, job.cur, job.todo, job.pol, job.snap, job.validators, job.errors,
                     job.revisit, job.prune, job.missed, job.seen, job.complete, job.gone>>
  BY <1>1 DEF JobRecs, Working
<1>3. Cur' = Cur /\ job'.pc \in Working
  BY <1>2 DEF Cur, Working
<1>4. RunShape'
  BY <1>1, <1>2, <1>3 DEF IngestionInvariant, RunShape
<1>5. Absences'
  BY <1>1, <1>2, <1>3 DEF IngestionInvariant, Absences
<1>6. Pending \subseteq Pending'
  BY DEF Pending
<1> QED
  BY <1>1, <1>2, <1>3, <1>4, <1>5, <1>6, RunGoesOn

LEMMA SourceGivenUp ==
    ASSUME IngestionAssumption, IngestionInvariant, job.pc # "idle", NEW i \in [Uris -> AnyRows],
           \A u \in Uris : i[u] = job.idx[u] \/ i[u] = NoRow, NEW us \in SUBSET Uris,
           job' = [job EXCEPT !.pc = "source", !.cur = {}, !.idx = i, !.uris = us],
           UNCHANGED <<page, feed, policy, alive, rows, cache, excused>>
    PROVE  IngestionInvariant'
<1>1. job \in JobRecs
  BY DEF IngestionInvariant, IngestionTypes
<1>2. /\ job' \in JobRecs /\ job'.pc = "source" /\ job'.todo = job.todo /\ job'.pol = job.pol
      /\ job'.snap = job.snap /\ job'.idx = i
  BY <1>1 DEF JobRecs
<1> QED
  BY <1>2, RunEnds

LEMMA JobOver ==
    ASSUME IngestionAssumption, IngestionInvariant, job' = Idle,
           UNCHANGED <<page, feed, policy, alive, rows, cache, excused>>
    PROVE  IngestionInvariant'
<1>1. \A u \in Uris : job'.idx[u] = NoRow
  BY IdleTypes
<1> QED
  BY <1>1, IdleTypes, RunEnds

LEMMA LivenessKeeps ==
    ASSUME IngestionAssumption, IngestionInvariant, LivenessSweep
    PROVE  IngestionInvariant'
<1>1. /\ job.pc = "liveness" /\ job.pc \in Working \ {"entries"} /\ job \in JobRecs /\ job.prune
      /\ UNCHANGED <<rows, cache, page, feed, policy, alive, absent>>
  BY DEF LivenessSweep, Unread, origins, Working, IngestionInvariant, RunShape, IngestionTypes
<1>2. CASE \E us \in SUBSET list_stale_feed_resources :
             job' = [job EXCEPT !.pc = "probe", !.uris = us] /\ NoFault
  <2>1. PICK us \in SUBSET list_stale_feed_resources : job' = [job EXCEPT !.pc = "probe", !.uris = us]
    BY <1>2
  <2>2. us \subseteq Uris /\ \A u \in us : rows[u].owner = {Cur}
    BY DEF list_stale_feed_resources
  <2> QED
    BY <1>1, <1>2, <2>1, <2>2, PhaseKeeps DEF NoFault
<1>3. CASE job' = [job EXCEPT !.pc = "source", !.cur = {}] /\ Fault
  <2>1. job' = [job EXCEPT !.pc = "source", !.cur = {}, !.idx = job.idx, !.uris = job.uris]
    BY <1>1, <1>3 DEF JobRecs
  <2>2. job.idx \in [Uris -> AnyRows] /\ job.uris \in SUBSET Uris
    BY <1>1 DEF JobRecs
  <2> QED
    BY <1>1, <1>3, <2>1, <2>2, SourceGivenUp DEF Fault
<1> QED
  BY <1>2, <1>3 DEF LivenessSweep

(* A pending document the run deletes, excused, from the store and the index. *)
LEMMA DeleteKeeps ==
    ASSUME IngestionAssumption, IngestionInvariant, job.pc \in {"gone", "sweep", "probe"}, NEW u \in job.uris,
           job' = Forget(u), rows' = [rows EXCEPT ![u] = NoRow], excused' = excused \cup {u},
           UNCHANGED <<cache, page, feed, policy, alive, absent>>
    PROVE  IngestionInvariant'
<1>1. /\ job \in JobRecs /\ u \in Uris /\ job.pc \in Working /\ job.idx \in [Uris -> AnyRows]
      /\ rows \in [Uris -> AnyRows]
  BY DEF IngestionInvariant, IngestionTypes, JobRecs, Working
<1>2. job' = [job EXCEPT !.uris = job.uris \ {u}, !.idx = [job.idx EXCEPT ![u] = NoRow]]
  BY <1>1 DEF Forget, JobRecs
<1> DEFINE i == [job.idx EXCEPT ![u] = NoRow]
<1>a. i \in [Uris -> AnyRows]
  BY <1>1, NoRows
<1>3. /\ job' \in JobRecs /\ job'.pc = job.pc /\ job'.uris = job.uris \ {u} /\ job'.idx = i
      /\ UNCHANGED <<job.cur, job.todo, job.pol, job.snap, job.validators, job.errors,
                     job.revisit, job.prune, job.missed, job.seen, job.complete, job.gone>>
  <2>1. job' = [job EXCEPT !.uris = job.uris \ {u}, !.idx = i]
    BY <1>2
  <2>2. job.uris \ {u} \subseteq Uris
    BY <1>1 DEF JobRecs
  <2> HIDE DEF i
  <2> QED
    BY <1>1, <1>a, <2>1, <2>2 DEF JobRecs
<1>4. Cur' = Cur
  BY <1>3 DEF Cur
<1>5. \A x \in Uris : /\ rows'[x] = IF x = u THEN NoRow ELSE rows[x]
                      /\ job'.idx[x] = IF x = u THEN NoRow ELSE job.idx[x]
  BY <1>1, <1>3
<1>6. IngestionTypes'
  BY <1>1, <1>3, NoRows DEF IngestionInvariant, IngestionTypes
<1>7. Ownership'
  <2>1. \A x \in Uris : Belongs(rows'[x], x) /\ Belongs(job'.idx[x], x)
    BY <1>5 DEF IngestionInvariant, Ownership, Belongs
  <2>2. RemovedStaysRemoved'
    BY <1>5, NoRows DEF IngestionInvariant, Ownership, RemovedStaysRemoved
  <2>3. SkipCheckGrounded'
    <3> SUFFICES ASSUME NEW x \in Uris, job'.idx[x].owner # {}, job'.idx[x].owner \subseteq alive
                 PROVE  [job'.idx[x] EXCEPT !.fresh = FALSE] = [rows'[x] EXCEPT !.fresh = FALSE]
      BY DEF SkipCheckGrounded
    <3>1. x # u
      BY <1>5, NoRows
    <3> QED
      BY <1>5, <3>1 DEF IngestionInvariant, Ownership, SkipCheckGrounded
  <2> QED
    BY <2>1, <2>2, <2>3 DEF Ownership, Belongs
<1>8. RunShape'
  BY <1>1, <1>3, <1>4, <1>5 DEF IngestionInvariant, RunShape, Owned
<1>9. Absences'
  BY <1>1, <1>3, <1>4 DEF IngestionInvariant, Absences, Enumerated, Pending
<1>10. CacheHidesNothing'
  BY <1>5, ClaimsSurvive
<1>11. RunHidesNothing'
  <2> SUFFICES ASSUME Cur \in alive, Kind[Cur] = "feed", ~job.errors, job.pol = policy,
                      feed[Cur].ver \in job.validators, NEW x \in feed[Cur].entries \ excused'
               PROVE  rows'[x] # NoRow /\ rows'[x].policy = job.pol
    BY <1>3, <1>4 DEF RunHidesNothing, Indexed
  <2>1. x \in Uris /\ x # u /\ x \notin excused
    BY <1>1 DEF IngestionInvariant, IngestionTypes, Feeds, RunShape
  <2>2. Indexed(x)
    BY <1>1, <2>1 DEF IngestionInvariant, Claims, RunHidesNothing, Pending
  <2> QED
    BY <1>5, <2>1, <2>2 DEF Indexed
<1>12. Claims'
  BY <1>1, <1>3, <1>4, <1>10, <1>11 DEF IngestionInvariant, Claims
<1> QED
  BY <1>6, <1>7, <1>8, <1>9, <1>12 DEF IngestionInvariant

(* A pending document is left as it is; a probe may stamp it as checked. *)
LEMMA PassedOver ==
    ASSUME IngestionAssumption, IngestionInvariant, job.pc \in {"gone", "sweep", "probe"}, NEW u \in job.uris,
           job' = [job EXCEPT !.uris = job.uris \ {u}],
           rows' = rows \/ rows' = [rows EXCEPT ![u] = Touched(rows[u])],
           UNCHANGED <<cache, page, feed, policy, alive, absent, excused>>
    PROVE  IngestionInvariant'
<1>1. /\ job \in JobRecs /\ u \in Uris /\ job.pc \in Working /\ rows \in [Uris -> AnyRows]
  BY DEF IngestionInvariant, IngestionTypes, JobRecs, Working
<1>2. /\ job' \in JobRecs /\ job'.pc = job.pc /\ job'.uris = job.uris \ {u}
      /\ UNCHANGED <<job.idx, job.cur, job.todo, job.pol, job.snap, job.validators, job.errors,
                     job.revisit, job.prune, job.missed, job.seen, job.complete, job.gone>>
  BY <1>1 DEF JobRecs
<1>3. Cur' = Cur
  BY <1>2 DEF Cur
<1>4. /\ rows' \in [Uris -> AnyRows]
      /\ \A x \in Uris : /\ rows'[x].owner = rows[x].owner /\ rows'[x].policy = rows[x].policy
                         /\ rows'[x].content = rows[x].content
                         /\ rows'[x] = NoRow <=> rows[x] = NoRow
  <2>1. CASE rows' = rows
    BY <1>1, <2>1
  <2>2. CASE rows' = [rows EXCEPT ![u] = Touched(rows[u])]
    <3>1. Touched(rows[u]) \in AnyRows /\ Touched(rows[u]).owner = rows[u].owner
          /\ Touched(rows[u]).policy = rows[u].policy /\ Touched(rows[u]).content = rows[u].content
      BY <1>1, NoRows
    <3>2. Touched(rows[u]) = NoRow <=> rows[u] = NoRow
      BY <1>1, NoRows DEF Touched, AnyRows
    <3> QED
      BY <1>1, <2>2, <3>1, <3>2
  <2> QED
    BY <2>1, <2>2
<1>5. IngestionTypes'
  BY <1>2, <1>4 DEF IngestionInvariant, IngestionTypes
<1>6. Ownership'
  <2>1. \A x \in Uris : Belongs(rows'[x], x) /\ Belongs(job'.idx[x], x)
    BY <1>2, <1>4 DEF IngestionInvariant, Ownership, Belongs
  <2>2. RemovedStaysRemoved'
    BY <1>4 DEF IngestionInvariant, Ownership, RemovedStaysRemoved
  <2>3. ASSUME NEW x \in Uris
        PROVE  [rows'[x] EXCEPT !.fresh = FALSE] = [rows[x] EXCEPT !.fresh = FALSE]
    BY <1>1, <1>4, SameButFresh
  <2>4. SkipCheckGrounded'
    <3> SUFFICES ASSUME NEW x \in Uris, job.idx[x].owner # {}, job.idx[x].owner \subseteq alive
                 PROVE  [job.idx[x] EXCEPT !.fresh = FALSE] = [rows'[x] EXCEPT !.fresh = FALSE]
      BY <1>2 DEF SkipCheckGrounded
    <3>1. [job.idx[x] EXCEPT !.fresh = FALSE] = [rows[x] EXCEPT !.fresh = FALSE]
      BY DEF IngestionInvariant, Ownership, SkipCheckGrounded
    <3> QED
      BY <2>3, <3>1
  <2> QED
    BY <2>1, <2>2, <2>4 DEF Ownership, Belongs
<1>7. RunShape'
  <2>1. /\ Cur \in Sources \ job.todo /\ job.cur = {Cur}
        /\ job.pc \in {"gone", "sweep"} => \A x \in job.uris : job.idx[x].owner = {Cur}
        /\ job.pc = "probe" => job.prune /\ \A x \in job.uris : rows[x] = NoRow \/ rows[x].owner = {Cur}
    BY <1>1 DEF IngestionInvariant, RunShape, Owned
  <2>2. job.pc = "probe" => \A x \in job.uris \ {u} : rows'[x] = NoRow \/ rows'[x].owner = {Cur}
    BY <1>1, <1>4, <2>1 DEF JobRecs
  <2> QED
    BY <1>2, <1>3, <2>1, <2>2 DEF RunShape, Owned
<1>8. Absences'
  BY <1>1, <1>2, <1>3 DEF IngestionInvariant, Absences, Enumerated, Pending
<1>9. CacheHidesNothing'
  BY <1>4, ClaimsSurvive
<1>10. RunHidesNothing'
  <2>1. \A s \in Sources : feed[s].entries \subseteq Uris
    BY DEF IngestionInvariant, IngestionTypes, Feeds
  <2>2. Cur \in Sources
    BY <1>1 DEF IngestionInvariant, RunShape
  <2> QED
    BY <1>1, <1>2, <1>3, <1>4, <2>1, <2>2
    DEF IngestionInvariant, Claims, RunHidesNothing, Indexed, Pending
<1>11. Claims'
  BY <1>1, <1>2, <1>3, <1>9, <1>10 DEF IngestionInvariant, Claims
<1> QED
  BY <1>5, <1>6, <1>7, <1>8, <1>11 DEF IngestionInvariant

(* A document the run gives up together with its source. *)
LEMMA ForgetFails ==
    ASSUME IngestionAssumption, IngestionInvariant, job.pc \in Working, NEW u \in job.uris,
           job' = [Forget(u) EXCEPT !.pc = "source", !.cur = {}],
           UNCHANGED <<rows, cache, page, feed, policy, alive, excused>>
    PROVE  IngestionInvariant'
<1>1. job \in JobRecs /\ u \in Uris /\ job.idx \in [Uris -> AnyRows] /\ job.pc # "idle"
  BY DEF IngestionInvariant, IngestionTypes, JobRecs, Working
<1> DEFINE i == [job.idx EXCEPT ![u] = NoRow]
<1>2. i \in [Uris -> AnyRows] /\ \A x \in Uris : i[x] = job.idx[x] \/ i[x] = NoRow
  BY <1>1, NoRows
<1>3. job' = [job EXCEPT !.pc = "source", !.cur = {}, !.idx = i, !.uris = job.uris \ {u}]
  BY <1>1 DEF Forget, JobRecs
<1>4. job.uris \ {u} \in SUBSET Uris
  BY <1>1 DEF JobRecs
<1> HIDE DEF i
<1> QED
  BY <1>1, <1>2, <1>3, <1>4, SourceGivenUp

LEMMA PruneKeeps ==
    ASSUME IngestionAssumption, IngestionInvariant, NEW u \in Uris, PruneGone(u) \/ Sweep(u)
    PROVE  IngestionInvariant'
<1>1. /\ job.pc \in {"gone", "sweep"} /\ job.pc \in Working /\ u \in job.uris /\ prune_or_count(u)
      /\ UNCHANGED <<cache, page, feed, policy, alive, absent>>
  BY DEF PruneGone, Sweep, Unread, origins, Working
<1>2. CASE job' = [job EXCEPT !.uris = job.uris \ {u}] /\ rows' = rows /\ excused' = excused
  BY <1>1, <1>2, PassedOver
<1>3. CASE job' = Forget(u) /\ rows' = [rows EXCEPT ![u] = NoRow] /\ excused' = excused \cup {u}
  BY <1>1, <1>3, DeleteKeeps
<1>4. CASE job' = [Forget(u) EXCEPT !.pc = "source", !.cur = {}] /\ rows' = rows /\ excused' = excused
  BY <1>1, <1>4, ForgetFails
<1> QED
  BY <1>1, <1>2, <1>3, <1>4 DEF prune_or_count, NoFault, Fault

LEMMA ProbeKeeps ==
    ASSUME IngestionAssumption, IngestionInvariant, NEW u \in Uris, Probe(u)
    PROVE  IngestionInvariant'
<1>1. /\ job.pc = "probe" /\ job.pc \in Working /\ u \in job.uris
      /\ UNCHANGED <<cache, page, feed, policy, alive, absent>>
  BY DEF Probe, Unread, origins, Working
<1>2. CASE /\ job' = [job EXCEPT !.uris = job.uris \ {u}] /\ excused' = excused
           /\ rows' = rows \/ rows' = [rows EXCEPT ![u] = Touched(rows[u])]
  BY <1>1, <1>2, PassedOver
<1>3. CASE job' = Forget(u) /\ rows' = [rows EXCEPT ![u] = NoRow] /\ excused' = excused \cup {u}
  BY <1>1, <1>3, DeleteKeeps
<1>4. CASE job' = [Forget(u) EXCEPT !.pc = "source", !.cur = {}] /\ rows' = rows /\ excused' = excused
  BY <1>1, <1>4, ForgetFails
<1> QED
  BY <1>2, <1>3, <1>4 DEF Probe, NoFault, Fault

(* Validators are stored when everything behind them is indexed. *)
LEMMA FinishKeeps ==
    ASSUME IngestionAssumption, IngestionInvariant, FinishSource
    PROVE  IngestionInvariant'
<1>1. /\ job.pc = "finish" /\ job.pc \in Working /\ job \in JobRecs /\ Cur \in Sources \ job.todo
      /\ job' = [job EXCEPT !.pc = "source", !.cur = {}]
      /\ UNCHANGED <<rows, page, feed, policy, alive, excused>>
  BY DEF FinishSource, Unread, origins, NoFault, Fault, Working, IngestionInvariant, RunShape, IngestionTypes
<1>2. CASE cache' = cache
  <2>1. job' = [job EXCEPT !.pc = "source", !.cur = {}, !.idx = job.idx, !.uris = job.uris]
    BY <1>1 DEF JobRecs
  <2>2. job.idx \in [Uris -> AnyRows] /\ job.uris \in SUBSET Uris /\ job.pc # "idle"
    BY <1>1 DEF JobRecs
  <2> QED
    BY <1>1, <1>2, <2>1, <2>2, SourceGivenUp
<1>3. ASSUME ~job.errors, Cur \in alive, NEW v \in job.validators,
             cache' = [cache EXCEPT ![Cur] = [ver |-> v, digest |-> {job.pol}]]
      PROVE  IngestionInvariant'
  <2>1. /\ job' \in JobRecs /\ job'.pc = "source" /\ UNCHANGED <<job.idx, job.todo, job.pol, job.snap>>
    BY <1>1 DEF JobRecs
  <2>2. job'.pc \notin Working /\ job'.pc # "idle"
    BY <2>1 DEF Working
  <2>3. v \in Nat /\ job.pol \in Nat /\ v <= feed[Cur].ver /\ job.pol <= policy /\ policy \in Nat
    BY <1>1 DEF IngestionInvariant, Claims, JobRecs, Working, IngestionTypes
  <2>4. /\ cache' \in [Sources -> AnyCaches]
        /\ \A s \in Sources : cache'[s] = IF s = Cur THEN [ver |-> v, digest |-> {job.pol}] ELSE cache[s]
    BY <1>1, <1>3, <2>3 DEF IngestionInvariant, IngestionTypes, AnyCaches
  <2>5. IngestionTypes'
    BY <1>1, <2>1, <2>4 DEF IngestionInvariant, IngestionTypes
  <2>6. Ownership'
    BY <1>1, <2>1 DEF IngestionInvariant, Ownership, RemovedStaysRemoved, SkipCheckGrounded, Belongs
  <2>7. RunShape' /\ Absences' /\ RunHidesNothing'
    BY <2>2 DEF RunShape, Absences, RunHidesNothing
  <2>8. CacheHidesNothing'
    <3> SUFFICES ASSUME NEW s \in alive, Kind[s] = "feed",
                        cache'[s] = [ver |-> feed[s].ver, digest |-> {policy}],
                        NEW u \in feed[s].entries \ excused
                 PROVE  rows[u] # NoRow /\ rows[u].policy = policy
      BY <1>1 DEF CacheHidesNothing
    <3>1. s \in Sources
      BY DEF IngestionInvariant, IngestionTypes
    <3>2. CASE s = Cur
      <4>1. v = feed[s].ver /\ {job.pol} = {policy}
        BY <2>4, <3>1, <3>2
      <4>2. Indexed(u)
        BY <1>1, <1>3, <3>2, <4>1 DEF IngestionInvariant, Claims, RunHidesNothing, Pending
      <4> QED
        BY <4>1, <4>2 DEF Indexed
    <3>3. CASE s # Cur
      BY <2>4, <3>1, <3>3 DEF IngestionInvariant, Claims, CacheHidesNothing
    <3> QED
      BY <3>2, <3>3
  <2>9. \A s \in Sources : cache'[s].ver <= feed[s].ver /\ \A p \in cache'[s].digest : p <= policy /\ p <= job.pol
    <3> SUFFICES ASSUME NEW s \in Sources
                 PROVE  cache'[s].ver <= feed[s].ver /\ \A p \in cache'[s].digest : p <= policy /\ p <= job.pol
      OBVIOUS
    <3>1. CASE s = Cur
      BY <2>3, <2>4, <3>1
    <3>2. CASE s # Cur
      BY <1>1, <2>4, <3>2 DEF IngestionInvariant, Claims
    <3> QED
      BY <3>1, <3>2
  <2>10. \A s \in job.todo \cap alive : cache'[s] = job.snap[s]
    BY <1>1, <2>4 DEF IngestionInvariant, Claims, IngestionTypes
  <2>11. Claims'
    BY <1>1, <2>1, <2>2, <2>3, <2>7, <2>8, <2>9, <2>10 DEF Claims
  <2> QED
    BY <2>5, <2>6, <2>7, <2>11 DEF IngestionInvariant
<1> QED
  BY <1>2, <1>3 DEF FinishSource

(* The run of a source begins, with this enumeration. *)
Begins(s, us, revisit, err, complete, missed, V) ==
    /\ us \subseteq Scope[s] /\ {revisit, err, complete} \subseteq BOOLEAN
    /\ missed \subseteq Uris /\ V \subseteq Nat
    /\ job' = [Began(s, us, revisit, err, complete, V) EXCEPT !.missed = missed]
    /\ absent' = {u \in Uris : page[u] = 0}
    /\ UNCHANGED <<rows, cache, page, feed, policy, alive, excused>>
    /\ Kind[s] # "feed" => us = {} \/ Scope[s] \subseteq absent' \cup missed \cup us
    /\ StatErrors = FALSE => missed = {}
    /\ \A v \in V : v <= feed[s].ver
    /\ Kind[s] = "feed" /\ s \in alive /\ ~err /\ job.pol = policy /\ feed[s].ver \in V =>
           \A u \in feed[s].entries \ excused : Indexed(u) \/ (~revisit /\ u \in us)

LEMMA BeginKeeps ==
    ASSUME IngestionAssumption, IngestionInvariant, job.pc = "source", NEW s \in job.todo,
           NEW us, NEW revisit, NEW err, NEW complete, NEW missed, NEW V,
           Begins(s, us, revisit, err, complete, missed, V)
    PROVE  IngestionInvariant'
<1>a. /\ us \subseteq Scope[s] /\ {revisit, err, complete} \subseteq BOOLEAN
      /\ missed \subseteq Uris /\ V \subseteq Nat
      /\ UNCHANGED <<rows, cache, page, feed, policy, alive, excused>>
  BY DEF Begins
<1>0. job' = [job EXCEPT !.pc = "entries", !.todo = job.todo \ {s}, !.cur = {s}, !.uris = us,
                         !.revisit = revisit, !.seen = {}, !.gone = {}, !.errors = err,
                         !.complete = complete, !.missed = missed, !.validators = V]
  BY DEF Began, IngestionInvariant, IngestionTypes, JobRecs, Begins
<1>1. s \in Sources /\ us \subseteq Uris /\ job \in JobRecs
  BY <1>a DEF IngestionInvariant, IngestionTypes, JobRecs, IngestionAssumption
<1>2. /\ job' \in JobRecs /\ job'.pc = "entries" /\ job'.todo = job.todo \ {s} /\ job'.cur = {s}
      /\ job'.uris = us /\ job'.revisit = revisit /\ job'.seen = {} /\ job'.gone = {}
      /\ job'.errors = err /\ job'.missed = missed /\ job'.validators = V
      /\ UNCHANGED <<job.idx, job.pol, job.snap, job.prune>>
  BY <1>0, <1>1, <1>a DEF JobRecs, Working
<1>3. Cur' = s /\ job'.pc \in Working
  BY <1>1, <1>2, Started DEF Working
<1>4. IngestionTypes'
  BY <1>2, <1>a DEF IngestionInvariant, IngestionTypes
<1>5. Ownership'
  BY <1>2, <1>a DEF IngestionInvariant, Ownership, RemovedStaysRemoved, SkipCheckGrounded, Belongs
<1>6. RunShape'
  BY <1>1, <1>2, <1>3, <1>a DEF RunShape
<1>7. Absences'
  BY <1>2, <1>3 DEF Absences, Enumerated, Pending, Begins
<1>8. RunHidesNothing'
  BY <1>2, <1>3 DEF RunHidesNothing, Pending, Indexed, Begins
<1>9. CacheHidesNothing'
  BY <1>a DEF IngestionInvariant, Claims, CacheHidesNothing
<1>10. Claims'
  BY <1>2, <1>3, <1>8, <1>9 DEF IngestionInvariant, Claims, Begins
<1> QED
  BY <1>4, <1>5, <1>6, <1>7, <1>10 DEF IngestionInvariant

LEMMA BeginPathKeeps ==
    ASSUME IngestionAssumption, IngestionInvariant, NEW s \in Sources,
           BeginPath(s) \/ \E u \in Uris : BeginPathStatError(s, u)
    PROVE  IngestionInvariant'
<1>1. job.pc = "source" /\ s \in job.todo /\ Kind[s] = "path" /\ job \in JobRecs /\ PathFiles(s) \subseteq Scope[s]
      /\ Scope[s] \subseteq Uris
  BY DEF BeginPath, BeginPathStatError, IngestionInvariant, IngestionTypes, PathFiles, IngestionAssumption
<1>3. ASSUME NEW us \in SUBSET Scope[s], NEW complete \in BOOLEAN,
             Begin(Began(s, us, FALSE, FALSE, complete, {})), excused' = excused,
             us = {} \/ us = PathFiles(s)
      PROVE  IngestionInvariant'
  <2>1. job' = [Began(s, us, FALSE, FALSE, complete, {}) EXCEPT !.missed = {}]
    BY <1>1, <1>3 DEF Begin, Began, JobRecs
  <2>2. us = {} \/ Scope[s] \subseteq absent' \cup {} \cup us
    BY <1>1, <1>3 DEF Begin, PathFiles
  <2>3. Begins(s, us, FALSE, FALSE, complete, {}, {})
    BY <1>1, <1>3, <2>1, <2>2 DEF Begins, Begin, origins
  <2> QED
    BY <1>1, <2>3, BeginKeeps
<1>4. CASE Begin(Began(s, PathFiles(s), FALSE, FALSE, TRUE, {})) /\ NoFault
  BY <1>1, <1>3, <1>4 DEF NoFault
<1>5. CASE \E complete \in BOOLEAN : Begin(Began(s, {}, FALSE, FALSE, complete, {})) /\ Fault
  <2>1. PICK complete \in BOOLEAN : Begin(Began(s, {}, FALSE, FALSE, complete, {}))
    BY <1>5
  <2> QED
    BY <1>3, <1>5, <2>1 DEF Fault
<1>6. CASE /\ job' = [job EXCEPT !.todo = @ \ {s}]
           /\ UNCHANGED <<rows, cache>> /\ Fault /\ Unread
  <2>1. job' \in JobRecs /\ job'.pc = "source" /\ job'.todo = job.todo \ {s}
        /\ UNCHANGED <<job.idx, job.pol, job.snap>>
    BY <1>1, <1>6 DEF JobRecs
  <2> QED
    BY <1>1, <1>6, <2>1, RunEnds DEF Fault, Unread, origins
<1>7. ASSUME NEW u \in Uris, BeginPathStatError(s, u)
      PROVE  IngestionInvariant'
  <2>1. /\ job' = [Began(s, PathFiles(s) \ {u}, FALSE, FALSE, TRUE, {}) EXCEPT !.missed = {u}]
        /\ absent' = {x \in Uris : page[x] = 0} /\ StatErrors
        /\ UNCHANGED <<rows, cache, page, feed, policy, alive, excused>>
    BY <1>7 DEF BeginPathStatError, Begin, Fault, origins
  <2>2. Scope[s] \subseteq absent' \cup {u} \cup (PathFiles(s) \ {u})
    BY <1>1, <2>1 DEF PathFiles
  <2>3. Begins(s, PathFiles(s) \ {u}, FALSE, FALSE, TRUE, {u}, {})
    BY <1>1, <2>1, <2>2 DEF Begins
  <2> QED
    BY <1>1, <2>3, BeginKeeps
<1> QED
  BY <1>4, <1>5, <1>6, <1>7 DEF BeginPath

LEMMA BeginUrlKeeps ==
    ASSUME IngestionAssumption, IngestionInvariant, NEW s \in Sources, BeginUrl(s)
    PROVE  IngestionInvariant'
<1>1. /\ job.pc = "source" /\ s \in job.todo /\ Kind[s] = "url" /\ job \in JobRecs
      /\ job' = Began(s, Scope[s], FALSE, FALSE, TRUE, {}) /\ absent' = {u \in Uris : page[u] = 0}
      /\ UNCHANGED <<rows, cache, page, feed, policy, alive, excused>>
  BY DEF BeginUrl, Begin, NoFault, origins, IngestionInvariant, IngestionTypes
<1>2. job' = [Began(s, Scope[s], FALSE, FALSE, TRUE, {}) EXCEPT !.missed = {}]
  BY <1>1 DEF Began, JobRecs
<1>3. Begins(s, Scope[s], FALSE, FALSE, TRUE, {}, {})
  BY <1>1, <1>2 DEF Begins
<1> QED
  BY <1>1, <1>3, BeginKeeps

(* Validators that may be replayed vouch for every entry of the window.      *)
LEMMA ReplayedValidators ==
    ASSUME IngestionAssumption, IngestionInvariant, job.pc = "source", NEW s \in job.todo,
           Kind[s] = "feed", s \in alive, document_validators(s) = feed[s].ver, job.pol = policy
    PROVE  \A u \in feed[s].entries \ excused : Indexed(u)
<1>1. s \in Sources /\ feed[s].ver # 0 /\ cache[s] \in AnyCaches /\ feed[s].ver \in Nat
  BY DEF IngestionInvariant, IngestionTypes, JobRecs, Feeds
<1>2. job.snap[s].digest = {job.pol} /\ job.snap[s].ver = feed[s].ver
  BY <1>1 DEF document_validators
<1>3. cache[s] = job.snap[s]
  BY DEF IngestionInvariant, Claims
<1>4. cache[s] = [ver |-> feed[s].ver, digest |-> {policy}]
  BY <1>1, <1>2, <1>3 DEF AnyCaches
<1> QED
  BY <1>4 DEF IngestionInvariant, Claims, CacheHidesNothing, Indexed

LEMMA BeginFeedKeeps ==
    ASSUME IngestionAssumption, IngestionInvariant, NEW s \in Sources, BeginFeed(s) \/ BeginFeedFails(s)
    PROVE  IngestionInvariant'
<1>1. /\ job.pc = "source" /\ s \in job.todo /\ Kind[s] = "feed" /\ job \in JobRecs
      /\ feed[s].ver \in Nat /\ feed[s].entries \subseteq Scope[s] /\ Scope[s] \subseteq Uris
  BY DEF BeginFeed, BeginFeedFails, IngestionInvariant, IngestionTypes, Feeds, IngestionAssumption
<1>2. ASSUME NEW us \in SUBSET Scope[s], NEW revisit \in BOOLEAN, NEW err \in BOOLEAN,
             NEW complete \in BOOLEAN, NEW V \in SUBSET {feed[s].ver},
             Begin(Began(s, us, revisit, err, complete, V)), excused' = excused,
             s \in alive /\ ~err /\ job.pol = policy /\ V # {} =>
                 \A u \in feed[s].entries \ excused : Indexed(u) \/ (~revisit /\ u \in us)
      PROVE  IngestionInvariant'
  <2>1. job' = [Began(s, us, revisit, err, complete, V) EXCEPT !.missed = {}]
    BY <1>1, <1>2 DEF Begin, Began, JobRecs
  <2>2. V \subseteq Nat /\ \A v \in V : v <= feed[s].ver
    BY <1>1
  <2>3. Begins(s, us, revisit, err, complete, {}, V)
    BY <1>1, <1>2, <2>1, <2>2 DEF Begins, Begin, origins
  <2> QED
    BY <1>1, <2>3, BeginKeeps
<1>3. ASSUME NEW us \in SUBSET DueEntries(s), document_validators(s) = feed[s].ver,
             Begin(Began(s, us, TRUE, FALSE, TRUE, {feed[s].ver})), excused' = excused
      PROVE  IngestionInvariant'
  <2>1. us \subseteq Scope[s]
    <3> SUFFICES ASSUME NEW u \in Uris, job.idx[u].owner = {s} PROVE u \in Scope[s]
      BY DEF DueEntries
    <3> QED
      BY NoRows DEF IngestionInvariant, Ownership, Belongs
  <2> QED
    BY <1>1, <1>2, <1>3, <2>1, ReplayedValidators
<1>4. CASE Begin(Began(s, feed[s].entries, FALSE, FALSE, TRUE, {feed[s].ver})) /\ excused' = excused
  BY <1>1, <1>2, <1>4
<1>5. CASE /\ \/ Begin(Began(s, {}, FALSE, TRUE, FALSE, {}))
              \/ Begin(Began(s, {}, FALSE, FALSE, FALSE, {}))
              \/ Begin(Began(s, {}, FALSE, TRUE, FALSE, {feed[s].ver}))
           /\ excused' = excused
  BY <1>2, <1>5
<1> QED
  BY <1>3, <1>4, <1>5 DEF BeginFeed, BeginFeedFails, NoFault, Fault

LEMMA StartKeeps ==
    ASSUME IngestionAssumption, IngestionInvariant,
           NEW S \in JobScopes, NEW prune \in BOOLEAN, NEW refetch \in BOOLEAN, StartJob(S, prune, refetch)
    PROVE  IngestionInvariant'
<1>1. /\ job' = [Idle EXCEPT !.pc = "source", !.todo = S, !.prune = prune, !.refetch = refetch,
                             !.pol = policy, !.snap = cache, !.idx = rows]
      /\ UNCHANGED <<rows, cache, page, feed, policy, alive, absent, excused>> /\ S \subseteq Sources
  BY DEF StartJob, NoFault, Unread, origins, JobScopes, IngestionInvariant, IngestionTypes
<1>2. Idle \in JobRecs /\ policy \in Nat /\ cache \in [Sources -> AnyCaches] /\ rows \in [Uris -> AnyRows]
  BY IdleTypes DEF IngestionInvariant, IngestionTypes
<1>3. /\ job' \in JobRecs /\ job'.pc = "source" /\ job'.todo = S /\ job'.pol = policy
      /\ job'.snap = cache /\ job'.idx = rows
  BY <1>1, <1>2 DEF JobRecs
<1>4. job'.pc \notin Working
  BY <1>3 DEF Working
<1>5. IngestionTypes'
  BY <1>1, <1>3 DEF IngestionInvariant, IngestionTypes
<1>6. Ownership'
  BY <1>1, <1>3 DEF IngestionInvariant, Ownership, RemovedStaysRemoved, SkipCheckGrounded, Belongs
<1>7. RunShape' /\ Absences' /\ RunHidesNothing'
  BY <1>4 DEF RunShape, Absences, RunHidesNothing
<1>8. CacheHidesNothing'
  BY <1>1 DEF IngestionInvariant, Claims, CacheHidesNothing
<1>9. Claims'
  BY <1>1, <1>2, <1>3, <1>4, <1>7, <1>8 DEF IngestionInvariant, Claims
<1> QED
  BY <1>5, <1>6, <1>7, <1>9 DEF IngestionInvariant

-----------------------------------------------------------------------------
(* The world around a job keeps the invariant *)

LEMMA PageChangesKeeps ==
    ASSUME IngestionAssumption, IngestionInvariant, NEW u \in Uris, PageChanges(u)
    PROVE  IngestionInvariant'
<1>1. /\ UNCHANGED <<feed, policy, alive, rows, cache, job, excused>> /\ absent \subseteq absent'
      /\ page' = [page EXCEPT ![u] = 0] \/ page' = [page EXCEPT ![u] = page[u] + 1]
      /\ page'[u] = 0 => u \in absent'
  BY DEF PageChanges
<1>2. page \in [Uris -> Nat]
  BY DEF IngestionInvariant, IngestionTypes
<1>3. page' \in [Uris -> Nat] /\ \A x \in Uris \ {u} : page'[x] = page[x]
  BY <1>1, <1>2
<1>4. Cur' = Cur
  BY <1>1 DEF Cur
<1>5. IngestionTypes' /\ Ownership'
  BY <1>1, <1>3 DEF IngestionInvariant, IngestionTypes, Ownership, RemovedStaysRemoved, SkipCheckGrounded,
     Belongs
<1>6. RunShape'
  BY <1>1, <1>4 DEF IngestionInvariant, RunShape, Owned
<1>7. Absences'
  BY <1>1, <1>3, <1>4 DEF IngestionInvariant, Absences, Enumerated, Pending
<1>8. Claims'
  BY <1>1, <1>4 DEF IngestionInvariant, Claims, CacheHidesNothing, RunHidesNothing, Indexed, Pending
<1> QED
  BY <1>5, <1>6, <1>7, <1>8 DEF IngestionInvariant

LEMMA FeedPublishesKeeps ==
    ASSUME IngestionAssumption, IngestionInvariant, NEW s \in Sources, FeedPublishes(s)
    PROVE  IngestionInvariant'
<1>1. PICK e \in SUBSET Scope[s] : feed' = [feed EXCEPT ![s] = [ver |-> feed[s].ver + 1, entries |-> e]]
  BY DEF FeedPublishes
<1>2. UNCHANGED <<page, policy, alive, rows, cache, job, excused, absent>>
  BY DEF FeedPublishes
<1>3. feed \in [Sources -> Feeds] /\ e \subseteq Uris /\ feed[s].ver \in Nat \ {0}
  BY DEF IngestionInvariant, IngestionTypes, Feeds, IngestionAssumption
<1>4. /\ feed' \in [Sources -> Feeds] /\ feed'[s].ver = feed[s].ver + 1 /\ feed'[s].entries = e
      /\ \A t \in Sources \ {s} : feed'[t] = feed[t]
  BY <1>1, <1>3 DEF Feeds
<1>5. Cur' = Cur
  BY <1>2 DEF Cur
<1>6. IngestionTypes'
  BY <1>2, <1>4 DEF IngestionInvariant, IngestionTypes
<1>7. Ownership' /\ RunShape' /\ Absences'
  BY <1>2, <1>5 DEF IngestionInvariant, Ownership, RemovedStaysRemoved, SkipCheckGrounded, Belongs,
     RunShape, Owned, Absences, Enumerated, Pending
<1>8. \A t \in Sources : cache[t].ver <= feed'[t].ver /\ (t = s => cache[t].ver # feed'[t].ver)
  <2>1. cache[s].ver \in Nat /\ cache[s].ver <= feed[s].ver
    BY DEF IngestionInvariant, IngestionTypes, AnyCaches, Claims
  <2> QED
    BY <1>3, <1>4, <2>1 DEF IngestionInvariant, Claims
<1>9. CacheHidesNothing'
  <2>1. \A t \in alive : t \in Sources
    BY DEF IngestionInvariant, IngestionTypes
  <2> QED
    BY <1>2, <1>4, <1>8, <2>1 DEF IngestionInvariant, Claims, CacheHidesNothing
<1>10. job.pc \in Working => /\ Cur \in Sources
                             /\ \A v \in job.validators : v <= feed'[Cur].ver /\ (Cur = s => v # feed'[Cur].ver)
  <2>1. job.pc \in Working => Cur \in Sources /\ \A v \in job.validators : v \in Nat /\ v <= feed[Cur].ver
    BY DEF IngestionInvariant, RunShape, Claims, IngestionTypes, JobRecs
  <2> QED
    BY <1>3, <1>4, <2>1
<1>11. RunHidesNothing'
  BY <1>2, <1>4, <1>5, <1>10 DEF IngestionInvariant, Claims, RunHidesNothing, Indexed, Pending
<1>12. Claims'
  BY <1>2, <1>5, <1>8, <1>9, <1>10, <1>11 DEF IngestionInvariant, Claims
<1> QED
  BY <1>6, <1>7, <1>12 DEF IngestionInvariant

LEMMA PolicyChangesKeeps ==
    ASSUME IngestionAssumption, IngestionInvariant, PolicyChanges
    PROVE  IngestionInvariant'
<1>1. /\ policy' = policy + 1 /\ policy \in Nat
      /\ UNCHANGED <<page, feed, alive, rows, cache, job, excused, absent>>
  BY DEF PolicyChanges, IngestionInvariant, IngestionTypes
<1>2. Cur' = Cur
  BY <1>1 DEF Cur
<1>3. IngestionTypes'
  BY <1>1 DEF IngestionInvariant, IngestionTypes
<1>4. Ownership' /\ RunShape' /\ Absences'
  BY <1>1, <1>2 DEF IngestionInvariant, Ownership, RemovedStaysRemoved, SkipCheckGrounded, Belongs,
     RunShape, Owned, Absences, Enumerated, Pending
<1>5. \A s \in Sources : \A p \in cache[s].digest : p \in Nat /\ p <= policy /\ p <= policy'
  <2>1. \A s \in Sources : \A p \in cache[s].digest : p \in Nat /\ p <= policy
    BY DEF IngestionInvariant, IngestionTypes, AnyCaches, Claims
  <2> QED
    BY <1>1, <2>1
<1>6. CacheHidesNothing'
  <2> SUFFICES ASSUME NEW s \in alive, cache[s] = [ver |-> feed[s].ver, digest |-> {policy'}]
               PROVE  FALSE
    BY <1>1 DEF CacheHidesNothing
  <2>1. policy' \in cache[s].digest /\ s \in Sources
    BY DEF IngestionInvariant, IngestionTypes
  <2> QED
    BY <1>1, <1>5, <2>1
<1>7. job.pol \in Nat /\ (job.pc # "idle" => job.pol <= policy' /\ job.pol # policy')
  BY <1>1 DEF IngestionInvariant, IngestionTypes, JobRecs, Claims
<1>8. RunHidesNothing'
  BY <1>1, <1>7 DEF RunHidesNothing, Working
<1>9. Claims'
  BY <1>1, <1>2, <1>5, <1>6, <1>7, <1>8 DEF IngestionInvariant, Claims
<1> QED
  BY <1>3, <1>4, <1>9 DEF IngestionInvariant

LEMMA FloorPassesKeeps ==
    ASSUME IngestionAssumption, IngestionInvariant, NEW u \in Uris, FloorPasses(u)
    PROVE  IngestionInvariant'
<1> DEFINE i == [job.idx EXCEPT ![u] = [job.idx[u] EXCEPT !.fresh = FALSE]]
<1>1. /\ rows \in [Uris -> AnyRows] /\ job.idx \in [Uris -> AnyRows] /\ job \in JobRecs
      /\ rows' = [rows EXCEPT ![u] = [rows[u] EXCEPT !.fresh = FALSE]]
      /\ rows[u].fresh
      /\ UNCHANGED <<page, feed, policy, alive, cache, excused, absent>>
  BY DEF FloorPasses, origins, IngestionInvariant, IngestionTypes, JobRecs
<1>2. \A r \in AnyRows : /\ [r EXCEPT !.fresh = FALSE] \in AnyRows
                         /\ [r EXCEPT !.fresh = FALSE].owner = r.owner
                         /\ [r EXCEPT !.fresh = FALSE].policy = r.policy
                         /\ [r EXCEPT !.fresh = FALSE].content = r.content
  BY DEF AnyRows
<1>3. job' = [job EXCEPT !.idx = i] /\ i \in [Uris -> AnyRows]
  BY <1>1, <1>2 DEF FloorPasses, JobRecs
<1>4. /\ job' \in JobRecs /\ job'.idx = i
      /\ UNCHANGED <<job.pc, job.uris, job.cur, job.todo, job.pol, job.snap, job.validators, job.errors,
                     job.revisit, job.prune, job.missed, job.seen, job.complete, job.gone>>
  BY <1>1, <1>3 DEF JobRecs
<1>5. \A x \in Uris : /\ i[x].owner = job.idx[x].owner /\ i[x] \in AnyRows
                      /\ i[x].policy = job.idx[x].policy /\ i[x].content = job.idx[x].content
                      /\ job.idx[x] = NoRow => i[x] = NoRow
  <2>1. [NoRow EXCEPT !.fresh = FALSE] = NoRow
    <3>1. \A r \in AnyRows : r.fresh = FALSE => [r EXCEPT !.fresh = FALSE] = r
      BY DEF AnyRows
    <3> QED
      BY <3>1, NoRows DEF NoRow
  <2>2. \A x \in Uris : i[x] = IF x = u THEN [job.idx[u] EXCEPT !.fresh = FALSE] ELSE job.idx[x]
    BY <1>1
  <2>3. \A x \in Uris : job.idx[x] \in AnyRows
    BY <1>1
  <2> HIDE DEF i
  <2>4. job.idx[u] = NoRow => [job.idx[u] EXCEPT !.fresh = FALSE] = NoRow
    BY <2>1
  <2> TAKE x \in Uris
  <2>5. CASE x = u
    <3> DEFINE r == [job.idx[u] EXCEPT !.fresh = FALSE]
    <3>1. /\ r \in AnyRows /\ r.owner = job.idx[u].owner /\ r.policy = job.idx[u].policy
          /\ r.content = job.idx[u].content /\ i[u] = r
      BY <1>2, <2>2, <2>3
    <3> HIDE DEF r
    <3> QED
      BY <2>4, <2>5, <3>1 DEF r
  <2>6. CASE x # u
    BY <2>2, <2>3, <2>6
  <2> QED
    BY <2>5, <2>6
<1> HIDE DEF i
<1>6. /\ rows' \in [Uris -> AnyRows]
      /\ \A x \in Uris : /\ rows'[x].owner = rows[x].owner /\ rows'[x].policy = rows[x].policy
                         /\ rows'[x].content = rows[x].content
                         /\ rows'[x] = NoRow <=> rows[x] = NoRow
  <2>1. rows[u] # NoRow
    BY <1>1, NoRows
  <2>2. rows[u].owner # {}
    BY <2>1 DEF IngestionInvariant, Ownership, Belongs
  <2>3. [rows[u] EXCEPT !.fresh = FALSE] # NoRow
    <3>1. rows[u] \in AnyRows
      BY <1>1
    <3>2. [rows[u] EXCEPT !.fresh = FALSE].owner = rows[u].owner
      BY <1>2, <3>1
    <3> QED
      BY <2>2, <3>2, NoRows
  <2> QED
    BY <1>1, <1>2, <2>1, <2>3
<1>7. Cur' = Cur
  BY <1>4 DEF Cur
<1>8. IngestionTypes'
  BY <1>1, <1>4, <1>6 DEF IngestionInvariant, IngestionTypes
<1>9. Ownership'
  <2>1. \A x \in Uris : Belongs(rows'[x], x) /\ Belongs(i[x], x)
    BY <1>5, <1>6 DEF IngestionInvariant, Ownership, Belongs
  <2>2. RemovedStaysRemoved'
    BY <1>1, <1>6 DEF IngestionInvariant, Ownership, RemovedStaysRemoved
  <2>3. ASSUME NEW x \in Uris, i[x].owner # {}, i[x].owner \subseteq alive
        PROVE  [i[x] EXCEPT !.fresh = FALSE] = [rows'[x] EXCEPT !.fresh = FALSE]
    <3>1. [job.idx[x] EXCEPT !.fresh = FALSE] = [rows[x] EXCEPT !.fresh = FALSE]
      BY <1>5, <2>3 DEF IngestionInvariant, Ownership, SkipCheckGrounded
    <3>2. job.idx[x] \in AnyRows /\ rows[x] \in AnyRows
      BY <1>1
    <3>3. /\ job.idx[x].owner = rows[x].owner /\ job.idx[x].policy = rows[x].policy
          /\ job.idx[x].content = rows[x].content
      BY <3>1, <3>2, SameFields
    <3> QED
      BY <1>5, <1>6, <3>3, SameButFresh
  <2>4. SkipCheckGrounded'
    BY <1>1, <1>4, <2>3 DEF SkipCheckGrounded
  <2> QED
    BY <1>4, <2>1, <2>2, <2>4 DEF Ownership, Belongs
<1>10. RunShape'
  <2> SUFFICES ASSUME job.pc \in Working PROVE RunShape'
    BY <1>4 DEF RunShape
  <2>1. job.uris \subseteq Uris
    BY <1>1 DEF JobRecs
  <2> QED
    BY <1>4, <1>5, <1>6, <1>7, <2>1 DEF IngestionInvariant, RunShape, Owned
<1>11. Absences'
  BY <1>1, <1>4, <1>7 DEF IngestionInvariant, Absences, Enumerated, Pending
<1>12. CacheHidesNothing'
  BY <1>1, <1>6, ClaimsSurvive
<1>13. RunHidesNothing'
  <2>1. \A s \in Sources : feed[s].entries \subseteq Uris
    BY DEF IngestionInvariant, IngestionTypes, Feeds
  <2>2. job.pc \in Working => Cur \in Sources
    BY DEF IngestionInvariant, RunShape
  <2> QED
    BY <1>1, <1>4, <1>6, <1>7, <2>1, <2>2
    DEF IngestionInvariant, Claims, RunHidesNothing, Indexed, Pending
<1>14. Claims'
  BY <1>1, <1>4, <1>7, <1>12, <1>13 DEF IngestionInvariant, Claims
<1> QED
  BY <1>8, <1>9, <1>10, <1>11, <1>14 DEF IngestionInvariant

LEMMA RemoveSourceKeeps ==
    ASSUME IngestionAssumption, IngestionInvariant, NEW s \in Sources, RemoveSource(s)
    PROVE  IngestionInvariant'
<1>1. /\ alive' = alive \ {s} /\ s \in alive
      /\ rows' = [u \in Uris |-> IF rows[u].owner = {s} THEN NoRow ELSE rows[u]]
      /\ cache' = [cache EXCEPT ![s] = NoCache]
      /\ UNCHANGED <<page, feed, policy, job, excused, absent>>
      /\ rows \in [Uris -> AnyRows] /\ cache \in [Sources -> AnyCaches]
  BY DEF RemoveSource, origins, IngestionInvariant, IngestionTypes
<1>2. Cur' = Cur
  BY <1>1 DEF Cur
<1>3. NoCache \in AnyCaches /\ NoCache.ver = 0 /\ NoCache.digest = {}
  BY DEF NoCache, AnyCaches
<1>4. /\ cache' \in [Sources -> AnyCaches]
      /\ \A t \in Sources : cache'[t] = IF t = s THEN NoCache ELSE cache[t]
  BY <1>1, <1>3
<1>5. \A u \in Uris : /\ rows'[u] = NoRow \/ (rows'[u] = rows[u] /\ rows[u].owner # {s})
                      /\ rows'[u] = NoRow => rows[u] = NoRow \/ rows[u].owner = {s}
                      /\ rows'[u] \in AnyRows
  BY <1>1, NoRows
<1>6. IngestionTypes'
  BY <1>1, <1>4, <1>5 DEF IngestionInvariant, IngestionTypes
<1>7. Ownership'
  <2>1. \A u \in Uris : Belongs(rows'[u], u) /\ Belongs(job.idx[u], u)
    BY <1>5 DEF IngestionInvariant, Ownership, Belongs
  <2>2. RemovedStaysRemoved'
    <3> SUFFICES ASSUME NEW u \in Uris PROVE rows'[u].owner \subseteq alive \ {s}
      BY <1>1 DEF RemovedStaysRemoved
    <3>1. rows[u].owner \subseteq alive /\ Belongs(rows[u], u)
      BY DEF IngestionInvariant, Ownership, RemovedStaysRemoved
    <3> QED
      BY <1>5, <3>1, NoRows DEF Belongs
  <2>3. SkipCheckGrounded'
    <3> SUFFICES ASSUME NEW u \in Uris, job.idx[u].owner # {}, job.idx[u].owner \subseteq alive \ {s}
                 PROVE  [job.idx[u] EXCEPT !.fresh = FALSE] = [rows'[u] EXCEPT !.fresh = FALSE]
      BY <1>1 DEF SkipCheckGrounded
    <3>1. [job.idx[u] EXCEPT !.fresh = FALSE] = [rows[u] EXCEPT !.fresh = FALSE]
      BY DEF IngestionInvariant, Ownership, SkipCheckGrounded
    <3>2. job.idx[u] \in AnyRows /\ rows[u] \in AnyRows
      BY <1>1 DEF IngestionInvariant, IngestionTypes, JobRecs
    <3>3. rows[u].owner = job.idx[u].owner
      BY <3>1, <3>2, SameFields
    <3>4. rows'[u] = rows[u]
      BY <1>5, <3>3, NoRows
    <3> QED
      BY <3>1, <3>4
  <2> QED
    BY <1>1, <2>1, <2>2, <2>3 DEF Ownership, Belongs
<1>8. RunShape'
  <2>1. job.uris \subseteq Uris
    BY DEF IngestionInvariant, IngestionTypes, JobRecs
  <2> QED
    BY <1>1, <1>2, <1>5, <2>1 DEF IngestionInvariant, RunShape, Owned
<1>9. Absences'
  BY <1>1, <1>2 DEF IngestionInvariant, Absences, Enumerated, Pending
<1>10. ASSUME NEW t \in alive \ {s}, NEW u \in feed[t].entries
       PROVE  u \in Uris /\ rows'[u] = rows[u]
  <2>1. u \in Scope[t] /\ u \in Uris /\ t \in Sources
    BY DEF IngestionInvariant, IngestionTypes, IngestionAssumption
  <2>2. Belongs(rows[u], u)
    BY <2>1 DEF IngestionInvariant, Ownership
  <2>3. rows[u] = NoRow \/ rows[u].owner = {t}
    BY <1>1, <2>1, <2>2, OneOwner
  <2> QED
    BY <1>1, <2>1, <2>3
<1>11. CacheHidesNothing'
  <2> SUFFICES ASSUME NEW t \in alive \ {s}, Kind[t] = "feed",
                      cache'[t] = [ver |-> feed[t].ver, digest |-> {policy}],
                      NEW u \in feed[t].entries \ excused
               PROVE  rows'[u] # NoRow /\ rows'[u].policy = policy
    BY <1>1 DEF CacheHidesNothing
  <2>1. t \in Sources /\ cache'[t] = cache[t]
    BY <1>4 DEF IngestionInvariant, IngestionTypes
  <2>2. rows[u] # NoRow /\ rows[u].policy = policy
    BY <2>1 DEF IngestionInvariant, Claims, CacheHidesNothing
  <2> QED
    BY <1>10, <2>2
<1>12. RunHidesNothing'
  <2> SUFFICES ASSUME job.pc \in Working, Cur \in alive \ {s}, Kind[Cur] = "feed", ~job.errors,
                      job.pol = policy, feed[Cur].ver \in job.validators,
                      NEW u \in feed[Cur].entries \ excused
               PROVE  (rows'[u] # NoRow /\ rows'[u].policy = job.pol) \/ (~job.revisit /\ u \in Pending)
    BY <1>1, <1>2 DEF RunHidesNothing, Indexed, Pending
  <2>1. Indexed(u) \/ (~job.revisit /\ u \in Pending)
    BY DEF IngestionInvariant, Claims, RunHidesNothing
  <2> QED
    BY <1>10, <2>1 DEF Indexed
<1>13. Claims'
  <2>1. \A t \in Sources : cache'[t] = NoCache \/ cache'[t] = cache[t]
    BY <1>4
  <2>2. \A t \in Sources : NoCache.ver <= feed[t].ver
    BY <1>3 DEF IngestionInvariant, IngestionTypes, Feeds
  <2>3. \A t \in alive \ {s} : t \in Sources /\ cache'[t] = cache[t]
    BY <1>4 DEF IngestionInvariant, IngestionTypes
  <2> QED
    BY <1>1, <1>2, <1>3, <1>11, <1>12, <2>1, <2>2, <2>3 DEF IngestionInvariant, Claims
<1> QED
  BY <1>6, <1>7, <1>8, <1>9, <1>13 DEF IngestionInvariant

-----------------------------------------------------------------------------
(* The invariant *)

LEMMA InitInvariant ==
    ASSUME IngestionAssumption, Init
    PROVE  IngestionInvariant
<1>1. /\ rows = [u \in Uris |-> NoRow] /\ cache = [s \in Sources |-> NoCache] /\ job = Idle
      /\ page \in [Uris -> 0..1] /\ policy = 0 /\ alive = Sources
  BY DEF Init
<1>2. /\ job \in JobRecs /\ job.pc = "idle" /\ \A u \in Uris : job.idx[u] = NoRow
      /\ NoCache \in AnyCaches /\ NoCache.ver = 0 /\ NoCache.digest = {}
  BY <1>1, IdleTypes DEF NoCache, AnyCaches
<1>3. feed \in [Sources -> Feeds] /\ \A s \in Sources : feed[s].entries \subseteq Scope[s] /\ feed[s].ver = 1
  <2>1. \A s \in Sources : /\ feed[s] \in {[ver |-> 1, entries |-> e] : e \in SUBSET Uris}
                           /\ feed[s].entries = IF Kind[s] = "feed" THEN Scope[s] ELSE {}
    BY DEF Init
  <2>2. \A s \in Sources : feed[s] \in Feeds /\ feed[s].ver = 1
    BY <2>1 DEF Feeds
  <2> QED
    BY <2>1, <2>2 DEF Init
<1>4. IngestionTypes
  BY <1>1, <1>2, <1>3, NoRows DEF IngestionTypes
<1>5. Ownership
  BY <1>1, <1>2, NoRows DEF Ownership, Belongs, RemovedStaysRemoved, SkipCheckGrounded
<1>6. job.pc \notin Working
  BY <1>2 DEF Working
<1>7. RunShape /\ Absences /\ RunHidesNothing
  BY <1>6 DEF RunShape, Absences, RunHidesNothing
<1>8. CacheHidesNothing
  <2> SUFFICES ASSUME NEW s \in alive, cache[s] = [ver |-> feed[s].ver, digest |-> {policy}]
               PROVE  FALSE
    BY DEF CacheHidesNothing
  <2>1. cache[s].digest = {}
    BY <1>1, <1>2
  <2> QED
    BY <2>1
<1>9. Claims
  <2>1. \A s \in Sources : cache[s].ver <= feed[s].ver /\ cache[s].digest = {}
    BY <1>1, <1>2, <1>3
  <2> QED
    BY <1>2, <1>6, <1>7, <1>8, <2>1 DEF Claims
<1> QED
  BY <1>4, <1>5, <1>7, <1>9 DEF IngestionInvariant

LEMMA StepInvariant ==
    ASSUME IngestionAssumption, IngestionInvariant, [Next]_vars
    PROVE  IngestionInvariant'
<1>1. ASSUME NEW u \in Uris, PageChanges(u) \/ FloorPasses(u) PROVE IngestionInvariant'
  BY <1>1, PageChangesKeeps, FloorPassesKeeps
<1>2. ASSUME NEW s \in Sources, FeedPublishes(s) \/ RemoveSource(s) PROVE IngestionInvariant'
  BY <1>2, FeedPublishesKeeps, RemoveSourceKeeps
<1>3. CASE PolicyChanges
  BY <1>3, PolicyChangesKeeps
<1>4. ASSUME NEW S \in JobScopes, NEW prune \in BOOLEAN, NEW refetch \in BOOLEAN, StartJob(S, prune, refetch)
      PROVE  IngestionInvariant'
  BY <1>4, StartKeeps
<1>5. ASSUME NEW s \in Sources,
             \/ BeginPath(s) \/ BeginUrl(s) \/ BeginFeed(s) \/ BeginFeedFails(s)
             \/ \E u \in Uris : BeginPathStatError(s, u)
      PROVE  IngestionInvariant'
  BY <1>5, BeginPathKeeps, BeginUrlKeeps, BeginFeedKeeps
<1>6. ASSUME NEW u \in Uris, Step(u) PROVE IngestionInvariant'
  <2>1. CASE ProcessUrl(u) \/ ProcessFile(u)
    BY <2>1, EntryReported, ReportKeeps, FoundGoneKeeps
  <2>2. CASE PruneGone(u) \/ Sweep(u) \/ Probe(u)
    BY <2>2, PruneKeeps, ProbeKeeps
  <2> QED
    BY <1>6, <2>1, <2>2 DEF Step
<1>7. CASE EntriesDone \/ GoneDone \/ LivenessSweep \/ FinishSource
  BY <1>7, EntriesDoneKeeps, GoneDoneKeeps, LivenessKeeps, FinishKeeps
<1>8. CASE SweepDone \/ ProbesDone
  <2>1. job \in JobRecs /\ job.uris \in SUBSET Uris
    BY DEF IngestionInvariant, IngestionTypes, JobRecs
  <2>2. /\ job.pc \in Working \ {"entries"} /\ job' = [job EXCEPT !.pc = "finish"]
        /\ UNCHANGED <<rows, cache, page, feed, policy, alive, absent, excused>>
    BY <1>8 DEF SweepDone, ProbesDone, Working, NoFault, Unread, origins
  <2>3. job' = [job EXCEPT !.pc = "finish", !.uris = job.uris]
    BY <2>1, <2>2 DEF JobRecs
  <2> QED
    BY <2>1, <2>2, <2>3, PhaseKeeps
<1>9. CASE EndJob \/ AbortJob
  BY <1>9, JobOver DEF EndJob, AbortJob, NoFault, Unread, origins
<1>10. CASE UNCHANGED vars
  <2>1. Cur' = Cur
    BY <1>10 DEF vars, Cur
  <2>2. IngestionTypes' /\ Ownership'
    BY <1>10 DEF vars, IngestionInvariant, IngestionTypes, Ownership, Belongs, RemovedStaysRemoved,
       SkipCheckGrounded
  <2>3. RunShape' /\ Absences'
    BY <1>10, <2>1 DEF vars, IngestionInvariant, RunShape, Owned, Absences, Enumerated, Pending
  <2>4. CacheHidesNothing' /\ RunHidesNothing'
    BY <1>10, <2>1 DEF vars, IngestionInvariant, Claims, CacheHidesNothing, RunHidesNothing, Pending, Indexed
  <2>5. Claims'
    BY <1>10, <2>1, <2>4 DEF vars, IngestionInvariant, Claims
  <2> QED
    BY <2>2, <2>3, <2>5 DEF IngestionInvariant
<1> QED
  BY <1>1, <1>2, <1>3, <1>4, <1>5, <1>6, <1>7, <1>8, <1>9, <1>10 DEF Next, JobStep

(* Whatever origins, configuration, failures and removals do around a job,  *)
(* each part of the bookkeeping behind run_source_ingestion holds: whose a  *)
(* row is, what the index claims, what the run has found missing and what   *)
(* stored validators vouch for.                                             *)
THEOREM IngestionInvariantHolds == Spec => []IngestionInvariant
<1>1. Init => IngestionInvariant
  BY InitInvariant, IngestionAssumption
<1>2. IngestionInvariant /\ [Next]_vars => IngestionInvariant'
  BY StepInvariant, IngestionAssumption
<1> QED
  BY <1>1, <1>2, PTL DEF Spec

(* A removed source leaves no document behind, also when a job was indexing *)
(* it at that moment.                                                       *)
THEOREM RemovedSourcesStayRemoved == Spec => []RemovedStaysRemoved
<1>1. IngestionInvariant => RemovedStaysRemoved
  BY DEF IngestionInvariant, Ownership
<1> QED
  BY <1>1, IngestionInvariantHolds, PTL

(* The index a job decides from never claims content the store has not.     *)
THEOREM SkipChecksAreGrounded == Spec => []SkipCheckGrounded
<1>1. IngestionInvariant => SkipCheckGrounded
  BY DEF IngestionInvariant, Ownership
<1> QED
  BY <1>1, IngestionInvariantHolds, PTL

(* Stored feed validators never hide an entry that is still to be indexed.  *)
THEOREM ValidatorsHideNothing == Spec => []CacheHidesNothing
<1>1. IngestionInvariant => CacheHidesNothing
  BY DEF IngestionInvariant, Claims
<1> QED
  BY <1>1, IngestionInvariantHolds, PTL

-----------------------------------------------------------------------------
(* What a step may do to the rows *)

(* Apart from `source remove`, rows change where a floor passes, a document *)
(* is reported, a sweep deletes, or a probe stamps or deletes.              *)
LEMMA RowChanges ==
    ASSUME IngestionAssumption, IngestionInvariant, [Next]_vars
    PROVE  \/ rows' = rows
           \/ \E s \in Sources : RemoveSource(s)
           \/ \E u \in Uris : rows[u].fresh /\ rows' = [rows EXCEPT ![u].fresh = FALSE]
           \/ \E u \in Uris : job.pc = "entries" /\ u \in job.uris /\ Reported(u)
           \/ \E u \in job.uris : /\ job.pc \in {"gone", "sweep"} /\ job.prune
                                  /\ rows' = [rows EXCEPT ![u] = NoRow]
           \/ \E u \in job.uris : /\ job.pc = "probe"
                                  /\ \/ rows' = [rows EXCEPT ![u] = Touched(rows[u])]
                                     \/ page[u] = 0 /\ rows' = [rows EXCEPT ![u] = NoRow]
<1>1. ASSUME NEW u \in Uris, Step(u)
      PROVE  \/ rows' = rows
             \/ job.pc = "entries" /\ u \in job.uris /\ Reported(u)
             \/ /\ job.pc \in {"gone", "sweep"} /\ job.prune /\ u \in job.uris
                /\ rows' = [rows EXCEPT ![u] = NoRow]
             \/ /\ job.pc = "probe" /\ u \in job.uris
                /\ \/ rows' = [rows EXCEPT ![u] = Touched(rows[u])]
                   \/ page[u] = 0 /\ rows' = [rows EXCEPT ![u] = NoRow]
  <2>1. CASE ProcessUrl(u) \/ ProcessFile(u)
    BY <2>1, EntryReported DEF FoundGone
  <2>2. CASE PruneGone(u) \/ Sweep(u)
    BY <2>2 DEF PruneGone, Sweep, prune_or_count
  <2>3. CASE Probe(u)
    BY <2>3 DEF Probe
  <2> QED
    BY <1>1, <2>1, <2>2, <2>3 DEF Step
<1>2. ASSUME NEW u \in Uris, PageChanges(u) PROVE rows' = rows
  BY <1>2 DEF PageChanges
<1>3. ASSUME NEW u \in Uris, FloorPasses(u) PROVE rows[u].fresh /\ rows' = [rows EXCEPT ![u].fresh = FALSE]
  BY <1>3 DEF FloorPasses
<1>4. ASSUME NEW s \in Sources, FeedPublishes(s) PROVE rows' = rows
  BY <1>4 DEF FeedPublishes
<1>5. ASSUME NEW S \in JobScopes, NEW prune \in BOOLEAN, NEW refetch \in BOOLEAN, StartJob(S, prune, refetch)
      PROVE  rows' = rows
  BY <1>5 DEF StartJob
<1>6. ASSUME NEW s \in Sources,
             \/ BeginPath(s) \/ BeginUrl(s) \/ BeginFeed(s) \/ BeginFeedFails(s)
             \/ \E u \in Uris : BeginPathStatError(s, u)
      PROVE  rows' = rows
  BY <1>6 DEF BeginPath, BeginUrl, BeginFeed, BeginFeedFails, BeginPathStatError, Begin
<1>7. CASE PolicyChanges \/ EntriesDone \/ GoneDone \/ SweepDone \/ LivenessSweep \/ ProbesDone
           \/ FinishSource \/ EndJob \/ AbortJob \/ UNCHANGED vars
  BY <1>7 DEF PolicyChanges, EntriesDone, GoneDone, SweepDone, LivenessSweep, ProbesDone, FinishSource,
     EndJob, AbortJob, vars
<1> QED
  BY <1>1, <1>2, <1>3, <1>4, <1>5, <1>6, <1>7 DEF Next, JobStep

LEMMA StepDeletes ==
    ASSUME IngestionAssumption, IngestionInvariant, [Next]_vars, NEW u \in Uris,
           rows[u] # NoRow, rows'[u] = NoRow, alive' = alive
    PROVE  job.prune /\ rows[u].owner = job.cur /\ u \in absent \cup job.missed /\ job.pc \in Working
<1>1. /\ rows \in [Uris -> AnyRows] /\ rows[u] \in AnyRows /\ job \in JobRecs /\ job.uris \subseteq Uris
      /\ Belongs(rows[u], u) /\ rows[u].owner \subseteq alive
  BY DEF IngestionInvariant, IngestionTypes, JobRecs, Ownership, RemovedStaysRemoved
<1>a. rows[u].owner # {}
  BY <1>1 DEF Belongs
<1>2. rows' # rows
  OBVIOUS
<1>3. ASSUME NEW s \in Sources, RemoveSource(s) PROVE FALSE
  BY <1>3 DEF RemoveSource
<1>4. ASSUME NEW x \in Uris, rows' = [rows EXCEPT ![x].fresh = FALSE] PROVE FALSE
  <2>1. rows'[u].owner = rows[u].owner
    BY <1>1, <1>4 DEF AnyRows
  <2> QED
    BY <1>a, <2>1, NoRows
<1>5. ASSUME NEW x \in Uris, job.pc = "entries", x \in job.uris, Reported(x) PROVE FALSE
  BY <1>1, <1>5 DEF Reported, Outcome, Report
<1>6. ASSUME NEW x \in job.uris, job.pc \in {"gone", "sweep"}, job.prune, rows' = [rows EXCEPT ![x] = NoRow]
      PROVE  job.prune /\ rows[u].owner = job.cur /\ u \in absent \cup job.missed /\ job.pc \in Working
  <2>1. x = u
    BY <1>1, <1>6
  <2>2. /\ Cur \in Sources /\ job.cur = {Cur} /\ job.idx[u].owner = {Cur} /\ u \in absent \cup job.missed
    BY <1>6, <2>1 DEF Working, IngestionInvariant, RunShape, Absences, Owned
  <2>3. u \in Scope[Cur]
    BY <2>2, NoRows DEF IngestionInvariant, Ownership, Belongs
  <2>4. rows[u].owner = {Cur}
    BY <1>1, <2>2, <2>3, OneOwner
  <2> QED
    BY <1>6, <2>2, <2>4 DEF Working
<1>7. ASSUME NEW x \in job.uris, job.pc = "probe", rows' = [rows EXCEPT ![x] = Touched(rows[x])] PROVE FALSE
  <2>1. rows'[u].owner = rows[u].owner
    BY <1>1, <1>7, NoRows
  <2> QED
    BY <1>a, <2>1, NoRows
<1>8. ASSUME NEW x \in job.uris, job.pc = "probe", page[x] = 0, rows' = [rows EXCEPT ![x] = NoRow]
      PROVE  job.prune /\ rows[u].owner = job.cur /\ u \in absent \cup job.missed /\ job.pc \in Working
  <2>1. x = u
    BY <1>1, <1>8
  <2> QED
    BY <1>1, <1>8, <2>1 DEF Working, IngestionInvariant, RunShape, Absences
<1> QED
  BY <1>2, <1>3, <1>4, <1>5, <1>6, <1>7, <1>8, RowChanges

(* A job deletes a document only under the Prune policy, only one of the    *)
(* source it is running, and only one that was absent at its origin during  *)
(* this run or whose metadata could not be read.                            *)
THEOREM OnlyMissingDeleted == Spec => DeletesOnlyMissing
<1>1. ASSUME IngestionInvariant, [Next]_vars
      PROVE  \A u \in Uris : rows[u] # NoRow /\ rows'[u] = NoRow /\ alive' = alive =>
                job.prune /\ rows[u].owner = job.cur /\ u \in absent \cup job.missed
  BY <1>1, StepDeletes, IngestionAssumption
<1> QED
  BY <1>1, IngestionInvariantHolds, PTL DEF Spec, DeletesOnlyMissing

(* Where file metadata can always be read, what a job deletes was absent.   *)
THEOREM OnlyAbsentDeleted ==
    ASSUME StatErrors = FALSE
    PROVE  Spec => DeletesOnlyAbsent
<1>1. ASSUME IngestionInvariant, [Next]_vars
      PROVE  \A u \in Uris : rows[u] # NoRow /\ rows'[u] = NoRow /\ alive' = alive =>
                job.prune /\ rows[u].owner = job.cur /\ u \in absent
  <2> SUFFICES ASSUME NEW u \in Uris, rows[u] # NoRow, rows'[u] = NoRow, alive' = alive
               PROVE  job.prune /\ rows[u].owner = job.cur /\ u \in absent
    OBVIOUS
  <2>1. job.prune /\ rows[u].owner = job.cur /\ u \in absent \cup job.missed /\ job.pc \in Working
    BY <1>1, StepDeletes, IngestionAssumption
  <2> QED
    BY <1>1, <2>1 DEF IngestionInvariant, Absences
<1> QED
  BY <1>1, IngestionInvariantHolds, PTL DEF Spec, DeletesOnlyAbsent

LEMMA StepStamps ==
    ASSUME IngestionAssumption, IngestionInvariant, [Next]_vars, NEW u \in Uris,
           rows'[u].fresh, ~rows[u].fresh, job.pc # "probe"
    PROVE  rows'[u].content = page[u]
<1>1. rows \in [Uris -> AnyRows] /\ rows[u] \in AnyRows /\ job.uris \subseteq Uris
  BY DEF IngestionInvariant, IngestionTypes, JobRecs
<1>2. ASSUME NEW s \in Sources, RemoveSource(s) PROVE FALSE
  BY <1>2, NoRows DEF RemoveSource
<1>3. ASSUME NEW x \in Uris, rows' = [rows EXCEPT ![x].fresh = FALSE] PROVE FALSE
  <2>1. rows'[u].fresh => rows[u].fresh
    BY <1>1, <1>3 DEF AnyRows
  <2> QED
    BY <2>1
<1>4. ASSUME NEW x \in Uris, x \in job.uris, Reported(x) PROVE rows'[u].content = page[u]
  BY <1>1, <1>4 DEF Reported, Outcome, Report
<1>5. ASSUME NEW x \in job.uris, rows' = [rows EXCEPT ![x] = NoRow] PROVE FALSE
  BY <1>1, <1>5, NoRows
<1> QED
  BY <1>2, <1>3, <1>4, <1>5, RowChanges

(* Outside the liveness probe a document's check clock moves only when the  *)
(* row holds what its origin serves.                                        *)
THEOREM StampsAreVerified == Spec => TouchMeansVerified
<1>1. ASSUME IngestionInvariant, [Next]_vars
      PROVE  \A u \in Uris : rows'[u].fresh /\ ~rows[u].fresh /\ job.pc # "probe" =>
                rows'[u].content = page[u]
  BY <1>1, StepStamps, IngestionAssumption
<1> QED
  BY <1>1, IngestionInvariantHolds, PTL DEF Spec, TouchMeansVerified

-----------------------------------------------------------------------------
(* Outgoing HTTP *)

Phases == {"acquire", "token", "send", "answer", "failed", "backoff"}
Waits == Nat \cup {NoHint}
Results == {"Blocked", "Answered", "RateLimited", "Unavailable"}

(* A request that is under way. *)
Live ==
    [pc : Phases, kind : {"any", "public", "embed"}, asked : Hosts, host : Hosts,
     hops : Nat, tries : Nat, spent : Nat, wait : Nat,
     err : [status : {"none", "redirects", "429", "5xx", "4xx", "network"}, retry_after : Waits],
     slept : Nat, missed : BOOLEAN, inside : BOOLEAN]

(* What has been slept and what is still to be slept has been charged; an    *)
(* attempt is counted when it is sent.                                       *)
Charged(q) ==
    /\ q.slept + (IF q.pc = "backoff" THEN q.wait ELSE 0) <= q.spent
    /\ q.spent <= RetryBudget
    /\ q.tries <= MaxRetries + (IF q.pc \in {"send", "answer", "failed"} THEN 1 ELSE 0)

(* No hop of a guarded request is a private literal, so what the resolver    *)
(* leaves is public; the next attempt goes back to the URL asked for.        *)
Guarded(q) ==
    /\ ~q.inside
    /\ q.kind = "public" => ~is_blocked_destination(q.asked) /\ ~is_blocked_destination(q.host)

(* A paced request that has missed nothing has a wait as long as what its    *)
(* host was promised, and goes out when that is over.                        *)
Paced(q, left) ==
    q.kind # "embed" /\ should_pace(q.asked) /\ ~q.missed =>
        /\ q.pc = "token" => left[q.asked] <= q.wait
        /\ q.pc = "send" /\ q.hops = 0 => left[q.asked] = 0

Sound(q, left) ==
    \/ q = [pc |-> "unused"]
    \/ \E result \in Results : q = [pc |-> "done", result |-> result]
    \/ q \in Live /\ Charged(q) /\ Guarded(q) /\ Paced(q, left)

(* The inductive invariant. *)
HttpInvariant ==
    /\ cooldown \in [Hosts -> Nat] /\ promised \in [Hosts -> Nat]
    /\ \A h \in Hosts : promised[h] <= cooldown[h]
    /\ req = [r \in Requests |-> req[r]]
    /\ \A r \in Requests : Sound(req[r], promised)

-----------------------------------------------------------------------------
(* Lemmas *)

(* The constants the steps compute with are numbers. *)
LEMMA Numbers ==
    /\ MaxRetries \in Nat /\ MaxRedirects \in Nat /\ InlineCap \in Nat
    /\ RetryBudget \in Nat /\ CooldownCap \in Nat /\ ParseCap \in Nat
    /\ Hints \subseteq Waits /\ Backoffs \subseteq Nat
  BY HttpAssumption DEF HttpAssumption, Waits

(* A request with a phase of its own is under way, and conversely. *)
LEMMA UnderWay ==
    ASSUME HttpInvariant, NEW r \in Requests, req[r].pc \in Phases
    PROVE  req[r] \in Live /\ Charged(req[r]) /\ Guarded(req[r]) /\ Paced(req[r], promised)
  BY DEF HttpInvariant, Sound, Phases

(* A step that gives one request a sound state and writes no cooldown keeps  *)
(* the invariant.                                                            *)
LEMMA OneRequest ==
    ASSUME HttpInvariant, NEW r \in Requests, NEW q, Sound(q, promised),
           req' = [req EXCEPT ![r] = q], UNCHANGED <<cooldown, promised>>
    PROVE  HttpInvariant'
<1>1. \A s \in Requests : req'[s] = IF s = r THEN q ELSE req[s]
  BY DEF HttpInvariant
<1>2. \A s \in Requests : Sound(req'[s], promised)
  BY <1>1 DEF HttpInvariant
<1>3. req' = [s \in Requests |-> req'[s]]
  BY DEF HttpInvariant
<1> QED
  BY <1>2, <1>3 DEF HttpInvariant

(* The end of a request. *)
LEMMA Finishing ==
    ASSUME HttpInvariant, NEW r \in Requests, NEW result \in Results, Finish(r, result),
           UNCHANGED <<cooldown, promised>>
    PROVE  HttpInvariant'
<1> DEFINE q == [pc |-> "done", result |-> result]
<1>1. Sound(q, promised)
  BY DEF Sound
<1> HIDE DEF q
<1>2. req' = [req EXCEPT ![r] = q]
  BY DEF Finish, q
<1> QED
  BY <1>1, <1>2, OneRequest

(* What map_outcome answers is the name of a result. *)
LEMMA OutcomeNames ==
    ASSUME NEW err
    PROVE  map_outcome(err) \in Results
  BY DEF map_outcome, Results

-----------------------------------------------------------------------------
(* Every step keeps the invariant *)

(* A request that is refused ends, any other starts with nothing charged. *)
LEMMA BeginSound ==
    ASSUME HttpInvariant, NEW r \in Requests, NEW ask \in Asks[r], BeginRequest(r, ask[1], ask[2])
    PROVE  HttpInvariant'
<1> DEFINE q == NewRequest(ask[1], ask[2])
<1>1. ask[1] \in {"any", "public", "embed"} /\ ask[2] \in Hosts
  BY HttpAssumption DEF HttpAssumption
<1>2. CASE Refused(ask[1], ask[2])
  <2>1. Finish(r, "Blocked") /\ UNCHANGED <<cooldown, promised>>
    BY <1>2 DEF BeginRequest, Finish
  <2> QED
    BY <2>1, Finishing DEF Results
<1>3. CASE ~Refused(ask[1], ask[2])
  <2>1. q \in Live
    BY <1>1 DEF NewRequest, Live, Phases, NoError, Waits, NoHint
  <2>2. Charged(q) /\ Guarded(q) /\ Paced(q, promised)
    BY <1>1, <1>3, Numbers DEF NewRequest, Charged, Guarded, Paced, Refused
  <2>3. Sound(q, promised)
    BY <2>1, <2>2 DEF Sound
  <2>4. req' = [req EXCEPT ![r] = q] /\ UNCHANGED <<cooldown, promised>>
    BY <1>3 DEF BeginRequest
  <2> QED
    BY <2>3, <2>4, OneRequest
<1> QED
  BY <1>2, <1>3

(* The cooldown read is at least what the host was promised. *)
LEMMA AcquireCooldownSound ==
    ASSUME HttpInvariant, NEW r \in Requests, AcquireCooldown(r)
    PROVE  HttpInvariant'
<1>1. /\ req[r] \in Live /\ Charged(req[r]) /\ Guarded(req[r]) /\ Paced(req[r], promised)
      /\ req[r].pc = "acquire"
  BY UnderWay DEF AcquireCooldown, At, Phases
<1>2. CASE req[r].kind = "embed" \/ ~should_pace(req[r].asked)
  <2> DEFINE q == [req[r] EXCEPT !.pc = "send", !.tries = req[r].tries + 1]
  <2>a. req[r].tries + 1 \in Nat
    BY <1>1 DEF Live
  <2>1. q \in Live
    BY <1>1, <2>a DEF Live, Phases
  <2>2. Charged(q) /\ Guarded(q) /\ Paced(q, promised)
    BY <1>1, <1>2, Numbers DEF Live, Charged, Guarded, Paced
  <2>3. Sound(q, promised)
    BY <2>1, <2>2 DEF Sound
  <2>4. req' = [req EXCEPT ![r] = q] /\ UNCHANGED <<cooldown, promised>>
    BY <1>2 DEF AcquireCooldown
  <2> QED
    BY <2>3, <2>4, OneRequest
<1>3. CASE ~(req[r].kind = "embed" \/ ~should_pace(req[r].asked))
  <2> DEFINE q == [req[r] EXCEPT !.pc = "token", !.wait = cooldown[req[r].asked], !.missed = FALSE]
  <2>1. cooldown[req[r].asked] \in Nat /\ promised[req[r].asked] <= cooldown[req[r].asked]
    BY <1>1 DEF Live, HttpInvariant
  <2>2. q \in Live
    BY <1>1, <2>1 DEF Live, Phases
  <2>3. Charged(q) /\ Guarded(q) /\ Paced(q, promised)
    BY <1>1, <2>1, Numbers DEF Live, Charged, Guarded, Paced
  <2>4. Sound(q, promised)
    BY <2>2, <2>3 DEF Sound
  <2>5. req' = [req EXCEPT ![r] = q] /\ UNCHANGED <<cooldown, promised>>
    BY <1>3 DEF AcquireCooldown
  <2> QED
    BY <2>4, <2>5, OneRequest
<1> QED
  BY <1>2, <1>3

(* A token is only taken when the wait is over. *)
LEMMA AcquireTokenSound ==
    ASSUME HttpInvariant, NEW r \in Requests, AcquireToken(r)
    PROVE  HttpInvariant'
<1> DEFINE q == [req[r] EXCEPT !.pc = "send", !.tries = req[r].tries + 1]
<1>1. /\ req[r] \in Live /\ Charged(req[r]) /\ Guarded(req[r]) /\ Paced(req[r], promised)
      /\ req[r].pc = "token" /\ req[r].wait = 0
  BY UnderWay DEF AcquireToken, At, Phases
<1>b. req[r].tries + 1 \in Nat
  BY <1>1 DEF Live
<1>2. q \in Live
  BY <1>1, <1>b DEF Live, Phases
<1>a. promised[req[r].asked] \in Nat
  BY <1>1 DEF Live, HttpInvariant
<1>3. Charged(q) /\ Guarded(q) /\ Paced(q, promised)
  BY <1>1, <1>a, Numbers DEF Live, Charged, Guarded, Paced
<1>4. Sound(q, promised)
  BY <1>2, <1>3 DEF Sound
<1>5. req' = [req EXCEPT ![r] = q] /\ UNCHANGED <<cooldown, promised>>
  BY DEF AcquireToken
<1> QED
  BY <1>4, <1>5, OneRequest

(* A guarded request that connects does so to a public address. *)
LEMMA ConnectSound ==
    ASSUME HttpInvariant, NEW r \in Requests, Connect(r)
    PROVE  HttpInvariant'
<1>1. /\ req[r] \in Live /\ Charged(req[r]) /\ Guarded(req[r]) /\ Paced(req[r], promised)
      /\ req[r].pc = "send"
  BY UnderWay DEF Connect, At, Phases
<1>2. CASE Finish(r, "Blocked")
  BY <1>2, Finishing DEF Connect, Results
<1>3. ASSUME NEW addr \in GuardedResolver(req[r].kind, req[r].host),
             req' = [req EXCEPT ![r].pc = "answer",
                                ![r].inside = req[r].kind = "public" /\ addr = "private"]
      PROVE  HttpInvariant'
  <2> DEFINE into == req[r].kind = "public" /\ addr = "private"
             q == [req[r] EXCEPT !.pc = "answer", !.inside = into]
  <2>1. into = FALSE
    BY <1>1, <1>3 DEF Guarded, GuardedResolver, is_blocked_destination
  <2>2. q \in Live
    BY <1>1, <2>1 DEF Live, Phases
  <2>3. Charged(q) /\ Guarded(q) /\ Paced(q, promised)
    BY <1>1, <2>1, Numbers DEF Live, Charged, Guarded, Paced
  <2>4. Sound(q, promised)
    BY <2>2, <2>3 DEF Sound
  <2>5. req' = [req EXCEPT ![r] = q] /\ UNCHANGED <<cooldown, promised>>
    BY <1>3 DEF Connect
  <2> QED
    BY <2>4, <2>5, OneRequest
<1> QED
  BY <1>2, <1>3 DEF Connect

(* A redirect that is followed passes the guard. *)
LEMMA RedirectedSound ==
    ASSUME HttpInvariant, NEW r \in Requests, NEW h \in Hosts, Redirected(r, h)
    PROVE  HttpInvariant'
<1>1. /\ req[r] \in Live /\ Charged(req[r]) /\ Guarded(req[r]) /\ Paced(req[r], promised)
      /\ req[r].pc = "answer"
  BY UnderWay DEF Redirected, At, Phases
<1>2. CASE Refused(req[r].kind, h)
  BY <1>2, Finishing DEF Redirected, Results
<1>3. CASE ~Refused(req[r].kind, h) /\ req[r].hops + 1 > MaxRedirects
  <2> DEFINE err == [NoError EXCEPT !.status = "redirects"]
             q == [req[r] EXCEPT !.pc = "failed", !.err = err]
  <2>1. err \in [status : {"none", "redirects", "429", "5xx", "4xx", "network"}, retry_after : Waits]
    BY DEF NoError, Waits
  <2>2. q \in Live
    BY <1>1, <2>1 DEF Live, Phases
  <2>3. Charged(q) /\ Guarded(q) /\ Paced(q, promised)
    BY <1>1, Numbers DEF Live, Charged, Guarded, Paced
  <2>4. Sound(q, promised)
    BY <2>2, <2>3 DEF Sound
  <2>5. req' = [req EXCEPT ![r] = q] /\ UNCHANGED <<cooldown, promised>>
    BY <1>3 DEF Redirected
  <2> QED
    BY <2>4, <2>5, OneRequest
<1>4. CASE ~Refused(req[r].kind, h) /\ ~(req[r].hops + 1 > MaxRedirects)
  <2> DEFINE q == [req[r] EXCEPT !.pc = "send", !.host = h, !.hops = req[r].hops + 1]
  <2>a. req[r].hops + 1 \in Nat
    BY <1>1 DEF Live
  <2>1. q \in Live
    BY <1>1, <2>a DEF Live, Phases
  <2>2. Charged(q)
    BY <1>1, Numbers DEF Live, Charged
  <2>3. Guarded(q)
    BY <1>1, <1>4 DEF Live, Guarded, Refused
  <2>4. q.hops # 0 /\ q.pc = "send"
    BY <1>1 DEF Live
  <2>5. Paced(q, promised)
    BY <2>4 DEF Paced
  <2>6. Sound(q, promised)
    BY <2>1, <2>2, <2>3, <2>5 DEF Sound
  <2>7. req' = [req EXCEPT ![r] = q] /\ UNCHANGED <<cooldown, promised>>
    BY <1>4 DEF Redirected
  <2> QED
    BY <2>6, <2>7, OneRequest
<1> QED
  BY <1>2, <1>3, <1>4

LEMMA NetworkErrorSound ==
    ASSUME HttpInvariant, NEW r \in Requests, NetworkError(r)
    PROVE  HttpInvariant'
<1> DEFINE err == [NoError EXCEPT !.status = "network"]
           q == [req[r] EXCEPT !.pc = "failed", !.err = err]
<1>1. /\ req[r] \in Live /\ Charged(req[r]) /\ Guarded(req[r]) /\ Paced(req[r], promised)
      /\ req[r].pc \in {"send", "answer"}
  BY UnderWay DEF NetworkError, Phases
<1>2. err \in [status : {"none", "redirects", "429", "5xx", "4xx", "network"}, retry_after : Waits]
  BY DEF NoError, Waits
<1>3. q \in Live
  BY <1>1, <1>2 DEF Live, Phases
<1>4. Charged(q) /\ Guarded(q) /\ Paced(q, promised)
  BY <1>1, Numbers DEF Live, Charged, Guarded, Paced
<1>5. Sound(q, promised)
  BY <1>3, <1>4 DEF Sound
<1>6. req' = [req EXCEPT ![r] = q] /\ UNCHANGED <<cooldown, promised>>
  BY DEF NetworkError
<1> QED
  BY <1>5, <1>6, OneRequest

(* A 429 extends a cooldown and the promise together, and marks every other  *)
(* request that has already looked for the cooldown.                         *)
LEMMA StatusErrorSound ==
    ASSUME HttpInvariant, NEW r \in Requests, NEW status \in {"429", "5xx", "4xx"},
           NEW hint \in Hints, StatusError(r, status, hint)
    PROVE  HttpInvariant'
<1> DEFINE d == parse_retry_after(hint)
           h == req[r].host
           noted == status = "429" /\ d # NoHint /\ req[r].kind # "embed"
           err == [status |-> status, retry_after |-> d]
<1>1. /\ req[r] \in Live /\ Charged(req[r]) /\ Guarded(req[r]) /\ Paced(req[r], promised)
      /\ req[r].pc = "answer"
  BY UnderWay DEF StatusError, At, Phases
<1>2. d \in Waits /\ h \in Hosts
  BY <1>1, Numbers DEF parse_retry_after, Min2, Waits, NoHint, Live
<1>3. /\ cooldown' \in [Hosts -> Nat] /\ promised' \in [Hosts -> Nat]
      /\ \A g \in Hosts : promised'[g] <= cooldown'[g]
      /\ \A g \in Hosts : promised'[g] # promised[g] => noted /\ g = h
  <2> HIDE DEF d, h
  <2>1. CASE ~noted
    <3>1. cooldown' = cooldown /\ promised' = promised
      BY <2>1 DEF StatusError, d, h
    <3> QED
      BY <3>1 DEF HttpInvariant
  <2>2. CASE noted
    <3>1. Min2(d, CooldownCap) \in Nat
      BY <1>2, <2>2, Numbers DEF Min2, Waits, NoHint
    <3>2. /\ cooldown' = [cooldown EXCEPT ![h] = IF Min2(d, CooldownCap) > @
                                                 THEN Min2(d, CooldownCap) ELSE @]
          /\ promised' = IF Min2(d, CooldownCap) > promised[h]
                         THEN [promised EXCEPT ![h] = Min2(d, CooldownCap)] ELSE promised
      BY <2>2 DEF StatusError, note_retry_after, d, h
    <3> QED
      BY <1>2, <2>2, <3>1, <3>2 DEF HttpInvariant
  <2> QED
    BY <2>1, <2>2
<1>4. /\ req' = [q \in Requests |-> req'[q]]
      /\ req'[r] = [req[r] EXCEPT !.pc = "failed", !.err = err]
      /\ \A q \in Requests \ {r} :
            req'[q] = IF noted /\ q \in Passed(h) THEN [req[q] EXCEPT !.missed = TRUE] ELSE req[q]
  BY DEF StatusError
<1>5. Sound(req'[r], promised')
  <2>1. err \in [status : {"none", "redirects", "429", "5xx", "4xx", "network"}, retry_after : Waits]
    BY <1>2
  <2>2. req'[r] \in Live
    BY <1>1, <1>4, <2>1 DEF Live, Phases
  <2>3. Charged(req'[r]) /\ Guarded(req'[r]) /\ Paced(req'[r], promised')
    BY <1>1, <1>4, Numbers DEF Live, Charged, Guarded, Paced
  <2> QED
    BY <2>2, <2>3 DEF Sound
<1>6. ASSUME NEW q \in Requests \ {r}
      PROVE  Sound(req'[q], promised')
  <2>1. CASE req[q].pc \notin Phases
    <3>1. q \notin InFlight \/ req[q].pc \in Phases
      BY <1>6 DEF HttpInvariant, Sound, Live, Phases, InFlight
    <3>2. req'[q] = req[q]
      BY <1>4, <2>1, <3>1 DEF Passed
    <3> QED
      BY <2>1, <3>2 DEF HttpInvariant, Sound, Live
  <2>2. CASE req[q].pc \in Phases
    <3>1. req[q] \in Live /\ Charged(req[q]) /\ Guarded(req[q]) /\ Paced(req[q], promised)
      BY <2>2, UnderWay
    <3>2. q \in InFlight
      BY <2>2 DEF InFlight, Phases
    <3>3. CASE noted /\ q \in Passed(h)
      <4>a. req'[q] = [req[q] EXCEPT !.missed = TRUE]
        BY <1>4, <3>3
      <4>1. req'[q] \in Live /\ req'[q].missed
        BY <4>a, <3>1 DEF Live
      <4>2. Charged(req'[q]) /\ Guarded(req'[q])
        BY <4>a, <3>1 DEF Live, Charged, Guarded
      <4>3. Paced(req'[q], promised')
        BY <4>1 DEF Paced
      <4> QED
        BY <4>1, <4>2, <4>3 DEF Sound
    <3>4. CASE ~(noted /\ q \in Passed(h))
      <4>1. req'[q] = req[q]
        BY <1>4, <3>4
      <4>2. req[q].pc \in {"token", "send"} => promised'[req[q].asked] = promised[req[q].asked]
        BY <1>3, <3>1, <3>2, <3>4 DEF Passed, Live
      <4>3. Paced(req[q], promised')
        BY <3>1, <4>2 DEF Paced
      <4> QED
        BY <3>1, <4>1, <4>3 DEF Sound
    <3> QED
      BY <3>3, <3>4
  <2> QED
    BY <2>1, <2>2
<1>7. \A q \in Requests : Sound(req'[q], promised')
  BY <1>5, <1>6
<1> QED
  BY <1>3, <1>4, <1>7 DEF HttpInvariant

(* The adjuster charges a wait before it is slept, and only within budget. *)
LEMMA DecideSound ==
    ASSUME HttpInvariant, NEW r \in Requests, Decide(r)
    PROVE  HttpInvariant'
<1>1. /\ req[r] \in Live /\ Charged(req[r]) /\ Guarded(req[r]) /\ Paced(req[r], promised)
      /\ req[r].pc = "failed"
  BY UnderWay DEF Decide, At, Phases
<1>2. CASE Finish(r, map_outcome(req[r].err))
  BY <1>2, Finishing, OutcomeNames DEF Decide
<1>3. ASSUME NEW delay \in Backoffs, req[r].tries <= MaxRetries, retry_after_adjuster(r, delay),
             ~Finish(r, map_outcome(req[r].err))
      PROVE  HttpInvariant'
  <2> DEFINE hint == req[r].err.retry_after
             wait == IF hint = NoHint THEN delay ELSE hint
             q == [req[r] EXCEPT !.pc = "backoff", !.wait = wait, !.spent = req[r].spent + wait,
                                 !.host = req[r].asked, !.hops = 0, !.err = NoError]
  <2>1. hint \in Waits
    BY <1>1 DEF Live
  <2>2. wait \in Nat
    BY <2>1, <1>3, Numbers DEF Waits
  <2>3. Sleep(r, wait, wait) /\ req[r].spent + wait <= RetryBudget
    <3>1. Sleep(r, wait, wait) /\ ~(req[r].spent + wait > RetryBudget)
      BY <1>3 DEF retry_after_adjuster
    <3>2. req[r].spent \in Nat
      BY <1>1 DEF Live
    <3> QED
      BY <2>2, <3>1, <3>2, Numbers
  <2> HIDE DEF wait
  <2>4. NoError \in [status : {"none", "redirects", "429", "5xx", "4xx", "network"}, retry_after : Waits]
    BY DEF NoError, Waits
  <2>5. req[r].spent + wait \in Nat
    BY <1>1, <2>2 DEF Live
  <2>6. q \in Live
    BY <1>1, <2>2, <2>4, <2>5 DEF Live, Phases
  <2>7. Charged(q) /\ Guarded(q) /\ Paced(q, promised)
    BY <1>1, <1>3, <2>2, <2>3, Numbers DEF Live, Charged, Guarded, Paced
  <2>8. Sound(q, promised)
    BY <2>6, <2>7 DEF Sound
  <2>9. req' = [req EXCEPT ![r] = q] /\ UNCHANGED <<cooldown, promised>>
    BY <2>3 DEF Sleep, Decide
  <2> QED
    BY <2>8, <2>9, OneRequest
<1> QED
  BY <1>2, <1>3 DEF Decide

LEMMA RetrySound ==
    ASSUME HttpInvariant, NEW r \in Requests, Retry(r)
    PROVE  HttpInvariant'
<1> DEFINE q == [req[r] EXCEPT !.pc = "acquire"]
<1>1. /\ req[r] \in Live /\ Charged(req[r]) /\ Guarded(req[r]) /\ Paced(req[r], promised)
      /\ req[r].pc = "backoff"
  BY UnderWay DEF Retry, At, Phases
<1>2. q \in Live
  BY <1>1 DEF Live, Phases
<1>3. Charged(q) /\ Guarded(q) /\ Paced(q, promised)
  BY <1>1, Numbers DEF Live, Charged, Guarded, Paced
<1>4. Sound(q, promised)
  BY <1>2, <1>3 DEF Sound
<1>5. req' = [req EXCEPT ![r] = q] /\ UNCHANGED <<cooldown, promised>>
  BY DEF Retry
<1> QED
  BY <1>4, <1>5, OneRequest

(* A unit of time that is slept was charged; waits and promises shrink       *)
(* together.                                                                 *)
LEMMA TimePassesSound ==
    ASSUME HttpInvariant, TimePasses
    PROVE  HttpInvariant'
<1>1. \A n \in Nat : Less(n) \in Nat /\ Less(n) <= n /\ (n > 0 => Less(n) + 1 = n)
  BY DEF Less
<1>2. \A m, n \in Nat : m <= n => Less(m) <= Less(n)
  BY DEF Less
<1>3. /\ cooldown' \in [Hosts -> Nat] /\ promised' \in [Hosts -> Nat]
      /\ \A h \in Hosts : promised'[h] = Less(promised[h]) /\ promised'[h] <= cooldown'[h]
  BY <1>1, <1>2 DEF TimePasses, HttpInvariant
<1>4. req' = [r \in Requests |-> req'[r]]
  BY DEF TimePasses
<1>5. ASSUME NEW r \in Requests
      PROVE  Sound(req'[r], promised')
  <2>1. CASE req[r].pc \notin Phases
    <3>1. r \notin InFlight
      BY <2>1 DEF HttpInvariant, Sound, Live, InFlight
    <3>2. req'[r] = req[r]
      BY <3>1 DEF TimePasses
    <3> QED
      BY <2>1, <3>2 DEF HttpInvariant, Sound, Live
  <2>2. CASE req[r].pc \in Phases
    <3> DEFINE more == IF req[r].pc = "backoff" /\ req[r].wait > 0 THEN 1 ELSE 0
               q == [req[r] EXCEPT !.wait = Less(req[r].wait), !.slept = req[r].slept + more]
    <3>1. req[r] \in Live /\ Charged(req[r]) /\ Guarded(req[r]) /\ Paced(req[r], promised)
      BY <2>2, UnderWay
    <3>2. r \in InFlight
      BY <2>2 DEF InFlight, Phases
    <3>3. req'[r] = q
      BY <3>2 DEF TimePasses, At
    <3>4. Less(req[r].wait) \in Nat /\ req[r].slept + more \in Nat
      BY <1>1, <3>1 DEF Live
    <3>5. q \in Live
      BY <3>1, <3>4 DEF Live
    <3>6. Charged(q)
      BY <1>1, <3>1, Numbers DEF Live, Charged
    <3>7. Guarded(q)
      BY <3>1 DEF Live, Guarded
    <3>8. /\ promised[req[r].asked] \in Nat /\ req[r].wait \in Nat
          /\ promised'[req[r].asked] = Less(promised[req[r].asked])
      BY <1>3, <3>1 DEF Live, HttpInvariant
    <3>9. Less(0) = 0
      BY DEF Less
    <3>10. Paced(q, promised')
      BY <1>2, <3>1, <3>8, <3>9 DEF Live, Paced
    <3> QED
      BY <3>3, <3>5, <3>6, <3>7, <3>10 DEF Sound
  <2> QED
    BY <2>1, <2>2
<1> QED
  BY <1>3, <1>4, <1>5 DEF HttpInvariant

-----------------------------------------------------------------------------
(* Theorems *)

(* The inductive invariant holds in every reachable state: what a request    *)
(* has slept or will sleep is charged to its budget, its hops have passed    *)
(* the destination guard, and its wait covers what its host was promised.    *)
THEOREM HttpInvariantHolds == HttpSpec => []HttpInvariant
<1>1. HttpInit => HttpInvariant
  BY DEF HttpInit, HttpInvariant, Sound
<1>2. HttpInvariant /\ [HttpNext]_httpVars => HttpInvariant'
  <2> SUFFICES ASSUME HttpInvariant, [HttpNext]_httpVars
               PROVE  HttpInvariant'
    OBVIOUS
  <2>1. CASE TimePasses
    BY <2>1, TimePassesSound
  <2>2. ASSUME NEW r \in Requests, NEW ask \in Asks[r], BeginRequest(r, ask[1], ask[2])
        PROVE  HttpInvariant'
    BY <2>2, BeginSound
  <2>3. ASSUME NEW r \in Requests, RequestStep(r)
        PROVE  HttpInvariant'
    <3>1. CASE AcquireCooldown(r)
      BY <3>1, AcquireCooldownSound
    <3>2. CASE AcquireToken(r)
      BY <3>2, AcquireTokenSound
    <3>3. CASE Connect(r)
      BY <3>3, ConnectSound
    <3>4. CASE Answered(r)
      <4>1. \E result \in Results : Finish(r, result)
        BY <3>4 DEF Answered, Results
      <4> QED
        BY <3>4, <4>1, Finishing DEF Answered
    <3>5. ASSUME NEW h \in Hosts, Redirected(r, h)
          PROVE  HttpInvariant'
      BY <3>5, RedirectedSound
    <3>6. ASSUME NEW status \in {"429", "5xx", "4xx"}, NEW hint \in Hints, StatusError(r, status, hint)
          PROVE  HttpInvariant'
      BY <3>6, StatusErrorSound
    <3>7. CASE NetworkError(r)
      BY <3>7, NetworkErrorSound
    <3>8. CASE Decide(r)
      BY <3>8, DecideSound
    <3>9. CASE Retry(r)
      BY <3>9, RetrySound
    <3> QED
      BY <2>3, <3>1, <3>2, <3>3, <3>4, <3>5, <3>6, <3>7, <3>8, <3>9 DEF RequestStep
  <2>4. CASE UNCHANGED httpVars
    BY <2>4 DEF HttpInvariant, httpVars
  <2> QED
    BY <2>1, <2>2, <2>3, <2>4 DEF HttpNext
<1> QED
  BY <1>1, <1>2, PTL DEF HttpSpec

(* No request sleeps longer than its retry budget or is sent more often than *)
(* 1 + max_retries times, however servers mix answers with and without       *)
(* Retry-After (retry_after_adjuster, send_with_retry).                      *)
THEOREM BudgetHolds == HttpSpec => []RetriesAreBounded
<1>1. HttpInvariant => RetriesAreBounded
  <2> SUFFICES ASSUME HttpInvariant, NEW r \in InFlight
               PROVE  req[r].slept <= RetryBudget /\ req[r].tries <= MaxRetries + 1
    BY DEF RetriesAreBounded
  <2>1. r \in Requests /\ req[r] \in Live /\ Charged(req[r])
    BY DEF InFlight, HttpInvariant, Sound
  <2> QED
    BY <2>1, Numbers DEF Live, Charged
<1> QED
  BY <1>1, HttpInvariantHolds, PTL

(* A fetch of a URL that a feed chose never connects to a private address:   *)
(* preflight, redirect policy and GuardedResolver leave no way round.        *)
THEOREM PublicOnly == HttpSpec => []PublicStaysPublic
<1>1. HttpInvariant => PublicStaysPublic
  <2> SUFFICES ASSUME HttpInvariant, NEW r \in InFlight, req[r].inside
               PROVE  FALSE
    BY DEF PublicStaysPublic
  <2> QED
    BY DEF InFlight, HttpInvariant, Sound, Guarded, Live
<1> QED
  BY <1>1, HttpInvariantHolds, PTL

(* A paced request goes out to the host it asked for only when every         *)
(* cooldown it could have seen is over (note_retry_after, acquire).          *)
THEOREM CooldownsRespected == HttpSpec => CooldownsHold
<1>1. HttpInvariant /\ [HttpNext]_httpVars =>
        [\A r \in InFlight :
           /\ At(r, "send") /\ req'[r].pc = "answer"
           /\ req[r].hops = 0 /\ req[r].kind # "embed" /\ should_pace(req[r].asked)
           => promised[req[r].asked] = 0 \/ req[r].missed]_httpVars
  <2> SUFFICES ASSUME HttpInvariant, NEW r \in InFlight, At(r, "send"), req[r].hops = 0,
                      req[r].kind # "embed", should_pace(req[r].asked), ~req[r].missed
               PROVE  promised[req[r].asked] = 0
    OBVIOUS
  <2>1. Paced(req[r], promised)
    BY UnderWay DEF InFlight, At, Phases
  <2> QED
    BY <2>1 DEF Paced, At
<1> QED
  BY <1>1, HttpInvariantHolds, PTL DEF CooldownsHold, HttpSpec

=============================================================================
