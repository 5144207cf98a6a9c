----------------------------- MODULE Retrieval -----------------------------
(***************************************************************************)
(* The indexed content and its readers.  The tables resources, chunks and   *)
(* blocks of the one database file, shared by all stores; the tenant's      *)
(* write transactions (store-libsql/src/tenant/write.rs), each serialised   *)
(* by the writer connection; index jobs, which decide what to write from a  *)
(* DocumentIndex they load when they start; and one reader at a time that   *)
(* either searches (core/src/search.rs over tenant/read.rs, with HTTP's     *)
(* result pages) or reads a document back (core/src/documents.rs).  Every   *)
(* SQL statement of a reader sees its own snapshot, so writes fall between  *)
(* any two of them.                                                         *)
(*                                                                          *)
(* Identifiers are content addressed: a resource is its URI and content, a  *)
(* chunk its resource, the chunking policy that cut it and a number, and    *)
(* two stores that hold one document hold the same identifiers.             *)
(***************************************************************************)
EXTENDS Integers, Sequences, FiniteSets, FiniteSetsExt, SequencesExt, Sorting

CONSTANTS
    Stores,         \* store ids, numbered in the order of their names
    Writers,        \* the processes that run index jobs: the daemon, embedded commands
    Versions,       \* what may come to be indexed: <<store, uri, content, policy>>,
                    \* where policy n cuts a document into n chunks
    Filtered,       \* the URIs that pass a search's filters, when it has any
    Queries,        \* the searches: <<surface, store names, limit, filtered>>,
                    \* where << >> names every store
    MaxWrites,      \* bound: transactions that commit during one read
    StartFactor,    \* dense_search's first overfetch
    MaxFactor,      \* and its last
    LegK,           \* DEFAULT_LEG_K
    RrfK,           \* RRF_K
    Similarity(_),  \* a chunk's score against the query vector
    Relevance(_)    \* a chunk's BM25 score, 0 when the query matches nothing

resource_id(uri, content) == 10 * uri + content
chunk_id(resource, policy, n) == 100 * resource + 10 * policy + n

(* A query names stores it has found; scores are numbers. *)
ASSUME RetrievalAssumption ==
    /\ Stores \subseteq Nat /\ IsFiniteSet(Stores)
    /\ Versions \subseteq Stores \X (1 .. 9) \X (1 .. 9) \X (1 .. 9)
    /\ \A q \in Queries :
        /\ q[1] \in {"http", "cli", "mcp"} /\ q[2] \in Seq(Stores)
        /\ q[3] \in Nat \ {0} /\ q[4] \in BOOLEAN
    /\ MaxWrites \in Nat
    /\ {StartFactor, MaxFactor, LegK, RrfK} \subseteq Nat \ {0} /\ MaxFactor >= StartFactor
    /\ \A u, c, p, n \in 1 .. 9 :
        /\ Similarity(chunk_id(resource_id(u, c), p, n)) \in Int
        /\ Relevance(chunk_id(resource_id(u, c), p, n)) \in Nat

VARIABLES
    resources,  \* set of [store, id, uri, policy]
    chunks,     \* set of [store, id, resource_id, uri]
    blocks,     \* set of [store, resource_id]
    jobs,       \* the index job each process runs: its store and what it knows of it
    raced,      \* history: <<store, uri>> that a job wrote behind another one's back
    reader,     \* the search or document read under way
    touched     \* history: what writes did since the reader began

tables == <<resources, chunks, blocks>>
jobVars == <<jobs, raced>>
retrievalVars == <<resources, chunks, blocks, jobs, raced, reader, touched>>

Idle == [pc |-> "idle"]
NoJob == [pc |-> "none"]

RetrievalInit ==
    /\ resources = {} /\ chunks = {} /\ blocks = {}
    /\ jobs = [j \in Writers |-> NoJob] /\ raced = {}
    /\ reader = Idle
    /\ touched = [chunks |-> {}, resources |-> {}, writes |-> 0]

-----------------------------------------------------------------------------
(* Writes.  Each operator maps the three tables to the three tables after    *)
(* one statement or one transaction.                                         *)

Tables == [resources |-> resources, chunks |-> chunks, blocks |-> blocks]

(* Blocks go with their resource by ON DELETE CASCADE. *)
delete_document_inner(db, s, id) ==
    [resources |-> {r \in db.resources : ~(r.store = s /\ r.id = id)},
     chunks |-> {c \in db.chunks : ~(c.store = s /\ c.resource_id = id)},
     blocks |-> {b \in db.blocks : ~(b.store = s /\ b.resource_id = id)}]

(* Variant: the chunks of the previous policy stay. *)
DeleteBlocksOnly(db, s, id) ==
    [db EXCEPT !.blocks = {b \in @ : ~(b.store = s /\ b.resource_id = id)}]

delete_chunks_and_blocks_inner(db, s, id) ==
    [db EXCEPT !.chunks = {c \in @ : ~(c.store = s /\ c.resource_id = id)},
               !.blocks = {b \in @ : ~(b.store = s /\ b.resource_id = id)}]

(* INSERT ... ON CONFLICT DO UPDATE, for the resource row and each chunk. *)
upsert_chunks_inner(db, s, uri, id, policy) ==
    LET ids == {chunk_id(id, policy, n) : n \in 1 .. policy} IN
    [db EXCEPT
        !.resources = {r \in @ : ~(r.store = s /\ r.id = id)}
                        \cup {[store |-> s, id |-> id, uri |-> uri, policy |-> policy]},
        !.chunks = {c \in @ : ~(c.store = s /\ c.id \in ids)}
                     \cup {[store |-> s, id |-> c, resource_id |-> id, uri |-> uri] : c \in ids}]

upsert_blocks_inner(db, s, id) ==
    [db EXCEPT !.blocks = @ \cup {[store |-> s, resource_id |-> id]}]

(* upsert_chunks_and_blocks: the document it replaces, if any, goes first;   *)
(* under the same id only its chunks and blocks do.                          *)
upsert_chunks_and_blocks(s, uri, id, policy, replaces) ==
    LET cleared == IF replaces = {} THEN Tables
                   ELSE IF replaces = {id} THEN delete_chunks_and_blocks_inner(Tables, s, id)
                   ELSE delete_document_inner(Tables, s, CHOOSE old \in replaces : TRUE)
    IN upsert_blocks_inner(upsert_chunks_inner(cleared, s, uri, id, policy), s, id)

(* A transaction commits.  One that fails or whose task is dropped rolls     *)
(* back and leaves no trace, so it is no step at all.  What was written      *)
(* behind another job's back stays marked for as long as its URI has a row.  *)
Commit(db, behind) ==
    /\ resources' = db.resources /\ chunks' = db.chunks /\ blocks' = db.blocks
    /\ raced' = {k \in raced \cup behind : \E r \in db.resources : <<r.store, r.uri>> = k}
    /\ touched' = IF reader = Idle THEN touched
                  ELSE [chunks |-> touched.chunks \cup db.chunks,
                        resources |-> touched.resources \cup (resources \ db.resources),
                        writes |-> touched.writes + 1]
    /\ touched.writes < MaxWrites
    /\ UNCHANGED reader

Underway(s, known, moved) == [pc |-> "running", store |-> s, known |-> known, moved |-> moved]

(* run_index_job: the rows of the store as one query finds them, one for     *)
(* each URI (DocumentIndex::from_records keeps the last).  "moved" is        *)
(* history: the URIs that other jobs have written since.                     *)
StartJob(j, s) ==
    LET rows == {r \in resources : r.store = s}
        uris == {r.uri : r \in rows}
    IN /\ jobs[j] = NoJob
       /\ \E last \in [uris -> rows] :
            /\ \A u \in uris : last[u].uri = u
            /\ jobs' = [jobs EXCEPT ![j] = Underway(s, {last[u] : u \in uris}, {})]
       /\ UNCHANGED <<tables, raced, reader, touched>>

EndJob(j) ==
    /\ jobs[j] # NoJob
    /\ jobs' = [jobs EXCEPT ![j] = NoJob]
    /\ UNCHANGED <<tables, raced, reader, touched>>

Known(j, uri) == {r \in jobs[j].known : r.uri = uri}

(* A job records what it wrote; other jobs of the store do not hear of it. *)
Recorded(j, row) ==
    Underway(row.store, (jobs[j].known \ Known(j, row.uri)) \cup {row}, jobs[j].moved \ {row.uri})
Overtaken(k, s, uri) ==
    IF jobs[k] # NoJob /\ jobs[k].store = s THEN Underway(s, jobs[k].known, jobs[k].moved \cup {uri})
    ELSE jobs[k]

(* index_resource: skipped when content and policy are what the job knows,   *)
(* otherwise it replaces the document the job knows under the URI.           *)
IndexDocument(j, s, uri, content, policy) ==
    LET id == resource_id(uri, content)
        row == [store |-> s, id |-> id, uri |-> uri, policy |-> policy]
        known == Known(j, uri)
    IN /\ jobs[j] # NoJob /\ jobs[j].store = s
       /\ row \notin known
       /\ Commit(upsert_chunks_and_blocks(s, uri, id, policy, {r.id : r \in known}),
                 IF uri \in jobs[j].moved THEN {<<s, uri>>} ELSE {})
       /\ jobs' = [k \in Writers |-> IF k = j THEN Recorded(j, row) ELSE Overtaken(k, s, uri)]

(* The delete sweep and the liveness sweep: a document the job knows and did *)
(* not see any more goes, by the identifier the job knows it by.             *)
PruneDocument(j, row) ==
    /\ jobs[j] # NoJob /\ row \in jobs[j].known
    /\ Commit(delete_document_inner(Tables, row.store, row.id), {})
    /\ jobs' = [jobs EXCEPT ![j] = Underway(@.store, @.known \ {row}, @.moved)]

(* delete_source: the documents of one source, which are some of its         *)
(* store's, go with its row by ON DELETE CASCADE.                            *)
RemoveSource(rows) ==
    LET gone(s, id) == \E r \in rows : r.store = s /\ r.id = id IN
    /\ rows # {} /\ \A r, q \in rows : r.store = q.store
    /\ Commit([resources |-> {r \in resources : ~gone(r.store, r.id)},
               chunks |-> {c \in chunks : ~gone(c.store, c.resource_id)},
               blocks |-> {b \in blocks : ~gone(b.store, b.resource_id)}], {})
    /\ UNCHANGED jobs

(* delete_by_store; deleting the store's row cascades to the same rows. *)
DeleteByStore(s) ==
    /\ \E r \in resources : r.store = s
    /\ Commit([resources |-> {r \in resources : r.store # s},
               chunks |-> {c \in chunks : c.store # s},
               blocks |-> {b \in blocks : b.store # s}], {})
    /\ UNCHANGED jobs

-----------------------------------------------------------------------------
(* Search *)

(* Which stores a surface fans out to.  HTTP filters the list of stores, the *)
(* CLI takes the named ones in the given order without repeats, MCP takes    *)
(* them as they are.                                                         *)
Targets(surface, names) ==
    LET firsts == Ascending({i \in DOMAIN names : \A j \in 1 .. i - 1 : names[j] # names[i]})
    IN CASE names = << >> -> Ascending(Stores)
         [] names # << >> /\ surface = "http" -> Ascending({s \in Stores : Contains(names, s)})
         [] names # << >> /\ surface = "cli" -> [k \in DOMAIN firsts |-> names[firsts[k]]]
         [] names # << >> /\ surface = "mcp" -> names

(* A query over no stores is answered without a leg. *)
FirstLeg(targets) == IF targets = << >> THEN "fuse" ELSE "dense"

NewSearch(surface, targets, limit, filtered) ==
    [pc |-> FirstLeg(targets), surface |-> surface, targets |-> targets, limit |-> limit,
     filtered |-> filtered, offset |-> 0, left |-> targets, fetch |-> StartFactor * LegK,
     dense |-> << >>, bm25 |-> << >>,
     seen |-> << >>]    \* the <<store, chunk>> pairs of every page so far

BeginReading(r) ==
    /\ reader = Idle
    /\ reader' = r
    /\ touched' = [chunks |-> chunks, resources |-> {}, writes |-> 0]
    /\ UNCHANGED <<tables, jobVars>>

(* The surfaces reject a limit of zero, except for HTTP (see the README). *)
Ask(surface, names, limit, filtered) ==
    BeginReading(NewSearch(surface, Targets(surface, names), limit, filtered))

Passes(c) == reader.filtered => c.uri \in Filtered
Hits(table, s) == {c \in table : c.store = s /\ Passes(c)}

(* ORDER BY ... LIMIT: a best subset, whichever way ties fall. *)
Best(S, n, score(_)) ==
    {T \in kSubset(Min({n, Cardinality(S)}), S) :
        \A c \in T, d \in S \ T : score(c.id) >= score(d.id)}

(* retain_own_chunks: a leg's results, less any that another store stamped. *)
retain_own_chunks(T, s, score(_)) ==
    SetToSeq({[store |-> c.store, id |-> c.id, score |-> score(c.id)] : c \in {d \in T : d.store = s}})

(* dense_search: the vector index knows nothing of stores or filters and is  *)
(* approximate, so vector_top_k may return any rows; the fetch doubles until *)
(* enough of them are the store's own.                                       *)
DenseSearch ==
    LET s == Head(reader.left)
        most == MaxFactor * LegK
    IN /\ reader.pc = "dense"
       /\ \E ann \in kSubset(Min({reader.fetch, Cardinality(chunks)}), chunks) :
            \E top \in Best(Hits(ann, s), LegK, Similarity) :
                reader' =
                    IF Cardinality(top) >= LegK
                    THEN [reader EXCEPT !.pc = "bm25", !.dense = @ \o retain_own_chunks(top, s, Similarity)]
                    ELSE IF reader.fetch >= most
                    THEN [reader EXCEPT !.pc = "exact"]
                    ELSE [reader EXCEPT !.fetch = Min({2 * @, most})]
       /\ UNCHANGED <<tables, jobVars, touched>>

(* Variant: a saturated index is taken at its word. *)
ExactScanSkipped ==
    /\ reader.pc = "exact"
    /\ reader' = [reader EXCEPT !.pc = "bm25"]
    /\ UNCHANGED <<tables, jobVars, touched>>

(* Variant: the fallback forgets the filters. *)
ExactScanUnfiltered ==
    LET s == Head(reader.left) IN
    /\ reader.pc = "exact"
    /\ \E top \in Best({c \in chunks : c.store = s}, LegK, Similarity) :
        reader' = [reader EXCEPT !.pc = "bm25", !.dense = @ \o retain_own_chunks(top, s, Similarity)]
    /\ UNCHANGED <<tables, jobVars, touched>>

(* The exact-scan fallback replaces what the index found. *)
ExactScan ==
    LET s == Head(reader.left) IN
    /\ reader.pc = "exact"
    /\ \E top \in Best(Hits(chunks, s), LegK, Similarity) :
        reader' = [reader EXCEPT !.pc = "bm25", !.dense = @ \o retain_own_chunks(top, s, Similarity)]
    /\ UNCHANGED <<tables, jobVars, touched>>

(* bm25_search, and on to the next store. *)
Bm25Search ==
    LET s == Head(reader.left)
        matched == {c \in Hits(chunks, s) : Relevance(c.id) > 0}
    IN /\ reader.pc = "bm25"
       /\ \E top \in Best(matched, LegK, Relevance) :
            reader' = [reader EXCEPT
                !.pc = IF Len(reader.left) = 1 THEN "fuse" ELSE "dense",
                !.left = Tail(@), !.fetch = StartFactor * LegK,
                !.bm25 = @ \o retain_own_chunks(top, s, Relevance)]
       /\ UNCHANGED <<tables, jobVars, touched>>

-----------------------------------------------------------------------------
(* Fusion *)

(* pool_leg_results: by score, then store, then chunk. *)
Ahead(a, b) ==
    \/ a.score > b.score
    \/ a.score = b.score /\ a.store < b.store
    \/ a.score = b.score /\ a.store = b.store /\ a.id < b.id

(* The position sort_by, which is stable, gives to entry i. *)
Rank(pool, i) ==
    Cardinality({j \in DOMAIN pool : Ahead(pool[j], pool[i])})
        + Cardinality({j \in 1 .. i - 1 : ~Ahead(pool[i], pool[j]) /\ ~Ahead(pool[j], pool[i])})

fusion_key(r) == <<r.store, r.id>>

(* 1 / (k + rank + 1), on a scale that keeps it a whole number. *)
Scale ==
    LET product[n \in Nat] == IF n = 0 THEN 1 ELSE product[n - 1] * (RrfK + n)
    IN product[2 * LegK * Cardinality(Stores)]
rrf_score(rank) == Scale \div (RrfK + rank + 1)

(* What one leg adds to the score of a key: something for each hit of it. *)
add_leg(pool, key) ==
    LET share(i) == IF fusion_key(pool[i]) = key THEN rrf_score(Rank(pool, i)) ELSE 0
        total[n \in 0 .. Len(pool)] == IF n = 0 THEN 0 ELSE total[n - 1] + share(n)
    IN total[Len(pool)]

(* rrf_fuse_global: one entry per key. *)
rrf_fuse_global(dense, bm25) ==
    LET hits == dense \o bm25
        keys == {fusion_key(hits[i]) : i \in DOMAIN hits}
    IN InOrder({[store |-> key[1], id |-> key[2], score |-> add_leg(dense, key) + add_leg(bm25, key)]
                   : key \in keys}, Ahead)

(* The cursor of the next page, -1 when this is the last. *)
NextCursor(end, total) == IF end < total THEN end ELSE -1

(* SearchOrchestrator::query's end and SearchService::query's page; the      *)
(* other surfaces show the first page only.                                  *)
Answer ==
    LET fused == rrf_fuse_global(reader.dense, reader.bm25)
        end == reader.offset + reader.limit
        page == SubSeq(fused, reader.offset + 1, Min({end, Len(fused)}))
        next == IF reader.surface = "http" THEN NextCursor(end, Len(fused)) ELSE -1
    IN /\ reader.pc = "fuse"
       /\ reader' = [reader EXCEPT !.pc = "answered", !.offset = next, !.dense = << >>, !.bm25 = << >>,
                                   !.seen = @ \o [i \in DOMAIN page |-> <<page[i].store, page[i].id>>]]
       /\ UNCHANGED <<tables, jobVars, touched>>

(* The client follows next_cursor: the whole query runs again. *)
NextPage ==
    /\ reader.pc = "answered" /\ reader.offset >= 0
    /\ reader' = [reader EXCEPT !.pc = FirstLeg(reader.targets), !.left = reader.targets]
    /\ UNCHANGED <<tables, jobVars, touched>>

-----------------------------------------------------------------------------
(* get_document_detail *)

(* find_document: a scope of several stores, or none, looks in all of them   *)
(* and refuses an id that is in more than one.                               *)
FindDocument(scope, id) ==
    LET rows == {r \in resources : r.id = id /\ (Cardinality(scope) = 1 => r.store \in scope)} IN
    /\ Cardinality(rows) = 1
    /\ \A r \in rows :
        /\ scope = {} \/ r.store \in scope
        /\ BeginReading([pc |-> "chunks", store |-> r.store, id |-> id, chunks |-> 0, text |-> "none"])

GetChunks ==
    /\ reader.pc = "chunks"
    /\ reader' = [reader EXCEPT !.pc = "blocks",
         !.chunks = Cardinality({c \in chunks : c.store = reader.store /\ c.resource_id = reader.id})]
    /\ UNCHANGED <<tables, jobVars, touched>>

(* reconstruct_document_text *)
GetBlocks ==
    /\ reader.pc = "blocks"
    /\ reader' = [reader EXCEPT !.pc = "shown",
         !.text = IF [store |-> reader.store, resource_id |-> reader.id] \in blocks THEN "blocks"
                  ELSE IF reader.chunks > 0 THEN "chunks" ELSE "empty"]
    /\ UNCHANGED <<tables, jobVars, touched>>

Done ==
    /\ reader.pc = "shown" \/ (reader.pc = "answered" /\ reader.offset < 0)
    /\ reader' = Idle
    /\ touched' = [chunks |-> {}, resources |-> {}, writes |-> 0]
    /\ UNCHANGED <<tables, jobVars>>

-----------------------------------------------------------------------------

JobStep(j) ==
    \/ \E s \in Stores : StartJob(j, s)
    \/ \E v \in Versions : IndexDocument(j, v[1], v[2], v[3], v[4])
    \/ jobs[j] # NoJob /\ \E row \in jobs[j].known : PruneDocument(j, row)
    \/ EndJob(j)

Removal ==
    \/ \E rows \in SUBSET resources : RemoveSource(rows)
    \/ \E s \in Stores : DeleteByStore(s)

Reading ==
    \/ \E q \in Queries : Ask(q[1], q[2], q[3], q[4])
    \/ DenseSearch \/ ExactScan \/ Bm25Search \/ Answer \/ NextPage
    \/ \E scope \in SUBSET Stores, r \in resources : FindDocument(scope, r.id)
    \/ GetChunks \/ GetBlocks \/ Done

RetrievalNext == (\E j \in Writers : JobStep(j)) \/ Removal \/ Reading

RetrievalSpec == RetrievalInit /\ [][RetrievalNext]_retrievalVars

-----------------------------------------------------------------------------
(* Properties *)

(* Whatever documents replaced one another, and under whatever policies,     *)
(* from however old an index: every document has its policy's chunks and its *)
(* blocks, no chunk or block belongs to nothing, and a URI of a store has    *)
(* one resource at most, with no chunk of another policy, unless a job wrote *)
(* it that had loaded its index before another job did.                      *)
IndexIsExact ==
    LET alone(x) == <<x.store, x.uri>> \notin raced
        cut(r) == {chunk_id(r.id, r.policy, n) : n \in 1 .. r.policy}
    IN  /\ \A r, q \in resources : r.store = q.store /\ r.uri = q.uri /\ alone(r) => r = q
        /\ \A r \in resources : \A id \in cut(r) : \E c \in chunks : c.store = r.store /\ c.id = id
        /\ \A c \in chunks : \E r \in resources :
              c.store = r.store /\ c.resource_id = r.id /\ (alone(c) => c.id \in cut(r))
        /\ {<<b.store, b.resource_id>> : b \in blocks} = {<<r.store, r.id>> : r \in resources}

(* A citation names a store that was searched, and a chunk that store held,  *)
(* and that passed the filters, at some moment since the search began.       *)
CitationsGrounded ==
    reader.pc = "answered" =>
        \A hit \in ToSet(reader.seen) :
            /\ Contains(reader.targets, hit[1])
            /\ \E c \in touched.chunks : <<c.store, c.id>> = hit /\ Passes(c)

(* Over unchanging tables, and when the matching chunks of every searched    *)
(* store fit one leg, a client that follows the cursors sees each of them    *)
(* exactly once, however many nearer chunks other stores have; surfaces      *)
(* without cursors show no hit twice, even of a store that is named twice.   *)
(* (Beyond a leg the approximate index decides what is found.)               *)
SearchFindsAll ==
    LET targets == ToSet(reader.targets)
        matching == {c \in chunks : c.store \in targets /\ Passes(c)}
    IN  /\ reader.pc = "answered" /\ reader.offset < 0 /\ touched.writes = 0
        /\ \A s \in targets : Cardinality(Hits(chunks, s)) <= LegK
        => /\ Cardinality(ToSet(reader.seen)) = Len(reader.seen)
           /\ reader.surface = "http" =>
                ToSet(reader.seen) = {<<c.store, c.id>> : c \in matching}

=============================================================================
