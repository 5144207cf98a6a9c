------------------------------ MODULE Catalog ------------------------------
(***************************************************************************)
(* The catalogue of stores and sources, and who reads and changes it: the   *)
(* daemon's handlers (server/src/state.rs), the same commands run against   *)
(* the database when no daemon answers (cli/src/cmds/store.rs, source.rs),  *)
(* and MCP sessions, which see the stores as they were when the daemon      *)
(* started (mcp/src/tools, proxy.rs).  Every SQL statement is atomic and    *)
(* commands interleave between statements; a command that fails without     *)
(* changing anything is no step.  Scheduler registrations, which follow the *)
(* same operations, are module Scheduler's.                                 *)
(*                                                                          *)
(* Identifiers and names are numbers, because nothing keeps a store's name  *)
(* from being some other store's id.                                        *)
(***************************************************************************)
EXTENDS Integers, Sequences, FiniteSets, SequencesExt, Sorting

CONSTANTS
    Clients,
    StoreIds,       \* the ULIDs new stores may draw, each drawn once
    SourceIds,      \* and new sources
    StoreNames,
    DefaultName,    \* "default"
    Visibilities,   \* "private" and "shared"
    Places,         \* roots and URLs of sources
    Scopes,         \* the --store lists commands and sessions are given
    PageSize        \* PaginationParams::limit

ASSUME CatalogAssumption ==
    /\ StoreIds \cup SourceIds \cup StoreNames \cup Places \subseteq Nat
    /\ StoreIds \cap SourceIds = {} /\ Places \cap SourceIds = {}
    /\ Scopes \subseteq Seq(StoreNames)
    /\ PageSize \in Nat \ {0}

VARIABLES
    storeRows,      \* the stores table: [id, name, visibility]
    sourceRows,     \* the sources table: [id, store_id, at]
    drawn,          \* the ULIDs drawn so far
    mcp,            \* the daemon: is it up, and its store list for MCP
    command,        \* what each client is doing
    session,        \* the MCP session
    accounts        \* history: what store commands reported

catalogVars == <<storeRows, sourceRows, drawn, mcp, command, session, accounts>>

NoDaemon == [up |-> FALSE, stores |-> {}]
Resting == [pc |-> "idle"]
NoSession == [kind |-> "none"]
Daemon == mcp.up
Via == IF Daemon THEN "daemon" ELSE "embedded"

Ids(rows) == {r.id : r \in rows}
StoresNow == Ids(storeRows)
Named(name) == {r \in storeRows : r.name = name}
Descriptors == {[id |-> r.id, name |-> r.name] : r \in storeRows}

CatalogInit ==
    /\ storeRows = {} /\ sourceRows = {} /\ drawn = {}
    /\ mcp = NoDaemon
    /\ command = [c \in Clients |-> Resting]
    /\ session = NoSession
    /\ accounts = [created |-> {}, removed |-> {}, revived |-> {}]

-----------------------------------------------------------------------------
(* The tables *)

(* A walk over the pages of the daemon's store list: where it is, what it    *)
(* has seen, which stores there were when it began, whether one was added or *)
(* removed since, and how the command goes on when it ends.                  *)
Paging(offset, seen, began, grew, shrank, next) ==
    [pc |-> "page", via |-> "daemon", offset |-> offset, seen |-> seen, began |-> began,
     grew |-> grew, shrank |-> shrank, next |-> next]

(* The table changes under the walks under way. *)
Disturbed(d, rows) ==
    LET x == command[d] IN
    IF x.pc = "page"
    THEN Paging(x.offset, x.seen, x.began, x.grew \/ ~(Ids(rows) \subseteq StoresNow),
                x.shrank \/ ~(StoresNow \subseteq Ids(rows)), x.next)
    ELSE x

(* Client c wrote the stores table and goes on as `next`. *)
StoresBecome(rows, c, next) ==
    /\ storeRows' = rows
    /\ command' = [d \in Clients |-> IF d = c THEN next ELSE Disturbed(d, rows)]

Continue(c, next) == command' = [command EXCEPT ![c] = next]

(* Variant: the conflict clause names the other unique column. *)
UpsertOnName(row) == {r \in storeRows : r.name # row.name} \cup {row}

(* INSERT ... ON CONFLICT(id) DO UPDATE *)
upsert_store(row) == {r \in storeRows : r.id # row.id} \cup {row}

(* name is UNIQUE: a second row with the name is refused. *)
NameIsFree(row) == \A r \in upsert_store(row) : r.name = row.name => r = row

(* Deleting a store's row takes its sources along. *)
delete_store(id, c) ==
    /\ StoresBecome({r \in storeRows : r.id # id}, c, Resting)
    /\ sourceRows' = {s \in sourceRows : s.store_id # id}
    /\ accounts' = [accounts EXCEPT !.removed = @ \cup {id}, !.revived = @ \ {id}]

-----------------------------------------------------------------------------
(* Stores *)

(* add_store, which HTTP and the embedded command share: look up the name... *)
StoreAdd(c, name, visibility) ==
    /\ command[c] = Resting /\ Named(name) = {}
    /\ visibility = "private" \/ Daemon
    /\ \E id \in StoreIds \ drawn :
        /\ drawn' = drawn \cup {id}
        /\ Continue(c, [pc |-> "insert_store", via |-> Via,
                        row |-> [id |-> id, name |-> name, visibility |-> visibility]])
    /\ UNCHANGED <<storeRows, sourceRows, mcp, session, accounts>>

(* ... and insert the row, unless someone else took the name meanwhile. *)
StoreInsert(c) ==
    LET row == command[c].row IN
    /\ command[c].pc = "insert_store"
    /\ IF NameIsFree(row)
       THEN /\ StoresBecome(upsert_store(row), c, Resting)
            /\ accounts' = [accounts EXCEPT !.created = @ \cup {row.id}]
       ELSE Continue(c, Resting) /\ UNCHANGED <<storeRows, accounts>>
    /\ UNCHANGED <<sourceRows, drawn, mcp, session>>

(* remove_store: the name is resolved first, the row deleted by id. *)
StoreRemove(c, name) ==
    /\ command[c] = Resting
    /\ \E r \in Named(name) : Continue(c, [pc |-> "delete_store", via |-> Via, id |-> r.id])
    /\ UNCHANGED <<storeRows, sourceRows, drawn, mcp, session, accounts>>

StoreDelete(c) ==
    LET id == command[c].id IN
    /\ command[c].pc = "delete_store"
    /\ IF id \in StoresNow THEN delete_store(id, c)
       ELSE Continue(c, Resting) /\ UNCHANGED <<storeRows, sourceRows, accounts>>
    /\ UNCHANGED <<drawn, mcp, session>>

(* update_store, PATCH only: the whole row is read, then upserted. *)
StorePatch(c, name, visibility) ==
    /\ command[c] = Resting /\ Daemon
    /\ \E r \in Named(name) :
        Continue(c, [pc |-> "upsert_store", via |-> "daemon", row |-> [r EXCEPT !.visibility = visibility]])
    /\ UNCHANGED <<storeRows, sourceRows, drawn, mcp, session, accounts>>

(* If the store was removed since, the upsert inserts it again, empty. *)
StoreUpsert(c) ==
    LET row == command[c].row IN
    /\ command[c].pc = "upsert_store"
    /\ IF NameIsFree(row)
       THEN /\ StoresBecome(upsert_store(row), c, Resting)
            /\ accounts' = [accounts EXCEPT !.revived = IF row.id \in StoresNow THEN @ ELSE @ \cup {row.id}]
       ELSE Continue(c, Resting) /\ UNCHANGED <<storeRows, accounts>>
    /\ UNCHANGED <<sourceRows, drawn, mcp, session>>

-----------------------------------------------------------------------------
(* store list, over HTTP in pages *)

(* PaginatedList::new, with the items already past the offset *)
Smaller(m, n) == IF m < n THEN m ELSE n
next_cursor(offset, total) == IF offset + PageSize < total THEN offset + PageSize ELSE -1

StoreList(c) ==
    /\ command[c] = Resting /\ Daemon
    /\ Continue(c, Paging(0, << >>, StoresNow, FALSE, FALSE, Resting))
    /\ UNCHANGED <<storeRows, sourceRows, drawn, mcp, session, accounts>>

(* Variant: the handler does not skip to the offset. *)
PageFromStart(all, offset) == SubSeq(all, 1, Smaller(PageSize, Len(all)))

PageOf(all, offset) == SubSeq(all, offset + 1, Smaller(offset + PageSize, Len(all)))

(* walk_daemon_pages, one request: list_stores orders by name. *)
StorePage(c) ==
    LET x == command[c]
        all == InOrder(storeRows, LAMBDA a, b : a.name < b.name)
        page == PageOf(all, x.offset)
        seen == x.seen \o [i \in DOMAIN page |-> [id |-> page[i].id, name |-> page[i].name]]
    IN /\ x.pc = "page" /\ x.offset >= 0
       /\ Continue(c, Paging(next_cursor(x.offset, Len(all)), seen, x.began, x.grew, x.shrank, x.next))
       /\ UNCHANGED <<storeRows, sourceRows, drawn, mcp, session, accounts>>

(* The names a command gives must be among those of the daemon's stores.     *)
Sought(cmd) == IF cmd = Resting THEN {} ELSE ToSet(cmd.names)

StoreListed(c) ==
    LET x == command[c] IN
    /\ x.pc = "page" /\ x.offset < 0
    /\ Continue(c, IF Sought(x.next) \subseteq {s.name : s \in ToSet(x.seen)} THEN x.next ELSE Resting)
    /\ UNCHANGED <<storeRows, sourceRows, drawn, mcp, session, accounts>>

-----------------------------------------------------------------------------
(* Sources.  A command's scope is the --store names, without repeats.        *)

ScopeNames(scope) ==
    LET Once(found, n) == IF Contains(found, n) THEN found ELSE Append(found, n)
    IN FoldLeft(Once, << >>, scope)

(* A source command: the names still to be looked up, the stores found, how  *)
(* many of them were asked for a match, what to do with them, the root, URL  *)
(* or id it is about, and its matches.                                       *)
SourceCommand(pc, via, names, ids, asked, then, at, matches) ==
    [pc |-> pc, via |-> via, names |-> names, ids |-> ids, asked |-> asked,
     then |-> then, at |-> at, matches |-> matches]

Onward(cmd, pc, names, ids, asked, matches) ==
    SourceCommand(pc, cmd.via, names, ids, asked, cmd.then, cmd.at, matches)

AllStores == InOrder(StoresNow, LAMBDA a, b : a < b)

(* source add: no --store means the default store.  With a daemon, its list  *)
(* of stores is walked before the first request.                             *)
SourceAdd(c, scope, at) ==
    LET names == IF scope = << >> THEN <<DefaultName>> ELSE ScopeNames(scope)
        cmd == SourceCommand("resolve", Via, names, << >>, 0, "insert", at, << >>)
    IN /\ command[c] = Resting
       /\ Continue(c, IF Daemon THEN Paging(0, << >>, StoresNow, FALSE, FALSE, cmd) ELSE cmd)
       /\ UNCHANGED <<storeRows, sourceRows, drawn, mcp, session, accounts>>

(* The next name is looked up.  Embedded, all names come before the first    *)
(* insert (resolve_named_stores); the daemon's add_source looks up its own.  *)
Resolve(c) ==
    LET cmd == command[c]
        found == Named(Head(cmd.names))
        ids == cmd.ids \o SetToSeq({r.id : r \in found})
        pc == IF cmd.via = "daemon" \/ Len(cmd.names) = 1 THEN cmd.then ELSE "resolve"
    IN /\ cmd.pc = "resolve"
       /\ Continue(c, IF found = {} THEN Resting
                      ELSE Onward(cmd, pc, Tail(cmd.names), ids, 0, << >>))
       /\ UNCHANGED <<storeRows, sourceRows, drawn, mcp, session, accounts>>

(* upsert_source of a new row: refused when the store is gone, or has a      *)
(* source with this root or URL.  An error ends the command, with what was   *)
(* added before it in place.                                                 *)
SourceInsert(c) ==
    LET cmd == command[c]
        store == Head(cmd.ids)
    IN /\ cmd.pc = "insert"
       /\ IF store \notin StoresNow \/ \E s \in sourceRows : s.store_id = store /\ s.at = cmd.at
          THEN Continue(c, Resting) /\ UNCHANGED <<sourceRows, drawn>>
          ELSE \E id \in SourceIds \ drawn :
                /\ sourceRows' = sourceRows \cup {[id |-> id, store_id |-> store, at |-> cmd.at]}
                /\ drawn' = drawn \cup {id}
                /\ Continue(c, IF Len(cmd.ids) > 1 THEN Onward(cmd, "insert", cmd.names, Tail(cmd.ids), 0, << >>)
                               ELSE IF cmd.names # << >> THEN Onward(cmd, "resolve", cmd.names, << >>, 0, << >>)
                               ELSE Resting)
       /\ UNCHANGED <<storeRows, mcp, session, accounts>>

(* source remove: a root or URL needs a --store.  The daemon deletes by id   *)
(* at once, whatever --store says (KNOWN LIMITATION, issue #188); the        *)
(* embedded command resolves its scope.                                      *)
SourceRemove(c, scope, target) ==
    LET cmd == IF scope = << >>
               THEN SourceCommand("match", "embedded", << >>, AllStores, 0, "match", target, << >>)
               ELSE SourceCommand("resolve", "embedded", ScopeNames(scope), << >>, 0, "match", target, << >>)
    IN /\ command[c] = Resting
       /\ scope = << >> => target \in SourceIds
       /\ IF Daemon
          THEN sourceRows' = {s \in sourceRows : s.id # target} /\ UNCHANGED command
          ELSE (scope = << >> => storeRows # {}) /\ Continue(c, cmd) /\ UNCHANGED sourceRows
       /\ UNCHANGED <<storeRows, drawn, mcp, session, accounts>>

(* Variant: an id is an id, whichever store has it. *)
MatchesById(stores, target) == SetToSeq({s.id : s \in {r \in sourceRows : r.id = target}})

MatchesIn(stores, target) ==
    SetToSeq({s.id : s \in {r \in sourceRows : r.store_id \in stores /\ target \in {r.id, r.at}}})

(* An id is looked up once and must belong to a store in scope; for a root   *)
(* or URL the stores in scope are asked one after the other.                 *)
SourceMatch(c) ==
    LET cmd == command[c]
        byId == cmd.at \in SourceIds
        stores == IF byId THEN ToSet(cmd.ids) ELSE {cmd.ids[cmd.asked + 1]}
        asked == IF byId THEN Len(cmd.ids) ELSE cmd.asked + 1
        matches == cmd.matches \o MatchesIn(stores, cmd.at)
    IN /\ cmd.pc = "match" /\ cmd.asked + 1 \in DOMAIN cmd.ids
       /\ Continue(c, IF asked < Len(cmd.ids) THEN Onward(cmd, "match", cmd.names, cmd.ids, asked, matches)
                      ELSE IF matches = << >> THEN Resting
                      ELSE Onward(cmd, "delete", cmd.names, cmd.ids, asked, matches))
       /\ UNCHANGED <<storeRows, sourceRows, drawn, mcp, session, accounts>>

(* One delete_source; a match that is gone ends the command with an error.   *)
SourceDelete(c) ==
    LET cmd == command[c]
        id == Head(cmd.matches)
    IN /\ cmd.pc = "delete"
       /\ sourceRows' = {s \in sourceRows : s.id # id}
       /\ Continue(c, IF (\A s \in sourceRows : s.id # id) \/ Len(cmd.matches) = 1 THEN Resting
                      ELSE Onward(cmd, "delete", cmd.names, cmd.ids, cmd.asked, Tail(cmd.matches)))
       /\ UNCHANGED <<storeRows, drawn, mcp, session, accounts>>

-----------------------------------------------------------------------------
(* The daemon and the MCP session *)

(* build_available_stores *)
DaemonStarts ==
    /\ ~Daemon
    /\ mcp' = [up |-> TRUE, stores |-> Descriptors]
    /\ UNCHANGED <<storeRows, sourceRows, drawn, command, session, accounts>>

(* The daemon dies, and its requests with it.  An MCP proxy lives on, with   *)
(* the stores and the scope it found when it connected.                      *)
DaemonDies ==
    /\ Daemon
    /\ mcp' = NoDaemon
    /\ command' = [c \in Clients |-> IF command[c].pc # "idle" /\ command[c].via = "daemon"
                                     THEN Resting ELSE command[c]]
    /\ UNCHANGED <<storeRows, sourceRows, drawn, session, accounts>>

(* ProxyHandler::connect with the daemon up, otherwise an embedded session   *)
(* over the stores in scope.                                                 *)
McpStart(scope) ==
    LET stores == IF Daemon THEN mcp.stores ELSE Descriptors
        chosen == {s \in stores : scope = << >> \/ s.name \in ToSet(scope)}
    IN /\ session = NoSession
       /\ \A n \in ToSet(scope) : \E s \in stores : s.name = n
       /\ session' = [kind |-> IF Daemon THEN "proxy" ELSE "embedded", scope |-> scope,
                      stores |-> IF Daemon THEN stores ELSE chosen,
                      allowed |-> {s.id : s \in chosen}, shown |-> {}]
       /\ UNCHANGED <<storeRows, sourceRows, drawn, mcp, command, accounts>>

(* select_mcp_stores, ProxyScope::resolve: an id first, then a name. *)
resolve(stores, value) ==
    LET byId == {s \in stores : s.id = value}
    IN IF byId # {} THEN byId ELSE {s \in stores : s.name = value}

(* Variant: membership is judged by the caller's spelling. *)
CanonicalizeSpelling(value) ==
    IF \E s \in session.stores : value \in {s.id, s.name} /\ s.id \in session.allowed THEN {value} ELSE {}

(* ProxyScope::canonicalize: an id in scope, or nothing. *)
canonicalize(value) == Ids(resolve(session.stores, value)) \cap session.allowed

Scoped == session.kind = "proxy" /\ session.scope # << >>

(* What the tool handlers are sent in place of a store argument. *)
Sent(value) == IF Scoped THEN canonicalize(value) ELSE {value}

(* The handlers behind the session: those of the daemon that is up now, or   *)
(* its own.  Without a daemon a proxy answers every call with an error.      *)
Behind == IF session.kind = "proxy" THEN mcp.stores ELSE session.stores

Show(stores) ==
    /\ session # NoSession /\ (session.kind = "proxy" => Daemon)
    /\ session' = [session EXCEPT !.shown = stores]
    /\ UNCHANGED <<storeRows, sourceRows, drawn, mcp, command, accounts>>

(* search, get_document, get_chunks, list_documents with a store argument.   *)
ToolWithStore(value) ==
    /\ session # NoSession
    /\ \E sent \in Sent(value) : \E s \in resolve(Behind, sent) : Show({s})

(* The same tools without one: the proxy fills in the scope, for search as a *)
(* whole and for the others store by store; list_documents insists on one.   *)
ToolWithoutStore ==
    /\ session # NoSession
    /\ Show(IF Scoped THEN UNION {resolve(Behind, id) : id \in session.allowed} ELSE Behind)

(* list_stores, filtered on its way back. *)
ToolListStores ==
    /\ session # NoSession
    /\ Show({s \in Behind : Scoped => s.id \in session.allowed})

McpEnd == session # NoSession /\ session' = NoSession
            /\ UNCHANGED <<storeRows, sourceRows, drawn, mcp, command, accounts>>

-----------------------------------------------------------------------------

(* An embedded command is killed between two statements. *)
Killed(c) ==
    /\ command[c].pc # "idle" /\ command[c].via = "embedded"
    /\ Continue(c, Resting)
    /\ UNCHANGED <<storeRows, sourceRows, drawn, mcp, session, accounts>>

StoreStep(c) ==
    \/ \E name \in StoreNames :
        \/ \E v \in Visibilities : StoreAdd(c, name, v) \/ StorePatch(c, name, v)
        \/ StoreRemove(c, name)
    \/ StoreInsert(c) \/ StoreDelete(c) \/ StoreUpsert(c)

SourceStep(c) ==
    \/ \E scope \in Scopes :
        \/ \E at \in Places : SourceAdd(c, scope, at)
        \/ \E target \in Places \cup SourceIds : SourceRemove(c, scope, target)
    \/ Resolve(c) \/ SourceInsert(c) \/ SourceMatch(c) \/ SourceDelete(c)

ClientStep(c) ==
    \/ StoreStep(c) \/ StoreList(c) \/ StorePage(c) \/ StoreListed(c)
    \/ SourceStep(c)
    \/ Killed(c)

McpStep ==
    \/ \E scope \in Scopes : McpStart(scope)
    \/ \E value \in StoreIds \cup StoreNames : ToolWithStore(value)
    \/ ToolWithoutStore \/ ToolListStores \/ McpEnd

CatalogNext ==
    \/ \E c \in Clients : ClientStep(c)
    \/ DaemonStarts \/ DaemonDies
    \/ McpStep

CatalogSpec == CatalogInit /\ [][CatalogNext]_catalogVars

-----------------------------------------------------------------------------
(* Properties *)

(* The stores table holds exactly the stores that adds reported and removes  *)
(* did not, through any interleaving of look-ups and writes; the one         *)
(* exception is a store that an update had read before it was removed.       *)
StoresAccountedFor ==
    /\ StoresNow = (accounts.created \ accounts.removed) \cup accounts.revived
    /\ \A r, q \in storeRows : r.name = q.name => r = q

(* What a session with a --store scope shows comes from the stores its names *)
(* denoted when it began, also when a store argument is one store's name and *)
(* another's id, and when the daemon behind it has changed since; the one    *)
(* exception is a store named like the id of a removed store of the scope.   *)
ScopeHolds ==
    session # NoSession /\ session.scope # << >> =>
        \A s \in session.shown :
            \/ /\ s.id \in session.allowed
               /\ \A t \in session.stores : t.id = s.id => t.name \in ToSet(session.scope)
            \/ s.name \in session.allowed \cap accounts.removed

(* When a walk over the store list has its last page, it has every store     *)
(* that was there throughout, unless one was removed under it, and none      *)
(* twice, unless one was added.                                              *)
ListingComplete ==
    \A c \in Clients :
        LET x == command[c] IN
        x.pc = "page" /\ x.offset < 0 =>
            /\ ~x.shrank => x.began \subseteq Ids(ToSet(x.seen))
            /\ ~x.grew => \A i, j \in DOMAIN x.seen : x.seen[i].id = x.seen[j].id => i = j

(* An embedded source remove deletes only from the stores of its scope,      *)
(* though the scope, the matches and the deletions are separate statements.  *)
RemovalsStayInScope ==
    [][\A c \in Clients : SourceDelete(c) =>
        \A s \in sourceRows \ sourceRows' : s.store_id \in ToSet(command[c].ids)]_catalogVars
=============================================================================
