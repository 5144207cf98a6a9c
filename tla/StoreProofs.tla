----------------------------- MODULE StoreProofs -----------------------------
(***************************************************************************)
(* Theorems about the stores of a database (module Catalog) and about what  *)
(* is indexed in them (module Retrieval).                                   *)
(*                                                                          *)
(* For any number of clients, stores and sources and every choice of names, *)
(* ids and scopes: the stores table agrees with what store commands         *)
(* reported, and an MCP session with a --store scope shows nothing outside  *)
(* it.  For any stores, documents and policies, any scores, and any answer  *)
(* of the approximate index: whatever writes came in whatever order, the    *)
(* three tables hold exactly what the documents indexed last are made of; a *)
(* search cites only what was there, and over unchanging tables finds all   *)
(* of it, once.                                                             *)
(***************************************************************************)
EXTENDS Catalog, Retrieval, Lemmas

-----------------------------------------------------------------------------
(* The stores *)

UniqueIds(stores) == \A s, t \in stores : s.id = t.id => s = t

IsRow(r) == r = [id |-> r.id, name |-> r.name, visibility |-> r.visibility]

SourcePcs == {"resolve", "insert", "match", "delete"}

IsSource(x) ==
    /\ x.pc \in SourcePcs /\ x.then \in {"insert", "match"}
    /\ x = SourceCommand(x.pc, x.via, x.names, x.ids, x.asked, x.then, x.at, x.matches)

(* What a client may be doing, as far as the tables are concerned. *)
IsCommand(x) ==
    \/ x = Resting
    \/ /\ x.pc \in {"insert_store", "upsert_store"} /\ IsRow(x.row)
       /\ x = [pc |-> x.pc, via |-> x.via, row |-> x.row]
    \/ x = [pc |-> "delete_store", via |-> x.via, id |-> x.id]
    \/ /\ x = Paging(x.offset, x.seen, x.began, x.grew, x.shrank, x.next)
       /\ x.next = Resting \/ (IsSource(x.next) /\ x.next.pc = "resolve")
    \/ IsSource(x)

Inserting == {c \in Clients : command[c].pc = "insert_store"}
Upserting == {c \in Clients : command[c].pc = "upsert_store"}

(* The ids that are about to be inserted were drawn for that and are not     *)
(* anyone else's; the row an update is about to write was created once.      *)
Pending ==
    /\ command = [c \in Clients |-> command[c]]
    /\ \A c \in Clients : IsCommand(command[c])
    /\ \A c \in Inserting : command[c].row.id \in drawn \ accounts.created
    /\ \A c, d \in Inserting : command[c].row.id = command[d].row.id => c = d
    /\ \A c \in Upserting : command[c].row.id \in accounts.created

Ledger ==
    /\ accounts = [created |-> accounts.created, removed |-> accounts.removed, revived |-> accounts.revived]
    /\ accounts.removed \subseteq accounts.created /\ accounts.revived \subseteq accounts.created
    /\ accounts.created \subseteq drawn

(* The inductive invariant of the tables. *)
TablesInvariant ==
    /\ StoresAccountedFor
    /\ UniqueIds(storeRows) /\ \A r \in storeRows : IsRow(r)
    /\ Ledger
    /\ Pending

(* What a scoped session may show. *)
Meant(s) == s.id \in session.allowed \/ s.name \in session.allowed \cap accounts.removed

InScope == {s.id : s \in {t \in session.stores : t.name \in ToSet(session.scope)}}

(* The inductive invariant of the MCP session: the allowed ids are those the *)
(* scope's names denoted, an embedded session holds no other store, and an   *)
(* allowed id that the daemon behind a proxy does not know was removed.      *)
SessionInvariant ==
    /\ mcp = [up |-> mcp.up, stores |-> mcp.stores] /\ UniqueIds(mcp.stores)
    /\ Ids(mcp.stores) \subseteq accounts.created
    /\ session # NoSession =>
        /\ session = [kind |-> session.kind, scope |-> session.scope, stores |-> session.stores,
                      allowed |-> session.allowed, shown |-> session.shown]
        /\ session.kind \in {"proxy", "embedded"}
        /\ UniqueIds(session.stores)
        /\ session.scope # << >> =>
            /\ session.allowed = InScope /\ session.allowed \subseteq accounts.created
            /\ session.kind = "embedded" => \A s \in session.stores : s.name \in ToSet(session.scope)
            /\ session.kind = "proxy" /\ mcp.up =>
                session.allowed \subseteq Ids(mcp.stores) \cup accounts.removed
            /\ \A s \in session.shown : Meant(s)

-----------------------------------------------------------------------------
(* The tables *)

(* A step of client c that leaves the stores table and the ledger alone and  *)
(* goes on with anything but a pending store write keeps the invariant.      *)
LEMMA Elsewhere ==
    ASSUME TablesInvariant, NEW c \in Clients, NEW next, Continue(c, next), IsCommand(next),
           next.pc \notin {"insert_store", "upsert_store"},
           drawn \subseteq drawn', UNCHANGED <<storeRows, accounts>>
    PROVE  TablesInvariant'
<1>1. command' = [d \in Clients |-> command'[d]] /\ \A d \in Clients :
        command'[d] = IF d = c THEN next ELSE command[d]
  BY DEF Continue, TablesInvariant, Pending
<1>2. Inserting' \subseteq Inserting /\ Upserting' \subseteq Upserting
  BY <1>1 DEF Inserting, Upserting
<1>3. \A d \in Inserting' \cup Upserting' : command'[d] = command[d]
  BY <1>1 DEF Inserting, Upserting
<1>4. Pending'
  <2>1. \A d \in Clients : IsCommand(command'[d])
    BY <1>1 DEF TablesInvariant, Pending
  <2> QED
    BY <1>1, <1>2, <1>3, <2>1 DEF TablesInvariant, Pending
<1>5. Ledger'
  BY DEF TablesInvariant, Ledger
<1>6. StoresAccountedFor'
  BY DEF TablesInvariant, StoresAccountedFor, StoresNow, Ids
<1> QED
  BY <1>4, <1>5, <1>6 DEF TablesInvariant

(* Resting is one of those. *)
LEMMA Rests ==
    /\ IsCommand(Resting)
    /\ Resting.pc \notin {"insert_store", "upsert_store"}
  BY DEF IsCommand, Resting

(* What a walk over the store list consists of. *)
LEMMA WalkShape ==
    ASSUME NEW x, IsCommand(x), x.pc = "page"
    PROVE  /\ x = Paging(x.offset, x.seen, x.began, x.grew, x.shrank, x.next)
           /\ x.next = Resting \/ (IsSource(x.next) /\ x.next.pc = "resolve")
BY DEF IsCommand, IsSource, SourcePcs, Resting

(* A walk is told what changed and goes on; nobody else notices. *)
LEMMA Telling ==
    ASSUME NEW d \in Clients, NEW rows, IsCommand(command[d])
    PROVE  /\ IsCommand(Disturbed(d, rows)) /\ Disturbed(d, rows).pc = command[d].pc
           /\ command[d].pc # "page" => Disturbed(d, rows) = command[d]
           /\ command[d].pc = "page" =>
                Disturbed(d, rows) =
                    Paging(command[d].offset, command[d].seen, command[d].began,
                           command[d].grew \/ ~(Ids(rows) \subseteq StoresNow),
                           command[d].shrank \/ ~(StoresNow \subseteq Ids(rows)), command[d].next)
<1> DEFINE x == command[d]
           y == Paging(x.offset, x.seen, x.began, x.grew \/ ~(Ids(rows) \subseteq StoresNow),
                       x.shrank \/ ~(StoresNow \subseteq Ids(rows)), x.next)
<1>1. CASE x.pc = "page"
  <2>1. Disturbed(d, rows) = y
    BY <1>1 DEF Disturbed
  <2>2. x.next = Resting \/ (IsSource(x.next) /\ x.next.pc = "resolve")
    BY <1>1, WalkShape
  <2>3. /\ y = Paging(y.offset, y.seen, y.began, y.grew, y.shrank, y.next)
        /\ y.next = x.next /\ y.pc = "page"
    BY DEF Paging
  <2> HIDE DEF y
  <2>4. IsCommand(y)
    BY <2>2, <2>3 DEF IsCommand
  <2> QED
    BY <1>1, <2>1, <2>3, <2>4 DEF y
<1>2. CASE x.pc # "page"
  BY <1>2 DEF Disturbed
<1> QED
  BY <1>1, <1>2

(* Once a client has written the stores table, the commands of the others    *)
(* are what they were, but for what a walk is told.                          *)
LEMMA OthersGoOn ==
    ASSUME TablesInvariant, NEW rows, NEW c \in Clients, StoresBecome(rows, c, Resting)
    PROVE  /\ command' = [d \in Clients |-> command'[d]]
           /\ \A d \in Clients : IsCommand(command'[d])
           /\ Inserting' = Inserting \ {c} /\ Upserting' = Upserting \ {c}
           /\ \A d \in Inserting' \cup Upserting' : command'[d] = command[d]
<1>1. command' = [d \in Clients |-> command'[d]] /\ \A d \in Clients :
        command'[d] = IF d = c THEN Resting ELSE Disturbed(d, rows)
  BY DEF StoresBecome
<1>2. \A d \in Clients :
        /\ IsCommand(Disturbed(d, rows)) /\ Disturbed(d, rows).pc = command[d].pc
        /\ command[d].pc # "page" => Disturbed(d, rows) = command[d]
  BY Telling DEF TablesInvariant, Pending
<1> QED
  BY <1>1, <1>2, Rests DEF Inserting, Upserting

LEMMA StoreAddKeeps ==
    ASSUME TablesInvariant, NEW c \in Clients, NEW name, NEW visibility, StoreAdd(c, name, visibility)
    PROVE  TablesInvariant'
<1>1. PICK id \in StoreIds \ drawn :
        /\ drawn' = drawn \cup {id}
        /\ Continue(c, [pc |-> "insert_store", via |-> Via,
                        row |-> [id |-> id, name |-> name, visibility |-> visibility]])
  BY DEF StoreAdd
<1> DEFINE next == [pc |-> "insert_store", via |-> Via,
                    row |-> [id |-> id, name |-> name, visibility |-> visibility]]
<1>2. IsCommand(next) /\ next.pc = "insert_store" /\ next.row.id = id
  BY DEF IsCommand, IsRow
<1> HIDE DEF next
<1>3. command' = [d \in Clients |-> command'[d]] /\ \A d \in Clients :
        command'[d] = IF d = c THEN next ELSE command[d]
  BY <1>1 DEF Continue, next, TablesInvariant, Pending
<1>4. Inserting' = Inserting \cup {c} /\ Upserting' \subseteq Upserting \ {c}
  BY <1>2, <1>3 DEF Inserting, Upserting
<1>5. UNCHANGED <<storeRows, accounts>>
  BY DEF StoreAdd
<1>6. Pending'
  <2>1. \A d \in Clients : IsCommand(command'[d])
    BY <1>2, <1>3 DEF TablesInvariant, Pending
  <2>2. c \notin Inserting
    BY DEF StoreAdd, Resting, Inserting
  <2>3. \A d \in Inserting : command'[d] = command[d] /\ command[d].row.id \in drawn \ accounts.created
    BY <1>3, <2>2 DEF TablesInvariant, Pending, Inserting
  <2>4. command'[c].row.id = id /\ id \in drawn' \ accounts.created
    BY <1>1, <1>2, <1>3 DEF TablesInvariant, Ledger
  <2>5. \A d \in Inserting' : command'[d].row.id \in drawn' \ accounts'.created
    BY <1>1, <1>4, <1>5, <2>3, <2>4
  <2>6. \A d, e \in Inserting' : command'[d].row.id = command'[e].row.id => d = e
    BY <1>4, <2>3, <2>4 DEF TablesInvariant, Pending
  <2>7. \A d \in Upserting' : command'[d].row.id \in accounts'.created
    <3>1. \A d \in Upserting' : d \in Upserting /\ command'[d] = command[d]
      BY <1>3, <1>4 DEF Upserting
    <3> QED
      BY <1>5, <3>1 DEF TablesInvariant, Pending
  <2> QED
    BY <1>3, <2>1, <2>5, <2>6, <2>7 DEF Pending
<1>7. Ledger'
  BY <1>1, <1>5 DEF TablesInvariant, Ledger
<1>8. StoresAccountedFor'
  BY <1>5 DEF TablesInvariant, StoresAccountedFor, StoresNow, Ids
<1> QED
  BY <1>5, <1>6, <1>7, <1>8 DEF TablesInvariant

(* Writing a row whose name is free keeps names and ids unique. *)
LEMMA UpsertKeepsUnique ==
    ASSUME TablesInvariant, NEW row, IsRow(row), NameIsFree(row)
    PROVE  /\ UniqueIds(upsert_store(row)) /\ \A r \in upsert_store(row) : IsRow(r)
           /\ \A r, q \in upsert_store(row) : r.name = q.name => r = q
           /\ {r.id : r \in upsert_store(row)} = StoresNow \cup {row.id}
<1>1. UniqueIds(storeRows) /\ \A r \in storeRows : IsRow(r)
  BY DEF TablesInvariant
<1>2. \A r, q \in storeRows : r.name = q.name => r = q
  BY DEF TablesInvariant, StoresAccountedFor
<1> QED
  BY <1>1, <1>2 DEF UniqueIds, upsert_store, NameIsFree, StoresNow, Ids

LEMMA StoreInsertKeeps ==
    ASSUME TablesInvariant, NEW c \in Clients, StoreInsert(c)
    PROVE  TablesInvariant'
<1> DEFINE row == command[c].row
<1>1. CASE ~NameIsFree(row)
  <2>1. Continue(c, Resting) /\ UNCHANGED <<storeRows, accounts, drawn>>
    BY <1>1 DEF StoreInsert
  <2> QED
    BY <2>1, Rests, Elsewhere
<1>2. CASE NameIsFree(row)
  <2>1. /\ StoresBecome(upsert_store(row), c, Resting) /\ drawn' = drawn
        /\ accounts' = [accounts EXCEPT !.created = accounts.created \cup {row.id}]
        /\ c \in Inserting
    BY <1>2 DEF StoreInsert, Inserting
  <2>2. IsRow(row) /\ row.id \in drawn \ accounts.created
    BY <2>1 DEF TablesInvariant, Pending, IsCommand, IsSource, SourcePcs, Paging, Inserting, Resting
  <2>3. /\ accounts'.created = accounts.created \cup {row.id}
        /\ accounts'.removed = accounts.removed /\ accounts'.revived = accounts.revived
        /\ accounts' = [created |-> accounts'.created, removed |-> accounts'.removed,
                        revived |-> accounts'.revived]
    BY <2>1 DEF TablesInvariant, Ledger
  <2>4. Ledger'
    BY <2>1, <2>2, <2>3 DEF TablesInvariant, Ledger
  <2>5. storeRows' = upsert_store(row)
    BY <2>1 DEF StoresBecome
  <2>6. /\ UniqueIds(storeRows') /\ \A r \in storeRows' : IsRow(r)
        /\ \A r, q \in storeRows' : r.name = q.name => r = q
        /\ StoresNow' = StoresNow \cup {row.id}
    BY <1>2, <2>2, <2>5, UpsertKeepsUnique DEF StoresNow, Ids
  <2>7. StoresAccountedFor'
    <3>1. row.id \notin accounts.removed /\ row.id \notin accounts.revived
      BY <2>2 DEF TablesInvariant, Ledger
    <3> QED
      BY <2>3, <2>6, <3>1 DEF TablesInvariant, StoresAccountedFor
  <2>8. Pending'
    <3>1. /\ command' = [d \in Clients |-> command'[d]]
          /\ \A d \in Clients : IsCommand(command'[d])
          /\ Inserting' = Inserting \ {c} /\ Upserting' = Upserting \ {c}
          /\ \A d \in Inserting' \cup Upserting' : command'[d] = command[d]
      BY <2>1, OthersGoOn
    <3>2. \A d \in Inserting' : command[d].row.id # row.id
      BY <2>1, <3>1 DEF TablesInvariant, Pending
    <3>3. \A d \in Inserting' : command'[d].row.id \in drawn' \ accounts'.created
      BY <2>1, <2>3, <3>1, <3>2 DEF TablesInvariant, Pending
    <3>4. \A d, e \in Inserting' : command'[d].row.id = command'[e].row.id => d = e
      BY <3>1 DEF TablesInvariant, Pending
    <3>5. \A d \in Upserting' : command'[d].row.id \in accounts'.created
      BY <2>3, <3>1 DEF TablesInvariant, Pending
    <3> QED
      BY <3>1, <3>3, <3>4, <3>5 DEF Pending
  <2> QED
    BY <2>4, <2>6, <2>7, <2>8 DEF TablesInvariant
<1> QED
  BY <1>1, <1>2

LEMMA StoreDeleteKeeps ==
    ASSUME TablesInvariant, NEW c \in Clients, StoreDelete(c)
    PROVE  TablesInvariant'
<1> DEFINE id == command[c].id
<1>1. CASE id \notin StoresNow
  <2>1. Continue(c, Resting) /\ UNCHANGED <<storeRows, accounts, drawn>>
    BY <1>1 DEF StoreDelete
  <2> QED
    BY <2>1, Rests, Elsewhere
<1>2. CASE id \in StoresNow
  <2>1. /\ StoresBecome({r \in storeRows : r.id # id}, c, Resting) /\ drawn' = drawn
        /\ accounts' = [accounts EXCEPT !.removed = accounts.removed \cup {id},
                                        !.revived = accounts.revived \ {id}]
    BY <1>2 DEF StoreDelete, delete_store
  <2>2. /\ accounts'.created = accounts.created
        /\ accounts'.removed = accounts.removed \cup {id} /\ accounts'.revived = accounts.revived \ {id}
        /\ accounts' = [created |-> accounts'.created, removed |-> accounts'.removed,
                        revived |-> accounts'.revived]
    BY <2>1 DEF TablesInvariant, Ledger
  <2>3. id \in accounts.created
    BY <1>2 DEF TablesInvariant, StoresAccountedFor, Ledger
  <2>4. Ledger'
    BY <2>1, <2>2, <2>3 DEF TablesInvariant, Ledger
  <2>5. storeRows' = {r \in storeRows : r.id # id}
    BY <2>1 DEF StoresBecome
  <2>6. StoresNow' = StoresNow \ {id}
    BY <2>5 DEF StoresNow, Ids
  <2>7. StoresAccountedFor'
    BY <2>2, <2>5, <2>6 DEF TablesInvariant, StoresAccountedFor
  <2>8. UniqueIds(storeRows') /\ \A r \in storeRows' : IsRow(r)
    BY <2>5 DEF TablesInvariant, UniqueIds
  <2>9. Pending'
    <3>1. /\ command' = [d \in Clients |-> command'[d]]
          /\ \A d \in Clients : IsCommand(command'[d])
          /\ Inserting' = Inserting \ {c} /\ Upserting' = Upserting \ {c}
          /\ \A d \in Inserting' \cup Upserting' : command'[d] = command[d]
      BY <2>1, OthersGoOn
    <3>2. /\ \A d \in Inserting : command[d].row.id \in drawn \ accounts.created
          /\ \A d, e \in Inserting : command[d].row.id = command[e].row.id => d = e
          /\ \A d \in Upserting : command[d].row.id \in accounts.created
      BY DEF TablesInvariant, Pending
    <3>3. accounts'.created = accounts.created /\ drawn' = drawn
      BY <2>1, <2>2
    <3>4. /\ \A d \in Inserting' : command'[d].row.id \in drawn' \ accounts'.created
          /\ \A d \in Upserting' : command'[d].row.id \in accounts'.created
      BY <3>1, <3>2, <3>3
    <3>5. \A d, e \in Inserting' : command'[d].row.id = command'[e].row.id => d = e
      BY <3>1, <3>2
    <3> QED
      BY <3>1, <3>4, <3>5 DEF Pending
  <2> QED
    BY <2>4, <2>7, <2>8, <2>9 DEF TablesInvariant
<1> QED
  BY <1>1, <1>2

(* update_store reads a row that was created, ... *)
LEMMA StorePatchKeeps ==
    ASSUME TablesInvariant, NEW c \in Clients, NEW name, NEW visibility, StorePatch(c, name, visibility)
    PROVE  TablesInvariant'
<1>1. PICK r \in storeRows :
        Continue(c, [pc |-> "upsert_store", via |-> "daemon", row |-> [r EXCEPT !.visibility = visibility]])
  BY DEF StorePatch, Named
<1> DEFINE row == [r EXCEPT !.visibility = visibility]
           next == [pc |-> "upsert_store", via |-> "daemon", row |-> row]
<1>2. IsRow(row) /\ row.id = r.id
  <2>1. r = [id |-> r.id, name |-> r.name, visibility |-> r.visibility]
    BY DEF TablesInvariant, IsRow
  <2>2. row = [id |-> r.id, name |-> r.name, visibility |-> visibility]
    BY <2>1
  <2> QED
    BY <2>2 DEF IsRow
<1> HIDE DEF row
<1>3. IsCommand(next) /\ next.pc = "upsert_store" /\ next.row = row
  BY <1>2 DEF IsCommand
<1> HIDE DEF next
<1>4. command' = [d \in Clients |-> command'[d]] /\ \A d \in Clients :
        command'[d] = IF d = c THEN next ELSE command[d]
  BY <1>1 DEF Continue, next, row, TablesInvariant, Pending
<1>5. Inserting' \subseteq Inserting \ {c} /\ Upserting' = Upserting \cup {c}
  BY <1>3, <1>4 DEF Inserting, Upserting
<1>6. UNCHANGED <<storeRows, accounts, drawn>>
  BY DEF StorePatch
<1>7. row.id \in accounts.created
  BY <1>2 DEF TablesInvariant, StoresAccountedFor, StoresNow, Ids, Ledger
<1>8. Pending'
  <2>1. \A d \in Clients : IsCommand(command'[d])
    BY <1>3, <1>4 DEF TablesInvariant, Pending
  <2>2. \A d \in Upserting' : command'[d].row.id \in accounts'.created
    <3>1. \A d \in Upserting \ {c} : command'[d] = command[d] /\ command[d].row.id \in accounts.created
      BY <1>4 DEF TablesInvariant, Pending, Upserting
    <3>2. command'[c].row.id \in accounts.created
      BY <1>3, <1>4, <1>7
    <3> QED
      BY <1>5, <1>6, <3>1, <3>2
  <2>3. \A d \in Inserting' : command'[d] = command[d]
    BY <1>4, <1>5 DEF Inserting
  <2> QED
    BY <1>4, <1>5, <1>6, <2>1, <2>2, <2>3 DEF TablesInvariant, Pending
<1>9. Ledger' /\ StoresAccountedFor'
  BY <1>6 DEF TablesInvariant, Ledger, StoresAccountedFor, StoresNow, Ids
<1> QED
  BY <1>6, <1>8, <1>9 DEF TablesInvariant

(* ... and writes it back, or brings it back. *)
LEMMA StoreUpsertKeeps ==
    ASSUME TablesInvariant, NEW c \in Clients, StoreUpsert(c)
    PROVE  TablesInvariant'
<1> DEFINE row == command[c].row
<1>1. CASE ~NameIsFree(row)
  <2>1. Continue(c, Resting) /\ UNCHANGED <<storeRows, accounts, drawn>>
    BY <1>1 DEF StoreUpsert
  <2> QED
    BY <2>1, Rests, Elsewhere
<1>2. CASE NameIsFree(row)
  <2> DEFINE revived == IF row.id \in StoresNow THEN accounts.revived ELSE accounts.revived \cup {row.id}
  <2>1. /\ StoresBecome(upsert_store(row), c, Resting) /\ drawn' = drawn
        /\ accounts' = [accounts EXCEPT !.revived = revived]
        /\ c \in Upserting
    BY <1>2 DEF StoreUpsert, Upserting
  <2>2. IsRow(row) /\ row.id \in accounts.created
    BY <2>1 DEF TablesInvariant, Pending, IsCommand, IsSource, SourcePcs, Paging, Upserting, Resting
  <2>3. /\ accounts'.created = accounts.created
        /\ accounts'.removed = accounts.removed /\ accounts'.revived = revived
        /\ accounts' = [created |-> accounts'.created, removed |-> accounts'.removed,
                        revived |-> accounts'.revived]
    BY <2>1 DEF TablesInvariant, Ledger
  <2>4. Ledger'
    BY <2>1, <2>2, <2>3 DEF TablesInvariant, Ledger
  <2>5. storeRows' = upsert_store(row)
    BY <2>1 DEF StoresBecome
  <2>6. /\ UniqueIds(storeRows') /\ \A r \in storeRows' : IsRow(r)
        /\ \A r, q \in storeRows' : r.name = q.name => r = q
        /\ StoresNow' = StoresNow \cup {row.id}
    BY <1>2, <2>2, <2>5, UpsertKeepsUnique DEF StoresNow, Ids
  <2>7. StoresAccountedFor'
    BY <2>3, <2>6 DEF TablesInvariant, StoresAccountedFor
  <2>8. Pending'
    <3>1. /\ command' = [d \in Clients |-> command'[d]]
          /\ \A d \in Clients : IsCommand(command'[d])
          /\ Inserting' = Inserting \ {c} /\ Upserting' = Upserting \ {c}
          /\ \A d \in Inserting' \cup Upserting' : command'[d] = command[d]
      BY <2>1, OthersGoOn
    <3>2. \A d \in Inserting' : command'[d].row.id \in drawn' \ accounts'.created
      BY <2>1, <2>3, <3>1 DEF TablesInvariant, Pending
    <3>3. \A d, e \in Inserting' : command'[d].row.id = command'[e].row.id => d = e
      BY <3>1 DEF TablesInvariant, Pending
    <3>4. \A d \in Upserting' : command'[d].row.id \in accounts'.created
      BY <2>3, <3>1 DEF TablesInvariant, Pending
    <3> QED
      BY <3>1, <3>2, <3>3, <3>4 DEF Pending
  <2> QED
    BY <2>4, <2>6, <2>7, <2>8 DEF TablesInvariant
<1> QED
  BY <1>1, <1>2

(* The steps of the source commands keep their command's shape. *)
LEMMA OnwardIsCommand ==
    ASSUME NEW x, IsCommand(x), x.pc \in SourcePcs,
           NEW pc \in SourcePcs, NEW names, NEW ids, NEW asked, NEW matches
    PROVE  /\ IsCommand(Onward(x, pc, names, ids, asked, matches))
           /\ Onward(x, pc, names, ids, asked, matches).pc \notin {"insert_store", "upsert_store"}
<1> DEFINE y == Onward(x, pc, names, ids, asked, matches)
<1>1. x.then \in {"insert", "match"}
  BY DEF IsCommand, IsSource, SourcePcs, Paging, Resting
<1>2. /\ y = SourceCommand(y.pc, y.via, y.names, y.ids, y.asked, y.then, y.at, y.matches)
      /\ y.pc = pc /\ y.then = x.then
  BY DEF Onward, SourceCommand
<1> HIDE DEF y
<1>3. IsSource(y)
  BY <1>1, <1>2 DEF IsSource
<1> QED
  BY <1>2, <1>3 DEF IsCommand, SourcePcs, y

LEMMA SourceCommandKeeps ==
    ASSUME TablesInvariant, NEW c \in Clients,
           Resolve(c) \/ SourceInsert(c) \/ SourceMatch(c) \/ SourceDelete(c)
    PROVE  TablesInvariant'
<1> DEFINE cmd == command[c]
<1>1. IsCommand(cmd) /\ cmd.pc \in SourcePcs
  BY DEF Resolve, SourceInsert, SourceMatch, SourceDelete, TablesInvariant, Pending, SourcePcs
<1>2. cmd.then \in {"insert", "match"}
  BY <1>1 DEF IsCommand, IsSource, SourcePcs, Paging, Resting
<1>3. \/ Continue(c, Resting)
      \/ \E pc \in SourcePcs : \E names, ids, asked, matches :
            Continue(c, Onward(cmd, pc, names, ids, asked, matches))
  <2>1. {"resolve", "insert", "match", "delete"} \subseteq SourcePcs /\ cmd.then \in SourcePcs
    BY <1>2 DEF SourcePcs
  <2>2. CASE Resolve(c)
    BY <2>1, <2>2 DEF Resolve
  <2>3. CASE SourceInsert(c)
    BY <2>1, <2>3 DEF SourceInsert
  <2>4. CASE SourceMatch(c)
    BY <2>1, <2>4 DEF SourceMatch
  <2>5. CASE SourceDelete(c)
    BY <2>1, <2>5 DEF SourceDelete
  <2> QED
    BY <2>2, <2>3, <2>4, <2>5
<1>4. drawn \subseteq drawn' /\ UNCHANGED <<storeRows, accounts>>
  BY DEF Resolve, SourceInsert, SourceMatch, SourceDelete
<1> QED
  BY <1>1, <1>3, <1>4, Rests, OnwardIsCommand, Elsewhere

(* A walk that begins or goes on is a command, whatever it leads to. *)
LEMMA PagingIsCommand ==
    ASSUME NEW next, next = Resting \/ (IsSource(next) /\ next.pc = "resolve"),
           NEW offset, NEW seen, NEW began, NEW grew, NEW shrank
    PROVE  /\ IsCommand(Paging(offset, seen, began, grew, shrank, next))
           /\ Paging(offset, seen, began, grew, shrank, next).pc = "page"
<1> DEFINE x == Paging(offset, seen, began, grew, shrank, next)
<1>1. /\ x = Paging(x.offset, x.seen, x.began, x.grew, x.shrank, x.next)
      /\ x.next = next /\ x.pc = "page"
  BY DEF Paging
<1> HIDE DEF x
<1>2. IsCommand(x)
  BY <1>1 DEF IsCommand
<1> QED
  BY <1>1, <1>2 DEF x

(* What a source command is when it begins. *)
LEMMA BeginsIsSource ==
    ASSUME NEW pc \in SourcePcs, NEW via, NEW names, NEW ids, NEW asked,
           NEW then \in {"insert", "match"}, NEW at, NEW matches
    PROVE  /\ IsSource(SourceCommand(pc, via, names, ids, asked, then, at, matches))
           /\ SourceCommand(pc, via, names, ids, asked, then, at, matches).pc = pc
<1> DEFINE x == SourceCommand(pc, via, names, ids, asked, then, at, matches)
<1>1. /\ x = SourceCommand(x.pc, x.via, x.names, x.ids, x.asked, x.then, x.at, x.matches)
      /\ x.pc = pc /\ x.then = then
  BY DEF SourceCommand
<1> HIDE DEF x
<1> QED
  BY <1>1 DEF IsSource, x

(* The steps that start or end a command, or page through a listing. *)
LEMMA OtherStepKeeps ==
    ASSUME TablesInvariant, NEW c \in Clients,
           \/ \E name : StoreRemove(c, name)
           \/ StoreList(c) \/ StorePage(c) \/ StoreListed(c) \/ Killed(c)
           \/ \E scope, at : SourceAdd(c, scope, at)
           \/ \E scope, target : SourceRemove(c, scope, target)
    PROVE  TablesInvariant'
<1>1. CASE UNCHANGED <<storeRows, accounts, drawn, command>>
  BY <1>1 DEF TablesInvariant, StoresAccountedFor, StoresNow, Ids, Ledger, Pending, Inserting, Upserting
<1>2. ASSUME NEW next, Continue(c, next), IsCommand(next),
             next.pc \notin {"insert_store", "upsert_store"}, UNCHANGED <<storeRows, accounts, drawn>>
      PROVE  TablesInvariant'
  BY <1>2, Elsewhere
<1>3. ASSUME NEW name, StoreRemove(c, name)
      PROVE  TablesInvariant'
  <2>1. PICK r \in Named(name) : Continue(c, [pc |-> "delete_store", via |-> Via, id |-> r.id])
    BY <1>3 DEF StoreRemove
  <2> DEFINE next == [pc |-> "delete_store", via |-> Via, id |-> r.id]
  <2>2. IsCommand(next) /\ next.pc \notin {"insert_store", "upsert_store"}
    BY DEF IsCommand
  <2> HIDE DEF next
  <2> QED
    BY <1>2, <1>3, <2>1, <2>2 DEF StoreRemove, next
<1>4. CASE StoreList(c)
  <2> DEFINE next == Paging(0, << >>, StoresNow, FALSE, FALSE, Resting)
  <2>1. IsCommand(next) /\ next.pc \notin {"insert_store", "upsert_store"}
    BY PagingIsCommand
  <2> HIDE DEF next
  <2> QED
    BY <1>2, <1>4, <2>1 DEF StoreList, next
<1>5. CASE StorePage(c)
  <2> DEFINE x == command[c]
  <2>1. PICK o, s : Continue(c, Paging(o, s, x.began, x.grew, x.shrank, x.next))
    BY <1>5 DEF StorePage
  <2> DEFINE next == Paging(o, s, x.began, x.grew, x.shrank, x.next)
  <2>2. x.next = Resting \/ (IsSource(x.next) /\ x.next.pc = "resolve")
    <3>1. IsCommand(x) /\ x.pc = "page"
      BY <1>5 DEF StorePage, TablesInvariant, Pending
    <3> QED
      BY <3>1, WalkShape
  <2>3. IsCommand(next) /\ next.pc \notin {"insert_store", "upsert_store"}
    BY <2>2, PagingIsCommand
  <2> HIDE DEF next
  <2> QED
    BY <1>2, <1>5, <2>1, <2>3 DEF StorePage, next
<1>6. CASE StoreListed(c)
  <2> DEFINE x == command[c]
  <2>1. x.next = Resting \/ (IsSource(x.next) /\ x.next.pc = "resolve")
    <3>1. IsCommand(x) /\ x.pc = "page"
      BY <1>6 DEF StoreListed, TablesInvariant, Pending
    <3> QED
      BY <3>1, WalkShape
  <2>2. IsCommand(x.next) /\ x.next.pc \notin {"insert_store", "upsert_store"}
    BY <2>1, Rests DEF IsCommand
  <2> QED
    BY <1>2, <1>6, <2>2, Rests DEF StoreListed
<1>7. CASE Killed(c)
  BY <1>2, <1>7, Rests DEF Killed
<1>8. ASSUME NEW scope, NEW at, SourceAdd(c, scope, at)
      PROVE  TablesInvariant'
  <2>1. PICK names :
          Continue(c, IF Daemon
                      THEN Paging(0, << >>, StoresNow, FALSE, FALSE,
                                  SourceCommand("resolve", Via, names, << >>, 0, "insert", at, << >>))
                      ELSE SourceCommand("resolve", Via, names, << >>, 0, "insert", at, << >>))
    BY <1>8 DEF SourceAdd
  <2> DEFINE cmd == SourceCommand("resolve", Via, names, << >>, 0, "insert", at, << >>)
             walk == Paging(0, << >>, StoresNow, FALSE, FALSE, cmd)
  <2>2. IsSource(cmd) /\ cmd.pc = "resolve"
    BY BeginsIsSource DEF SourcePcs
  <2> HIDE DEF cmd
  <2>3. IsCommand(cmd) /\ IsCommand(walk) /\ walk.pc = "page"
    BY <2>2, PagingIsCommand DEF IsCommand
  <2> HIDE DEF walk
  <2>4. Continue(c, cmd) \/ Continue(c, walk)
    BY <2>1 DEF cmd, walk
  <2> QED
    BY <1>2, <1>8, <2>2, <2>3, <2>4 DEF SourceAdd
<1>9. ASSUME NEW scope, NEW target, SourceRemove(c, scope, target)
      PROVE  TablesInvariant'
  <2>1. CASE Daemon
    BY <1>1, <1>9, <2>1 DEF SourceRemove
  <2>2. CASE ~Daemon
    <3>1. PICK pc, names, ids : pc \in SourcePcs /\
            Continue(c, SourceCommand(pc, "embedded", names, ids, 0, "match", target, << >>))
      BY <1>9, <2>2 DEF SourceRemove, SourcePcs
    <3> DEFINE next == SourceCommand(pc, "embedded", names, ids, 0, "match", target, << >>)
    <3>2. IsCommand(next) /\ next.pc \notin {"insert_store", "upsert_store"}
      BY <3>1, BeginsIsSource DEF IsCommand, SourcePcs
    <3>3. UNCHANGED <<storeRows, accounts, drawn>>
      BY <1>9 DEF SourceRemove
    <3> HIDE DEF next
    <3> QED
      BY <1>2, <3>1, <3>2, <3>3 DEF next
  <2> QED
    BY <2>1, <2>2
<1> QED
  BY <1>3, <1>4, <1>5, <1>6, <1>7, <1>8, <1>9

(* The daemon's requests die with it. *)
LEMMA DaemonDiesKeeps ==
    ASSUME TablesInvariant, DaemonDies
    PROVE  TablesInvariant'
<1>1. /\ command' = [c \in Clients |-> command'[c]] /\ UNCHANGED <<storeRows, accounts, drawn>>
      /\ \A c \in Clients : command'[c] \in {Resting, command[c]}
  BY DEF DaemonDies
<1>2. /\ \A c \in Clients : IsCommand(command'[c])
      /\ Inserting' \subseteq Inserting /\ Upserting' \subseteq Upserting
      /\ \A c \in Inserting' \cup Upserting' : command'[c] = command[c]
  BY <1>1, Rests DEF TablesInvariant, Pending, Inserting, Upserting
<1>3. Pending'
  BY <1>1, <1>2 DEF TablesInvariant, Pending
<1> QED
  BY <1>1, <1>3 DEF TablesInvariant, StoresAccountedFor, StoresNow, Ids, Ledger

(* The tables' invariant holds in every reachable state. *)
THEOREM TablesInvariantHolds == CatalogSpec => []TablesInvariant
<1>1. CatalogInit => TablesInvariant
  <2> SUFFICES ASSUME CatalogInit
               PROVE  TablesInvariant
    OBVIOUS
  <2>1. accounts = [created |-> {}, removed |-> {}, revived |-> {}] /\ drawn = {} /\ storeRows = {}
    BY DEF CatalogInit
  <2>2. Inserting = {} /\ Upserting = {} /\ \A c \in Clients : command[c] = Resting
    BY DEF CatalogInit, Inserting, Upserting, Resting
  <2>3. Pending
    BY <2>2, Rests DEF Pending, CatalogInit
  <2>4. Ledger /\ StoresAccountedFor
    BY <2>1 DEF Ledger, StoresAccountedFor, StoresNow, Ids
  <2> QED
    BY <2>1, <2>3, <2>4 DEF TablesInvariant, UniqueIds
<1>2. TablesInvariant /\ [CatalogNext]_catalogVars => TablesInvariant'
  <2> SUFFICES ASSUME TablesInvariant, [CatalogNext]_catalogVars
               PROVE  TablesInvariant'
    OBVIOUS
  <2>1. ASSUME NEW c \in Clients, ClientStep(c)
        PROVE  TablesInvariant'
    BY <2>1, StoreAddKeeps, StoreInsertKeeps, StoreDeleteKeeps, StorePatchKeeps, StoreUpsertKeeps,
       SourceCommandKeeps, OtherStepKeeps DEF ClientStep, StoreStep, SourceStep
  <2>2. CASE DaemonDies
    BY <2>2, DaemonDiesKeeps
  <2>3. CASE DaemonStarts \/ McpStep \/ UNCHANGED catalogVars
    <3>1. UNCHANGED <<storeRows, accounts, drawn, command>>
      BY <2>3 DEF DaemonStarts, McpStep, McpStart, ToolWithStore, ToolWithoutStore, ToolListStores,
                  McpEnd, Show, catalogVars
    <3> QED
      BY <3>1 DEF TablesInvariant, StoresAccountedFor, StoresNow, Ids, Ledger, Pending, Inserting, Upserting
  <2> QED
    BY <2>1, <2>2, <2>3 DEF CatalogNext
<1> QED
  BY <1>1, <1>2, PTL DEF CatalogSpec

(* The stores table holds exactly the stores that were reported created and  *)
(* not reported removed, but for one an update brought back, and no name     *)
(* twice, however add_store, update_store and remove_store interleave.       *)
THEOREM StoresAccounted == CatalogSpec => []StoresAccountedFor
<1>1. TablesInvariant => StoresAccountedFor
  BY DEF TablesInvariant
<1> QED
  BY <1>1, TablesInvariantHolds, PTL

-----------------------------------------------------------------------------
(* The MCP session *)

(* An id of some store denotes that store, whatever is named like it; a      *)
(* value that is no id denotes a store of the list.                          *)
LEMMA ResolveFinds ==
    ASSUME NEW stores, NEW value, NEW s \in resolve(stores, value)
    PROVE  s \in stores /\ (s.id = value \/ (s.name = value /\ value \notin Ids(stores)))
  BY DEF resolve, Ids

(* What a tool call shows stays in scope. *)
LEMMA ShowKeeps ==
    ASSUME SessionInvariant, NEW stores, Show(stores),
           session.scope # << >> => \A s \in stores : Meant(s)
    PROVE  SessionInvariant'
<1>1. /\ session # NoSession
      /\ session'.kind = session.kind /\ session'.scope = session.scope
      /\ session'.stores = session.stores /\ session'.allowed = session.allowed /\ session'.shown = stores
      /\ session' = [kind |-> session'.kind, scope |-> session'.scope, stores |-> session'.stores,
                     allowed |-> session'.allowed, shown |-> session'.shown]
  BY DEF Show, SessionInvariant
<1>2. mcp' = mcp /\ accounts' = accounts
  BY DEF Show
<1>3. InScope' = InScope /\ \A s : Meant(s)' <=> Meant(s)
  BY <1>1, <1>2 DEF InScope, Meant
<1>4. session.scope # << >> => \A s \in session'.shown : Meant(s)'
  BY <1>1, <1>3
<1>5. /\ UniqueIds(session'.stores) /\ session'.kind \in {"proxy", "embedded"}
      /\ UniqueIds(mcp'.stores) /\ Ids(mcp'.stores) \subseteq accounts'.created
      /\ mcp' = [up |-> mcp'.up, stores |-> mcp'.stores]
  BY <1>1, <1>2 DEF SessionInvariant
<1>6. session'.scope # << >> =>
        /\ session'.allowed = InScope' /\ session'.allowed \subseteq accounts'.created
        /\ session'.kind = "embedded" => \A s \in session'.stores : s.name \in ToSet(session'.scope)
        /\ session'.kind = "proxy" /\ mcp'.up =>
            session'.allowed \subseteq Ids(mcp'.stores) \cup accounts'.removed
  BY <1>1, <1>2, <1>3 DEF SessionInvariant
<1> QED
  BY <1>1, <1>4, <1>5, <1>6 DEF SessionInvariant

(* What the handlers behind a scoped session find for what they are sent.    *)
LEMMA FoundIsMeant ==
    ASSUME SessionInvariant, session # NoSession, session.scope # << >>,
           session.kind = "proxy" => mcp.up,
           NEW sent, session.kind = "proxy" => sent \in session.allowed,
           NEW s \in resolve(Behind, sent)
    PROVE  Meant(s)
<1>1. s \in Behind /\ (s.id = sent \/ (s.name = sent /\ sent \notin Ids(Behind)))
  BY ResolveFinds
<1>2. CASE session.kind = "proxy"
  <2>1. Behind = mcp.stores /\ session.allowed \subseteq Ids(mcp.stores) \cup accounts.removed
    BY <1>2 DEF Behind, SessionInvariant
  <2> QED
    BY <1>1, <1>2, <2>1 DEF Meant
<1>3. CASE session.kind = "embedded"
  <2>1. s \in session.stores /\ session.allowed = InScope /\ s.name \in ToSet(session.scope)
    BY <1>1, <1>3 DEF Behind, SessionInvariant
  <2> QED
    BY <2>1 DEF Meant, InScope
<1> QED
  BY <1>2, <1>3 DEF SessionInvariant

LEMMA ToolKeeps ==
    ASSUME SessionInvariant,
           (\E value : ToolWithStore(value)) \/ ToolWithoutStore \/ ToolListStores
    PROVE  SessionInvariant'
<1>1. session # NoSession
  BY DEF ToolWithStore, ToolWithoutStore, ToolListStores
<1>2. ASSUME NEW stores, Show(stores)
      PROVE  session.kind = "proxy" => mcp.up
  BY <1>2 DEF Show, Daemon
<1>3. session.scope # << >> => (Scoped <=> session.kind = "proxy")
  BY DEF Scoped
<1>4. session.scope # << >> /\ session.kind # "proxy" => \A s \in Behind : Meant(s)
  BY <1>1 DEF SessionInvariant, Behind, InScope, Meant
<1>5. ASSUME NEW value, ToolWithStore(value)
      PROVE  SessionInvariant'
  <2>1. PICK sent \in Sent(value) : \E s \in resolve(Behind, sent) : Show({s})
    BY <1>5 DEF ToolWithStore
  <2>2. PICK s \in resolve(Behind, sent) : Show({s})
    BY <2>1
  <2>3. ASSUME session.scope # << >>
        PROVE  Meant(s)
    <3>1. session.kind = "proxy" => sent \in session.allowed
      BY <1>3, <2>1, <2>3 DEF Sent, canonicalize
    <3> QED
      BY <1>1, <1>2, <2>2, <2>3, <3>1, FoundIsMeant
  <2> QED
    BY <2>2, <2>3, ShowKeeps
<1>6. CASE ToolWithoutStore
  <2> DEFINE stores == IF Scoped THEN UNION {resolve(Behind, id) : id \in session.allowed} ELSE Behind
  <2>1. Show(stores)
    BY <1>6 DEF ToolWithoutStore
  <2>2. ASSUME session.scope # << >>, NEW s \in stores
        PROVE  Meant(s)
    <3>1. CASE session.kind = "proxy"
      <4>1. PICK id \in session.allowed : s \in resolve(Behind, id)
        BY <1>3, <2>2, <3>1
      <4>2. mcp.up
        BY <1>2, <2>1, <3>1
      <4> QED
        BY <1>1, <2>2, <3>1, <4>1, <4>2, FoundIsMeant
    <3>2. CASE session.kind # "proxy"
      BY <1>3, <1>4, <2>2, <3>2
    <3> QED
      BY <3>1, <3>2
  <2> HIDE DEF stores
  <2> QED
    BY <2>1, <2>2, ShowKeeps
<1>7. CASE ToolListStores
  <2> DEFINE stores == {s \in Behind : Scoped => s.id \in session.allowed}
  <2>1. Show(stores)
    BY <1>7 DEF ToolListStores
  <2>2. session.scope # << >> => \A s \in stores : Meant(s)
    BY <1>3, <1>4 DEF Meant
  <2> HIDE DEF stores
  <2> QED
    BY <2>1, <2>2, ShowKeeps
<1> QED
  BY <1>5, <1>6, <1>7

(* The stores there are were created, and one that is not there any more but *)
(* was, was removed.                                                         *)
LEMMA GoneWasRemoved ==
    ASSUME TablesInvariant
    PROVE  /\ UniqueIds(Descriptors) /\ Ids(Descriptors) = StoresNow
           /\ StoresNow \subseteq accounts.created
           /\ accounts.created \subseteq StoresNow \cup accounts.removed
<1>1. UniqueIds(Descriptors)
  BY DEF TablesInvariant, UniqueIds, Descriptors
<1>2. Ids(Descriptors) = StoresNow
  <2>1. ASSUME NEW r \in storeRows
        PROVE  r.id \in Ids(Descriptors)
    <3> DEFINE d == [id |-> r.id, name |-> r.name]
    <3>1. d \in Descriptors
      BY DEF Descriptors
    <3>2. d.id = r.id
      OBVIOUS
    <3> HIDE DEF d
    <3> QED
      BY <3>1, <3>2 DEF Ids
  <2>2. ASSUME NEW i \in Ids(Descriptors)
        PROVE  i \in StoresNow
    <3>1. PICK d \in Descriptors : d.id = i
      BY DEF Ids
    <3>2. PICK r \in storeRows : d = [id |-> r.id, name |-> r.name]
      BY DEF Descriptors
    <3> QED
      BY <3>1, <3>2 DEF StoresNow, Ids
  <2> QED
    BY <2>1, <2>2 DEF StoresNow, Ids
<1> QED
  BY <1>1, <1>2 DEF TablesInvariant, StoresAccountedFor, Ledger

(* A new session's scope is resolved against unique ids. *)
LEMMA McpStartKeeps ==
    ASSUME TablesInvariant, SessionInvariant, NEW scope, McpStart(scope)
    PROVE  SessionInvariant'
<1> DEFINE stores == IF Daemon THEN mcp.stores ELSE Descriptors
           chosen == {s \in stores : scope = << >> \/ s.name \in ToSet(scope)}
<1>1. /\ session' = [kind |-> IF Daemon THEN "proxy" ELSE "embedded", scope |-> scope,
                     stores |-> IF Daemon THEN stores ELSE chosen,
                     allowed |-> {s.id : s \in chosen}, shown |-> {}]
      /\ mcp' = mcp /\ accounts' = accounts
  BY DEF McpStart
<1>2. UniqueIds(stores) /\ Ids(stores) \subseteq accounts.created
  BY GoneWasRemoved DEF SessionInvariant
<1>3. UniqueIds(chosen) /\ {s.id : s \in chosen} \subseteq Ids(stores)
  BY <1>2 DEF UniqueIds, Ids
<1>4. /\ session'.kind = (IF Daemon THEN "proxy" ELSE "embedded") /\ session'.scope = scope
      /\ session'.stores = (IF Daemon THEN stores ELSE chosen)
      /\ session'.allowed = {s.id : s \in chosen} /\ session'.shown = {}
      /\ session' = [kind |-> session'.kind, scope |-> session'.scope, stores |-> session'.stores,
                     allowed |-> session'.allowed, shown |-> session'.shown]
  BY <1>1
<1>5. scope # << >> => session'.allowed = InScope'
  BY <1>4 DEF InScope
<1>6. session'.kind = "proxy" => session'.allowed \subseteq Ids(mcp'.stores)
  BY <1>1, <1>3, <1>4
<1>7. /\ UniqueIds(mcp'.stores) /\ Ids(mcp'.stores) \subseteq accounts'.created
      /\ mcp' = [up |-> mcp'.up, stores |-> mcp'.stores]
  BY <1>1 DEF SessionInvariant
<1>8. session'.allowed \subseteq accounts'.created
  BY <1>1, <1>2, <1>3, <1>4
<1>9. scope # << >> /\ session'.kind = "embedded" =>
        \A s \in session'.stores : s.name \in ToSet(session'.scope)
  BY <1>4
<1>10. UniqueIds(session'.stores) /\ session'.kind \in {"proxy", "embedded"}
  BY <1>2, <1>3, <1>4
<1> HIDE DEF stores, chosen
<1> QED
  BY <1>4, <1>5, <1>6, <1>7, <1>8, <1>9, <1>10 DEF SessionInvariant

(* What store commands report only grows, and no client touches a session.   *)
LEMMA ReportsGrow ==
    ASSUME TablesInvariant, NEW c \in Clients, ClientStep(c)
    PROVE  /\ UNCHANGED <<mcp, session>>
           /\ accounts.created \subseteq accounts'.created /\ accounts.removed \subseteq accounts'.removed
<1>1. CASE StoreInsert(c) \/ StoreDelete(c) \/ StoreUpsert(c)
  <2>1. UNCHANGED <<mcp, session>>
    BY <1>1 DEF StoreInsert, StoreDelete, StoreUpsert
  <2>2. \E new, gone, back :
            \/ accounts' = [accounts EXCEPT !.created = accounts.created \cup new]
            \/ accounts' = [accounts EXCEPT !.removed = accounts.removed \cup gone, !.revived = back]
            \/ accounts' = [accounts EXCEPT !.revived = back]
            \/ UNCHANGED accounts
    BY <1>1 DEF StoreInsert, StoreDelete, StoreUpsert, delete_store
  <2> QED
    BY <2>1, <2>2 DEF TablesInvariant, Ledger
<1>2. CASE ~(StoreInsert(c) \/ StoreDelete(c) \/ StoreUpsert(c))
  <2>1. UNCHANGED <<mcp, session, accounts>>
    BY <1>2 DEF ClientStep, StoreStep, SourceStep, StoreAdd, StorePatch, StoreRemove, StoreList, StorePage,
                StoreListed, SourceAdd, SourceRemove, Resolve, SourceInsert, SourceMatch, SourceDelete, Killed
  <2> QED
    BY <2>1
<1> QED
  BY <1>1, <1>2

LEMMA SessionStays ==
    ASSUME SessionInvariant, UNCHANGED <<mcp, session>>,
           accounts.created \subseteq accounts'.created, accounts.removed \subseteq accounts'.removed
    PROVE  SessionInvariant'
<1>1. InScope' = InScope /\ \A s : Meant(s) => Meant(s)'
  BY DEF InScope, Meant
<1> QED
  BY <1>1 DEF SessionInvariant

(* The session's invariant holds in every reachable state. *)
THEOREM SessionInvariantHolds == CatalogSpec => []SessionInvariant
<1>1. CatalogInit => SessionInvariant
  BY DEF CatalogInit, SessionInvariant, NoDaemon, UniqueIds, Ids
<1>2. TablesInvariant /\ SessionInvariant /\ [CatalogNext]_catalogVars => SessionInvariant'
  <2> SUFFICES ASSUME TablesInvariant, SessionInvariant, [CatalogNext]_catalogVars
               PROVE  SessionInvariant'
    OBVIOUS
  <2>1. ASSUME NEW c \in Clients, ClientStep(c)
        PROVE  SessionInvariant'
    BY <2>1, ReportsGrow, SessionStays
  <2>2. CASE DaemonStarts
    <3>1. UNCHANGED <<session, accounts>> /\ mcp' = [up |-> TRUE, stores |-> Descriptors]
      BY <2>2 DEF DaemonStarts
    <3>2. /\ UniqueIds(mcp'.stores) /\ Ids(mcp'.stores) \subseteq accounts'.created
          /\ accounts'.created \subseteq Ids(mcp'.stores) \cup accounts'.removed
          /\ mcp' = [up |-> mcp'.up, stores |-> mcp'.stores]
      BY <3>1, GoneWasRemoved
    <3>3. InScope' = InScope /\ \A s : Meant(s)' <=> Meant(s)
      BY <3>1 DEF InScope, Meant
    <3> QED
      BY <3>1, <3>2, <3>3 DEF SessionInvariant
  <2>3. CASE DaemonDies
    <3>1. UNCHANGED <<session, accounts>> /\ mcp' = NoDaemon
      BY <2>3 DEF DaemonDies
    <3>2. /\ UniqueIds(mcp'.stores) /\ Ids(mcp'.stores) \subseteq accounts'.created /\ ~mcp'.up
          /\ mcp' = [up |-> mcp'.up, stores |-> mcp'.stores]
      BY <3>1 DEF NoDaemon, UniqueIds, Ids
    <3>3. InScope' = InScope /\ \A s : Meant(s)' <=> Meant(s)
      BY <3>1 DEF InScope, Meant
    <3> QED
      BY <3>1, <3>2, <3>3 DEF SessionInvariant
  <2>4. ASSUME NEW scope, McpStart(scope)
        PROVE  SessionInvariant'
    BY <2>4, McpStartKeeps
  <2>5. CASE (\E value : ToolWithStore(value)) \/ ToolWithoutStore \/ ToolListStores
    BY <2>5, ToolKeeps
  <2>6. CASE McpEnd
    BY <2>6 DEF McpEnd, SessionInvariant
  <2>7. CASE UNCHANGED catalogVars
    BY <2>7, SessionStays DEF catalogVars
  <2> QED
    BY <2>1, <2>2, <2>3, <2>4, <2>5, <2>6, <2>7 DEF CatalogNext, McpStep
<1> QED
  BY <1>1, <1>2, TablesInvariantHolds, PTL DEF CatalogSpec

(* A session that was given --store names shows only the stores they denoted *)
(* when it began, through the proxy (ProxyScope) and embedded, also when a   *)
(* store argument is the name of one store and the id of another, and when   *)
(* the daemon was restarted since; but for a store that was named like the   *)
(* id of a removed store of the scope.                                       *)
THEOREM ScopeRespected == CatalogSpec => []ScopeHolds
<1>1. SessionInvariant => ScopeHolds
  <2> SUFFICES ASSUME SessionInvariant, session # NoSession, session.scope # << >>,
                      NEW s \in session.shown, s.name \notin session.allowed \cap accounts.removed
               PROVE  /\ s.id \in session.allowed
                      /\ \A t \in session.stores : t.id = s.id => t.name \in ToSet(session.scope)
    BY DEF ScopeHolds
  <2>1. s.id \in session.allowed /\ session.allowed = InScope
    BY DEF SessionInvariant, Meant
  <2>2. ASSUME NEW t \in session.stores, t.id = s.id
        PROVE  t.name \in ToSet(session.scope)
    <3>1. PICK u \in session.stores : u.id = s.id /\ u.name \in ToSet(session.scope)
      BY <2>1 DEF InScope
    <3>2. t = u
      BY <2>2, <3>1 DEF SessionInvariant, UniqueIds
    <3> QED
      BY <3>1, <3>2
  <2> QED
    BY <2>1, <2>2
<1> QED
  BY <1>1, SessionInvariantHolds, PTL

-----------------------------------------------------------------------------
(* Source removal *)

(* What an embedded source remove has matched belongs to its scope, and no   *)
(* later source takes a matched id: ids are drawn once.                      *)
SourceIdsDrawn ==
    /\ IsFiniteSet(sourceRows) /\ UniqueIds(sourceRows)
    /\ \A s \in sourceRows : s.id \in drawn

MatchesInScope(x) ==
    x.pc \in {"match", "delete"} =>
        /\ x.matches \in Seq(drawn) /\ (x.pc = "delete" => x.matches # << >>)
        /\ \A s \in sourceRows : s.id \in ToSet(x.matches) => s.store_id \in ToSet(x.ids)

ScopeInvariant == SourceIdsDrawn /\ \A c \in Clients : MatchesInScope(command[c])

(* A step that only takes sources away, and leaves every client where it was *)
(* or without matches, keeps the matches in scope.                           *)
LEMMA FewerSources ==
    ASSUME ScopeInvariant, sourceRows' \subseteq sourceRows, drawn \subseteq drawn',
           \A c \in Clients : command'[c].pc \in {"match", "delete"} =>
                \/ command'[c] = command[c]
                \/ command'[c].pc = "match" /\ command'[c].matches = << >>
    PROVE  ScopeInvariant'
<1>1. IsFiniteSet(sourceRows')
  BY FS_Subset DEF ScopeInvariant, SourceIdsDrawn
<1>2. SourceIdsDrawn'
  BY <1>1 DEF ScopeInvariant, SourceIdsDrawn, UniqueIds
<1>3. ASSUME NEW c \in Clients, command'[c].pc \in {"match", "delete"}
      PROVE  MatchesInScope(command[c])'
  <2>1. CASE command'[c] = command[c]
    <3>1. MatchesInScope(command[c]) /\ command[c].pc \in {"match", "delete"}
      BY <1>3, <2>1 DEF ScopeInvariant
    <3>2. command[c].matches \in Seq(drawn')
      BY <3>1 DEF MatchesInScope
    <3> QED
      BY <2>1, <3>1, <3>2 DEF MatchesInScope
  <2>2. CASE command'[c].pc = "match" /\ command'[c].matches = << >>
    <3>1. << >> \in Seq(drawn') /\ ToSet(<< >>) = {}
      BY DEF ToSet
    <3> QED
      BY <2>2, <3>1 DEF MatchesInScope
  <2> QED
    BY <1>3, <2>1, <2>2
<1>4. \A c \in Clients : MatchesInScope(command[c])'
  BY <1>3 DEF MatchesInScope
<1> QED
  BY <1>2, <1>4 DEF ScopeInvariant

(* Client c goes on as next, and the others as they were. *)
LEMMA GoesOn ==
    ASSUME TablesInvariant, NEW c \in Clients, NEW next, Continue(c, next)
    PROVE  command'[c] = next /\ \A d \in Clients \ {c} : command'[d] = command[d]
  BY DEF Continue, TablesInvariant, Pending

LEMMA SourceInsertInScope ==
    ASSUME TablesInvariant, ScopeInvariant, NEW c \in Clients, SourceInsert(c)
    PROVE  ScopeInvariant'
<1> DEFINE cmd == command[c]
<1>1. PICK next : Continue(c, next) /\ (next = Resting \/ next.pc \in {"insert", "resolve"})
  BY DEF SourceInsert, Onward, SourceCommand
<1>2. next.pc \notin {"match", "delete"}
  BY <1>1 DEF Resting
<1>3. \A d \in Clients : command'[d].pc \in {"match", "delete"} => command'[d] = command[d]
  BY <1>1, <1>2, GoesOn
<1>4. CASE UNCHANGED <<sourceRows, drawn>>
  BY <1>3, <1>4, FewerSources
<1>5. CASE ~UNCHANGED <<sourceRows, drawn>>
  <2>1. PICK id \in SourceIds \ drawn :
          /\ sourceRows' = sourceRows \cup {[id |-> id, store_id |-> Head(cmd.ids), at |-> cmd.at]}
          /\ drawn' = drawn \cup {id}
    BY <1>5 DEF SourceInsert
  <2> DEFINE new == [id |-> id, store_id |-> Head(cmd.ids), at |-> cmd.at]
  <2>2. new.id = id
    OBVIOUS
  <2> HIDE DEF new
  <2>3. sourceRows' = sourceRows \cup {new}
    BY <2>1 DEF new
  <2>4. IsFiniteSet(sourceRows')
    BY <2>3, FS_AddElement DEF ScopeInvariant, SourceIdsDrawn
  <2>5. SourceIdsDrawn'
    BY <2>1, <2>2, <2>3, <2>4 DEF ScopeInvariant, SourceIdsDrawn, UniqueIds
  <2>6. ASSUME NEW d \in Clients, command'[d].pc \in {"match", "delete"}
        PROVE  MatchesInScope(command[d])'
    <3>1. command'[d] = command[d] /\ command[d].pc \in {"match", "delete"}
      BY <1>3, <2>6
    <3>2. command[d].matches \in Seq(drawn)
      BY <3>1 DEF ScopeInvariant, MatchesInScope
    <3>3. id \notin ToSet(command[d].matches)
      BY <2>1, <3>2, Members
    <3>4. command[d].matches \in Seq(drawn')
      BY <2>1, <3>2
    <3> QED
      BY <2>2, <2>3, <3>1, <3>2, <3>3, <3>4 DEF ScopeInvariant, MatchesInScope
  <2>7. \A d \in Clients : MatchesInScope(command[d])'
    BY <2>6 DEF MatchesInScope
  <2> QED
    BY <2>5, <2>7 DEF ScopeInvariant
<1> QED
  BY <1>4, <1>5

(* What the stores that are asked have to offer. *)
LEMMA MatchesBelong ==
    ASSUME ScopeInvariant, NEW stores, NEW target
    PROVE  /\ MatchesIn(stores, target) \in Seq(drawn)
           /\ \A s \in sourceRows : s.id \in ToSet(MatchesIn(stores, target)) => s.store_id \in stores
<1> DEFINE rows == {r \in sourceRows : r.store_id \in stores /\ target \in {r.id, r.at}}
           matches == MatchesIn(stores, target)
<1>1. matches = SetToSeq({s.id : s \in rows})
  BY DEF MatchesIn
<1>2. IsFiniteSet(rows)
  BY FS_Subset DEF ScopeInvariant, SourceIdsDrawn
<1>3. IsFiniteSet({s.id : s \in rows})
  <2> DEFINE f == [s \in rows |-> s.id]
  <2>1. f \in Surjection(rows, {s.id : s \in rows})
    BY DEF Surjection
  <2> QED
    BY <1>2, <2>1, FS_Surjection
<1>4. matches \in Seq({s.id : s \in rows})
  BY <1>1, <1>3, SetToSeqMembers
<1>5. \A i \in ToSet(matches) : \E r \in rows : r.id = i
  <2>1. ToSet(matches) \subseteq {s.id : s \in rows}
    BY <1>4, Members
  <2> QED
    BY <2>1
<1>6. matches \in Seq(drawn)
  <2>1. {s.id : s \in rows} \subseteq drawn
    BY DEF ScopeInvariant, SourceIdsDrawn
  <2> QED
    BY <1>4, <2>1
<1>7. \A s \in sourceRows : s.id \in ToSet(matches) => s.store_id \in stores
  BY <1>5 DEF ScopeInvariant, SourceIdsDrawn, UniqueIds
<1> QED
  BY <1>6, <1>7

LEMMA SourceMatchInScope ==
    ASSUME TablesInvariant, ScopeInvariant, NEW c \in Clients, SourceMatch(c)
    PROVE  ScopeInvariant'
<1> DEFINE cmd == command[c]
<1>1. PICK stores, asked, matches :
        /\ stores = (IF cmd.at \in SourceIds THEN ToSet(cmd.ids) ELSE {cmd.ids[cmd.asked + 1]})
        /\ matches = cmd.matches \o MatchesIn(stores, cmd.at)
        /\ cmd.pc = "match" /\ cmd.asked + 1 \in DOMAIN cmd.ids
        /\ \/ Continue(c, Onward(cmd, "match", cmd.names, cmd.ids, asked, matches))
           \/ Continue(c, Resting)
           \/ matches # << >> /\ Continue(c, Onward(cmd, "delete", cmd.names, cmd.ids, asked, matches))
        /\ UNCHANGED <<sourceRows, drawn>>
  BY DEF SourceMatch
<1>2. stores \subseteq ToSet(cmd.ids)
  BY <1>1 DEF ToSet
<1>3. /\ cmd.matches \in Seq(drawn)
      /\ \A s \in sourceRows : s.id \in ToSet(cmd.matches) => s.store_id \in ToSet(cmd.ids)
  BY <1>1 DEF ScopeInvariant, MatchesInScope
<1>4. matches \in Seq(drawn) /\ ToSet(matches) = ToSet(cmd.matches) \cup ToSet(MatchesIn(stores, cmd.at))
  <2>1. PICK mine, more : mine = cmd.matches /\ more = MatchesIn(stores, cmd.at)
    OBVIOUS
  <2>2. mine \in Seq(drawn) /\ more \in Seq(drawn)
    BY <1>3, <2>1, MatchesBelong
  <2>3. mine \o more \in Seq(drawn) /\ ToSet(mine \o more) = ToSet(mine) \cup ToSet(more)
    BY <2>2, Concatenation, JoinedMembers
  <2>4. matches = mine \o more
    BY <1>1, <2>1
  <2> QED
    BY <2>1, <2>3, <2>4
<1>5. \A s \in sourceRows : s.id \in ToSet(matches) => s.store_id \in ToSet(cmd.ids)
  <2>1. \A s \in sourceRows : s.id \in ToSet(MatchesIn(stores, cmd.at)) => s.store_id \in stores
    BY MatchesBelong
  <2> QED
    BY <1>2, <1>3, <1>4, <2>1
<1>6. CASE Continue(c, Resting)
  <2>1. \A d \in Clients : command'[d].pc \in {"match", "delete"} => command'[d] = command[d]
    BY <1>6, GoesOn DEF Resting
  <2> QED
    BY <1>1, <2>1, FewerSources
<1>7. ASSUME NEW pc \in {"match", "delete"}, pc = "delete" => matches # << >>,
             Continue(c, Onward(cmd, pc, cmd.names, cmd.ids, asked, matches))
      PROVE  ScopeInvariant'
  <2> DEFINE next == Onward(cmd, pc, cmd.names, cmd.ids, asked, matches)
  <2>1. next.pc = pc /\ next.matches = matches /\ next.ids = cmd.ids
    BY DEF Onward, SourceCommand
  <2> HIDE DEF next
  <2>2. command'[c] = next /\ \A d \in Clients \ {c} : command'[d] = command[d]
    BY <1>7, GoesOn DEF next
  <2>3. MatchesInScope(command[c])'
    BY <1>1, <1>4, <1>5, <1>7, <2>1, <2>2 DEF MatchesInScope
  <2>4. \A d \in Clients \ {c} : MatchesInScope(command[d])'
    BY <1>1, <2>2 DEF ScopeInvariant, MatchesInScope
  <2>5. SourceIdsDrawn'
    BY <1>1 DEF ScopeInvariant, SourceIdsDrawn
  <2> QED
    BY <2>3, <2>4, <2>5 DEF ScopeInvariant
<1> QED
  BY <1>1, <1>6, <1>7

LEMMA SourceDeleteInScope ==
    ASSUME TablesInvariant, ScopeInvariant, NEW c \in Clients, SourceDelete(c)
    PROVE  ScopeInvariant'
<1> DEFINE cmd == command[c]
           rest == Tail(cmd.matches)
           next == Onward(cmd, "delete", cmd.names, cmd.ids, cmd.asked, rest)
<1>1. /\ cmd.pc = "delete" /\ sourceRows' \subseteq sourceRows /\ drawn' = drawn
      /\ \/ Continue(c, Resting)
         \/ Continue(c, next) /\ Len(cmd.matches) # 1
  BY DEF SourceDelete
<1>2. CASE Continue(c, Resting)
  <2>1. \A d \in Clients : command'[d].pc \in {"match", "delete"} => command'[d] = command[d]
    BY <1>2, GoesOn DEF Resting
  <2> QED
    BY <1>1, <2>1, FewerSources
<1>3. CASE Continue(c, next) /\ Len(cmd.matches) # 1
  <2>1. /\ cmd.matches \in Seq(drawn) /\ cmd.matches # << >>
        /\ \A s \in sourceRows : s.id \in ToSet(cmd.matches) => s.store_id \in ToSet(cmd.ids)
    BY <1>1 DEF ScopeInvariant, MatchesInScope
  <2>2. rest \in Seq(drawn) /\ rest # << >>
    <3>1. rest \in Seq(drawn) /\ Len(rest) = Len(cmd.matches) - 1
      BY <2>1, HeadTailProperties
    <3>2. Len(rest) # 0
      BY <1>3, <2>1, <3>1
    <3> QED
      BY <3>1, <3>2, EmptySeq
  <2>3. ToSet(rest) \subseteq ToSet(cmd.matches)
    <3>1. \A i \in 1 .. Len(rest) : rest[i] = cmd.matches[i + 1]
      BY <2>1, HeadTailProperties
    <3>2. Len(rest) = Len(cmd.matches) - 1 /\ Len(cmd.matches) \in Nat
      BY <2>1, HeadTailProperties
    <3>3. DOMAIN rest = 1 .. Len(rest) /\ DOMAIN cmd.matches = 1 .. Len(cmd.matches)
      BY <2>1, <2>2
    <3> HIDE DEF rest
    <3> QED
      BY <3>1, <3>2, <3>3 DEF ToSet
  <2>4. next.pc = "delete" /\ next.matches = rest /\ next.ids = cmd.ids
    BY DEF Onward, SourceCommand
  <2> HIDE DEF next, rest
  <2>5. command'[c] = next /\ \A d \in Clients \ {c} : command'[d] = command[d]
    BY <1>3, GoesOn
  <2>6. MatchesInScope(command[c])'
    <3>1. \A s \in sourceRows' : s.id \in ToSet(rest) => s.store_id \in ToSet(cmd.ids)
      BY <1>1, <2>1, <2>3
    <3> QED
      BY <1>1, <2>2, <2>4, <2>5, <3>1 DEF MatchesInScope
  <2>7. \A d \in Clients \ {c} : MatchesInScope(command[d])'
    BY <1>1, <2>5 DEF ScopeInvariant, MatchesInScope
  <2>8. SourceIdsDrawn'
    <3>1. IsFiniteSet(sourceRows')
      BY <1>1, FS_Subset DEF ScopeInvariant, SourceIdsDrawn
    <3> QED
      BY <1>1, <3>1 DEF ScopeInvariant, SourceIdsDrawn, UniqueIds
  <2> QED
    BY <2>6, <2>7, <2>8 DEF ScopeInvariant
<1> QED
  BY <1>1, <1>2, <1>3

(* Every other step of a client: none begins with a match. *)
LEMMA OtherStepInScope ==
    ASSUME TablesInvariant, ScopeInvariant, NEW c \in Clients, ClientStep(c),
           ~SourceInsert(c), ~SourceMatch(c), ~SourceDelete(c)
    PROVE  ScopeInvariant'
<1> DEFINE Fresh(next) == next.pc \in {"match", "delete"} => next.pc = "match" /\ next.matches = << >>
<1>1. ASSUME NEW next, Continue(c, next), Fresh(next), sourceRows' \subseteq sourceRows,
             drawn \subseteq drawn'
      PROVE  ScopeInvariant'
  <2>1. \A d \in Clients : command'[d].pc \in {"match", "delete"} =>
            \/ command'[d] = command[d]
            \/ command'[d].pc = "match" /\ command'[d].matches = << >>
    BY <1>1, GoesOn
  <2> QED
    BY <1>1, <2>1, FewerSources
<1>2. ASSUME NEW rows, StoresBecome(rows, c, Resting), sourceRows' \subseteq sourceRows,
             drawn' = drawn
      PROVE  ScopeInvariant'
  <2>1. /\ \A d \in Clients : command'[d] = IF d = c THEN Resting ELSE Disturbed(d, rows)
        /\ \A d \in Clients : IsCommand(command[d])
    BY <1>2 DEF StoresBecome, TablesInvariant, Pending
  <2>2. ASSUME NEW d \in Clients, command'[d].pc \in {"match", "delete"}
        PROVE  command'[d] = command[d]
    <3>1. d # c /\ command'[d] = Disturbed(d, rows)
      BY <2>1, <2>2 DEF Resting
    <3> QED
      BY <2>1, <2>2, <3>1, Telling
  <2> QED
    BY <1>2, <2>2, FewerSources
<1>3. ASSUME UNCHANGED command, sourceRows' \subseteq sourceRows, drawn' = drawn
      PROVE  ScopeInvariant'
  BY <1>3, FewerSources
<1>4. ASSUME NEW name, NEW v, StoreAdd(c, name, v) \/ StorePatch(c, name, v)
      PROVE  ScopeInvariant'
  BY <1>1, <1>4 DEF StoreAdd, StorePatch
<1>5. ASSUME NEW name, StoreRemove(c, name)
      PROVE  ScopeInvariant'
  BY <1>1, <1>5 DEF StoreRemove
<1>6. CASE StoreInsert(c) \/ StoreDelete(c) \/ StoreUpsert(c)
  BY <1>1, <1>2, <1>6 DEF StoreInsert, StoreDelete, StoreUpsert, delete_store, Resting
<1>7. CASE StoreList(c) \/ StorePage(c) \/ Killed(c)
  BY <1>1, <1>7 DEF StoreList, StorePage, Killed, Resting, Paging
<1>8. CASE StoreListed(c)
  <2>1. IsCommand(command[c]) /\ command[c].pc = "page"
    BY <1>8 DEF StoreListed, TablesInvariant, Pending
  <2>2. command[c].next = Resting \/ command[c].next.pc = "resolve"
    BY <2>1, WalkShape
  <2> QED
    BY <1>1, <1>8, <2>2 DEF StoreListed, Resting
<1>9. ASSUME NEW scope, NEW at, SourceAdd(c, scope, at)
      PROVE  ScopeInvariant'
  <2>1. PICK next : Continue(c, next) /\ next.pc \in {"page", "resolve"}
    BY <1>9 DEF SourceAdd, Paging, SourceCommand
  <2> QED
    BY <1>1, <1>9, <2>1 DEF SourceAdd
<1>10. ASSUME NEW scope, NEW target, SourceRemove(c, scope, target)
      PROVE  ScopeInvariant'
  <2>1. sourceRows' \subseteq sourceRows /\ drawn' = drawn
    BY <1>10 DEF SourceRemove
  <2>2. UNCHANGED command \/ \E next : Continue(c, next) /\ next.pc \in {"match", "resolve"} /\ next.matches = << >>
    BY <1>10 DEF SourceRemove, SourceCommand
  <2> QED
    BY <1>1, <1>3, <2>1, <2>2
<1>11. CASE Resolve(c)
  <2>1. command[c].then \in {"insert", "match"}
    <3>1. IsCommand(command[c]) /\ command[c].pc = "resolve"
      BY <1>11 DEF Resolve, TablesInvariant, Pending
    <3> QED
      BY <3>1 DEF IsCommand, IsSource, Paging, Resting
  <2>2. PICK next : Continue(c, next) /\ Fresh(next)
    BY <1>11, <2>1 DEF Resolve, Onward, SourceCommand, Resting
  <2> QED
    BY <1>1, <1>11, <2>2 DEF Resolve
<1> QED
  BY <1>4, <1>5, <1>6, <1>7, <1>8, <1>9, <1>10, <1>11 DEF ClientStep, StoreStep, SourceStep

THEOREM ScopeInvariantHolds == CatalogSpec => []ScopeInvariant
<1>1. CatalogInit => ScopeInvariant
  BY FS_EmptySet DEF CatalogInit, ScopeInvariant, SourceIdsDrawn, UniqueIds, MatchesInScope, Resting
<1>2. ASSUME TablesInvariant, ScopeInvariant, [CatalogNext]_catalogVars
      PROVE  ScopeInvariant'
  <2>1. ASSUME NEW c \in Clients, ClientStep(c)
        PROVE  ScopeInvariant'
    BY <1>2, <2>1, SourceInsertInScope, SourceMatchInScope, SourceDeleteInScope, OtherStepInScope
  <2>2. CASE DaemonDies
    <3>1. \A c \in Clients : command'[c].pc \in {"match", "delete"} => command'[c] = command[c]
      BY <2>2 DEF DaemonDies, Resting
    <3> QED
      BY <1>2, <2>2, <3>1, FewerSources DEF DaemonDies
  <2>3. CASE DaemonStarts \/ McpStep \/ UNCHANGED catalogVars
    <3>1. UNCHANGED <<sourceRows, drawn, command>>
      BY <2>3 DEF DaemonStarts, McpStep, McpStart, ToolWithStore, ToolWithoutStore, ToolListStores,
                  McpEnd, Show, catalogVars
    <3> QED
      BY <1>2, <3>1, FewerSources
  <2> QED
    BY <1>2, <2>1, <2>2, <2>3 DEF CatalogNext
<1> QED
  BY <1>1, <1>2, TablesInvariantHolds, PTL DEF CatalogSpec

(* An embedded source remove deletes only from the stores of its scope,      *)
(* whatever other commands add and remove between its look-up of the scope,  *)
(* its matching and each of its deletions (SourceRemoveCmd::run_embedded).   *)
THEOREM RemovalsScoped == CatalogSpec => RemovalsStayInScope
<1>1. ASSUME ScopeInvariant, NEW c \in Clients, SourceDelete(c), NEW s \in sourceRows \ sourceRows'
      PROVE  s.store_id \in ToSet(command[c].ids)
  <2> DEFINE cmd == command[c]
  <2>1. s.id = Head(cmd.matches) /\ cmd.pc = "delete"
    BY <1>1 DEF SourceDelete
  <2>2. cmd.matches \in Seq(drawn) /\ cmd.matches # << >>
    BY <1>1, <2>1 DEF ScopeInvariant, MatchesInScope
  <2>3. Head(cmd.matches) \in ToSet(cmd.matches)
    BY <2>2 DEF ToSet
  <2> QED
    BY <1>1, <2>1, <2>3 DEF ScopeInvariant, MatchesInScope
<1>2. ScopeInvariant => \A c \in Clients : SourceDelete(c) =>
        \A s \in sourceRows \ sourceRows' : s.store_id \in ToSet(command[c].ids)
  BY <1>1
<1> QED
  BY <1>2, ScopeInvariantHolds, PTL DEF RemovalsStayInScope

-----------------------------------------------------------------------------
(* Listings *)

NamesKnown ==
    /\ \A r \in storeRows : r.name \in StoreNames
    /\ \A c \in Inserting \cup Upserting : command[c].row.name \in StoreNames

(* An update never changes the name of a store. *)
NamesFixed ==
    \A c \in Upserting :
        /\ \A r \in storeRows : r.id = command[c].row.id => r.name = command[c].row.name
        /\ \A d \in Upserting : command[d].row.id = command[c].row.id =>
                command[d].row.name = command[c].row.name

AllByName == InOrder(storeRows, LAMBDA a, b : a.name < b.name)

(* How many stores come before a name. *)
NamesTaken == {r.name : r \in storeRows}
NamesBefore(name) == {n \in NamesTaken : n < name}
Place(name) == Cardinality(NamesBefore(name))

(* What a walk is still to see is ahead of it, unless a store was removed    *)
(* under it; what it has seen is behind it, unless one was added.            *)
Unseen(x) ==
    /\ x.began \subseteq StoresNow
    /\ \A r \in storeRows : r.id \in x.began /\ r.id \notin Ids(ToSet(x.seen)) =>
            x.offset >= 0 /\ Place(r.name) >= x.offset

Seen(x) ==
    /\ \A i, j \in DOMAIN x.seen : x.seen[i].id = x.seen[j].id => i = j
    /\ x.offset >= 0 => \A r \in storeRows : r.id \in Ids(ToSet(x.seen)) => Place(r.name) < x.offset

Walked(x) ==
    x.pc = "page" =>
        /\ x.offset \in Nat \cup {-1} /\ x.seen \in Seq(ToSet(x.seen))
        /\ ~x.shrank => Unseen(x)
        /\ ~x.grew => Seen(x)

ListingInvariant ==
    /\ IsFiniteSet(storeRows)
    /\ NamesKnown /\ NamesFixed
    /\ \A c \in Clients : Walked(command[c])

LEMMA RanksAreNumbers ==
    ASSUME ListingInvariant, NEW name
    PROVE  IsFiniteSet(NamesBefore(name)) /\ Place(name) \in Nat
<1> DEFINE f == [r \in storeRows |-> r.name]
<1>1. f \in Surjection(storeRows, NamesTaken)
  BY DEF Surjection, NamesTaken
<1>2. IsFiniteSet(NamesTaken)
  BY <1>1, FS_Surjection DEF ListingInvariant
<1>3. IsFiniteSet(NamesBefore(name))
  BY <1>2, FS_Subset DEF NamesBefore
<1> QED
  BY <1>3, FS_CardinalityType DEF Place

(* list_stores' order: every row once, at its rank. *)
LEMMA ByNameOnce ==
    ASSUME TablesInvariant, ListingInvariant
    PROVE  /\ Cardinality(storeRows) \in Nat
           /\ AllByName \in [1 .. Cardinality(storeRows) -> storeRows]
           /\ \A r \in storeRows : \E i \in 1 .. Cardinality(storeRows) : AllByName[i] = r
           /\ \A i, j \in 1 .. Cardinality(storeRows) : AllByName[i] = AllByName[j] => i = j
           /\ \A i \in 1 .. Cardinality(storeRows) : Place(AllByName[i].name) = i - 1
<1> DEFINE R == {p \in storeRows \X storeRows : p[1].name < p[2].name}
<1>1. \A a, b \in storeRows : <<a, b>> \in R <=> a.name < b.name
  OBVIOUS
<1>2. \A r \in storeRows : r.name \in Nat
  BY CatalogAssumption DEF ListingInvariant, NamesKnown
<1>3. \A a, b \in storeRows : a.name = b.name => a = b
  BY DEF TablesInvariant, StoresAccountedFor
<1>4. \A x \in storeRows : Below(storeRows, R, x) = {y \in storeRows : y.name < x.name}
  BY <1>1 DEF Below
<1> HIDE DEF R
<1>5. OrdersAll(storeRows, R)
  BY <1>1, <1>2, <1>3 DEF OrdersAll
<1>6. AllByName = Ranked(storeRows, R)
  <2> DEFINE ranked(i) == CHOOSE x \in storeRows : Cardinality(Below(storeRows, R, x)) = i - 1
             named(i) == CHOOSE x \in storeRows : Cardinality({y \in storeRows : y.name < x.name}) = i - 1
  <2>1. \A i : ranked(i) = named(i)
    BY <1>4
  <2>2. /\ AllByName = [i \in 1 .. Cardinality(storeRows) |-> named(i)]
        /\ Ranked(storeRows, R) = [i \in 1 .. Cardinality(storeRows) |-> ranked(i)]
    BY DEF AllByName, InOrder, Ranked
  <2> HIDE DEF ranked, named
  <2> QED
    BY <2>1, <2>2
<1>7. IsFiniteSet(storeRows)
  BY DEF ListingInvariant
<1> HIDE DEF AllByName
<1>8. /\ Cardinality(storeRows) \in Nat
      /\ AllByName \in [1 .. Cardinality(storeRows) -> storeRows]
      /\ \A r \in storeRows : \E i \in 1 .. Cardinality(storeRows) : AllByName[i] = r
      /\ \A i, j \in 1 .. Cardinality(storeRows) : AllByName[i] = AllByName[j] => i = j
  BY <1>5, <1>6, <1>7, RanksSort
<1>9. ASSUME NEW i \in 1 .. Cardinality(storeRows)
      PROVE  Place(AllByName[i].name) = i - 1
  <2> DEFINE x == AllByName[i]
             before == {y \in storeRows : y.name < x.name}
             f == [y \in before |-> y.name]
  <2>1. x \in storeRows
    BY <1>8
  <2>2. Cardinality(before) = i - 1
    BY <1>4, <1>5, <1>6, <1>7, <2>1, RanksStand
  <2>3. f \in Bijection(before, NamesBefore(x.name))
    BY <1>3 DEF Bijection, Injection, Surjection, IsInjective, NamesBefore, NamesTaken
  <2>4. IsFiniteSet(before)
    BY <1>7, FS_Subset
  <2>5. Cardinality(before) = Cardinality(NamesBefore(x.name))
    BY <2>3, <2>4, FS_Bijection DEF ExistsBijection
  <2> QED
    BY <2>2, <2>5 DEF Place
<1> QED
  BY <1>8, <1>9

(* Once the stores table is what it was, a walk is where it was. *)
LEMMA ListingsGoOn ==
    ASSUME ListingInvariant, UNCHANGED storeRows,
           \A c \in Clients : command'[c].pc \in {"page", "insert_store", "upsert_store"} =>
                command'[c] = command[c]
    PROVE  ListingInvariant'
<1>1. NamesKnown' /\ NamesFixed'
  BY DEF ListingInvariant, NamesKnown, NamesFixed, Inserting, Upserting
<1>2. \A x : Walked(x)' <=> Walked(x)
  BY DEF Walked, Unseen, Seen, Place, NamesBefore, NamesTaken, StoresNow
<1>3. \A c \in Clients : Walked(command'[c])
  BY DEF ListingInvariant, Walked
<1> QED
  BY <1>1, <1>2, <1>3 DEF ListingInvariant

(* When it is not, a walk is still where its marks say. *)
LEMMA MovedAhead ==
    ASSUME TablesInvariant, ListingInvariant, IsFiniteSet(storeRows'),
           \A r \in storeRows, q \in storeRows' : r.id = q.id => r.name = q.name,
           NEW r \in storeRows, NEW q \in storeRows', q.id = r.id
    PROVE  /\ StoresNow \subseteq StoresNow' => Place(q.name)' >= Place(r.name)
           /\ StoresNow' \subseteq StoresNow => Place(q.name)' <= Place(r.name)
<1> DEFINE n == r.name
           before == {m \in NamesTaken : m < n}
           after == {m \in NamesTaken' : m < n}
<1>1. q.name = n /\ Place(r.name) = Cardinality(before) /\ Place(q.name)' = Cardinality(after)
  BY DEF Place, NamesBefore
<1>2. IsFiniteSet(before)
  BY RanksAreNumbers DEF NamesBefore
<1>3. IsFiniteSet(after)
  <2> DEFINE f == [s \in storeRows' |-> s.name]
  <2>1. f \in Surjection(storeRows', NamesTaken')
    BY DEF Surjection, NamesTaken
  <2>2. IsFiniteSet(NamesTaken')
    BY <2>1, FS_Surjection
  <2> QED
    BY <2>2, FS_Subset
<1>4. StoresNow \subseteq StoresNow' => NamesTaken \subseteq NamesTaken'
  BY DEF StoresNow, Ids, NamesTaken
<1>5. StoresNow' \subseteq StoresNow => NamesTaken' \subseteq NamesTaken
  BY DEF StoresNow, Ids, NamesTaken
<1>6. Cardinality(before) \in Nat /\ Cardinality(after) \in Nat
  BY <1>2, <1>3, FS_CardinalityType
<1>7. ASSUME StoresNow \subseteq StoresNow'
      PROVE  Cardinality(before) <= Cardinality(after)
  <2>1. before \in SUBSET after
    BY <1>4, <1>7
  <2> HIDE DEF before, after
  <2> QED
    BY <1>3, <2>1, FS_Subset
<1>8. ASSUME StoresNow' \subseteq StoresNow
      PROVE  Cardinality(after) <= Cardinality(before)
  <2>1. after \in SUBSET before
    BY <1>5, <1>8
  <2> HIDE DEF before, after
  <2> QED
    BY <1>2, <2>1, FS_Subset
<1> HIDE DEF before, after
<1> QED
  BY <1>1, <1>6, <1>7, <1>8

LEMMA ListingsDisturbed ==
    ASSUME TablesInvariant, ListingInvariant, NEW rows, NEW c \in Clients,
           StoresBecome(rows, c, Resting), IsFiniteSet(rows), \A r \in rows : r.name \in StoreNames,
           \A r \in storeRows, q \in rows : r.id = q.id => r.name = q.name,
           \A d \in Upserting, q \in rows : q.id = command[d].row.id => q.name = command[d].row.name
    PROVE  ListingInvariant'
<1>1. /\ storeRows' = rows
      /\ \A d \in Clients : command'[d] = IF d = c THEN Resting ELSE Disturbed(d, rows)
      /\ \A d \in Clients : IsCommand(command[d])
  BY DEF StoresBecome, TablesInvariant, Pending
<1>2. NamesKnown' /\ NamesFixed'
  <2>1. /\ Inserting' \subseteq Inserting /\ Upserting' \subseteq Upserting
        /\ \A d \in Inserting' \cup Upserting' : command'[d] = command[d]
    BY OthersGoOn
  <2> QED
    BY <1>1, <2>1 DEF ListingInvariant, NamesKnown, NamesFixed
<1>3. StoresNow' = Ids(rows)
  BY <1>1 DEF StoresNow
<1>4. ASSUME NEW d \in Clients, command'[d].pc = "page"
      PROVE  Walked(command[d])'
  <2> DEFINE x == command[d]
  <2>0. PICK y : y = command'[d]
    OBVIOUS
  <2>1. d # c /\ y = Disturbed(d, rows)
    BY <1>1, <1>4, <2>0 DEF Resting
  <2>2. x.pc = "page" /\ IsCommand(x)
    BY <1>1, <1>4, <2>1, Telling
  <2>3. y = Paging(x.offset, x.seen, x.began, x.grew \/ ~(Ids(rows) \subseteq StoresNow),
                   x.shrank \/ ~(StoresNow \subseteq Ids(rows)), x.next)
    BY <1>1, <2>1, <2>2, Telling
  <2>4. /\ y.offset = x.offset /\ y.seen = x.seen /\ y.began = x.began
        /\ y.grew = (x.grew \/ ~(Ids(rows) \subseteq StoresNow))
        /\ y.shrank = (x.shrank \/ ~(StoresNow \subseteq Ids(rows)))
    BY <2>3 DEF Paging
  <2>5. /\ x.offset \in Nat \cup {-1} /\ x.seen \in Seq(ToSet(x.seen))
        /\ ~x.shrank => Unseen(x)
        /\ ~x.grew => Seen(x)
    BY <2>2 DEF ListingInvariant, Walked
  <2>6. \A r \in storeRows, q \in rows : q.id = r.id =>
            /\ StoresNow \subseteq Ids(rows) => Place(q.name)' >= Place(r.name)
            /\ Ids(rows) \subseteq StoresNow => Place(q.name)' <= Place(r.name)
    BY <1>1, <1>3, MovedAhead
  <2>7. \A r \in storeRows : Place(r.name) \in Nat
    BY RanksAreNumbers
  <2>8. \A q \in rows : Place(q.name)' \in Nat
    <3>1. ASSUME NEW q \in rows
          PROVE  IsFiniteSet(NamesBefore(q.name)')
      <4> DEFINE f == [r \in rows |-> r.name]
      <4>1. f \in Surjection(rows, NamesTaken')
        BY <1>1 DEF Surjection, NamesTaken
      <4>2. IsFiniteSet(NamesTaken')
        BY <4>1, FS_Surjection
      <4> QED
        BY <4>2, FS_Subset DEF NamesBefore
    <3> QED
      BY <3>1, FS_CardinalityType DEF Place
  <2> HIDE DEF x
  <2>9. ASSUME ~y.shrank
        PROVE  Unseen(y)'
    <3>1. Unseen(x) /\ StoresNow \subseteq Ids(rows)
      BY <2>4, <2>5, <2>9
    <3>2. x.began \subseteq StoresNow'
      BY <1>3, <3>1 DEF Unseen
    <3>3. ASSUME NEW q \in rows, q.id \in x.began, q.id \notin Ids(ToSet(x.seen))
          PROVE  x.offset >= 0 /\ Place(q.name)' >= x.offset
      <4>1. PICK r \in storeRows : r.id = q.id
        BY <3>1, <3>3 DEF Unseen, StoresNow, Ids
      <4>2. x.offset >= 0 /\ Place(r.name) >= x.offset
        BY <3>1, <3>3, <4>1 DEF Unseen
      <4>3. Place(q.name)' >= Place(r.name)
        BY <2>6, <3>1, <4>1
      <4> QED
        BY <2>5, <2>7, <2>8, <4>2, <4>3
    <3>4. \A q \in storeRows' : q.id \in y.began /\ q.id \notin Ids(ToSet(y.seen)) =>
            y.offset >= 0 /\ Place(q.name)' >= y.offset
      BY <1>1, <2>4, <3>3
    <3> QED
      BY <2>4, <3>2, <3>4 DEF Unseen
  <2>10. ASSUME ~y.grew
         PROVE  Seen(y)'
    <3>1. Seen(x) /\ Ids(rows) \subseteq StoresNow
      BY <2>4, <2>5, <2>10
    <3>2. ASSUME NEW q \in rows, x.offset >= 0, q.id \in Ids(ToSet(x.seen))
          PROVE  Place(q.name)' < x.offset
      <4>1. PICK r \in storeRows : r.id = q.id
        BY <3>1 DEF StoresNow, Ids
      <4>2. Place(r.name) < x.offset
        BY <3>1, <3>2, <4>1 DEF Seen
      <4>3. Place(q.name)' <= Place(r.name)
        BY <2>6, <3>1, <4>1
      <4> QED
        BY <2>5, <2>7, <2>8, <4>2, <4>3
    <3>3. y.offset >= 0 => \A q \in storeRows' : q.id \in Ids(ToSet(y.seen)) => Place(q.name)' < y.offset
      BY <1>1, <2>4, <3>2
    <3>4. \A i, j \in DOMAIN y.seen : y.seen[i].id = y.seen[j].id => i = j
      BY <2>4, <3>1 DEF Seen
    <3> QED
      BY <3>3, <3>4 DEF Seen
  <2> QED
    BY <2>0, <2>4, <2>5, <2>9, <2>10 DEF Walked
<1>5. \A d \in Clients : Walked(command[d])'
  BY <1>4 DEF Walked
<1>6. IsFiniteSet(storeRows')
  BY <1>1
<1> QED
  BY <1>2, <1>5, <1>6 DEF ListingInvariant

(* A page has the stores from its offset on, as many as fit. *)
LEMMA PageHas ==
    ASSUME TablesInvariant, ListingInvariant, NEW k \in Nat,
           NEW page, page = PageOf(AllByName, k),
           NEW m, m = Smaller(k + PageSize, Cardinality(storeRows))
    PROVE  /\ m \in Nat /\ Len(AllByName) = Cardinality(storeRows)
           /\ page \in Seq(storeRows) /\ Len(page) = IF k < m THEN m - k ELSE 0
           /\ \A i \in 1 .. Len(page) : k + i \in 1 .. Cardinality(storeRows) /\ page[i] = AllByName[k + i]
<1> DEFINE n == Cardinality(storeRows)
<1>1. n \in Nat /\ AllByName \in [1 .. n -> storeRows] /\ PageSize \in Nat \ {0}
  BY ByNameOnce, CatalogAssumption
<1>2. AllByName \in Seq(storeRows) /\ Len(AllByName) = n
  BY <1>1
<1> HIDE DEF n
<1>3. m \in Nat /\ m <= n
  BY <1>1 DEF Smaller, n
<1>4. page = SubSeq(AllByName, k + 1, m)
  BY <1>2 DEF PageOf, n
<1>5. \A i \in k + 1 .. m : AllByName[i] \in storeRows
  BY <1>1, <1>3
<1>6. /\ page \in Seq(storeRows)
      /\ Len(page) = IF k + 1 <= m THEN m - (k + 1) + 1 ELSE 0
      /\ \A i \in 1 .. m - (k + 1) + 1 : page[i] = AllByName[k + 1 + i - 1]
  BY <1>3, <1>4, <1>5, SubSeqProperties
<1>7. Len(page) = IF k < m THEN m - k ELSE 0
  BY <1>3, <1>6
<1>8. \A i \in 1 .. Len(page) : i \in 1 .. m - (k + 1) + 1 /\ k + 1 + i - 1 = k + i /\ k + i \in 1 .. n
  BY <1>1, <1>3, <1>7
<1> QED
  BY <1>2, <1>3, <1>6, <1>7, <1>8 DEF n

(* A request moves the walk on by a page, and both of its marks with it. *)
LEMMA StorePageWalks ==
    ASSUME TablesInvariant, ListingInvariant, NEW c \in Clients, StorePage(c)
    PROVE  ListingInvariant'
<1> DEFINE x == command[c]
           n == Cardinality(storeRows)
           k == x.offset
<1>1. PICK page, shown, next :
        /\ page = PageOf(AllByName, k)
        /\ shown = [i \in DOMAIN page |-> [id |-> page[i].id, name |-> page[i].name]]
        /\ next = Paging(next_cursor(k, Len(AllByName)), x.seen \o shown, x.began, x.grew, x.shrank, x.next)
        /\ Continue(c, next) /\ x.pc = "page" /\ x.offset >= 0 /\ UNCHANGED storeRows
  BY DEF StorePage, AllByName
<1>2. command'[c] = next /\ \A d \in Clients \ {c} : command'[d] = command[d]
  BY <1>1, GoesOn
<1>3. /\ x.offset \in Nat \cup {-1} /\ x.seen \in Seq(ToSet(x.seen))
      /\ ~x.shrank => Unseen(x)
      /\ ~x.grew => Seen(x)
  BY <1>1 DEF ListingInvariant, Walked
<1>4. k \in Nat
  BY <1>1, <1>3
<1>5. PICK m : m = Smaller(k + PageSize, n)
  OBVIOUS
<1>6. /\ m \in Nat /\ Len(AllByName) = n
      /\ page \in Seq(storeRows) /\ Len(page) = IF k < m THEN m - k ELSE 0
      /\ \A i \in 1 .. Len(page) : k + i \in 1 .. n /\ page[i] = AllByName[k + i]
  BY <1>1, <1>4, <1>5, PageHas
<1>7. /\ n \in Nat /\ AllByName \in [1 .. n -> storeRows]
      /\ \A r \in storeRows : \E i \in 1 .. n : AllByName[i] = r
      /\ \A i, j \in 1 .. n : AllByName[i] = AllByName[j] => i = j
      /\ \A i \in 1 .. n : Place(AllByName[i].name) = i - 1
  BY ByNameOnce
<1>8. PageSize \in Nat \ {0}
  BY CatalogAssumption
<1>9. \A q, r \in storeRows : q.id = r.id => q = r
  BY DEF TablesInvariant, UniqueIds
<1>10. /\ next.pc = "page" /\ next.offset = next_cursor(k, n) /\ next.seen = x.seen \o shown
       /\ next.began = x.began /\ next.grew = x.grew /\ next.shrank = x.shrank
  BY <1>1, <1>6 DEF Paging
<1> HIDE DEF x, n, k
<1>11. next.offset = IF m < n THEN m ELSE -1
  BY <1>4, <1>5, <1>7, <1>8, <1>10 DEF next_cursor, Smaller
<1>12. m < n => m = k + PageSize
  BY <1>4, <1>5, <1>7, <1>8 DEF Smaller
<1>13. /\ DOMAIN page = 1 .. Len(page) /\ Len(page) \in Nat
       /\ \A i \in 1 .. Len(page) : page[i] \in storeRows
  BY <1>6
<1>14. /\ shown \in Seq([id : Ids(storeRows), name : NamesTaken]) /\ Len(shown) = Len(page)
       /\ \A i \in 1 .. Len(page) : shown[i].id = page[i].id
  BY <1>1, <1>13 DEF Ids, NamesTaken
<1>15. PICK mine : mine = x.seen
  OBVIOUS
<1>16. PICK both : both = mine \o shown
  OBVIOUS
<1>17. PICK S : mine \in Seq(S) /\ shown \in Seq(S)
  <2> DEFINE T == ToSet(mine) \cup [id : Ids(storeRows), name : NamesTaken]
  <2>0. ToSet(mine) \subseteq T /\ [id : Ids(storeRows), name : NamesTaken] \subseteq T
    OBVIOUS
  <2> HIDE DEF T
  <2>1. mine \in Seq(T)
    BY <1>3, <1>15, <2>0
  <2>2. shown \in Seq(T)
    <3>1. PICK A : A = [id : Ids(storeRows), name : NamesTaken]
      OBVIOUS
    <3>2. shown \in Seq(A) /\ A \subseteq T
      BY <1>14, <2>0, <3>1
    <3> QED
      BY <3>2
  <2> QED
    BY <2>1, <2>2
<1>18. /\ both \in Seq(S) /\ Len(both) = Len(mine) + Len(shown)
       /\ \A i \in 1 .. Len(mine) : both[i] = mine[i]
       /\ \A i \in 1 .. Len(shown) : both[Len(mine) + i] = shown[i]
       /\ ToSet(both) = ToSet(mine) \cup ToSet(shown)
  BY <1>16, <1>17, Concatenation, JoinedMembers
<1>19. next.seen = both /\ both \in Seq(ToSet(both))
  BY <1>10, <1>15, <1>16, <1>18, OwnMembers
<1>20. Ids(ToSet(both)) = Ids(ToSet(mine)) \cup Ids(ToSet(shown))
  BY <1>18 DEF Ids
<1>21. Ids(ToSet(shown)) = {page[i].id : i \in 1 .. Len(page)}
  <2>1. ToSet(shown) = {shown[i] : i \in 1 .. Len(page)}
    <3>1. DOMAIN shown = 1 .. Len(page)
      BY <1>1, <1>13
    <3> QED
      BY <3>1 DEF ToSet
  <2>2. \A e : e \in Ids(ToSet(shown)) <=> \E i \in 1 .. Len(page) : e = shown[i].id
    BY <2>1 DEF Ids
  <2>3. \A e : e \in Ids(ToSet(shown)) <=> \E i \in 1 .. Len(page) : e = page[i].id
    BY <1>14, <2>2
  <2> QED
    BY <2>3
<1>22. \A i \in 1 .. Len(page) : Place(page[i].name) = k + i - 1
  <2>1. ASSUME NEW i \in 1 .. Len(page)
        PROVE  Place(page[i].name) = k + i - 1
    <3>1. k + i \in 1 .. n /\ page[i] = AllByName[k + i]
      BY <1>6
    <3>2. Place(AllByName[k + i].name) = (k + i) - 1
      BY <1>7, <3>1
    <3>3. (k + i) - 1 = k + i - 1
      BY <1>4, <1>13
    <3> QED
      BY <3>1, <3>2, <3>3
  <2> QED
    BY <2>1
<1>23. \A r \in storeRows : \E i \in 1 .. n : AllByName[i] = r /\ Place(r.name) = i - 1
  BY <1>7
<1>24. ASSUME NEW r \in storeRows, k <= Place(r.name), Place(r.name) < m
       PROVE  r.id \in Ids(ToSet(shown))
  <2>1. PICK i \in 1 .. n : AllByName[i] = r /\ Place(r.name) = i - 1
    BY <1>23
  <2>2. i - k \in 1 .. Len(page) /\ k + (i - k) = i
    BY <1>4, <1>6, <1>7, <1>24, <2>1
  <2>3. page[i - k] = r
    BY <1>6, <2>1, <2>2
  <2> QED
    BY <1>21, <2>2, <2>3
<1>25. next.offset \in Nat \cup {-1}
  BY <1>6, <1>11
<1>26. ASSUME ~next.shrank
       PROVE  Unseen(next)
  <2>1. Unseen(x)
    BY <1>3, <1>10, <1>26
  <2>2. next.began \subseteq StoresNow
    BY <1>10, <2>1 DEF Unseen
  <2>3. ASSUME NEW r \in storeRows, r.id \in next.began, r.id \notin Ids(ToSet(next.seen))
        PROVE  next.offset >= 0 /\ Place(r.name) >= next.offset
    <3>1. r.id \in x.began /\ r.id \notin Ids(ToSet(x.seen)) /\ r.id \notin Ids(ToSet(shown))
      BY <1>10, <1>15, <1>19, <1>20, <2>3
    <3>2. Place(r.name) >= k
      BY <2>1, <3>1 DEF Unseen, k
    <3>3. PICK i \in 1 .. n : Place(r.name) = i - 1
      BY <1>23
    <3>4. ~(i - 1 < m)
      BY <1>24, <3>1, <3>2, <3>3
    <3>5. m < n /\ i - 1 >= m
      BY <1>6, <1>7, <3>3, <3>4
    <3> QED
      BY <1>6, <1>11, <3>3, <3>5
  <2> QED
    BY <2>2, <2>3 DEF Unseen
<1>27. ASSUME ~next.grew
       PROVE  Seen(next)
  <2>1. Seen(x)
    BY <1>3, <1>10, <1>27
  <2>2. \A r \in storeRows : r.id \in Ids(ToSet(mine)) => Place(r.name) < k
    BY <1>4, <1>15, <2>1 DEF Seen, k
  <2>3. \A i \in 1 .. Len(page) : page[i].id \notin Ids(ToSet(mine))
    <3>1. ASSUME NEW i \in 1 .. Len(page), page[i].id \in Ids(ToSet(mine))
          PROVE  FALSE
      <4>1. Place(page[i].name) < k
        BY <1>13, <2>2, <3>1
      <4>2. Place(page[i].name) = k + i - 1
        BY <1>22
      <4> QED
        BY <1>4, <1>13, <4>1, <4>2
    <3> QED
      BY <3>1
  <2>4. \A i, j \in 1 .. Len(page) : page[i].id = page[j].id => i = j
    <3>1. ASSUME NEW i \in 1 .. Len(page), NEW j \in 1 .. Len(page), page[i].id = page[j].id
          PROVE  i = j
      <4>1. page[i] = page[j]
        BY <1>9, <1>13, <3>1
      <4>2. k + i - 1 = k + j - 1
        BY <1>22, <4>1
      <4> QED
        BY <1>4, <1>13, <4>2
    <3> QED
      BY <3>1
  <2>5. /\ \A i, j \in DOMAIN mine : mine[i].id = mine[j].id => i = j
        /\ \A i \in DOMAIN mine : mine[i].id \in Ids(ToSet(mine))
        /\ DOMAIN mine = 1 .. Len(mine) /\ Len(mine) \in Nat
    BY <1>15, <1>17, <2>1 DEF Seen, ToSet, Ids
  <2>6. \A i \in DOMAIN both :
          \/ i \in DOMAIN mine /\ both[i].id = mine[i].id
          \/ \E l \in 1 .. Len(page) : i = Len(mine) + l /\ both[i].id = page[l].id
    <3>1. ASSUME NEW i \in DOMAIN both, i \notin DOMAIN mine
          PROVE  \E l \in 1 .. Len(page) : i = Len(mine) + l /\ both[i].id = page[l].id
      <4>1. i \in 1 .. Len(mine) + Len(page)
        BY <1>14, <1>18, <3>1
      <4>2. i - Len(mine) \in 1 .. Len(page) /\ i = Len(mine) + (i - Len(mine))
        BY <1>13, <2>5, <3>1, <4>1
      <4>3. both[i].id = page[i - Len(mine)].id
        BY <1>14, <1>18, <4>2
      <4> QED
        BY <4>2, <4>3
    <3>2. \A i \in DOMAIN mine : both[i].id = mine[i].id
      BY <1>18, <2>5
    <3> QED
      BY <3>1, <3>2
  <2>7. \A i, j \in DOMAIN both : both[i].id = both[j].id => i = j
    <3>1. ASSUME NEW i \in DOMAIN both, NEW j \in DOMAIN both, both[i].id = both[j].id
          PROVE  i = j
      BY <2>3, <2>4, <2>5, <2>6, <3>1
    <3> QED
      BY <3>1
  <2>8. ASSUME NEW r \in storeRows, next.offset >= 0, r.id \in Ids(ToSet(both))
        PROVE  Place(r.name) < next.offset
    <3>1. m < n /\ next.offset = m /\ m = k + PageSize
      BY <1>11, <1>12, <2>8
    <3>2. CASE r.id \in Ids(ToSet(mine))
      <4>1. Place(r.name) < k
        BY <2>2, <3>2
      <4>2. Place(r.name) \in Int
        BY <1>23
      <4> QED
        BY <1>4, <1>8, <3>1, <4>1, <4>2
    <3>3. CASE r.id \in Ids(ToSet(shown))
      <4>1. PICK i \in 1 .. Len(page) : page[i].id = r.id
        BY <1>21, <3>3
      <4>2. r = page[i]
        BY <1>9, <1>13, <4>1
      <4>3. Place(r.name) = k + i - 1
        BY <1>22, <4>2
      <4>4. k < m /\ i <= m - k
        BY <1>4, <1>6, <1>8, <3>1
      <4> QED
        BY <1>4, <1>6, <3>1, <4>3, <4>4
    <3> QED
      BY <1>20, <2>8, <3>2, <3>3
  <2> QED
    BY <1>19, <2>7, <2>8 DEF Seen
<1>28. Walked(next)
  BY <1>19, <1>25, <1>26, <1>27 DEF Walked
<1>29. \A y : Walked(y)' <=> Walked(y)
  BY <1>1 DEF Walked, Unseen, Seen, Place, NamesBefore, NamesTaken, StoresNow
<1>30. \A d \in Clients : Walked(command'[d])
  BY <1>2, <1>28 DEF ListingInvariant
<1>31. NamesKnown' /\ NamesFixed'
  <2>1. \A d \in Clients : command'[d].pc \in {"insert_store", "upsert_store"} => command'[d] = command[d]
    BY <1>2, <1>10
  <2> QED
    BY <1>1, <2>1 DEF ListingInvariant, NamesKnown, NamesFixed, Inserting, Upserting
<1> QED
  BY <1>1, <1>29, <1>30, <1>31 DEF ListingInvariant

(* Steps of a client that write the stores table. *)
LEMMA StoreWritesDisturb ==
    ASSUME TablesInvariant, ListingInvariant, NEW c \in Clients,
           StoreInsert(c) \/ StoreUpsert(c) \/ StoreDelete(c)
    PROVE  ListingInvariant'
<1>1. ASSUME Continue(c, Resting), UNCHANGED storeRows
      PROVE  ListingInvariant'
  <2>1. \A d \in Clients : command'[d].pc \in {"page", "insert_store", "upsert_store"} =>
            command'[d] = command[d]
    BY <1>1, GoesOn DEF Resting
  <2> QED
    BY <1>1, <2>1, ListingsGoOn
<1>2. \A r, q \in storeRows : r.id = q.id => r.name = q.name
  BY DEF TablesInvariant, UniqueIds
<1>3. \A d \in Upserting, q \in storeRows : q.id = command[d].row.id => q.name = command[d].row.name
  BY DEF ListingInvariant, NamesFixed
<1>4. CASE StoreDelete(c)
  <2> DEFINE id == command[c].id
             rows == {r \in storeRows : r.id # id}
  <2>1. \/ StoresBecome(rows, c, Resting)
        \/ Continue(c, Resting) /\ UNCHANGED storeRows
    BY <1>4 DEF StoreDelete, delete_store
  <2>2. IsFiniteSet(rows) /\ rows \subseteq storeRows /\ \A r \in rows : r.name \in StoreNames
    BY FS_Subset DEF ListingInvariant, NamesKnown
  <2> HIDE DEF rows
  <2>3. /\ \A r \in storeRows, q \in rows : r.id = q.id => r.name = q.name
        /\ \A d \in Upserting, q \in rows : q.id = command[d].row.id => q.name = command[d].row.name
    BY <1>2, <1>3, <2>2
  <2> QED
    BY <1>1, <2>1, <2>2, <2>3, ListingsDisturbed
<1>5. CASE StoreInsert(c) \/ StoreUpsert(c)
  <2> DEFINE row == command[c].row
             rows == upsert_store(row)
  <2>1. \/ StoresBecome(rows, c, Resting)
        \/ Continue(c, Resting) /\ UNCHANGED storeRows
    BY <1>5 DEF StoreInsert, StoreUpsert
  <2>2. row.name \in StoreNames
    BY <1>5 DEF StoreInsert, StoreUpsert, ListingInvariant, NamesKnown, Inserting, Upserting
  <2>3. IsFiniteSet({r \in storeRows : r.id # row.id})
    BY FS_Subset DEF ListingInvariant
  <2>4. IsFiniteSet(rows)
    BY <2>3, FS_AddElement DEF upsert_store
  <2>5. \A q \in rows : q = row \/ q \in storeRows
    BY DEF upsert_store
  <2>6. \A r \in storeRows : r.id = row.id => r.name = row.name
    <3>1. CASE StoreInsert(c)
      <4>1. row.id \notin accounts.created
        BY <3>1 DEF StoreInsert, Inserting, TablesInvariant, Pending
      <4>2. \A r \in storeRows : r.id \in accounts.created
        BY DEF TablesInvariant, StoresAccountedFor, Ledger, StoresNow, Ids
      <4> QED
        BY <4>1, <4>2
    <3>2. CASE StoreUpsert(c)
      BY <3>2 DEF StoreUpsert, Upserting, ListingInvariant, NamesFixed
    <3> QED
      BY <1>5, <3>1, <3>2
  <2>7. \A d \in Upserting : row.id = command[d].row.id => row.name = command[d].row.name
    <3>1. CASE StoreInsert(c)
      <4>1. row.id \notin accounts.created
        BY <3>1 DEF StoreInsert, Inserting, TablesInvariant, Pending
      <4>2. \A d \in Upserting : command[d].row.id \in accounts.created
        BY DEF TablesInvariant, Pending
      <4> QED
        BY <4>1, <4>2
    <3>2. CASE StoreUpsert(c)
      BY <3>2 DEF StoreUpsert, Upserting, ListingInvariant, NamesFixed
    <3> QED
      BY <1>5, <3>1, <3>2
  <2> HIDE DEF rows, row
  <2>8. \A r \in rows : r.name \in StoreNames
    BY <2>2, <2>5 DEF ListingInvariant, NamesKnown
  <2>9. /\ \A r \in storeRows, q \in rows : r.id = q.id => r.name = q.name
        /\ \A d \in Upserting, q \in rows : q.id = command[d].row.id => q.name = command[d].row.name
    BY <1>2, <1>3, <2>5, <2>6, <2>7
  <2> QED
    BY <1>1, <2>1, <2>4, <2>8, <2>9, ListingsDisturbed
<1> QED
  BY <1>4, <1>5

(* Steps of a client that begin something with a known name, or go on with   *)
(* nothing the invariant speaks of.                                          *)
LEMMA StoreAddListed ==
    ASSUME TablesInvariant, ListingInvariant, NEW c \in Clients, NEW name \in StoreNames, NEW v,
           StoreAdd(c, name, v) \/ StorePatch(c, name, v)
    PROVE  ListingInvariant'
<1>1. PICK next : /\ Continue(c, next) /\ next.row.name = name
                  /\ \/ next.pc = "insert_store"
                     \/ next.pc = "upsert_store" /\ \E r \in storeRows : r.id = next.row.id /\ r.name = name
  <2>1. CASE StoreAdd(c, name, v)
    BY <2>1 DEF StoreAdd
  <2>2. CASE StorePatch(c, name, v)
    <3>1. PICK r \in Named(name) :
            Continue(c, [pc |-> "upsert_store", via |-> "daemon", row |-> [r EXCEPT !.visibility = v]])
      BY <2>2 DEF StorePatch
    <3>2. r \in storeRows /\ r.name = name
      BY DEF Named
    <3>3. r = [id |-> r.id, name |-> r.name, visibility |-> r.visibility]
      BY <3>2 DEF TablesInvariant, IsRow
    <3> DEFINE row == [r EXCEPT !.visibility = v]
               patched == [pc |-> "upsert_store", via |-> "daemon", row |-> row]
    <3>4. row.name = name /\ row.id = r.id
      BY <3>2, <3>3
    <3> HIDE DEF row
    <3>5. patched.pc = "upsert_store" /\ patched.row.name = name /\ patched.row.id = r.id
      BY <3>4
    <3>6. Continue(c, patched)
      BY <3>1 DEF row
    <3> HIDE DEF patched
    <3> QED
      BY <3>2, <3>5, <3>6
  <2> QED
    BY <2>1, <2>2
<1>2. command'[c] = next /\ \A d \in Clients \ {c} : command'[d] = command[d]
  BY <1>1, GoesOn
<1>3. UNCHANGED storeRows
  BY DEF StoreAdd, StorePatch
<1>4. NamesKnown'
  BY <1>1, <1>2, <1>3 DEF ListingInvariant, NamesKnown, Inserting, Upserting
<1>5. NamesFixed'
  <2>1. CASE next.pc = "insert_store"
    <3>1. Upserting' \subseteq Upserting /\ \A d \in Upserting' : command'[d] = command[d]
      BY <1>2, <2>1 DEF Upserting
    <3> QED
      BY <1>3, <3>1 DEF ListingInvariant, NamesFixed
  <2>2. CASE next.pc = "upsert_store"
    <3>1. PICK r \in storeRows : r.id = next.row.id /\ r.name = name
      BY <1>1, <2>2
    <3>2. \A q \in storeRows : q.id = next.row.id => q.name = name
      BY <3>1 DEF TablesInvariant, UniqueIds
    <3>3. \A d \in Upserting : command[d].row.id = next.row.id => command[d].row.name = name
      BY <3>1 DEF ListingInvariant, NamesFixed
    <3>4. \A d \in Upserting' : command'[d] = next \/ (d \in Upserting /\ command'[d] = command[d])
      BY <1>2 DEF Upserting
    <3> QED
      BY <1>1, <1>3, <3>2, <3>3, <3>4 DEF ListingInvariant, NamesFixed
  <2> QED
    BY <1>1, <2>1, <2>2
<1>6. \A y : Walked(y)' <=> Walked(y)
  BY <1>3 DEF Walked, Unseen, Seen, Place, NamesBefore, NamesTaken, StoresNow
<1>7. \A d \in Clients : Walked(command'[d])
  BY <1>1, <1>2 DEF ListingInvariant, Walked
<1> QED
  BY <1>3, <1>4, <1>5, <1>6, <1>7 DEF ListingInvariant

(* A walk begins before everything. *)
LEMMA WalkBegins ==
    ASSUME TablesInvariant, ListingInvariant, NEW c \in Clients, UNCHANGED storeRows,
           NEW next, Continue(c, Paging(0, << >>, StoresNow, FALSE, FALSE, next))
    PROVE  ListingInvariant'
<1> DEFINE walk == Paging(0, << >>, StoresNow, FALSE, FALSE, next)
<1>1. /\ walk.pc = "page" /\ walk.offset = 0 /\ walk.seen = << >> /\ walk.began = StoresNow
  BY DEF Paging
<1> HIDE DEF walk
<1>2. command'[c] = walk /\ \A d \in Clients \ {c} : command'[d] = command[d]
  BY GoesOn DEF walk
<1>3. NamesKnown' /\ NamesFixed'
  <2>1. \A d \in Clients : command'[d].pc \in {"insert_store", "upsert_store"} => command'[d] = command[d]
    BY <1>1, <1>2
  <2> QED
    BY <2>1 DEF ListingInvariant, NamesKnown, NamesFixed, Inserting, Upserting
<1>4. \A r \in storeRows : Place(r.name) \in Nat
  BY RanksAreNumbers
<1>5. ToSet(<< >>) = {} /\ Ids({}) = {} /\ << >> \in Seq({}) /\ DOMAIN << >> = {}
  <2>1. << >> \in Seq({}) /\ DOMAIN << >> = {}
    OBVIOUS
  <2>2. ToSet(<< >>) = {}
    BY DEF ToSet
  <2>3. Ids({}) = {}
    BY DEF Ids
  <2> QED
    BY <2>1, <2>2, <2>3
<1>6. Unseen(walk) /\ Seen(walk)
  <2>1. Ids(ToSet(walk.seen)) = {} /\ DOMAIN walk.seen = {}
    BY <1>1, <1>5
  <2>2. walk.offset >= 0 /\ \A r \in storeRows : Place(r.name) >= walk.offset
    BY <1>1, <1>4
  <2>3. Unseen(walk)
    BY <1>1, <2>2 DEF Unseen
  <2>4. Seen(walk)
    BY <2>1 DEF Seen
  <2> QED
    BY <2>3, <2>4
<1>7. Walked(walk)
  BY <1>1, <1>5, <1>6 DEF Walked
<1>8. \A y : Walked(y)' <=> Walked(y)
  BY DEF Walked, Unseen, Seen, Place, NamesBefore, NamesTaken, StoresNow
<1>9. \A d \in Clients : Walked(command'[d])
  BY <1>2, <1>7 DEF ListingInvariant
<1> QED
  BY <1>3, <1>8, <1>9 DEF ListingInvariant

LEMMA OtherStepListed ==
    ASSUME TablesInvariant, ListingInvariant, NEW c \in Clients,
           \/ \E name : StoreRemove(c, name)
           \/ StoreList(c) \/ StoreListed(c) \/ Killed(c)
           \/ \E scope, at : SourceAdd(c, scope, at)
           \/ \E scope, target : SourceRemove(c, scope, target)
           \/ Resolve(c) \/ SourceInsert(c) \/ SourceMatch(c) \/ SourceDelete(c)
    PROVE  ListingInvariant'
<1>1. UNCHANGED storeRows
  BY DEF StoreRemove, StoreList, StoreListed, Killed, SourceAdd, SourceRemove, Resolve, SourceInsert,
         SourceMatch, SourceDelete
<1>2. ASSUME NEW next, Continue(c, next), next.pc \notin {"page", "insert_store", "upsert_store"}
      PROVE  ListingInvariant'
  <2>1. \A d \in Clients : command'[d].pc \in {"page", "insert_store", "upsert_store"} =>
            command'[d] = command[d]
    BY <1>2, GoesOn
  <2> QED
    BY <1>1, <2>1, ListingsGoOn
<1>3. ASSUME NEW name, StoreRemove(c, name)
      PROVE  ListingInvariant'
  BY <1>2, <1>3 DEF StoreRemove
<1>4. CASE StoreList(c)
  BY <1>1, <1>4, WalkBegins DEF StoreList
<1>5. CASE Killed(c)
  BY <1>2, <1>5 DEF Killed, Resting
<1>6. CASE StoreListed(c)
  <2>1. IsCommand(command[c]) /\ command[c].pc = "page"
    BY <1>6 DEF StoreListed, TablesInvariant, Pending
  <2>2. command[c].next = Resting \/ command[c].next.pc = "resolve"
    BY <2>1, WalkShape
  <2> QED
    BY <1>2, <1>6, <2>2 DEF StoreListed, Resting
<1>7. ASSUME NEW scope, NEW at, SourceAdd(c, scope, at)
      PROVE  ListingInvariant'
  <2>1. PICK cmd : /\ cmd.pc = "resolve"
                   /\ Continue(c, IF Daemon THEN Paging(0, << >>, StoresNow, FALSE, FALSE, cmd) ELSE cmd)
    BY <1>7 DEF SourceAdd, SourceCommand
  <2>2. CASE Daemon
    BY <1>1, <2>1, <2>2, WalkBegins
  <2>3. CASE ~Daemon
    BY <1>2, <2>1, <2>3
  <2> QED
    BY <2>2, <2>3
<1>8. ASSUME NEW scope, NEW target, SourceRemove(c, scope, target)
      PROVE  ListingInvariant'
  <2>1. UNCHANGED command \/ \E next : Continue(c, next) /\ next.pc \in {"match", "resolve"}
    BY <1>8 DEF SourceRemove, SourceCommand
  <2> QED
    BY <1>1, <1>2, <2>1, ListingsGoOn
<1>9. CASE Resolve(c) \/ SourceInsert(c) \/ SourceMatch(c) \/ SourceDelete(c)
  <2>1. IsCommand(command[c]) /\ command[c].pc \in SourcePcs
    BY <1>9 DEF Resolve, SourceInsert, SourceMatch, SourceDelete, TablesInvariant, Pending, SourcePcs
  <2>2. command[c].then \in {"insert", "match"}
    BY <2>1 DEF IsCommand, IsSource, SourcePcs, Paging, Resting
  <2>3. PICK next : Continue(c, next) /\ next.pc \notin {"page", "insert_store", "upsert_store"}
    <3>1. CASE Resolve(c)
      BY <2>2, <3>1 DEF Resolve, Onward, SourceCommand, Resting
    <3>2. CASE SourceInsert(c)
      BY <3>2 DEF SourceInsert, Onward, SourceCommand, Resting
    <3>3. CASE SourceMatch(c)
      BY <3>3 DEF SourceMatch, Onward, SourceCommand, Resting
    <3>4. CASE SourceDelete(c)
      BY <3>4 DEF SourceDelete, Onward, SourceCommand, Resting
    <3> QED
      BY <1>9, <3>1, <3>2, <3>3, <3>4
  <2> QED
    BY <1>2, <2>3
<1> QED
  BY <1>3, <1>4, <1>5, <1>6, <1>7, <1>8, <1>9

THEOREM ListingInvariantHolds == CatalogSpec => []ListingInvariant
<1>1. CatalogInit => ListingInvariant
  BY FS_EmptySet
  DEF CatalogInit, ListingInvariant, NamesKnown, NamesFixed, Inserting, Upserting, Walked, Resting
<1>2. ASSUME TablesInvariant, ListingInvariant, [CatalogNext]_catalogVars
      PROVE  ListingInvariant'
  <2>1. ASSUME NEW c \in Clients, ClientStep(c)
        PROVE  ListingInvariant'
    BY <1>2, <2>1, StoreWritesDisturb, StoreAddListed, StorePageWalks, OtherStepListed
    DEF ClientStep, StoreStep, SourceStep
  <2>2. CASE DaemonDies
    <3>1. \A c \in Clients : command'[c] \in {Resting, command[c]}
      BY <2>2 DEF DaemonDies
    <3>2. \A c \in Clients : command'[c].pc \in {"page", "insert_store", "upsert_store"} =>
              command'[c] = command[c]
      BY <3>1 DEF Resting
    <3> QED
      BY <1>2, <2>2, <3>2, ListingsGoOn DEF DaemonDies
  <2>3. CASE DaemonStarts \/ McpStep \/ UNCHANGED catalogVars
    <3>1. UNCHANGED <<storeRows, command>>
      BY <2>3 DEF DaemonStarts, McpStep, McpStart, ToolWithStore, ToolWithoutStore, ToolListStores,
                  McpEnd, Show, catalogVars
    <3> QED
      BY <1>2, <3>1, ListingsGoOn
  <2> QED
    BY <1>2, <2>1, <2>2, <2>3 DEF CatalogNext
<1> QED
  BY <1>1, <1>2, TablesInvariantHolds, PTL DEF CatalogSpec

(* When a walk over the daemon's store list has its last page, it has every  *)
(* store that was there throughout, unless one was removed under it, and no  *)
(* store twice, unless one was added, whatever the page size and however     *)
(* many stores there are (PaginatedList::new, walk_daemon_pages).            *)
THEOREM ListingsComplete == CatalogSpec => []ListingComplete
<1>1. ASSUME ListingInvariant
      PROVE  ListingComplete
  <2> SUFFICES ASSUME NEW c \in Clients, command[c].pc = "page", command[c].offset < 0
               PROVE  LET x == command[c] IN
                      /\ ~x.shrank => x.began \subseteq Ids(ToSet(x.seen))
                      /\ ~x.grew => \A i, j \in DOMAIN x.seen : x.seen[i].id = x.seen[j].id => i = j
    BY DEF ListingComplete
  <2> DEFINE x == command[c]
  <2>1. /\ x.offset = -1
        /\ ~x.shrank => Unseen(x)
        /\ ~x.grew => Seen(x)
    BY <1>1 DEF ListingInvariant, Walked
  <2>2. ASSUME ~x.shrank, NEW id \in x.began
        PROVE  id \in Ids(ToSet(x.seen))
    <3>1. Unseen(x)
      BY <2>1, <2>2
    <3>2. PICK r \in storeRows : r.id = id
      BY <2>2, <3>1 DEF Unseen, StoresNow, Ids
    <3> QED
      BY <2>1, <2>2, <3>1, <3>2 DEF Unseen
  <2> QED
    BY <2>1, <2>2 DEF Seen
<1> QED
  BY <1>1, ListingInvariantHolds, PTL

-----------------------------------------------------------------------------
(* What is indexed in them *)

(* What one document is made of. *)
ChunkOf(r, n) ==
    [store |-> r.store, id |-> chunk_id(r.id, r.policy, n), resource_id |-> r.id, uri |-> r.uri]
BlockOf(r) == [store |-> r.store, resource_id |-> r.id]

Document(s, uri, content, policy) ==
    [store |-> s, id |-> resource_id(uri, content), uri |-> uri, policy |-> policy]

Indexed(r) == \E s \in Stores, u, c, p \in 1 .. 9 : r = Document(s, u, c, p)

(* The tables are those of their documents.  IndexIsExact speaks of          *)
(* identifiers alone; a write also needs to know that a chunk's rows carry   *)
(* its document's identifier and URI, that identifiers are addresses, and    *)
(* that even a chunk that a race left behind was once cut from a document.   *)
IsPart(c, d) == \E n \in 1 .. d.policy : c = ChunkOf(d, n)

Held(db, d, torn) ==
    /\ \E q \in db.resources : q.store = d.store /\ q.id = d.id
    /\ <<d.store, d.uri>> \notin torn => d \in db.resources

Exact(db, torn) ==
    /\ \A r \in db.resources : Indexed(r)
    /\ \A r, q \in db.resources :
          r.store = q.store /\ r.uri = q.uri /\ <<r.store, r.uri>> \notin torn => r = q
    /\ \A c \in db.chunks : \E d : Indexed(d) /\ IsPart(c, d) /\ Held(db, d, torn)
    /\ \A r \in db.resources : \A n \in 1 .. r.policy : ChunkOf(r, n) \in db.chunks
    /\ \A b \in db.blocks : \E r \in db.resources : b = BlockOf(r)
    /\ \A r \in db.resources : BlockOf(r) \in db.blocks

TablesExact == Exact(Tables, raced)

(* What a running job knows: one row for each URI at most, and every row of  *)
(* its store that is there, unless another job wrote its URI meanwhile.      *)
IsJob(x) ==
    x.store \in Stores /\ x = Underway(x.store, x.known, x.moved)

KnowsOne(x) ==
    /\ \A r \in x.known : r.store = x.store
    /\ \A r, q \in x.known : r.uri = q.uri => r = q

KnowsAll(x, rows, torn) ==
    \A r \in rows :
        r.store = x.store /\ <<r.store, r.uri>> \notin torn /\ r.uri \notin x.moved => r \in x.known

Knows(x, rows, torn) == x # NoJob => IsJob(x) /\ KnowsOne(x) /\ KnowsAll(x, rows, torn)

JobsKnow ==
    /\ jobs = [j \in Writers |-> jobs[j]]
    /\ \A j \in Writers : Knows(jobs[j], resources, raced)

-----------------------------------------------------------------------------
(* Identifiers *)

(* An indexed row's fields. *)
LEMMA IndexedFields ==
    ASSUME NEW r, Indexed(r)
    PROVE  /\ r.store \in Stores /\ r.uri \in 1 .. 9 /\ r.policy \in 1 .. 9
           /\ \E c \in 1 .. 9 : r.id = 10 * r.uri + c
           /\ r = [store |-> r.store, id |-> r.id, uri |-> r.uri, policy |-> r.policy]
BY DEF Indexed, Document, resource_id

AreParts(a, p, n) == a \in Nat /\ p \in 1 .. 9 /\ n \in 1 .. 9

(* The three parts of a chunk's identifier do not run into one another. *)
LEMMA PartsTell ==
    ASSUME NEW a, NEW p, NEW n, AreParts(a, p, n), NEW b, NEW q, NEW m, AreParts(b, q, m),
           chunk_id(a, p, n) = chunk_id(b, q, m)
    PROVE  a = b /\ p = q /\ n = m
<1>1. ~(a < b) /\ ~(b < a)
  BY DEF chunk_id, AreParts
<1>2. a = b
  BY <1>1 DEF AreParts
<1>3. 10 * p + n = 10 * q + m
  BY <1>2 DEF chunk_id, AreParts
<1> QED
  BY <1>2, <1>3 DEF AreParts

(* Content addresses tell documents apart by URI, and chunk identifiers by  *)
(* document, policy and number.                                             *)
LEMMA AddressesTell ==
    ASSUME NEW r, NEW q, Indexed(r), Indexed(q)
    PROVE  /\ r.id = q.id => r.uri = q.uri
           /\ \A n \in 1 .. r.policy, m \in 1 .. q.policy :
                chunk_id(r.id, r.policy, n) = chunk_id(q.id, q.policy, m)
                    => r.id = q.id /\ r.policy = q.policy /\ n = m
<1>1. PICK c \in 1 .. 9 : r.id = 10 * r.uri + c
  BY IndexedFields
<1>2. PICK d \in 1 .. 9 : q.id = 10 * q.uri + d
  BY IndexedFields
<1>3. /\ r.uri \in 1 .. 9 /\ r.policy \in 1 .. 9
      /\ q.uri \in 1 .. 9 /\ q.policy \in 1 .. 9
  BY IndexedFields
<1>4. r.id = q.id => r.uri = q.uri
  BY <1>1, <1>2, <1>3
<1>5. ASSUME NEW n \in 1 .. r.policy, NEW m \in 1 .. q.policy,
             chunk_id(r.id, r.policy, n) = chunk_id(q.id, q.policy, m)
      PROVE  r.id = q.id /\ r.policy = q.policy /\ n = m
  <2>1. n \in 1 .. 9 /\ m \in 1 .. 9 /\ r.id \in Nat /\ q.id \in Nat
    BY <1>1, <1>2, <1>3
  <2>2. AreParts(r.id, r.policy, n) /\ AreParts(q.id, q.policy, m)
    BY <1>3, <2>1 DEF AreParts
  <2> QED
    BY <1>5, <2>2, PartsTell
<1> QED
  BY <1>4, <1>5

(* What a document is made of: fields of its chunks and its block. *)
LEMMA Made ==
    ASSUME NEW r, NEW n
    PROVE  /\ ChunkOf(r, n).store = r.store /\ ChunkOf(r, n).resource_id = r.id
           /\ ChunkOf(r, n).id = chunk_id(r.id, r.policy, n) /\ ChunkOf(r, n).uri = r.uri
           /\ BlockOf(r).store = r.store /\ BlockOf(r).resource_id = r.id
BY DEF ChunkOf, BlockOf

-----------------------------------------------------------------------------
(* The writes *)

(* The tables without what the documents in a set are made of, each named   *)
(* by its store and identifier.                                             *)
Without(db, Goes) ==
    [resources |-> {r \in db.resources : ~(<<r.store, r.id>> \in Goes)},
     chunks |-> {c \in db.chunks : ~(<<c.store, c.resource_id>> \in Goes)},
     blocks |-> {b \in db.blocks : ~(<<b.store, b.resource_id>> \in Goes)}]

(* Whichever documents go, taking their chunks and blocks with them leaves   *)
(* the tables exact.                                                         *)
LEMMA TakingKeepsExact ==
    ASSUME NEW db, NEW torn, Exact(db, torn), NEW Goes
    PROVE  Exact(Without(db, Goes), torn)
<1> DEFINE db2 == Without(db, Goes)
<1>0. /\ db2.resources = {r \in db.resources : ~(<<r.store, r.id>> \in Goes)}
      /\ db2.chunks = {c \in db.chunks : ~(<<c.store, c.resource_id>> \in Goes)}
      /\ db2.blocks = {b \in db.blocks : ~(<<b.store, b.resource_id>> \in Goes)}
  BY DEF Without
<1> HIDE DEF db2
<1>1. /\ \A r \in db2.resources : Indexed(r)
      /\ \A r, q \in db2.resources :
            r.store = q.store /\ r.uri = q.uri /\ <<r.store, r.uri>> \notin torn => r = q
  BY <1>0 DEF Exact
<1>2. ASSUME NEW c \in db2.chunks
      PROVE  \E d : Indexed(d) /\ IsPart(c, d) /\ Held(db2, d, torn)
  <2>1. PICK d : Indexed(d) /\ IsPart(c, d) /\ Held(db, d, torn)
    BY <1>0 DEF Exact
  <2>2. c.store = d.store /\ c.resource_id = d.id
    BY <2>1, Made DEF IsPart
  <2>3. PICK q \in db.resources : q.store = d.store /\ q.id = d.id
    BY <2>1 DEF Held
  <2>4. q \in db2.resources /\ (d \in db.resources => d \in db2.resources)
    BY <1>0, <2>2, <2>3
  <2> QED
    BY <2>1, <2>3, <2>4 DEF Held
<1>3. ASSUME NEW r \in db2.resources, NEW n \in 1 .. r.policy
      PROVE  ChunkOf(r, n) \in db2.chunks
  BY <1>0, Made DEF Exact
<1>4. ASSUME NEW b \in db2.blocks
      PROVE  \E r \in db2.resources : b = BlockOf(r)
  <2>1. PICK r \in db.resources : b = BlockOf(r)
    BY <1>0 DEF Exact
  <2> QED
    BY <1>0, <2>1, Made
<1>5. \A r \in db2.resources : BlockOf(r) \in db2.blocks
  BY <1>0, Made DEF Exact
<1> QED
  BY <1>1, <1>2, <1>3, <1>4, <1>5 DEF Exact, db2

(* More may be torn, and a URI without a row need not be.                    *)
LEMMA TornAsMarked ==
    ASSUME NEW db, NEW torn, NEW marks, Exact(db, torn),
           \A r \in db.resources : <<r.store, r.uri>> \in torn => <<r.store, r.uri>> \in marks
    PROVE  Exact(db, marks)
<1>1. ASSUME NEW c \in db.chunks
      PROVE  \E d : Indexed(d) /\ IsPart(c, d) /\ Held(db, d, marks)
  <2>1. PICK d : Indexed(d) /\ IsPart(c, d) /\ Held(db, d, torn)
    BY DEF Exact
  <2>2. PICK q \in db.resources : q.store = d.store /\ q.id = d.id
    BY <2>1 DEF Held
  <2>3. q.uri = d.uri
    BY <2>1, <2>2, AddressesTell DEF Exact
  <2> QED
    BY <2>1, <2>2, <2>3 DEF Held
<1> QED
  BY <1>1 DEF Exact

LEMMA DeletingKeepsExact ==
    ASSUME NEW db, NEW torn, Exact(db, torn), NEW s, NEW id
    PROVE  Exact(delete_document_inner(db, s, id), torn)
<1>1. delete_document_inner(db, s, id) = Without(db, {<<s, id>>})
  BY DEF delete_document_inner, Without
<1> QED
  BY <1>1, TakingKeepsExact

(* Every chunk and block has a document's row. *)
LEMMA PartsHaveRows ==
    ASSUME TablesExact
    PROVE  /\ \A c \in chunks : \E r \in resources : c.store = r.store /\ c.resource_id = r.id
           /\ \A b \in blocks : \E r \in resources : b.store = r.store /\ b.resource_id = r.id
<1>1. ASSUME NEW c \in chunks
      PROVE  \E r \in resources : c.store = r.store /\ c.resource_id = r.id
  <2>1. PICK d : IsPart(c, d) /\ Held(Tables, d, raced)
    BY DEF TablesExact, Tables, Exact
  <2> QED
    BY <2>1, Made DEF IsPart, Held, Tables
<1>2. ASSUME NEW b \in blocks
      PROVE  \E r \in resources : b.store = r.store /\ b.resource_id = r.id
  <2>1. \E r \in resources : b = BlockOf(r)
    BY DEF TablesExact, Tables, Exact
  <2> QED
    BY <2>1, Made
<1> QED
  BY <1>1, <1>2

LEMMA DeletingStoreKeepsExact ==
    ASSUME TablesExact, NEW s
    PROVE  Exact([resources |-> {r \in resources : r.store # s},
                  chunks |-> {c \in chunks : c.store # s},
                  blocks |-> {b \in blocks : b.store # s}], raced)
<1> DEFINE after == [resources |-> {r \in resources : r.store # s},
                     chunks |-> {c \in chunks : c.store # s},
                     blocks |-> {b \in blocks : b.store # s}]
           Goes == {<<r.store, r.id>> : r \in {q \in resources : q.store = s}}
<1>1. \A r \in resources : r.store # s <=> <<r.store, r.id>> \notin Goes
  OBVIOUS
<1>2. \A c \in chunks : c.store # s <=> <<c.store, c.resource_id>> \notin Goes
  BY PartsHaveRows
<1>3. \A b \in blocks : b.store # s <=> <<b.store, b.resource_id>> \notin Goes
  BY PartsHaveRows
<1> HIDE DEF Goes
<1>4. after = Without(Tables, Goes)
  BY <1>1, <1>2, <1>3 DEF Tables, Without
<1> QED
  BY <1>4, TakingKeepsExact DEF TablesExact

(* A source's documents go one and all; the rows of one identifier are one. *)
LEMMA RemovingSourceKeepsExact ==
    ASSUME TablesExact, NEW rows \in SUBSET resources
    PROVE  Exact([resources |-> {r \in resources : ~\E q \in rows : q.store = r.store /\ q.id = r.id},
                  chunks |-> {c \in chunks : ~\E q \in rows : q.store = c.store /\ q.id = c.resource_id},
                  blocks |-> {b \in blocks : ~\E q \in rows : q.store = b.store /\ q.id = b.resource_id}],
                 raced)
<1> DEFINE after ==
             [resources |-> {r \in resources : ~\E q \in rows : q.store = r.store /\ q.id = r.id},
              chunks |-> {c \in chunks : ~\E q \in rows : q.store = c.store /\ q.id = c.resource_id},
              blocks |-> {b \in blocks : ~\E q \in rows : q.store = b.store /\ q.id = b.resource_id}]
           Goes == {<<q.store, q.id>> : q \in rows}
<1>1. \A s, id : <<s, id>> \in Goes <=> \E q \in rows : q.store = s /\ q.id = id
  OBVIOUS
<1> HIDE DEF Goes
<1>2. /\ after.resources = {r \in resources : <<r.store, r.id>> \notin Goes}
      /\ after.chunks = {c \in chunks : <<c.store, c.resource_id>> \notin Goes}
      /\ after.blocks = {b \in blocks : <<b.store, b.resource_id>> \notin Goes}
  BY <1>1
<1>3. after = [resources |-> after.resources, chunks |-> after.chunks, blocks |-> after.blocks]
  OBVIOUS
<1> HIDE DEF after
<1>4. after = Without(Tables, Goes)
  BY <1>2, <1>3 DEF Tables, Without
<1>5. Exact(after, raced)
  BY <1>4, TakingKeepsExact DEF TablesExact
<1> QED
  BY <1>5 DEF after

Put(db, s, uri, content, policy) ==
    LET id == resource_id(uri, content) IN
    upsert_blocks_inner(upsert_chunks_inner(db, s, uri, id, policy), s, id)

Vacant(db, s, uri) == \A r \in db.resources : ~(r.store = s /\ r.uri = uri)

CanPut(db, torn, s, uri, content, policy) ==
    /\ s \in Stores /\ {uri, content, policy} \subseteq 1 .. 9
    /\ <<s, uri>> \in torn \/ Vacant(db, s, uri)

(* What putting a document does to the tables. *)
Adds(db, new, after) ==
    /\ Indexed(new)
    /\ after.resources = {r \in db.resources : ~(r.store = new.store /\ r.id = new.id)} \cup {new}
    /\ \A c : c \in after.chunks <=>
            \/ IsPart(c, new)
            \/ c \in db.chunks /\ ~\E n \in 1 .. new.policy :
                                   c.store = new.store /\ c.id = chunk_id(new.id, new.policy, n)
    /\ after.blocks = db.blocks \cup {BlockOf(new)}

LEMMA PuttingAdds ==
    ASSUME NEW db, NEW torn, NEW s, NEW uri, NEW content, NEW policy,
           CanPut(db, torn, s, uri, content, policy)
    PROVE  /\ Adds(db, Document(s, uri, content, policy), Put(db, s, uri, content, policy))
           /\ Document(s, uri, content, policy).policy = policy
           /\ Document(s, uri, content, policy).store = s
           /\ Document(s, uri, content, policy).uri = uri
<1> DEFINE new == Document(s, uri, content, policy)
           id == resource_id(uri, content)
           ids == {chunk_id(id, policy, n) : n \in 1 .. policy}
           after == Put(db, s, uri, content, policy)
<1>1. Indexed(new)
  BY DEF Indexed, CanPut
<1>2. new.store = s /\ new.id = id /\ new.uri = uri /\ new.policy = policy
  BY DEF Document
<1>3. /\ after.resources = {r \in db.resources : ~(r.store = s /\ r.id = id)} \cup {new}
      /\ after.chunks = {c \in db.chunks : ~(c.store = s /\ c.id \in ids)}
             \cup {[store |-> s, id |-> c, resource_id |-> id, uri |-> uri] : c \in ids}
      /\ after.blocks = db.blocks \cup {[store |-> s, resource_id |-> id]}
  BY DEF Put, upsert_blocks_inner, upsert_chunks_inner, Document
<1> HIDE DEF new, after, id
<1>4. \A c : c \in {[store |-> s, id |-> i, resource_id |-> id, uri |-> uri] : i \in ids} <=> IsPart(c, new)
  BY <1>2 DEF ChunkOf, IsPart
<1>5. BlockOf(new) = [store |-> s, resource_id |-> id]
  BY <1>2 DEF BlockOf
<1>6. \A c : c.store = s /\ c.id \in ids <=>
              \E n \in 1 .. new.policy : c.store = new.store /\ c.id = chunk_id(new.id, new.policy, n)
  BY <1>2
<1> HIDE DEF ids
<1>7. \A c : c \in after.chunks <=>
            \/ IsPart(c, new)
            \/ c \in db.chunks /\ ~\E n \in 1 .. new.policy :
                                   c.store = new.store /\ c.id = chunk_id(new.id, new.policy, n)
  BY <1>3, <1>4, <1>6
<1> QED
  BY <1>1, <1>2, <1>3, <1>5, <1>7 DEF new, after, Adds

(* A document may be put where none of its URI is, or where a race is known: *)
(* its row replaces that of its identifier, and no other's chunks are        *)
(* overwritten.                                                              *)
LEMMA PuttingKeepsExact ==
    ASSUME NEW db, NEW torn, Exact(db, torn), NEW s, NEW uri, NEW content, NEW policy,
           CanPut(db, torn, s, uri, content, policy)
    PROVE  Exact(Put(db, s, uri, content, policy), torn)
<1> DEFINE new == Document(s, uri, content, policy)
           after == Put(db, s, uri, content, policy)
           clash(c) == \E n \in 1 .. new.policy : c.store = new.store /\ c.id = chunk_id(new.id, new.policy, n)
<1>0. Adds(db, new, after) /\ new.store = s /\ new.uri = uri
  BY PuttingAdds
<1>1. /\ Indexed(new)
      /\ after.resources = {r \in db.resources : ~(r.store = new.store /\ r.id = new.id)} \cup {new}
      /\ \A c : c \in after.chunks <=> IsPart(c, new) \/ (c \in db.chunks /\ ~clash(c))
      /\ after.blocks = db.blocks \cup {BlockOf(new)}
  BY <1>0 DEF Adds
<1>2. <<new.store, new.uri>> \in torn \/ Vacant(db, new.store, new.uri)
  BY <1>0 DEF CanPut
<1>3. ASSUME NEW r, Indexed(r), r.store = new.store, r.id = new.id
      PROVE  r.uri = new.uri
  BY <1>1, <1>3, AddressesTell
<1> HIDE DEF new, after
<1>4. \A r \in after.resources : Indexed(r)
  BY <1>1 DEF Exact
<1>5. \A r, q \in after.resources :
          r.store = q.store /\ r.uri = q.uri /\ <<r.store, r.uri>> \notin torn => r = q
  BY <1>1, <1>2 DEF Exact, Vacant
<1>6. ASSUME NEW c \in after.chunks
      PROVE  \E d : Indexed(d) /\ IsPart(c, d) /\ Held(after, d, torn)
  <2>1. CASE IsPart(c, new)
    BY <1>1, <2>1 DEF Held
  <2>2. CASE c \in db.chunks
    <3>1. PICK d : Indexed(d) /\ IsPart(c, d) /\ Held(db, d, torn)
      BY <2>2 DEF Exact
    <3>2. PICK q \in db.resources : q.store = d.store /\ q.id = d.id
      BY <3>1 DEF Held
    <3>3. \E r \in after.resources : r.store = d.store /\ r.id = d.id
      BY <1>1, <3>2
    <3>4. ASSUME <<d.store, d.uri>> \notin torn
          PROVE  d \in after.resources
      <4>1. d \in db.resources
        BY <3>1, <3>4 DEF Held
      <4>2. ~(d.store = new.store /\ d.id = new.id)
        BY <1>2, <1>3, <3>1, <3>4, <4>1 DEF Vacant
      <4> QED
        BY <1>1, <4>1, <4>2
    <3> QED
      BY <3>1, <3>3, <3>4 DEF Held
  <2> QED
    BY <1>1, <2>1, <2>2
<1>7. ASSUME NEW r \in after.resources, NEW n \in 1 .. r.policy
      PROVE  ChunkOf(r, n) \in after.chunks
  <2>1. CASE r = new
    BY <1>1, <2>1 DEF IsPart
  <2>2. CASE r \in db.resources /\ ~(r.store = new.store /\ r.id = new.id)
    <3>1. ChunkOf(r, n) \in db.chunks /\ Indexed(r)
      BY <2>2 DEF Exact
    <3>2. ~clash(ChunkOf(r, n))
      BY <1>1, <2>2, <3>1, AddressesTell, Made
    <3> QED
      BY <1>1, <3>1, <3>2
  <2> QED
    BY <1>1, <2>1, <2>2
<1>8. ASSUME NEW b \in after.blocks
      PROVE  \E r \in after.resources : b = BlockOf(r)
  <2>1. CASE b = BlockOf(new)
    BY <1>1, <2>1
  <2>2. CASE b \in db.blocks
    <3>1. PICK r \in db.resources : b = BlockOf(r)
      BY <2>2 DEF Exact
    <3>2. CASE r.store = new.store /\ r.id = new.id
      BY <1>1, <3>1, <3>2 DEF BlockOf
    <3> QED
      BY <1>1, <3>1, <3>2
  <2> QED
    BY <1>1, <2>1, <2>2
<1>9. \A r \in after.resources : BlockOf(r) \in after.blocks
  BY <1>1 DEF Exact
<1> QED
  BY <1>4, <1>5, <1>6, <1>7, <1>8, <1>9 DEF Exact, after

(* The transaction that indexes a document: what the job knows under its URI *)
(* goes first, whether under another identifier, under its own, or not at    *)
(* all.  What is there without the job knowing it stays: then another job    *)
(* has written the URI meanwhile.                                            *)
LEMMA IndexingKeepsExact ==
    ASSUME NEW torn, Exact(Tables, torn), NEW s \in Stores, NEW uri \in 1 .. 9,
           NEW content \in 1 .. 9, NEW policy \in 1 .. 9, NEW known,
           \A r, q \in known : r = q,
           \A r \in resources : r.store = s /\ r.uri = uri /\ <<s, uri>> \notin torn => r \in known
    PROVE  Exact(upsert_chunks_and_blocks(s, uri, resource_id(uri, content), policy,
                                          {r.id : r \in known}), torn)
<1> DEFINE id == resource_id(uri, content)
           replaces == {r.id : r \in known}
           indexed == upsert_chunks_and_blocks(s, uri, id, policy, replaces)
<1>1. Tables.resources = resources
  BY DEF Tables
<1>2. CASE known = {}
  <2>1. indexed = Put(Tables, s, uri, content, policy)
    BY <1>2 DEF upsert_chunks_and_blocks, Put
  <2>2. CanPut(Tables, torn, s, uri, content, policy)
    BY <1>1, <1>2 DEF CanPut, Vacant
  <2> QED
    BY <2>1, <2>2, PuttingKeepsExact
<1>3. CASE known # {}
  <2>0. PICK old : old \in known
    BY <1>3
  <2>1. known = {old}
    BY <2>0
  <2>3. replaces = {old.id}
    BY <2>1
  <2> DEFINE cleared == Without(Tables, {<<s, old.id>>})
  <2>4. Exact(cleared, torn)
    BY TakingKeepsExact
  <2>5. CanPut(cleared, torn, s, uri, content, policy)
    BY <2>1, <1>1 DEF CanPut, Vacant, Without
  <2>6. Exact(Put(cleared, s, uri, content, policy), torn)
    BY <2>4, <2>5, PuttingKeepsExact
  <2>7. CASE old.id # id
    <3>1. delete_document_inner(Tables, s, old.id) = cleared
      BY DEF delete_document_inner, Without
    <3>2. (CHOOSE o \in replaces : TRUE) = old.id /\ replaces # {} /\ replaces # {id}
      BY <2>3, <2>7
    <3>3. indexed = Put(cleared, s, uri, content, policy)
      BY <3>1, <3>2 DEF upsert_chunks_and_blocks, Put
    <3> QED
      BY <2>6, <3>3
  <2>8. CASE old.id = id
    <3> DEFINE kept == delete_chunks_and_blocks_inner(Tables, s, id)
    <3>1. indexed = Put(kept, s, uri, content, policy)
      BY <2>3, <2>8 DEF upsert_chunks_and_blocks, Put
    <3>2. /\ kept.chunks = cleared.chunks /\ kept.blocks = cleared.blocks
          /\ {r \in kept.resources : ~(r.store = s /\ r.id = id)}
                = {r \in cleared.resources : ~(r.store = s /\ r.id = id)}
      BY <2>8 DEF delete_chunks_and_blocks_inner, Without, Tables
    <3>3. Put(kept, s, uri, content, policy) = Put(cleared, s, uri, content, policy)
      BY <3>2 DEF Put, upsert_blocks_inner, upsert_chunks_inner, delete_chunks_and_blocks_inner,
                  Without, Tables
    <3> QED
      BY <2>6, <3>1, <3>3
  <2> QED
    BY <2>7, <2>8
<1> QED
  BY <1>2, <1>3

-----------------------------------------------------------------------------
(* Every step *)

(* A commit of exact tables, when no more URIs are torn than it marks. *)
LEMMA CommittingKeepsExact ==
    ASSUME NEW db, NEW behind, Exact(db, raced \cup behind), Commit(db, behind)
    PROVE  /\ TablesExact'
           /\ resources' = db.resources
           /\ \A r \in db.resources : <<r.store, r.uri>> \in raced' <=> <<r.store, r.uri>> \in raced \cup behind
<1>1. /\ resources' = db.resources /\ chunks' = db.chunks /\ blocks' = db.blocks
      /\ raced' = {k \in raced \cup behind : \E r \in db.resources : <<r.store, r.uri>> = k}
  BY DEF Commit
<1>2. \A r \in db.resources : <<r.store, r.uri>> \in raced' <=> <<r.store, r.uri>> \in raced \cup behind
  BY <1>1
<1>3. PICK marks : marks = raced'
  OBVIOUS
<1>4. Exact(db, marks)
  BY <1>2, <1>3, TornAsMarked
<1>5. Exact(Tables, raced)' = Exact(db, marks)
  BY <1>1, <1>3 DEF Exact, Tables, Held
<1> QED
  BY <1>1, <1>2, <1>4, <1>5 DEF TablesExact

LEMMA ReadersWriteNothing ==
    ASSUME Reading
    PROVE  UNCHANGED <<tables, jobVars>>
<1>1. ASSUME NEW q \in Queries, Ask(q[1], q[2], q[3], q[4])
      PROVE  UNCHANGED <<tables, jobVars>>
  BY <1>1 DEF Ask, BeginReading
<1>2. CASE DenseSearch
  BY <1>2 DEF DenseSearch
<1>3. CASE ExactScan
  BY <1>3 DEF ExactScan
<1>4. CASE Bm25Search
  BY <1>4 DEF Bm25Search
<1>5. CASE Answer \/ NextPage
  BY <1>5 DEF Answer, NextPage
<1>6. ASSUME NEW scope \in SUBSET Stores, NEW r \in resources, FindDocument(scope, r.id)
      PROVE  UNCHANGED <<tables, jobVars>>
  <2>1. \E q \in resources : r.id = q.id /\ UNCHANGED <<tables, jobVars>>
    <3> DEFINE rows == {q \in resources : q.id = r.id /\ (Cardinality(scope) = 1 => q.store \in scope)}
    <3>1. Cardinality(rows) = 1 /\ \A q \in rows : UNCHANGED <<tables, jobVars>>
      BY <1>6 DEF FindDocument, BeginReading
    <3>2. rows # {}
      BY <3>1, FS_EmptySet
    <3> QED
      BY <3>1, <3>2
  <2> QED
    BY <2>1
<1>7. CASE GetChunks \/ GetBlocks \/ Done
  BY <1>7 DEF GetChunks, GetBlocks, Done
<1> QED
  BY <1>1, <1>2, <1>3, <1>4, <1>5, <1>6, <1>7 DEF Reading

(* The fields of a job. *)
LEMMA RunningJob ==
    ASSUME NEW s \in Stores, NEW known, NEW moved
    PROVE  /\ IsJob(Underway(s, known, moved)) /\ Underway(s, known, moved).store = s
           /\ Underway(s, known, moved).known = known /\ Underway(s, known, moved).moved = moved
BY DEF IsJob, Underway

(* A removal takes rows away and leaves the jobs as they are. *)
LEMMA FewerRowsKnown ==
    ASSUME JobsKnow, resources' \subseteq resources, jobs' = jobs,
           \A r \in resources' : <<r.store, r.uri>> \in raced' <=> <<r.store, r.uri>> \in raced
    PROVE  JobsKnow'
<1>1. ASSUME NEW j \in Writers
      PROVE  Knows(jobs[j], resources, raced)'
  <2>1. Knows(jobs[j], resources, raced)
    BY DEF JobsKnow
  <2> QED
    BY <2>1 DEF Knows, KnowsAll
<1> QED
  BY <1>1 DEF JobsKnow

LEMMA StartKeeps ==
    ASSUME TablesExact, JobsKnow, NEW j \in Writers, NEW s \in Stores, StartJob(j, s)
    PROVE  TablesExact' /\ JobsKnow'
<1> DEFINE rows == {r \in resources : r.store = s}
           uris == {r.uri : r \in rows}
<1>1. PICK last \in [uris -> rows] :
        /\ \A u \in uris : last[u].uri = u
        /\ jobs' = [jobs EXCEPT ![j] = Underway(s, {last[u] : u \in uris}, {})]
  BY DEF StartJob
<1>2. resources' = resources /\ chunks' = chunks /\ blocks' = blocks /\ raced' = raced
  BY DEF StartJob, tables
<1>3. TablesExact'
  BY <1>2 DEF TablesExact, Tables, Exact, Held
<1> DEFINE x == Underway(s, {last[u] : u \in uris}, {})
<1>4. Knows(x, resources, raced)
  <2>1. IsJob(x) /\ x.store = s /\ x.known = {last[u] : u \in uris} /\ x.moved = {}
    BY RunningJob
  <2> HIDE DEF x
  <2>2. KnowsOne(x)
    BY <1>1, <2>1 DEF KnowsOne
  <2>3. KnowsAll(x, resources, raced)
    <3> SUFFICES ASSUME NEW r \in resources, r.store = s, <<r.store, r.uri>> \notin raced
                 PROVE  r \in {last[u] : u \in uris}
      BY <2>1 DEF KnowsAll
    <3>1. r.uri \in uris /\ last[r.uri] \in resources /\ last[r.uri].store = s /\ last[r.uri].uri = r.uri
      BY <1>1
    <3>2. last[r.uri] = r
      BY <3>1 DEF TablesExact, Tables, Exact
    <3> QED
      BY <3>1, <3>2
  <2> QED
    BY <2>1, <2>2, <2>3 DEF Knows
<1> HIDE DEF x
<1>5. jobs' = [k \in Writers |-> IF k = j THEN x ELSE jobs[k]]
  BY <1>1 DEF JobsKnow, x
<1>6. JobsKnow'
  BY <1>2, <1>4, <1>5 DEF JobsKnow
<1> QED
  BY <1>3, <1>6

LEMMA EndKeeps ==
    ASSUME TablesExact, JobsKnow, NEW j \in Writers, EndJob(j)
    PROVE  TablesExact' /\ JobsKnow'
<1>1. /\ resources' = resources /\ chunks' = chunks /\ blocks' = blocks /\ raced' = raced
      /\ jobs' = [jobs EXCEPT ![j] = NoJob]
  BY DEF EndJob, tables
<1>2. TablesExact'
  BY <1>1 DEF TablesExact, Tables, Exact, Held
<1>3. jobs' = [k \in Writers |-> IF k = j THEN NoJob ELSE jobs[k]]
  BY <1>1 DEF JobsKnow
<1>4. JobsKnow'
  BY <1>1, <1>3 DEF JobsKnow, Knows
<1> QED
  BY <1>2, <1>4

LEMMA IndexKeeps ==
    ASSUME TablesExact, JobsKnow, NEW j \in Writers, NEW s \in Stores, NEW uri \in 1 .. 9,
           NEW content \in 1 .. 9, NEW policy \in 1 .. 9, IndexDocument(j, s, uri, content, policy)
    PROVE  TablesExact' /\ JobsKnow'
<1> DEFINE id == resource_id(uri, content)
           row == [store |-> s, id |-> id, uri |-> uri, policy |-> policy]
           known == Known(j, uri)
           behind == IF uri \in jobs[j].moved THEN {<<s, uri>>} ELSE {}
           db == upsert_chunks_and_blocks(s, uri, id, policy, {r.id : r \in known})
<1>1. /\ jobs[j] # NoJob /\ jobs[j].store = s /\ Commit(db, behind)
      /\ jobs' = [k \in Writers |-> IF k = j THEN Recorded(j, row) ELSE Overtaken(k, s, uri)]
  BY DEF IndexDocument
<1>2. IsJob(jobs[j]) /\ KnowsOne(jobs[j]) /\ KnowsAll(jobs[j], resources, raced)
  BY <1>1 DEF JobsKnow, Knows
<1>3. \A r, q \in known : r = q
  BY <1>2 DEF KnowsOne, Known
<1>4. \A r \in resources : r.store = s /\ r.uri = uri /\ <<s, uri>> \notin raced \cup behind => r \in known
  BY <1>1, <1>2 DEF KnowsAll, Known
<1>5. Exact(Tables, raced \cup behind)
  BY TornAsMarked DEF TablesExact
<1>6. Exact(db, raced \cup behind)
  <2> HIDE DEF known, behind
  <2> QED
    BY <1>3, <1>4, <1>5, IndexingKeepsExact
<1>7. /\ TablesExact' /\ resources' = db.resources
      /\ \A r \in db.resources : <<r.store, r.uri>> \in raced' <=> <<r.store, r.uri>> \in raced \cup behind
  BY <1>1, <1>6, CommittingKeepsExact
<1>8. db.resources \subseteq resources \cup {row} /\ row \in db.resources
  BY DEF upsert_chunks_and_blocks, upsert_blocks_inner, upsert_chunks_inner,
         delete_document_inner, delete_chunks_and_blocks_inner, Tables
<1>9. row.store = s /\ row.uri = uri
  OBVIOUS
<1> HIDE DEF db, row, behind, id
<1>10. ASSUME NEW k \in Writers
       PROVE  Knows(jobs[k], resources, raced)'
  <2>1. CASE k = j
    <3> DEFINE x == Underway(s, (jobs[j].known \ known) \cup {row}, jobs[j].moved \ {uri})
    <3>1. jobs[k]' = x
      <4>1. Recorded(j, row) = x
        BY <1>9 DEF Recorded
      <4> QED
        BY <1>1, <2>1, <4>1
    <3>2. x.store = s /\ x.known = (jobs[j].known \ known) \cup {row} /\ x.moved = jobs[j].moved \ {uri} /\ IsJob(x)
      BY RunningJob
    <3> HIDE DEF x
    <3>3. KnowsOne(x)
      BY <1>1, <1>2, <1>9, <3>2 DEF KnowsOne, Known
    <3>4. KnowsAll(x, resources', raced')
      <4> SUFFICES ASSUME NEW r \in resources', r.store = s, <<r.store, r.uri>> \notin raced', r.uri \notin x.moved
                   PROVE  r \in x.known
        BY <3>2 DEF KnowsAll
      <4>1. <<r.store, r.uri>> \notin raced /\ (r.uri = uri => uri \notin jobs[j].moved)
        BY <1>7 DEF behind
      <4>2. CASE r.uri = uri
        <5>1. r = row
          BY <1>7, <1>8, <1>9, <4>2 DEF TablesExact, Tables, Exact
        <5> QED
          BY <3>2, <5>1
      <4>3. CASE r.uri # uri
        <5>1. r \in resources /\ r.uri \notin jobs[j].moved
          BY <1>7, <1>8, <1>9, <3>2, <4>3
        <5>2. r \in jobs[j].known /\ r \notin known
          BY <1>1, <1>2, <4>1, <4>3, <5>1 DEF KnowsAll, Known
        <5> QED
          BY <3>2, <5>2
      <4> QED
        BY <4>2, <4>3
    <3> QED
      BY <3>1, <3>2, <3>3, <3>4 DEF Knows
  <2>2. CASE k # j /\ jobs[k] # NoJob /\ jobs[k].store = s
    <3> DEFINE x == Underway(s, jobs[k].known, jobs[k].moved \cup {uri})
    <3>0. IsJob(jobs[k]) /\ KnowsOne(jobs[k]) /\ KnowsAll(jobs[k], resources, raced)
      BY <2>2 DEF JobsKnow, Knows
    <3>1. jobs[k]' = x
      <4>1. Overtaken(k, s, uri) = x
        BY <2>2 DEF Overtaken
      <4> QED
        BY <1>1, <2>2, <4>1
    <3>2. x.store = s /\ x.known = jobs[k].known /\ x.moved = jobs[k].moved \cup {uri} /\ IsJob(x)
      BY RunningJob
    <3> HIDE DEF x
    <3>3. KnowsOne(x)
      BY <2>2, <3>0, <3>2 DEF KnowsOne
    <3>4. KnowsAll(x, resources', raced')
      <4> SUFFICES ASSUME NEW r \in resources', r.store = s, <<r.store, r.uri>> \notin raced', r.uri \notin x.moved
                   PROVE  r \in x.known
        BY <3>2 DEF KnowsAll
      <4>1. r \in resources /\ <<r.store, r.uri>> \notin raced
        BY <1>7, <1>8, <1>9, <3>2
      <4> QED
        BY <2>2, <3>0, <3>2, <4>1 DEF KnowsAll
    <3> QED
      BY <3>1, <3>2, <3>3, <3>4 DEF Knows
  <2>3. CASE k # j /\ ~(jobs[k] # NoJob /\ jobs[k].store = s)
    <3>1. jobs[k]' = jobs[k]
      <4>1. Overtaken(k, s, uri) = jobs[k]
        BY <2>3 DEF Overtaken
      <4> QED
        BY <1>1, <2>3, <4>1
    <3> SUFFICES ASSUME jobs[k] # NoJob
                 PROVE  KnowsAll(jobs[k], resources', raced')
      BY <3>1 DEF JobsKnow, Knows
    <3>2. jobs[k].store # s
      BY <2>3
    <3>3. KnowsAll(jobs[k], resources, raced)
      BY DEF JobsKnow, Knows
    <3>4. \A r \in resources' : r.store # s => r \in resources /\ (<<r.store, r.uri>> \in raced => <<r.store, r.uri>> \in raced')
      BY <1>7, <1>8, <1>9
    <3> QED
      BY <3>2, <3>3, <3>4 DEF KnowsAll
  <2> QED
    BY <2>1, <2>2, <2>3
<1>11. jobs' = [k \in Writers |-> jobs'[k]]
  BY <1>1
<1> QED
  BY <1>7, <1>10, <1>11 DEF JobsKnow

LEMMA PruneKeeps ==
    ASSUME TablesExact, JobsKnow, NEW j \in Writers, NEW row, PruneDocument(j, row)
    PROVE  TablesExact' /\ JobsKnow'
<1> DEFINE db == delete_document_inner(Tables, row.store, row.id)
           x == Underway(jobs[j].store, jobs[j].known \ {row}, jobs[j].moved)
<1>1. /\ jobs[j] # NoJob /\ row \in jobs[j].known /\ Commit(db, {})
      /\ jobs' = [jobs EXCEPT ![j] = x]
  BY DEF PruneDocument
<1>2. Exact(db, raced \cup {})
  BY DeletingKeepsExact DEF TablesExact
<1>3. /\ TablesExact' /\ resources' = db.resources
      /\ \A r \in db.resources : <<r.store, r.uri>> \in raced' <=> <<r.store, r.uri>> \in raced
  BY <1>1, <1>2, CommittingKeepsExact
<1>4. db.resources = {r \in resources : ~(r.store = row.store /\ r.id = row.id)}
  BY DEF delete_document_inner, Tables
<1>5. IsJob(jobs[j]) /\ KnowsOne(jobs[j]) /\ KnowsAll(jobs[j], resources, raced)
  BY <1>1 DEF JobsKnow, Knows
<1>6. jobs' = [k \in Writers |-> IF k = j THEN x ELSE jobs[k]]
  BY <1>1 DEF JobsKnow
<1>7. x.store = jobs[j].store /\ x.known = jobs[j].known \ {row} /\ x.moved = jobs[j].moved /\ IsJob(x)
  <2>1. jobs[j].store \in Stores
    BY <1>5 DEF IsJob
  <2> QED
    BY <2>1, RunningJob
<1> HIDE DEF db, x
<1>8. Knows(x, resources', raced')
  <2>1. KnowsOne(x)
    BY <1>5, <1>7 DEF KnowsOne
  <2>2. KnowsAll(x, resources', raced')
    <3> SUFFICES ASSUME NEW r \in resources', r.store = jobs[j].store, <<r.store, r.uri>> \notin raced',
                        r.uri \notin jobs[j].moved
                 PROVE  r \in jobs[j].known /\ r # row
      BY <1>7 DEF KnowsAll
    <3>1. r \in resources /\ <<r.store, r.uri>> \notin raced /\ r # row
      BY <1>3, <1>4
    <3> QED
      BY <1>5, <3>1 DEF KnowsAll
  <2> QED
    BY <1>7, <2>1, <2>2 DEF Knows
<1>9. ASSUME NEW k \in Writers, k # j
      PROVE  Knows(jobs[k], resources', raced')
  <2>1. Knows(jobs[k], resources, raced)
    BY DEF JobsKnow
  <2> QED
    BY <1>3, <1>4, <2>1 DEF Knows, KnowsAll
<1>10. JobsKnow'
  BY <1>6, <1>8, <1>9 DEF JobsKnow
<1> QED
  BY <1>3, <1>10

LEMMA RemovalKeeps ==
    ASSUME TablesExact, JobsKnow, Removal
    PROVE  TablesExact' /\ JobsKnow'
<1>1. ASSUME NEW db, Exact(db, raced \cup {}), db.resources \subseteq resources, Commit(db, {}), UNCHANGED jobs
      PROVE  TablesExact' /\ JobsKnow'
  <2>1. /\ TablesExact' /\ resources' = db.resources
        /\ \A r \in db.resources : <<r.store, r.uri>> \in raced' <=> <<r.store, r.uri>> \in raced
    BY <1>1, CommittingKeepsExact
  <2> QED
    BY <1>1, <2>1, FewerRowsKnown
<1>2. ASSUME NEW rows \in SUBSET resources, RemoveSource(rows)
      PROVE  TablesExact' /\ JobsKnow'
  <2> DEFINE db == [resources |-> {r \in resources : ~\E q \in rows : q.store = r.store /\ q.id = r.id},
                    chunks |-> {c \in chunks : ~\E q \in rows : q.store = c.store /\ q.id = c.resource_id},
                    blocks |-> {b \in blocks : ~\E q \in rows : q.store = b.store /\ q.id = b.resource_id}]
  <2>1. Commit(db, {}) /\ UNCHANGED jobs
    BY <1>2 DEF RemoveSource
  <2>2. Exact(db, raced \cup {})
    BY RemovingSourceKeepsExact
  <2>3. db.resources \subseteq resources
    OBVIOUS
  <2> HIDE DEF db
  <2> QED
    BY <1>1, <2>1, <2>2, <2>3
<1>3. ASSUME NEW s \in Stores, DeleteByStore(s)
      PROVE  TablesExact' /\ JobsKnow'
  <2> DEFINE db == [resources |-> {r \in resources : r.store # s},
                    chunks |-> {c \in chunks : c.store # s},
                    blocks |-> {b \in blocks : b.store # s}]
  <2>1. Commit(db, {}) /\ UNCHANGED jobs
    BY <1>3 DEF DeleteByStore
  <2>2. Exact(db, raced \cup {})
    BY DeletingStoreKeepsExact
  <2>3. db.resources \subseteq resources
    OBVIOUS
  <2> HIDE DEF db
  <2> QED
    BY <1>1, <2>1, <2>2, <2>3
<1> QED
  BY <1>2, <1>3 DEF Removal

(* Whatever a write transaction replaces or deletes (tenant/write.rs), and   *)
(* however old the index a job decides by, the tables are those of their     *)
(* documents; a job that no other overtook knows every row of its store.     *)
THEOREM TablesStayExact == RetrievalSpec => [](TablesExact /\ JobsKnow)
<1>1. RetrievalInit => TablesExact /\ JobsKnow
  BY DEF RetrievalInit, TablesExact, Tables, Exact, JobsKnow, Knows
<1>2. TablesExact /\ JobsKnow /\ [RetrievalNext]_retrievalVars => TablesExact' /\ JobsKnow'
  <2> SUFFICES ASSUME TablesExact, JobsKnow, [RetrievalNext]_retrievalVars
               PROVE  TablesExact' /\ JobsKnow'
    OBVIOUS
  <2>1. ASSUME NEW j \in Writers, JobStep(j)
        PROVE  TablesExact' /\ JobsKnow'
    <3>1. ASSUME NEW v \in Versions, IndexDocument(j, v[1], v[2], v[3], v[4])
          PROVE  TablesExact' /\ JobsKnow'
      <4>1. v[1] \in Stores /\ v[2] \in 1 .. 9 /\ v[3] \in 1 .. 9 /\ v[4] \in 1 .. 9
        BY RetrievalAssumption
      <4> QED
        BY <3>1, <4>1, IndexKeeps
    <3> QED
      BY <2>1, <3>1, StartKeeps, EndKeeps, PruneKeeps DEF JobStep
  <2>2. CASE Removal
    BY <2>2, RemovalKeeps
  <2>3. CASE UNCHANGED <<tables, jobVars>>
    BY <2>3 DEF tables, jobVars, TablesExact, Tables, Exact, Held, JobsKnow, Knows
  <2>4. UNCHANGED retrievalVars => UNCHANGED <<tables, jobVars>>
    BY DEF retrievalVars, tables, jobVars
  <2> QED
    BY <2>1, <2>2, <2>3, <2>4, ReadersWriteNothing DEF RetrievalNext
<1> QED
  BY <1>1, <1>2, PTL DEF RetrievalSpec

(* Whatever documents replaced one another, deleted one by one, with their   *)
(* source or with their whole store, by jobs whose index is as old as it may *)
(* be: every document has its policy's chunks and its blocks, no chunk or    *)
(* block belongs to nothing, and a URI of a store has one resource, with no  *)
(* chunk of another policy, unless one job overtook another there.           *)
THEOREM IndexedExactly == RetrievalSpec => []IndexIsExact
<1>1. ASSUME TablesExact
      PROVE  IndexIsExact
  <2> DEFINE alone(x) == <<x.store, x.uri>> \notin raced
             cut(r) == {chunk_id(r.id, r.policy, n) : n \in 1 .. r.policy}
  <2>1. \A r, q \in resources : r.store = q.store /\ r.uri = q.uri /\ alone(r) => r = q
    BY <1>1 DEF TablesExact, Tables, Exact
  <2>2. ASSUME NEW r \in resources, NEW id \in cut(r)
        PROVE  \E c \in chunks : c.store = r.store /\ c.id = id
    <3>1. PICK n \in 1 .. r.policy : id = chunk_id(r.id, r.policy, n)
      OBVIOUS
    <3>2. ChunkOf(r, n) \in chunks
      BY <1>1 DEF TablesExact, Tables, Exact
    <3> QED
      BY <3>1, <3>2, Made
  <2>3. ASSUME NEW c \in chunks
        PROVE  \E r \in resources :
                  c.store = r.store /\ c.resource_id = r.id /\ (alone(c) => c.id \in cut(r))
    <3>1. PICK d : Indexed(d) /\ IsPart(c, d) /\ Held(Tables, d, raced)
      BY <1>1 DEF TablesExact, Tables, Exact
    <3>2. c.store = d.store /\ c.resource_id = d.id /\ c.uri = d.uri /\ c.id \in cut(d)
      BY <3>1, Made DEF IsPart
    <3>3. PICK q \in resources : q.store = d.store /\ q.id = d.id
      BY <3>1 DEF Held, Tables
    <3>4. alone(c) => d \in resources
      BY <3>1, <3>2 DEF Held, Tables
    <3> QED
      BY <3>2, <3>3, <3>4
  <2>4. {<<b.store, b.resource_id>> : b \in blocks} = {<<r.store, r.id>> : r \in resources}
    <3>1. ASSUME NEW b \in blocks
          PROVE  \E r \in resources : <<b.store, b.resource_id>> = <<r.store, r.id>>
      <4>1. \E r \in resources : b = BlockOf(r)
        BY <1>1 DEF TablesExact, Tables, Exact
      <4> QED
        BY <4>1, Made
    <3>2. ASSUME NEW r \in resources
          PROVE  \E b \in blocks : <<b.store, b.resource_id>> = <<r.store, r.id>>
      <4>1. BlockOf(r) \in blocks
        BY <1>1 DEF TablesExact, Tables, Exact
      <4> QED
        BY <4>1, Made
    <3> QED
      BY <3>1, <3>2
  <2> QED
    BY <2>1, <2>2, <2>3, <2>4 DEF IndexIsExact
<1> QED
  BY <1>1, TablesStayExact, PTL

-----------------------------------------------------------------------------
(* Fusion *)

ChunkIds == {chunk_id(resource_id(u, c), p, n) : u, c, p, n \in 1 .. 9}
Hit == [store : Stores, id : ChunkIds, score : Int]

LEMMA Scores ==
    ASSUME NEW id \in ChunkIds
    PROVE  id \in Nat /\ Similarity(id) \in Int /\ Relevance(id) \in Nat
<1>1. PICK u, c, p, n \in 1 .. 9 : id = chunk_id(resource_id(u, c), p, n)
  BY DEF ChunkIds
<1>2. id \in Nat
  BY <1>1 DEF chunk_id, resource_id
<1> QED
  BY <1>1, <1>2, RetrievalAssumption

(* The scale is a product of numbers. *)
LEMMA ScaleIsNumber == Scale \in Int
<1> DEFINE product == CHOOSE g : g = [n \in Nat |-> IF n = 0 THEN 1 ELSE g[n - 1] * (RrfK + n)]
           step == [p \in Nat \X Int |-> p[2] * (RrfK + (p[1] + 1))]
<1>1. RrfK \in Nat /\ 2 * LegK * Cardinality(Stores) \in Nat
  <2>1. RrfK \in Nat /\ LegK \in Nat /\ IsFiniteSet(Stores)
    BY RetrievalAssumption
  <2> QED
    BY <2>1, FS_CardinalityType
<1>2. IsStep(step, Int) /\ \A n \in Nat, v \in Int : step[<<n, v>>] = v * (RrfK + (n + 1))
  BY <1>1 DEF IsStep
<1>3. PICK f : Iterates(f, Int, 1, step)
  <2> HIDE DEF step
  <2>1. 1 \in Int
    OBVIOUS
  <2> QED
    BY <1>2, <2>1, Recursion
<1> HIDE DEF step
<1>4. f = [n \in Nat |-> IF n = 0 THEN 1 ELSE f[n - 1] * (RrfK + n)]
  <2>1. ASSUME NEW n \in Nat, n # 0
        PROVE  f[n] = f[n - 1] * (RrfK + n)
    <3>1. n - 1 \in Nat /\ (n - 1) + 1 = n /\ f[n - 1] \in Int
      BY <1>3, <2>1 DEF Iterates
    <3>2. f[n] = step[<<n - 1, f[n - 1]>>]
      BY <1>3, <3>1 DEF Iterates
    <3> QED
      BY <1>2, <3>1, <3>2
  <2> QED
    BY <1>3, <2>1 DEF Iterates
<1>5. product = [n \in Nat |-> IF n = 0 THEN 1 ELSE product[n - 1] * (RrfK + n)]
  BY <1>4
<1> HIDE DEF product
<1> DEFINE Numbers == {n \in Nat : product[n] \in Int}
<1>6. 0 \in Numbers
  BY <1>5
<1>7. ASSUME NEW n \in Nat, n \in Numbers
      PROVE  n + 1 \in Numbers
  <2>1. product[n + 1] = product[n] * (RrfK + (n + 1))
    BY <1>5
  <2> QED
    BY <1>1, <1>7, <2>1
<1> HIDE DEF Numbers
<1>8. Nat \subseteq Numbers
  BY <1>6, <1>7, Induction
<1> QED
  BY <1>1, <1>8 DEF Scale, product, Numbers

LEMMA RankIsNumber ==
    ASSUME NEW pool \in Seq(Hit), NEW i \in 1 .. Len(pool)
    PROVE  Rank(pool, i) \in Nat
<1> DEFINE A == {j \in DOMAIN pool : Ahead(pool[j], pool[i])}
           B == {j \in 1 .. i - 1 : ~Ahead(pool[i], pool[j]) /\ ~Ahead(pool[j], pool[i])}
<1>1. PICK n \in Nat : n = Len(pool) /\ DOMAIN pool = 1 .. n /\ i - 1 \in Nat
  OBVIOUS
<1>2. IsFiniteSet(1 .. n) /\ IsFiniteSet(1 .. i - 1)
  BY <1>1, FS_Interval
<1>3. A \in SUBSET (1 .. n) /\ B \in SUBSET (1 .. i - 1)
  BY <1>1
<1> HIDE DEF A, B
<1>4. Cardinality(A) \in Nat /\ Cardinality(B) \in Nat
  BY <1>2, <1>3, FS_Subset, FS_CardinalityType
<1> QED
  BY <1>4 DEF Rank, A, B

LEMMA ShareIsNumber ==
    ASSUME NEW pool \in Seq(Hit), NEW i \in 1 .. Len(pool)
    PROVE  rrf_score(Rank(pool, i)) \in Int
<1>1. Rank(pool, i) \in Nat /\ Scale \in Int /\ RrfK \in Nat
  BY RankIsNumber, ScaleIsNumber, RetrievalAssumption
<1>2. RrfK + Rank(pool, i) + 1 \in Nat \ {0}
  BY <1>1
<1> QED
  BY <1>1, <1>2 DEF rrf_score

(* What a leg adds to a score is a sum of numbers. *)
LEMMA LegIsNumber ==
    ASSUME NEW pool \in Seq(Hit), NEW key
    PROVE  add_leg(pool, key) \in Int
<1>1. PICK len \in Nat : len = Len(pool)
  OBVIOUS
<1> DEFINE share(i) == IF fusion_key(pool[i]) = key THEN rrf_score(Rank(pool, i)) ELSE 0
           total == CHOOSE g : g = [n \in 0 .. len |-> IF n = 0 THEN 0 ELSE g[n - 1] + share(n)]
           step == [p \in Nat \X Int |-> IF p[1] + 1 \in 1 .. len THEN p[2] + share(p[1] + 1) ELSE 0]
<1>2. \A i \in 1 .. len : share(i) \in Int
  BY <1>1, ShareIsNumber
<1> HIDE DEF share
<1>3. IsStep(step, Int) /\ \A n \in Nat, v \in Int : n + 1 \in 1 .. len => step[<<n, v>>] = v + share(n + 1)
  BY SMTT(30), <1>2 DEF IsStep
<1>4. PICK f : Iterates(f, Int, 0, step)
  <2> HIDE DEF step
  <2>1. 0 \in Int
    OBVIOUS
  <2> QED
    BY <1>3, <2>1, Recursion
<1> HIDE DEF step
<1> DEFINE g == [n \in 0 .. len |-> f[n]]
<1>5. g = [n \in 0 .. len |-> IF n = 0 THEN 0 ELSE g[n - 1] + share(n)]
  <2>1. ASSUME NEW n \in 0 .. len, n # 0
        PROVE  g[n] = g[n - 1] + share(n)
    <3>1. n - 1 \in Nat /\ n - 1 \in 0 .. len /\ (n - 1) + 1 = n /\ n \in 1 .. len /\ f[n - 1] \in Int
      BY <1>4, <2>1 DEF Iterates
    <3>2. f[n] = step[<<n - 1, f[n - 1]>>]
      BY <1>4, <3>1 DEF Iterates
    <3> QED
      BY <1>3, <3>1, <3>2
  <2>2. g[0] = 0
    BY <1>4 DEF Iterates
  <2> QED
    BY <2>1, <2>2
<1> HIDE DEF g
<1>6. total = [n \in 0 .. len |-> IF n = 0 THEN 0 ELSE total[n - 1] + share(n)]
  BY <1>5
<1> HIDE DEF total
<1> DEFINE Numbers == {n \in Nat : n \in 0 .. len => total[n] \in Int}
<1>7. 0 \in Numbers
  BY <1>6
<1>8. ASSUME NEW n \in Nat, n \in Numbers
      PROVE  n + 1 \in Numbers
  <2> SUFFICES ASSUME n + 1 \in 0 .. len
               PROVE  total[n + 1] \in Int
    OBVIOUS
  <2>1. total[n + 1] = total[n] + share(n + 1) /\ n + 1 \in 1 .. len /\ n \in 0 .. len
    BY <1>6
  <2> QED
    BY <1>2, <1>8, <2>1
<1> HIDE DEF Numbers
<1>9. Nat \subseteq Numbers
  BY <1>7, <1>8, Induction
<1>10. total[len] \in Int
  BY <1>9 DEF Numbers
<1> QED
  BY <1>1, <1>10 DEF add_leg, total, share

(* Fused hits are those of the legs, each once whatever legs and ranks it    *)
(* has in them, in one order.                                                *)
Keys(dense, bm25) == {fusion_key((dense \o bm25)[i]) : i \in DOMAIN (dense \o bm25)}
Entry(dense, bm25, key) ==
    [store |-> key[1], id |-> key[2], score |-> add_leg(dense, key) + add_leg(bm25, key)]
Entries(dense, bm25) == {Entry(dense, bm25, key) : key \in Keys(dense, bm25)}

Cited(hits) == [i \in DOMAIN hits |-> <<hits[i].store, hits[i].id>>]

LEMMA KeysAreHits ==
    ASSUME NEW dense \in Seq(Hit), NEW bm25 \in Seq(Hit)
    PROVE  /\ IsFiniteSet(Keys(dense, bm25)) /\ Keys(dense, bm25) \subseteq Stores \X ChunkIds
           /\ Keys(dense, bm25) = {<<dense[i].store, dense[i].id>> : i \in 1 .. Len(dense)}
                                     \cup {<<bm25[i].store, bm25[i].id>> : i \in 1 .. Len(bm25)}
<1>1. PICK hits : hits = dense \o bm25
  OBVIOUS
<1>2. /\ hits \in Seq(Hit) /\ Len(hits) = Len(dense) + Len(bm25)
      /\ \A i \in 1 .. Len(dense) : hits[i] = dense[i]
      /\ \A i \in 1 .. Len(bm25) : hits[Len(dense) + i] = bm25[i]
      /\ \A i \in 1 .. Len(hits) : i \in 1 .. Len(dense) \/ (i - Len(dense)) \in 1 .. Len(bm25)
  BY <1>1
<1>3. PICK n \in Nat : n = Len(hits) /\ DOMAIN hits = 1 .. n
  BY <1>2
<1>4. Keys(dense, bm25) = {fusion_key(hits[i]) : i \in 1 .. n}
  BY <1>1, <1>3 DEF Keys
<1>5. IsFiniteSet(Keys(dense, bm25))
  <2> DEFINE f == [i \in 1 .. n |-> fusion_key(hits[i])]
  <2>1. IsFiniteSet(1 .. n) /\ DOMAIN f = 1 .. n
    BY FS_Interval
  <2>2. IsFiniteSet({f[i] : i \in 1 .. n})
    <3> HIDE DEF f
    <3> QED
      BY <2>1, FiniteImage
  <2> QED
    BY <1>4, <2>2
<1>6. Keys(dense, bm25) \subseteq Stores \X ChunkIds
  <2>1. \A i \in 1 .. n : hits[i] \in Hit
    BY <1>2, <1>3
  <2>2. \A h \in Hit : h.store \in Stores /\ h.id \in ChunkIds
    BY DEF Hit
  <2> QED
    BY <1>4, <2>1, <2>2 DEF fusion_key
<1>7. ASSUME NEW key
      PROVE  key \in Keys(dense, bm25)
               <=> \/ \E i \in 1 .. Len(dense) : key = <<dense[i].store, dense[i].id>>
                   \/ \E i \in 1 .. Len(bm25) : key = <<bm25[i].store, bm25[i].id>>
  <2>1. ASSUME NEW i \in 1 .. Len(dense)
        PROVE  fusion_key(dense[i]) \in Keys(dense, bm25)
    BY <1>2, <1>3, <1>4
  <2>2. ASSUME NEW i \in 1 .. Len(bm25)
        PROVE  fusion_key(bm25[i]) \in Keys(dense, bm25)
    <3>1. Len(dense) + i \in 1 .. n
      BY <1>2, <1>3
    <3> QED
      BY <1>2, <1>4, <3>1
  <2>3. ASSUME NEW i \in 1 .. n
        PROVE  \/ \E j \in 1 .. Len(dense) : hits[i] = dense[j]
               \/ \E j \in 1 .. Len(bm25) : hits[i] = bm25[j]
    <3>1. CASE i \in 1 .. Len(dense)
      BY <1>2, <3>1
    <3>2. CASE i - Len(dense) \in 1 .. Len(bm25)
      <4>1. hits[Len(dense) + (i - Len(dense))] = bm25[i - Len(dense)]
        BY <1>2, <3>2
      <4>2. Len(dense) + (i - Len(dense)) = i
        OBVIOUS
      <4> QED
        BY <3>2, <4>1, <4>2
    <3> QED
      BY <1>2, <1>3, <3>1, <3>2
  <2> QED
    BY <1>4, <2>1, <2>2, <2>3 DEF fusion_key
<1> QED
  BY <1>5, <1>6, <1>7

LEMMA FusionSorts ==
    ASSUME NEW dense \in Seq(Hit), NEW bm25 \in Seq(Hit)
    PROVE  LET fused == rrf_fuse_global(dense, bm25)
           IN  /\ fused \in Seq(Hit) /\ Len(Cited(fused)) = Len(fused)
               /\ Cited(fused) \in Seq(Stores \X ChunkIds)
               /\ ToSet(Cited(fused)) = Keys(dense, bm25)
               /\ \A i, j \in 1 .. Len(fused) : Cited(fused)[i] = Cited(fused)[j] => i = j
<1> DEFINE fused == rrf_fuse_global(dense, bm25)
           S == Entries(dense, bm25)
           R == {p \in S \X S : Ahead(p[1], p[2])}
           keys == Keys(dense, bm25)
<1>1. IsFiniteSet(keys) /\ keys \subseteq Stores \X ChunkIds
  BY KeysAreHits
<1>2. \A key \in keys : Entry(dense, bm25, key) \in Hit
  <2> TAKE key \in keys
  <2>1. add_leg(dense, key) \in Int /\ add_leg(bm25, key) \in Int
    BY LegIsNumber
  <2>2. key[1] \in Stores /\ key[2] \in ChunkIds
    BY <1>1
  <2> QED
    BY <2>1, <2>2 DEF Entry, Hit
<1>3. \A key \in keys : Entry(dense, bm25, key).store = key[1] /\ Entry(dense, bm25, key).id = key[2]
  BY DEF Entry
<1>4. S \subseteq Hit /\ \A x \in S : <<x.store, x.id>> \in keys /\ x = Entry(dense, bm25, <<x.store, x.id>>)
  <2>1. ASSUME NEW x \in S
        PROVE  x \in Hit /\ <<x.store, x.id>> \in keys /\ x = Entry(dense, bm25, <<x.store, x.id>>)
    <3>1. PICK key \in keys : x = Entry(dense, bm25, key)
      BY DEF Entries
    <3>2. key = <<x.store, x.id>>
      BY <1>1, <1>3, <3>1
    <3> QED
      BY <1>2, <3>1, <3>2
  <2> QED
    BY <2>1
<1>5. IsFiniteSet(S)
  <2> DEFINE f == [key \in keys |-> Entry(dense, bm25, key)]
  <2>1. IsFiniteSet({f[key] : key \in keys})
    <3>1. DOMAIN f = keys
      OBVIOUS
    <3> HIDE DEF f, keys
    <3> QED
      BY <1>1, <3>1, FiniteImage
  <2> QED
    BY <2>1 DEF Entries
<1>6. \A a, b \in S : <<a, b>> \in R <=> Ahead(a, b)
  OBVIOUS
<1>7. \A x \in S : Below(S, R, x) = {y \in S : Ahead(y, x)}
  BY <1>6 DEF Below
<1> HIDE DEF R, S
<1>8. OrdersAll(S, R)
  <2>1. \A x \in S : x.store \in Nat /\ x.id \in Nat /\ x.score \in Int
    BY <1>4, Scores, RetrievalAssumption DEF Hit
  <2>2. \A x, y \in S : x.store = y.store /\ x.id = y.id => x = y
    BY <1>4
  <2>3. /\ \A x \in S : ~Ahead(x, x)
        /\ \A x, y \in S : x = y \/ Ahead(x, y) \/ Ahead(y, x)
    BY <2>1, <2>2 DEF Ahead
  <2>4. \A x, y, z \in S : Ahead(x, y) /\ Ahead(y, z) => Ahead(x, z)
    BY <2>1 DEF Ahead
  <2> QED
    BY <1>6, <2>3, <2>4 DEF OrdersAll
<1>9. fused = Ranked(S, R)
  <2> DEFINE ranked(i) == CHOOSE x \in S : Cardinality(Below(S, R, x)) = i - 1
             sorted(i) == CHOOSE x \in S : Cardinality({y \in S : Ahead(y, x)}) = i - 1
  <2>1. \A i : ranked(i) = sorted(i)
    BY <1>7
  <2>2. fused = [i \in 1 .. Cardinality(S) |-> sorted(i)]
    BY DEF rrf_fuse_global, InOrder, S, Entries, Entry, Keys
  <2>3. Ranked(S, R) = [i \in 1 .. Cardinality(S) |-> ranked(i)]
    BY DEF Ranked
  <2> HIDE DEF ranked, sorted
  <2> QED
    BY <2>1, <2>2, <2>3
<1> HIDE DEF fused
<1>10. PICK n \in Nat : /\ fused \in [1 .. n -> S] /\ n = Cardinality(S)
                        /\ \A x \in S : \E i \in 1 .. n : fused[i] = x
                        /\ \A i, j \in 1 .. n : fused[i] = fused[j] => i = j
  BY <1>5, <1>8, <1>9, RanksSort
<1>11. fused \in Seq(Hit) /\ Len(fused) = n /\ DOMAIN fused = 1 .. n
  BY <1>4, <1>10
<1> DEFINE cited == Cited(fused)
<1>12. /\ cited = [i \in 1 .. n |-> <<fused[i].store, fused[i].id>>]
       /\ \A i \in 1 .. n : cited[i] \in keys /\ fused[i] = Entry(dense, bm25, cited[i])
  <2>1. cited = [i \in 1 .. n |-> <<fused[i].store, fused[i].id>>]
    BY <1>11 DEF Cited
  <2> QED
    BY SMTT(30), <1>4, <1>10, <2>1
<1> HIDE DEF cited, keys
<1>13. cited \in Seq(Stores \X ChunkIds) /\ Len(cited) = n /\ DOMAIN cited = 1 .. n
  BY <1>1, <1>12
<1>14. \A i, j \in 1 .. n : cited[i] = cited[j] => i = j
  BY <1>10, <1>12
<1>15. \A key \in keys : \E i \in 1 .. n : cited[i] = key
  <2> TAKE key \in keys
  <2>1. Entry(dense, bm25, key) \in S
    BY DEF S, Entries, keys
  <2>2. PICK i \in 1 .. n : fused[i] = Entry(dense, bm25, key)
    BY <1>10, <2>1
  <2>3. cited[i] = key
    BY <1>1, <1>3, <1>12, <2>2
  <2> QED
    BY <2>3
<1>16. ToSet(cited) = keys
  BY <1>12, <1>13, <1>15 DEF ToSet
<1> QED
  BY <1>11, <1>13, <1>14, <1>16 DEF fused, cited, keys

-----------------------------------------------------------------------------
(* Legs *)

(* What one leg makes of the chunks that pass a search's filters. *)
DenseLeg(table, s) == retain_own_chunks({c \in table : c.store = s}, s, Similarity)
Bm25Leg(table, s) == retain_own_chunks({c \in table : c.store = s /\ Relevance(c.id) > 0}, s, Relevance)

Rows(table) == IsFiniteSet(table) /\ \A c \in table : c.store \in Stores /\ c.id \in ChunkIds

(* The hits are those of the rows, stamped with their store. *)
HitsOf(hits, table, s) ==
    /\ hits \in Seq(Hit)
    /\ \A h \in ToSet(hits) : h.store = s /\ \E c \in table : c.store = s /\ c.id = h.id
    /\ \A c \in table : c.store = s => \E h \in ToSet(hits) : h.store = s /\ h.id = c.id

LEMMA SetOfHits ==
    ASSUME NEW S \in SUBSET Hit, IsFiniteSet(S), NEW table, NEW s,
           \A h \in S : h.store = s /\ \E c \in table : c.store = s /\ c.id = h.id,
           \A c \in table : c.store = s => \E h \in S : h.store = s /\ h.id = c.id
    PROVE  HitsOf(SetToSeq(S), table, s)
<1>1. PICK n \in Nat : /\ SetToSeq(S) \in [1 .. n -> S]
                       /\ \A x \in S : \E i \in 1 .. n : SetToSeq(S)[i] = x
  BY SetToSeqOnce
<1>2. SetToSeq(S) \in Seq(Hit) /\ DOMAIN SetToSeq(S) = 1 .. n
  BY <1>1
<1>3. ToSet(SetToSeq(S)) = S
  BY <1>1, <1>2 DEF ToSet
<1> QED
  BY <1>2, <1>3 DEF HitsOf

LEMMA DenseHits ==
    ASSUME NEW table, Rows(table), NEW s \in Stores
    PROVE  HitsOf(retain_own_chunks(table, s, Similarity), table, s)
<1> DEFINE own == {c \in table : c.store = s}
           f == [c \in own |-> [store |-> c.store, id |-> c.id, score |-> Similarity(c.id)]]
           S == {f[c] : c \in own}
<1>1. retain_own_chunks(table, s, Similarity) = SetToSeq(S)
  <2>1. S = {[store |-> c.store, id |-> c.id, score |-> Similarity(c.id)] : c \in own}
    OBVIOUS
  <2> QED
    BY <2>1 DEF retain_own_chunks
<1>2. IsFiniteSet(S)
  <2>1. IsFiniteSet(own) /\ DOMAIN f = own
    BY FS_Subset DEF Rows
  <2> HIDE DEF f, own
  <2> QED
    BY <2>1, FiniteImage
<1>3. \A c \in own : f[c] \in Hit /\ f[c].store = s /\ f[c].id = c.id
  BY Scores DEF Rows, Hit
<1>4. S \in SUBSET Hit
  BY <1>3
<1> HIDE DEF f
<1>5. \A h \in S : h.store = s /\ \E c \in table : c.store = s /\ c.id = h.id
  BY <1>3
<1>6. \A c \in table : c.store = s => \E h \in S : h.store = s /\ h.id = c.id
  BY <1>3
<1> HIDE DEF S
<1> QED
  BY <1>1, <1>2, <1>4, <1>5, <1>6, SetOfHits

LEMMA Bm25Hits ==
    ASSUME NEW table, Rows(table), NEW s \in Stores
    PROVE  HitsOf(retain_own_chunks(table, s, Relevance), table, s)
<1> DEFINE own == {c \in table : c.store = s}
           f == [c \in own |-> [store |-> c.store, id |-> c.id, score |-> Relevance(c.id)]]
           S == {f[c] : c \in own}
<1>1. retain_own_chunks(table, s, Relevance) = SetToSeq(S)
  <2>1. S = {[store |-> c.store, id |-> c.id, score |-> Relevance(c.id)] : c \in own}
    OBVIOUS
  <2> QED
    BY <2>1 DEF retain_own_chunks
<1>2. IsFiniteSet(S)
  <2>1. IsFiniteSet(own) /\ DOMAIN f = own
    BY FS_Subset DEF Rows
  <2> HIDE DEF f, own
  <2> QED
    BY <2>1, FiniteImage
<1>3. \A c \in own : f[c] \in Hit /\ f[c].store = s /\ f[c].id = c.id
  BY Scores DEF Rows, Hit
<1>4. S \in SUBSET Hit
  BY <1>3
<1> HIDE DEF f
<1>5. \A h \in S : h.store = s /\ \E c \in table : c.store = s /\ c.id = h.id
  BY <1>3
<1>6. \A c \in table : c.store = s => \E h \in S : h.store = s /\ h.id = c.id
  BY <1>3
<1> HIDE DEF S
<1> QED
  BY <1>1, <1>2, <1>4, <1>5, <1>6, SetOfHits

(* The rows of exact tables are those of documents: finitely many, of known  *)
(* stores and chunks.                                                        *)
LEMMA ExactRows ==
    ASSUME TablesExact
    PROVE  Rows(chunks)
<1> DEFINE N == 1 .. 9
           P == Stores \X (N \X (N \X (N \X N)))
           row(x) == ChunkOf(Document(x[1], x[2][1], x[2][2][1], x[2][2][2][1]), x[2][2][2][2])
           f == [x \in P |-> row(x)]
<1>1. IsFiniteSet(N) /\ IsFiniteSet(Stores)
  <2>1. 1 \in Int /\ 9 \in Int
    OBVIOUS
  <2>2. IsFiniteSet(1 .. 9)
    BY <2>1, FS_Interval
  <2> QED
    BY <2>2, RetrievalAssumption
<1>2. IsFiniteSet(P)
  <2> HIDE DEF N
  <2>1. IsFiniteSet(N \X N)
    BY <1>1, FS_Product
  <2>2. IsFiniteSet(N \X (N \X N))
    BY <1>1, <2>1, FS_Product
  <2>3. IsFiniteSet(N \X (N \X (N \X N)))
    BY <1>1, <2>2, FS_Product
  <2> QED
    BY <1>1, <2>3, FS_Product
<1>3. IsFiniteSet({f[x] : x \in P})
  <2>1. DOMAIN f = P
    OBVIOUS
  <2> HIDE DEF f, P
  <2> QED
    BY <1>2, <2>1, FiniteImage
<1>4. ASSUME NEW c \in chunks
      PROVE  c \in {f[x] : x \in P} /\ c.store \in Stores /\ c.id \in ChunkIds
  <2>1. PICK r : Indexed(r) /\ \E n \in 1 .. r.policy : c = ChunkOf(r, n)
    BY DEF TablesExact, Exact, Tables, IsPart
  <2>2. PICK n \in 1 .. r.policy : c = ChunkOf(r, n)
    BY <2>1
  <2>3. PICK s \in Stores, u, t, p \in 1 .. 9 : r = Document(s, u, t, p)
    BY <2>1 DEF Indexed
  <2>4. r.policy = p /\ r.id = resource_id(u, t) /\ r.store = s
    BY <2>3 DEF Document
  <2>5. n \in 1 .. 9
    BY <2>2, <2>4
  <2>6. <<s, <<u, <<t, <<p, n>> >> >> >> \in P
    BY <2>5
  <2>7. c = f[<<s, <<u, <<t, <<p, n>> >> >> >>]
    BY <2>2, <2>3, <2>6
  <2>8. c.store = s /\ c.id = chunk_id(resource_id(u, t), p, n)
    BY <2>2, <2>4 DEF ChunkOf
  <2>9. c.id \in ChunkIds
    BY <2>5, <2>8 DEF ChunkIds
  <2> HIDE DEF f, P
  <2> QED
    BY <2>6, <2>7, <2>8, <2>9
<1>5. chunks \in SUBSET {f[x] : x \in P}
  BY <1>4
<1> QED
  BY <1>3, <1>4, <1>5, FS_Subset DEF Rows

(* The pools of a search over some targets when each leg finds all of its    *)
(* store, and their fusion.                                                  *)
DenseLegs(table, targets) == [k \in 1 .. Len(targets) |-> DenseLeg(table, targets[k])]
Bm25Legs(table, targets) == [k \in 1 .. Len(targets) |-> Bm25Leg(table, targets[k])]
Fused(table, targets) ==
    rrf_fuse_global(Strung(DenseLegs(table, targets))[Len(targets)],
                    Strung(Bm25Legs(table, targets))[Len(targets)])

LEMMA LegHits ==
    ASSUME NEW table, Rows(table), NEW s \in Stores
    PROVE  /\ HitsOf(DenseLeg(table, s), {c \in table : c.store = s}, s)
           /\ HitsOf(Bm25Leg(table, s), {c \in table : c.store = s /\ Relevance(c.id) > 0}, s)
<1> DEFINE own == {c \in table : c.store = s}
           matched == {c \in table : c.store = s /\ Relevance(c.id) > 0}
<1>1. own \in SUBSET table /\ matched \in SUBSET table
  OBVIOUS
<1>2. Rows(own) /\ Rows(matched)
  BY <1>1, FS_Subset DEF Rows
<1> QED
  BY <1>2, DenseHits, Bm25Hits DEF DenseLeg, Bm25Leg

LEMMA LegsStrung ==
    ASSUME NEW table, Rows(table), NEW targets \in Seq(Stores)
    PROVE  LET D == Strung(DenseLegs(table, targets))
               B == Strung(Bm25Legs(table, targets))
           IN  /\ D \in [0 .. Len(targets) -> Seq(Hit)] /\ D[0] = << >>
               /\ B \in [0 .. Len(targets) -> Seq(Hit)] /\ B[0] = << >>
               /\ \A k \in 1 .. Len(targets) :
                    /\ D[k] = D[k - 1] \o DenseLeg(table, targets[k])
                    /\ B[k] = B[k - 1] \o Bm25Leg(table, targets[k])
<1>1. \A k \in 1 .. Len(targets) :
         DenseLeg(table, targets[k]) \in Seq(Hit) /\ Bm25Leg(table, targets[k]) \in Seq(Hit)
  <2> TAKE k \in 1 .. Len(targets)
  <2>1. targets[k] \in Stores
    OBVIOUS
  <2> QED
    BY <2>1, LegHits DEF HitsOf
<1>2. PICK n \in Nat : n = Len(targets)
  OBVIOUS
<1>3. /\ DenseLegs(table, targets) \in Seq(Seq(Hit)) /\ Len(DenseLegs(table, targets)) = n
      /\ \A k \in 1 .. n : DenseLegs(table, targets)[k] = DenseLeg(table, targets[k])
  BY <1>1, <1>2 DEF DenseLegs
<1>4. /\ Bm25Legs(table, targets) \in Seq(Seq(Hit)) /\ Len(Bm25Legs(table, targets)) = n
      /\ \A k \in 1 .. n : Bm25Legs(table, targets)[k] = Bm25Leg(table, targets[k])
  BY <1>1, <1>2 DEF Bm25Legs
<1> QED
  BY <1>2, <1>3, <1>4, Strings

(* What a search that finds everything shows: every passing chunk of a       *)
(* searched store, once.                                                     *)
LEMMA FusedFinds ==
    ASSUME NEW table, Rows(table), NEW targets \in Seq(Stores)
    PROVE  LET fused == Fused(table, targets)
           IN  /\ fused \in Seq(Hit) /\ Len(Cited(fused)) = Len(fused)
               /\ Cited(fused) \in Seq(Stores \X ChunkIds)
               /\ \A i, j \in 1 .. Len(fused) : Cited(fused)[i] = Cited(fused)[j] => i = j
               /\ ToSet(Cited(fused)) =
                    {<<c.store, c.id>> : c \in {d \in table : d.store \in ToSet(targets)}}
<1>1. PICK n \in Nat : n = Len(targets)
  OBVIOUS
<1> DEFINE D == Strung(DenseLegs(table, targets))
           B == Strung(Bm25Legs(table, targets))
           found == {<<c.store, c.id>> : c \in {d \in table : d.store \in ToSet(targets)}}
<1>2. D[n] \in Seq(Hit) /\ B[n] \in Seq(Hit)
  <2>1. D \in [0 .. n -> Seq(Hit)] /\ B \in [0 .. n -> Seq(Hit)]
    BY <1>1, LegsStrung
  <2> HIDE DEF D, B
  <2>2. n \in 0 .. n
    OBVIOUS
  <2> QED
    BY <2>1, <2>2
<1>3. Keys(D[n], B[n]) = {<<h.store, h.id>> : h \in ToSet(D[n]) \cup ToSet(B[n])}
  <2> HIDE DEF D, B
  <2>1. \A s \in Seq(Hit) : ToSet(s) = {s[i] : i \in 1 .. Len(s)}
    BY DEF ToSet
  <2>2. Keys(D[n], B[n]) = {<<D[n][i].store, D[n][i].id>> : i \in 1 .. Len(D[n])}
                             \cup {<<B[n][i].store, B[n][i].id>> : i \in 1 .. Len(B[n])}
    BY <1>2, KeysAreHits
  <2>3. ToSet(D[n]) = {D[n][i] : i \in 1 .. Len(D[n])} /\ ToSet(B[n]) = {B[n][i] : i \in 1 .. Len(B[n])}
    BY <1>2, <2>1
  <2> QED
    BY <2>2, <2>3
<1>4. \A k \in 1 .. n :
        /\ targets[k] \in Stores /\ targets[k] \in ToSet(targets)
        /\ HitsOf(DenseLeg(table, targets[k]), {c \in table : c.store = targets[k]}, targets[k])
        /\ HitsOf(Bm25Leg(table, targets[k]),
                  {c \in table : c.store = targets[k] /\ Relevance(c.id) > 0}, targets[k])
  <2> TAKE k \in 1 .. n
  <2>1. targets[k] \in Stores /\ targets[k] \in ToSet(targets)
    BY <1>1 DEF ToSet
  <2> QED
    BY <2>1, LegHits
<1>5. /\ DenseLegs(table, targets) \in Seq(Seq(Hit)) /\ Len(DenseLegs(table, targets)) = n
      /\ \A k \in 1 .. n : DenseLegs(table, targets)[k] = DenseLeg(table, targets[k])
  BY <1>1, <1>4 DEF DenseLegs, HitsOf
<1>6. /\ Bm25Legs(table, targets) \in Seq(Seq(Hit)) /\ Len(Bm25Legs(table, targets)) = n
      /\ \A k \in 1 .. n : Bm25Legs(table, targets)[k] = Bm25Leg(table, targets[k])
  BY <1>1, <1>4 DEF Bm25Legs, HitsOf
<1>7. n \in 0 .. n
  OBVIOUS
<1>8. /\ \A h \in ToSet(D[n]) : \E k \in 1 .. n : h \in ToSet(DenseLeg(table, targets[k]))
      /\ \A k \in 1 .. n : ToSet(DenseLeg(table, targets[k])) \subseteq ToSet(D[n])
  BY <1>5, <1>7, StrungMembers
<1>9. \A h \in ToSet(B[n]) : \E k \in 1 .. n : h \in ToSet(Bm25Leg(table, targets[k]))
  BY <1>6, <1>7, StrungMembers
<1> HIDE DEF D, B
<1>10. \A h \in ToSet(D[n]) \cup ToSet(B[n]) : <<h.store, h.id>> \in found
  <2> TAKE h \in ToSet(D[n]) \cup ToSet(B[n])
  <2>1. PICK k \in 1 .. n : \/ h \in ToSet(DenseLeg(table, targets[k]))
                           \/ h \in ToSet(Bm25Leg(table, targets[k]))
    BY <1>8, <1>9
  <2>2. h.store = targets[k] /\ \E c \in table : c.store = targets[k] /\ c.id = h.id
    BY ZenonT(40), <1>4, <2>1 DEF HitsOf
  <2> QED
    BY <1>4, <2>2
<1>11. \A c \in table : c.store \in ToSet(targets) => \E h \in ToSet(D[n]) : h.store = c.store /\ h.id = c.id
  <2> SUFFICES ASSUME NEW c \in table, c.store \in ToSet(targets)
               PROVE  \E h \in ToSet(D[n]) : h.store = c.store /\ h.id = c.id
    OBVIOUS
  <2>1. PICK k \in 1 .. n : c.store = targets[k]
    BY <1>1 DEF ToSet
  <2>2. PICK h \in ToSet(DenseLeg(table, targets[k])) : h.store = targets[k] /\ h.id = c.id
    BY <1>4, <2>1 DEF HitsOf
  <2> QED
    BY <1>8, <2>1, <2>2
<1>12. Keys(D[n], B[n]) = found
  BY <1>3, <1>10, <1>11
<1>13. Fused(table, targets) = rrf_fuse_global(D[n], B[n])
  BY <1>1 DEF Fused, D, B
<1> QED
  BY <1>2, <1>12, <1>13, FusionSorts

-----------------------------------------------------------------------------
(* Searches *)

SearchPcs == {"dense", "exact", "bm25", "fuse", "answered"}
Searches ==
    [pc : SearchPcs, surface : {"http", "cli", "mcp"}, targets : Seq(Stores), limit : Nat \ {0},
     filtered : BOOLEAN, offset : Nat \cup {-1}, left : Seq(Stores), fetch : Nat,
     dense : Seq(Hit), bm25 : Seq(Hit), seen : Seq(Stores \X ChunkIds)]

(* The stores left to search are the last of the targets. *)
Searched(r) == Len(r.targets) - Len(r.left)
Placed(r) ==
    /\ Searched(r) >= 0
    /\ \A i \in 1 .. Len(r.left) : r.left[i] = r.targets[Searched(r) + i]
    /\ r.pc \in {"dense", "exact", "bm25"} => Len(r.left) > 0
    /\ r.pc \in {"fuse", "answered"} => Len(r.left) = 0
    /\ IF r.pc = "answered" THEN r.dense = << >> /\ r.bm25 = << >> ELSE r.offset >= 0

PassesFor(r, c) == r.filtered => c.uri \in Filtered
Passing(r, table) == {c \in table : PassesFor(r, c)}

(* A hit is grounded from the moment a leg finds it, and stays so: rows are  *)
(* all those there were since the search began.                              *)
Grounded(r, rows, key) ==
    /\ Contains(r.targets, key[1])
    /\ \E c \in rows : <<c.store, c.id>> = key /\ PassesFor(r, c)
AllGrounded(r, rows) ==
    /\ \A h \in ToSet(r.dense) : Grounded(r, rows, <<h.store, h.id>>)
    /\ \A h \in ToSet(r.bm25) : Grounded(r, rows, <<h.store, h.id>>)
    /\ \A hit \in ToSet(r.seen) : Grounded(r, rows, hit)

(* Over unchanging tables whose matches fit a leg, the pools are those of    *)
(* the stores searched so far, and the pages shown a prefix of the one       *)
(* fusion that every page repeats.                                           *)
Fits(r, table) ==
    \A s \in ToSet(r.targets) : Cardinality({c \in Passing(r, table) : c.store = s}) <= LegK
Shown(r, n, all) == Len(r.seen) = n /\ \A i \in 1 .. n : r.seen[i] = all[i]
Pooling(r, table) ==
    /\ r.dense = Strung(DenseLegs(Passing(r, table), r.targets))
                    [IF r.pc = "bm25" THEN Searched(r) + 1 ELSE Searched(r)]
    /\ r.bm25 = Strung(Bm25Legs(Passing(r, table), r.targets))[Searched(r)]
PagesRight(r, all) ==
    IF r.pc # "answered" \/ r.offset >= 0
    THEN /\ r.offset \in 0 .. Len(all) /\ Shown(r, r.offset, all)
         /\ r.surface # "http" => r.offset = 0
    ELSE \E m \in 0 .. Len(all) : Shown(r, m, all) /\ (r.surface = "http" => m = Len(all))
AllOf(r, table) == Cited(Fused(Passing(r, table), r.targets))

IsSearch(r, table, log) ==
    /\ r \in Searches /\ Placed(r)
    /\ table \subseteq log.chunks /\ AllGrounded(r, log.chunks)
    /\ log.writes = 0 /\ Fits(r, table) =>
        PagesRight(r, AllOf(r, table)) /\ (r.pc # "answered" => Pooling(r, table))

IsDocumentRead(r) ==
    r = [pc |-> r.pc, store |-> r.store, id |-> r.id, chunks |-> r.chunks, text |-> r.text]

SearchInvariant ==
    /\ touched.writes \in Nat
    /\ reader.pc \in {"chunks", "blocks"} => IsDocumentRead(reader)
    /\ reader.pc \in SearchPcs => IsSearch(reader, chunks, touched)

-----------------------------------------------------------------------------
(* A search begins *)

LEMMA TargetsAreStores ==
    ASSUME NEW surface \in {"http", "cli", "mcp"}, NEW names \in Seq(Stores)
    PROVE  Targets(surface, names) \in Seq(Stores)
<1> DEFINE S == {i \in DOMAIN names : \A j \in 1 .. i - 1 : names[j] # names[i]}
           firsts == Ascending(S)
           named == {s \in Stores : Contains(names, s)}
<1>1. IsFiniteSet(Stores) /\ Stores \subseteq Int
  BY SMTT(30), RetrievalAssumption
<1>2. Ascending(Stores) \in Seq(Stores)
  <2>1. PICK n \in Nat : Ascending(Stores) \in [1 .. n -> Stores]
    BY <1>1, AscendingSorts
  <2> QED
    BY <2>1
<1>3. Ascending(named) \in Seq(Stores)
  <2>1. IsFiniteSet(named) /\ named \subseteq Stores
    BY <1>1, FS_Subset
  <2> HIDE DEF named
  <2>2. PICK n \in Nat : Ascending(named) \in [1 .. n -> named]
    BY <1>1, <2>1, AscendingSorts
  <2> QED
    BY <2>1, <2>2
<1>4. [k \in DOMAIN firsts |-> names[firsts[k]]] \in Seq(Stores)
  <2>1. PICK len \in Nat : len = Len(names) /\ DOMAIN names = 1 .. len
    OBVIOUS
  <2>2. S \in SUBSET (1 .. len) /\ IsFiniteSet(1 .. len)
    BY <2>1, FS_Interval
  <2> HIDE DEF S
  <2>3. IsFiniteSet(S)
    BY <2>2, FS_Subset
  <2>4. S \subseteq Int
    BY <2>2
  <2>5. PICK n \in Nat : firsts \in [1 .. n -> S]
    BY <2>3, <2>4, AscendingSorts
  <2> HIDE DEF firsts
  <2>6. \A i \in S : names[i] \in Stores
    BY <2>1, <2>2
  <2>7. \A k \in 1 .. n : names[firsts[k]] \in Stores
    BY <2>5, <2>6
  <2> QED
    BY <2>5, <2>7
<1> HIDE DEF firsts, named
<1>5. CASE names = << >>
  <2>1. Targets(surface, names) = Ascending(Stores)
    BY <1>5 DEF Targets
  <2> QED
    BY <1>2, <2>1
<1>6. CASE names # << >> /\ surface = "http"
  <2>1. Targets(surface, names) = Ascending(named)
    BY <1>6 DEF Targets, named
  <2> QED
    BY <1>3, <2>1
<1>7. CASE names # << >> /\ surface = "cli"
  <2>1. Targets(surface, names) = [k \in DOMAIN firsts |-> names[firsts[k]]]
    BY <1>7 DEF Targets, firsts
  <2> QED
    BY <1>4, <2>1
<1>8. CASE names # << >> /\ surface = "mcp"
  <2>1. Targets(surface, names) = names
    BY <1>8 DEF Targets
  <2> QED
    BY <2>1
<1> QED
  BY <1>5, <1>6, <1>7, <1>8

(* A search that has found and shown nothing. *)
LEMMA NothingShown ==
    ASSUME NEW r \in Searches, NEW table, Rows(table), NEW log, table \subseteq log.chunks,
           r.left = r.targets, r.offset = 0, r.dense = << >>, r.bm25 = << >>, r.seen = << >>,
           r.pc = FirstLeg(r.targets)
    PROVE  IsSearch(r, table, log)
<1>1. r.targets \in Seq(Stores) /\ Searched(r) = 0
  BY DEF Searches, Searched
<1>2. r.pc # "answered" /\ r.pc # "bm25" /\ Placed(r)
  <2>1. CASE r.targets = << >>
    BY <1>1, <2>1 DEF Placed, FirstLeg
  <2>2. CASE r.targets # << >>
    BY <1>1, <2>2 DEF Placed, FirstLeg
  <2> QED
    BY <2>1, <2>2
<1>3. AllGrounded(r, log.chunks)
  BY DEF AllGrounded, ToSet
<1>4. Rows(Passing(r, table))
  <2>1. Passing(r, table) \in SUBSET table
    BY DEF Passing
  <2> QED
    BY <2>1, FS_Subset DEF Rows
<1>5. Pooling(r, table)
  BY <1>1, <1>2, <1>4, LegsStrung DEF Pooling
<1>6. PagesRight(r, AllOf(r, table))
  <2>1. Len(AllOf(r, table)) \in Nat
    BY <1>1, <1>4, FusedFinds DEF AllOf
  <2>2. 0 \in 0 .. Len(AllOf(r, table))
    BY <2>1
  <2>3. Shown(r, 0, AllOf(r, table))
    BY DEF Shown
  <2> QED
    BY <1>2, <2>2, <2>3 DEF PagesRight
<1> QED
  BY <1>2, <1>3, <1>5, <1>6 DEF IsSearch

-----------------------------------------------------------------------------
(* A search goes on *)

LEMMA SameQuestion ==
    ASSUME NEW r \in Searches, NEW q \in Searches, NEW table,
           q.targets = r.targets, q.filtered = r.filtered
    PROVE  /\ Passing(q, table) = Passing(r, table) /\ (Fits(q, table) <=> Fits(r, table))
           /\ AllOf(q, table) = AllOf(r, table)
           /\ \A rows, key : Grounded(q, rows, key) <=> Grounded(r, rows, key)
<1>1. \A c : PassesFor(q, c) <=> PassesFor(r, c)
  BY DEF PassesFor
<1>2. Passing(q, table) = Passing(r, table)
  BY <1>1 DEF Passing
<1> QED
  BY <1>1, <1>2 DEF Fits, AllOf, Grounded

LEMMA PassingRows ==
    ASSUME NEW r, NEW table, Rows(table)
    PROVE  Rows(Passing(r, table))
<1>1. Passing(r, table) \in SUBSET table
  BY DEF Passing
<1> QED
  BY <1>1, FS_Subset DEF Rows

(* The store whose turn it is. *)
LEMMA HeadIsNext ==
    ASSUME NEW r \in Searches, Placed(r), r.pc \in {"dense", "exact", "bm25"}
    PROVE  /\ Head(r.left) \in Stores /\ Contains(r.targets, Head(r.left))
           /\ Searched(r) + 1 \in 1 .. Len(r.targets)
           /\ Head(r.left) = r.targets[Searched(r) + 1]
<1>1. r.left \in Seq(Stores) /\ r.targets \in Seq(Stores) /\ Len(r.left) > 0
  BY DEF Searches, Placed
<1>2. Len(r.left) \in Nat /\ Len(r.targets) \in Nat /\ 1 \in 1 .. Len(r.left) /\ Head(r.left) = r.left[1]
  BY <1>1
<1>3. Head(r.left) = r.targets[Searched(r) + 1]
  BY <1>2 DEF Placed
<1>4. Searched(r) + 1 \in 1 .. Len(r.targets)
  <2>1. PICK n, m \in Nat : n = Len(r.targets) /\ m = Len(r.left)
    BY <1>2
  <2>2. Searched(r) = n - m /\ Searched(r) >= 0 /\ m > 0
    BY <1>1, <2>1 DEF Placed, Searched
  <2>3. Searched(r) + 1 \in Int /\ Searched(r) + 1 >= 1 /\ Searched(r) + 1 <= n
    BY <2>1, <2>2
  <2> QED
    BY <2>1, <2>3
<1> QED
  BY <1>1, <1>2, <1>3, <1>4 DEF Contains

(* The hits of one leg, added to those the search has. *)
LEMMA LegIsGrounded ==
    ASSUME NEW r \in Searches, NEW table, NEW rows, table \subseteq rows,
           NEW s, Contains(r.targets, s),
           NEW top \in SUBSET {c \in Passing(r, table) : c.store = s},
           NEW hits, HitsOf(hits, top, s)
    PROVE  \A h \in ToSet(hits) : Grounded(r, rows, <<h.store, h.id>>)
BY DEF HitsOf, Grounded, Passing

LEMMA DenseLegEnds ==
    ASSUME NEW r, NEW table, Rows(table), NEW log, IsSearch(r, table, log),
           r.pc \in {"dense", "exact"},
           NEW top \in SUBSET {c \in Passing(r, table) : c.store = Head(r.left)},
           Fits(r, table) => top = {c \in Passing(r, table) : c.store = Head(r.left)},
           NEW q, q = [r EXCEPT !.pc = "bm25",
                                !.dense = @ \o retain_own_chunks(top, Head(r.left), Similarity)]
    PROVE  IsSearch(q, table, log)
<1> DEFINE s == Head(r.left)
<1>1. PICK hits : hits = retain_own_chunks(top, Head(r.left), Similarity)
  OBVIOUS
<1>2. /\ r \in Searches /\ Placed(r) /\ table \subseteq log.chunks /\ AllGrounded(r, log.chunks)
      /\ log.writes = 0 /\ Fits(r, table) => PagesRight(r, AllOf(r, table)) /\ Pooling(r, table)
  BY DEF IsSearch
<1>3. /\ s \in Stores /\ Contains(r.targets, s) /\ s = r.targets[Searched(r) + 1]
      /\ Searched(r) + 1 \in 1 .. Len(r.targets)
  BY <1>2, HeadIsNext
<1>4. HitsOf(hits, top, s)
  <2>1. Rows(Passing(r, table))
    BY PassingRows
  <2>2. Rows(top)
    BY <2>1, FS_Subset DEF Rows
  <2> QED
    BY <1>1, <1>3, <2>2, DenseHits
<1>5. hits \in Seq(Hit)
  BY <1>4 DEF HitsOf
<1>6. r.dense \in Seq(Hit) /\ r.dense \o hits \in Seq(Hit) /\ r.targets \in Seq(Stores)
  BY <1>2, <1>5 DEF Searches
<1>7. /\ q \in Searches /\ q.pc = "bm25" /\ q.dense = r.dense \o hits
      /\ q.targets = r.targets /\ q.filtered = r.filtered /\ q.left = r.left /\ q.offset = r.offset
      /\ q.bm25 = r.bm25 /\ q.seen = r.seen /\ q.surface = r.surface
  BY <1>1, <1>2, <1>6 DEF Searches, SearchPcs
<1>8. Placed(q) /\ Searched(q) = Searched(r)
  BY <1>2, <1>7 DEF Placed, Searched
<1>9. /\ Passing(q, table) = Passing(r, table) /\ (Fits(q, table) <=> Fits(r, table))
      /\ AllOf(q, table) = AllOf(r, table)
      /\ \A rows, key : Grounded(q, rows, key) <=> Grounded(r, rows, key)
  BY <1>2, <1>7, SameQuestion
<1>10. AllGrounded(q, log.chunks)
  <2>1. \A h \in ToSet(hits) : Grounded(r, log.chunks, <<h.store, h.id>>)
    BY <1>2, <1>3, <1>4, LegIsGrounded
  <2>2. ToSet(r.dense \o hits) = ToSet(r.dense) \cup ToSet(hits)
    BY <1>5, <1>6, JoinedMembers
  <2> QED
    BY <1>2, <1>7, <1>9, <2>1, <2>2 DEF AllGrounded
<1>11. ASSUME log.writes = 0, Fits(q, table)
       PROVE  PagesRight(q, AllOf(q, table)) /\ Pooling(q, table)
  <2>1. Fits(r, table) /\ PagesRight(r, AllOf(r, table)) /\ Pooling(r, table)
    BY <1>2, <1>9, <1>11
  <2>2. PagesRight(q, AllOf(q, table))
    <3>1. PICK all : all = AllOf(r, table)
      OBVIOUS
    <3> QED
      BY <1>7, <1>9, <2>1, <3>1 DEF PagesRight, Shown
  <2>3. hits = DenseLeg(Passing(r, table), s)
    BY <1>1, <2>1 DEF DenseLeg
  <2>4. PICK D : D = Strung(DenseLegs(Passing(r, table), r.targets))
    OBVIOUS
  <2>5. D[Searched(r) + 1] = D[(Searched(r) + 1) - 1] \o DenseLeg(Passing(r, table), s)
    BY <1>3, <1>6, <2>4, PassingRows, LegsStrung
  <2>6. (Searched(r) + 1) - 1 = Searched(r)
    BY <1>2, <1>6 DEF Searches, Searched
  <2>7. r.dense = D[Searched(r)]
    BY <2>1, <2>4 DEF Pooling
  <2>8. q.dense = D[Searched(q) + 1]
    BY <1>7, <1>8, <2>3, <2>5, <2>6, <2>7
  <2> QED
    BY <1>7, <1>8, <1>9, <2>1, <2>2, <2>4, <2>8 DEF Pooling
<1> QED
  BY <1>2, <1>7, <1>8, <1>10, <1>11 DEF IsSearch

(* A dense leg that has not found enough looks further. *)
LEMMA DenseLegWidens ==
    ASSUME NEW r, NEW table, NEW log, IsSearch(r, table, log), r.pc \in {"dense", "exact"},
           NEW q, \/ q = [r EXCEPT !.pc = "exact"]
                  \/ \E f \in Nat : q = [r EXCEPT !.fetch = f]
    PROVE  IsSearch(q, table, log)
<1>1. r \in Searches
  BY DEF IsSearch
<1>2. /\ q \in Searches /\ q.pc \in {"dense", "exact"} /\ q.dense = r.dense
      /\ q.targets = r.targets /\ q.filtered = r.filtered /\ q.left = r.left /\ q.offset = r.offset
      /\ q.bm25 = r.bm25 /\ q.seen = r.seen /\ q.surface = r.surface
  <2>1. CASE q = [r EXCEPT !.pc = "exact"]
    BY <1>1, <2>1 DEF Searches, SearchPcs
  <2>2. CASE \E f \in Nat : q = [r EXCEPT !.fetch = f]
    <3>1. PICK f \in Nat : q = [r EXCEPT !.fetch = f]
      BY <2>2
    <3>2. r.pc \in {"dense", "exact"}
      OBVIOUS
    <3> QED
      BY <1>1, <3>1, <3>2 DEF Searches, SearchPcs
  <2> QED
    BY <2>1, <2>2
<1>3. Placed(q) /\ Searched(q) = Searched(r)
  BY <1>2 DEF IsSearch, Placed, Searched
<1>4. /\ Passing(q, table) = Passing(r, table) /\ (Fits(q, table) <=> Fits(r, table))
      /\ AllOf(q, table) = AllOf(r, table)
      /\ \A rows, key : Grounded(q, rows, key) <=> Grounded(r, rows, key)
  BY <1>1, <1>2, SameQuestion
<1>5. AllGrounded(q, log.chunks)
  BY <1>2, <1>4 DEF IsSearch, AllGrounded
<1>6. PICK all : all = AllOf(r, table)
  OBVIOUS
<1>7. PagesRight(r, all) => PagesRight(q, all)
  BY <1>2 DEF PagesRight, Shown
<1>8. Pooling(r, table) => Pooling(q, table)
  BY <1>2, <1>3, <1>4 DEF Pooling
<1> QED
  BY <1>2, <1>3, <1>4, <1>5, <1>6, <1>7, <1>8 DEF IsSearch

LEMMA Bm25LegEnds ==
    ASSUME NEW r, NEW table, Rows(table), NEW log, IsSearch(r, table, log), r.pc = "bm25",
           NEW top \in SUBSET {c \in Passing(r, table) : c.store = Head(r.left) /\ Relevance(c.id) > 0},
           Fits(r, table) =>
              top = {c \in Passing(r, table) : c.store = Head(r.left) /\ Relevance(c.id) > 0},
           NEW fetch \in Nat,
           NEW q, q = [r EXCEPT !.pc = IF Len(r.left) = 1 THEN "fuse" ELSE "dense",
                                !.left = Tail(@), !.fetch = fetch,
                                !.bm25 = @ \o retain_own_chunks(top, Head(r.left), Relevance)]
    PROVE  IsSearch(q, table, log)
<1> DEFINE s == Head(r.left)
<1>1. PICK hits : hits = retain_own_chunks(top, Head(r.left), Relevance)
  OBVIOUS
<1>2. /\ r \in Searches /\ Placed(r) /\ table \subseteq log.chunks /\ AllGrounded(r, log.chunks)
      /\ log.writes = 0 /\ Fits(r, table) => PagesRight(r, AllOf(r, table)) /\ Pooling(r, table)
  BY DEF IsSearch
<1>3. /\ s \in Stores /\ Contains(r.targets, s) /\ s = r.targets[Searched(r) + 1]
      /\ Searched(r) + 1 \in 1 .. Len(r.targets)
  BY <1>2, HeadIsNext
<1>4. HitsOf(hits, top, s)
  <2>1. Rows(Passing(r, table))
    BY PassingRows
  <2>2. Rows(top)
    BY <2>1, FS_Subset DEF Rows
  <2> QED
    BY <1>1, <1>3, <2>2, Bm25Hits
<1>5. hits \in Seq(Hit)
  BY <1>4 DEF HitsOf
<1>6. r.bm25 \in Seq(Hit) /\ r.bm25 \o hits \in Seq(Hit) /\ r.targets \in Seq(Stores)
  BY <1>2, <1>5 DEF Searches
<1>7. r.left \in Seq(Stores) /\ Len(r.left) \in Nat /\ Len(r.left) > 0
  BY <1>2 DEF Searches, Placed
<1>8. /\ Tail(r.left) \in Seq(Stores) /\ Len(Tail(r.left)) = Len(r.left) - 1
      /\ \A i \in 1 .. Len(r.left) - 1 : Tail(r.left)[i] = r.left[i + 1]
  BY <1>7
<1>9. /\ q \in Searches /\ q.pc = (IF Len(r.left) = 1 THEN "fuse" ELSE "dense")
      /\ q.bm25 = r.bm25 \o hits /\ q.left = Tail(r.left)
      /\ q.targets = r.targets /\ q.filtered = r.filtered /\ q.offset = r.offset
      /\ q.dense = r.dense /\ q.seen = r.seen /\ q.surface = r.surface
  BY <1>1, <1>2, <1>6, <1>8 DEF Searches, SearchPcs
<1>10. Placed(q) /\ Searched(q) = Searched(r) + 1
  <2> DEFINE n == Len(r.targets)
             m == Len(r.left)
  <2>1. n \in Nat /\ m \in Nat
    BY <1>6, <1>7
  <2>2. Searched(r) = n - m /\ Searched(q) = n - (m - 1) /\ Len(q.left) = m - 1
    BY <1>8, <1>9, <2>1 DEF Searched
  <2>8. Len(r.left) = m
    OBVIOUS
  <2> HIDE DEF n, m
  <2>3. m > 0 /\ n - m >= 0
    BY <1>2, <1>7, <2>1, <2>2, <2>8 DEF Placed
  <2>4. \A i \in 1 .. Len(q.left) : q.left[i] = q.targets[Searched(q) + i]
    <3> TAKE i \in 1 .. Len(q.left)
    <3>1. i + 1 \in 1 .. m /\ i \in 1 .. m - 1
      BY <2>1, <2>2
    <3>2. q.left[i] = r.left[i + 1]
      BY <1>8, <1>9, <2>1, <2>8, <3>1
    <3>3. r.left[i + 1] = r.targets[Searched(r) + (i + 1)]
      BY <1>2, <2>1, <2>8, <3>1 DEF Placed
    <3>4. Searched(r) + (i + 1) = Searched(q) + i
      <4>1. i \in Int
        BY <3>1
      <4> QED
        BY <2>1, <2>2, <4>1
    <3> QED
      BY <1>9, <3>2, <3>3, <3>4
  <2>5. q.offset >= 0 /\ q.pc # "answered" /\ q.pc # "exact" /\ q.pc # "bm25"
    BY <1>2, <1>9 DEF Placed
  <2>6. (q.pc = "dense" => Len(q.left) > 0) /\ (q.pc = "fuse" => Len(q.left) = 0)
    <3>1. CASE m = 1
      <4>1. q.pc = "fuse" /\ Len(q.left) = 0
        BY <1>9, <2>2, <2>8, <3>1
      <4> QED
        BY <4>1
    <3>2. CASE m # 1
      <4>1. q.pc = "dense" /\ Len(q.left) > 0
        BY <1>9, <2>1, <2>2, <2>3, <2>8, <3>2
      <4> QED
        BY <4>1
    <3> QED
      BY <3>1, <3>2
  <2>7. Searched(q) >= 0 /\ Searched(q) = Searched(r) + 1
    BY <2>1, <2>2, <2>3
  <2> QED
    BY <2>4, <2>5, <2>6, <2>7 DEF Placed
<1>11. /\ Passing(q, table) = Passing(r, table) /\ (Fits(q, table) <=> Fits(r, table))
       /\ AllOf(q, table) = AllOf(r, table)
       /\ \A rows, key : Grounded(q, rows, key) <=> Grounded(r, rows, key)
  BY <1>2, <1>9, SameQuestion
<1>12. AllGrounded(q, log.chunks)
  <2>1. top \in SUBSET {c \in Passing(r, table) : c.store = s}
    OBVIOUS
  <2>2. \A h \in ToSet(hits) : Grounded(r, log.chunks, <<h.store, h.id>>)
    BY <1>2, <1>3, <1>4, <2>1, LegIsGrounded
  <2>3. ToSet(r.bm25 \o hits) = ToSet(r.bm25) \cup ToSet(hits)
    BY <1>5, <1>6, JoinedMembers
  <2> QED
    BY <1>2, <1>9, <1>11, <2>2, <2>3 DEF AllGrounded
<1>13. ASSUME log.writes = 0, Fits(q, table)
       PROVE  PagesRight(q, AllOf(q, table)) /\ Pooling(q, table)
  <2>1. Fits(r, table) /\ PagesRight(r, AllOf(r, table)) /\ Pooling(r, table)
    BY <1>2, <1>11, <1>13
  <2>2. PagesRight(q, AllOf(q, table))
    <3>1. PICK all : all = AllOf(r, table)
      OBVIOUS
    <3> QED
      BY <1>9, <1>11, <2>1, <3>1 DEF PagesRight, Shown
  <2>3. hits = Bm25Leg(Passing(r, table), s)
    BY <1>1, <2>1 DEF Bm25Leg
  <2>4. PICK D, B : /\ D = Strung(DenseLegs(Passing(r, table), r.targets))
                   /\ B = Strung(Bm25Legs(Passing(r, table), r.targets))
    OBVIOUS
  <2>5. B[Searched(r) + 1] = B[(Searched(r) + 1) - 1] \o Bm25Leg(Passing(r, table), s)
    BY <1>3, <1>6, <2>4, PassingRows, LegsStrung
  <2>6. (Searched(r) + 1) - 1 = Searched(r)
    BY <1>2, <1>6 DEF Searches, Searched
  <2>7. r.dense = D[Searched(r) + 1] /\ r.bm25 = B[Searched(r)]
    BY <2>1, <2>4 DEF Pooling
  <2>8. q.dense = D[Searched(q)] /\ q.bm25 = B[Searched(q)]
    BY <1>9, <1>10, <2>3, <2>5, <2>6, <2>7
  <2>9. q.pc # "bm25"
    BY <1>9
  <2> QED
    BY <1>9, <1>11, <2>2, <2>4, <2>8, <2>9 DEF Pooling
<1> QED
  BY <1>2, <1>9, <1>10, <1>12, <1>13 DEF IsSearch

(* The next page asks the same question again. *)
LEMMA PageTurns ==
    ASSUME NEW r, NEW table, Rows(table), NEW log, IsSearch(r, table, log),
           r.pc = "answered", r.offset >= 0,
           NEW q, q = [r EXCEPT !.pc = FirstLeg(r.targets), !.left = r.targets]
    PROVE  IsSearch(q, table, log)
<1>1. r \in Searches /\ r.dense = << >> /\ r.bm25 = << >> /\ r.targets \in Seq(Stores)
  BY DEF IsSearch, Placed, Searches
<1>2. /\ q \in Searches /\ q.pc = FirstLeg(r.targets) /\ q.left = r.targets
      /\ q.targets = r.targets /\ q.filtered = r.filtered /\ q.offset = r.offset
      /\ q.dense = << >> /\ q.bm25 = << >> /\ q.seen = r.seen /\ q.surface = r.surface
  BY <1>1 DEF Searches, SearchPcs, FirstLeg
<1>3. Searched(q) = 0
  BY <1>1, <1>2 DEF Searched
<1>4. q.pc # "answered" /\ q.pc # "bm25" /\ Placed(q)
  <2>1. \A i \in 1 .. Len(q.left) : q.left[i] = q.targets[Searched(q) + i]
    <3> TAKE i \in 1 .. Len(q.left)
    <3>1. Len(q.left) \in Nat
      BY <1>1, <1>2
    <3>2. 0 + i = i
      BY <3>1
    <3> QED
      BY <1>2, <1>3, <3>2
  <2>2. CASE r.targets = << >>
    <3>1. q.pc = "fuse" /\ Len(q.left) = 0
      BY <1>2, <2>2 DEF FirstLeg
    <3> QED
      BY <1>2, <1>3, <2>1, <3>1 DEF Placed
  <2>3. CASE r.targets # << >>
    <3>1. q.pc = "dense" /\ Len(q.left) > 0
      BY <1>1, <1>2, <2>3 DEF FirstLeg
    <3> QED
      BY <1>2, <1>3, <2>1, <3>1 DEF Placed
  <2> QED
    BY <2>2, <2>3
<1>5. /\ Passing(q, table) = Passing(r, table) /\ (Fits(q, table) <=> Fits(r, table))
      /\ AllOf(q, table) = AllOf(r, table)
      /\ \A rows, key : Grounded(q, rows, key) <=> Grounded(r, rows, key)
  BY <1>1, <1>2, SameQuestion
<1>6. AllGrounded(q, log.chunks)
  BY <1>1, <1>2, <1>5 DEF IsSearch, AllGrounded
<1>7. PICK all : all = AllOf(r, table)
  OBVIOUS
<1>8. PagesRight(r, all) => PagesRight(q, all)
  BY <1>2 DEF PagesRight, Shown
<1>9. Pooling(q, table)
  <2>1. Rows(Passing(q, table))
    BY PassingRows
  <2>2. q.targets \in Seq(Stores)
    BY <1>1, <1>2
  <2>3. /\ Strung(DenseLegs(Passing(q, table), q.targets))[0] = << >>
        /\ Strung(Bm25Legs(Passing(q, table), q.targets))[0] = << >>
    BY <2>1, <2>2, LegsStrung
  <2> QED
    BY <1>2, <1>3, <1>4, <2>3 DEF Pooling
<1> QED
  BY <1>2, <1>4, <1>5, <1>6, <1>7, <1>8, <1>9 DEF IsSearch

(* A page of a list is what follows the offset, up to the limit.             *)
PageFrom(all, offset, limit) == SubSeq(all, offset + 1, Min({offset + limit, Len(all)}))
Upto(offset, limit, len) == IF offset + limit <= len THEN offset + limit ELSE len

LEMMA PageCites ==
    ASSUME NEW fused \in Seq(Hit), NEW offset \in Nat, NEW limit \in Nat \ {0}
    PROVE  LET cited == Cited(PageFrom(fused, offset, limit))
           IN  /\ cited \in Seq(Stores \X ChunkIds)
               /\ offset <= Len(fused) => Len(cited) = Upto(offset, limit, Len(fused)) - offset
               /\ \A i \in 1 .. Len(cited) :
                    offset + i \in 1 .. Len(fused) /\ cited[i] = Cited(fused)[offset + i]
<1> DEFINE page == PageFrom(fused, offset, limit)
           len == Len(fused)
           top == Upto(offset, limit, len)
           size == IF offset + 1 <= top THEN top - offset ELSE 0
           cited == Cited(page)
<1>1. len \in Nat /\ top \in Nat /\ top <= len /\ offset + limit \in Nat
  BY DEF Upto
<1>2. Min({offset + limit, len}) = top
  BY <1>1, LesserOfTwo DEF Upto
<1>3. page = SubSeq(fused, offset + 1, top)
  BY <1>2 DEF PageFrom
<1>4. size \in Nat /\ \A i \in 1 .. size : offset + i \in 1 .. len
  <2> HIDE DEF top, len
  <2> QED
    BY <1>1
<1>5. page \in Seq(Hit) /\ Len(page) = size /\ \A i \in 1 .. size : page[i] = fused[offset + i]
  <2>1. \A i \in offset + 1 .. top : fused[i] \in Hit
    BY <1>1
  <2>2. /\ page \in Seq(Hit)
        /\ Len(page) = IF offset + 1 <= top THEN top - (offset + 1) + 1 ELSE 0
        /\ \A i \in 1 .. top - (offset + 1) + 1 : page[i] = fused[offset + 1 + i - 1]
    <3> HIDE DEF page, top, len
    <3>1. offset + 1 \in Int /\ top \in Int
      BY <1>1
    <3> QED
      BY <1>3, <2>1, <3>1, SubSeqProperties
  <2> HIDE DEF page, top, len
  <2>3. Len(page) = size
    BY <1>1, <2>2
  <2>4. ASSUME NEW i \in 1 .. size
        PROVE  page[i] = fused[offset + i]
    <3>1. i \in 1 .. top - (offset + 1) + 1 /\ offset + 1 + i - 1 = offset + i
      BY <1>1
    <3> QED
      BY <2>2, <3>1
  <2> QED
    BY <2>2, <2>3, <2>4
<1> HIDE DEF page, size, top, len
<1>6. \A i \in 1 .. size : page[i] \in Hit /\ page[i] = fused[offset + i]
  BY <1>5
<1>7. cited = [i \in 1 .. size |-> <<page[i].store, page[i].id>>]
  BY <1>5 DEF Cited
<1>8. \A i \in 1 .. size : cited[i] \in Stores \X ChunkIds
  BY <1>6, <1>7 DEF Hit
<1>9. cited \in Seq(Stores \X ChunkIds) /\ Len(cited) = size
  BY <1>4, <1>7, <1>8
<1>10. \A i \in 1 .. size : cited[i] = Cited(fused)[offset + i]
  <2> TAKE i \in 1 .. size
  <2>1. offset + i \in DOMAIN fused
    BY <1>4 DEF len
  <2>2. Cited(fused)[offset + i] = <<fused[offset + i].store, fused[offset + i].id>>
    BY <2>1 DEF Cited
  <2> QED
    BY <1>6, <1>7, <2>2
<1>11. offset <= len => size = top - offset
  BY <1>1 DEF size, top, Upto
<1> HIDE DEF cited
<1> QED
  BY <1>4, <1>9, <1>10, <1>11 DEF cited, page, top, len

(* A page is shown. *)
LEMMA PageIsShown ==
    ASSUME NEW r \in Searches, NEW q \in Searches, NEW all \in Seq(Stores \X ChunkIds),
           NEW cited \in Seq(Stores \X ChunkIds),
           r.pc = "fuse", PagesRight(r, all), q.pc = "answered", q.surface = r.surface,
           Len(q.seen) = Len(r.seen) + Len(cited),
           \A i \in 1 .. Len(r.seen) : q.seen[i] = r.seen[i],
           \A i \in 1 .. Len(cited) : q.seen[Len(r.seen) + i] = cited[i],
           Len(cited) = Upto(r.offset, r.limit, Len(all)) - r.offset,
           \A i \in 1 .. Len(cited) : cited[i] = all[r.offset + i],
           q.offset = IF r.surface = "http" THEN NextCursor(r.offset + r.limit, Len(all)) ELSE -1
    PROVE  PagesRight(q, all)
<1> DEFINE len == Len(all)
           offset == r.offset
           limit == r.limit
           top == Upto(offset, limit, len)
<1>1. len \in Nat /\ limit \in Nat \ {0} /\ r.seen \in Seq(Stores \X ChunkIds)
  BY DEF Searches
<1>2. offset \in 0 .. len /\ Shown(r, offset, all)
  BY DEF PagesRight
<1>3. Len(cited) \in Nat /\ Len(cited) = top - offset
  OBVIOUS
<1>9. offset = r.offset /\ limit = r.limit /\ len = Len(all)
  OBVIOUS
<1> HIDE DEF len, offset, limit
<1>4. top \in 0 .. len /\ top >= offset
  BY <1>1, <1>2 DEF Upto
<1>5. Shown(q, top, all)
  <2>1. /\ Len(r.seen) = offset /\ Len(q.seen) = Len(r.seen) + Len(cited)
        /\ \A i \in 1 .. Len(r.seen) : q.seen[i] = r.seen[i]
        /\ \A i \in 1 .. Len(cited) : q.seen[Len(r.seen) + i] = cited[i]
    <3>1. Len(r.seen) = offset
      BY <1>2 DEF Shown
    <3> QED
      BY <3>1
  <2>2. Len(q.seen) = top
    BY <1>1, <1>2, <1>3, <1>4, <2>1
  <2>3. ASSUME NEW i \in 1 .. top
        PROVE  q.seen[i] = all[i]
    <3>1. CASE i \in 1 .. offset
      BY <1>2, <2>1, <3>1 DEF Shown
    <3>2. CASE i \notin 1 .. offset
      <4>1. i - offset \in 1 .. Len(cited) /\ offset + (i - offset) = i
        BY <1>2, <1>3, <1>4, <3>2
      <4>2. q.seen[offset + (i - offset)] = cited[i - offset]
        BY <2>1, <4>1
      <4>3. cited[i - offset] = all[offset + (i - offset)]
        BY <4>1 DEF offset
      <4> QED
        BY <4>1, <4>2, <4>3
    <3> QED
      BY <3>1, <3>2
  <2> QED
    BY <2>2, <2>3 DEF Shown
<1>6. CASE r.surface = "http" /\ offset + limit < len
  <2>1. top = offset + limit /\ offset + limit \in 0 .. len /\ offset + limit >= 0
    BY <1>1, <1>2, <1>6 DEF Upto
  <2>2. q.offset = offset + limit
    BY <1>6 DEF NextCursor, offset, limit, len
  <2> HIDE DEF top
  <2> QED
    BY <1>5, <1>6, <2>1, <2>2 DEF PagesRight, len
<1>7. CASE r.surface = "http" /\ ~(offset + limit < len)
  <2>1. top = len
    <3>1. offset + limit \in Int /\ len \in Int /\ offset + limit >= len
      BY <1>1, <1>2, <1>7
    <3> QED
      BY <3>1 DEF Upto
  <2>2. q.offset = -1
    BY <1>7 DEF NextCursor, offset, limit, len
  <2> HIDE DEF top
  <2> QED
    BY <1>4, <1>5, <2>1, <2>2 DEF PagesRight, len
<1>8. CASE r.surface # "http"
  <2>1. q.offset = -1
    BY <1>8
  <2> HIDE DEF top
  <2> QED
    BY <1>4, <1>5, <1>8, <2>1 DEF PagesRight, len
<1> QED
  BY <1>6, <1>7, <1>8

LEMMA Answers ==
    ASSUME NEW r, NEW table, Rows(table), NEW log, IsSearch(r, table, log), r.pc = "fuse",
           NEW fused, fused = rrf_fuse_global(r.dense, r.bm25),
           NEW next, next = IF r.surface = "http" THEN NextCursor(r.offset + r.limit, Len(fused)) ELSE -1,
           NEW q, q = [r EXCEPT !.pc = "answered", !.offset = next, !.dense = << >>, !.bm25 = << >>,
                                !.seen = @ \o Cited(PageFrom(fused, r.offset, r.limit))]
    PROVE  IsSearch(q, table, log)
<1> DEFINE page == PageFrom(fused, r.offset, r.limit)
           cited == Cited(page)
<1>1. /\ r \in Searches /\ Placed(r) /\ table \subseteq log.chunks /\ AllGrounded(r, log.chunks)
      /\ log.writes = 0 /\ Fits(r, table) => PagesRight(r, AllOf(r, table)) /\ Pooling(r, table)
  BY DEF IsSearch
<1>2. /\ r.targets \in Seq(Stores) /\ r.dense \in Seq(Hit) /\ r.bm25 \in Seq(Hit)
      /\ r.seen \in Seq(Stores \X ChunkIds) /\ r.limit \in Nat \ {0} /\ r.offset \in Nat
  BY <1>1 DEF Searches, Placed
<1>3. /\ fused \in Seq(Hit) /\ Len(Cited(fused)) = Len(fused)
      /\ Cited(fused) \in Seq(Stores \X ChunkIds)
      /\ ToSet(Cited(fused)) = Keys(r.dense, r.bm25)
  BY <1>2, FusionSorts
<1>4. /\ cited \in Seq(Stores \X ChunkIds)
      /\ r.offset <= Len(fused) => Len(cited) = Upto(r.offset, r.limit, Len(fused)) - r.offset
      /\ \A i \in 1 .. Len(cited) :
           r.offset + i \in 1 .. Len(fused) /\ cited[i] = Cited(fused)[r.offset + i]
  BY SMTT(30), <1>2, <1>3, PageCites
<1> HIDE DEF page, cited
<1>5. next \in Nat \cup {-1}
  <2>1. r.offset + r.limit \in Nat /\ Len(fused) \in Nat
    BY <1>2, <1>3
  <2> QED
    BY <2>1 DEF NextCursor
<1>6. r.seen \o cited \in Seq(Stores \X ChunkIds) /\ ToSet(r.seen \o cited) = ToSet(r.seen) \cup ToSet(cited)
  BY <1>2, <1>4, JoinedMembers
<1>7. q = [r EXCEPT !.pc = "answered", !.offset = next, !.dense = << >>, !.bm25 = << >>,
                    !.seen = r.seen \o cited]
  BY <1>1 DEF cited, page, Searches
<1>8. /\ q \in Searches /\ q.pc = "answered" /\ q.offset = next /\ q.dense = << >> /\ q.bm25 = << >>
      /\ q.targets = r.targets /\ q.filtered = r.filtered /\ q.left = r.left
      /\ q.surface = r.surface /\ q.seen = r.seen \o cited
  <2>1. << >> \in Seq(Hit)
    OBVIOUS
  <2> QED
    BY <1>1, <1>5, <1>6, <1>7, <2>1 DEF Searches, SearchPcs
<1>9. Placed(q)
  BY <1>1, <1>8 DEF Placed, Searched
<1>10. /\ Passing(q, table) = Passing(r, table) /\ (Fits(q, table) <=> Fits(r, table))
       /\ AllOf(q, table) = AllOf(r, table)
       /\ \A rows, key : Grounded(q, rows, key) <=> Grounded(r, rows, key)
  BY <1>1, <1>8, SameQuestion
<1>11. AllGrounded(q, log.chunks)
  <2>1. \A hit \in ToSet(cited) : Grounded(r, log.chunks, hit)
    <3> TAKE hit \in ToSet(cited)
    <3>1. PICK i \in 1 .. Len(cited) : hit = cited[i]
      BY <1>4 DEF ToSet
    <3>2. hit \in ToSet(Cited(fused))
      <4>1. r.offset + i \in DOMAIN Cited(fused)
        BY <1>3, <1>4
      <4> QED
        BY <1>4, <3>1, <4>1 DEF ToSet
    <3>3. hit \in Keys(r.dense, r.bm25)
      BY <1>3, <3>2
    <3>4. Keys(r.dense, r.bm25) = {<<h.store, h.id>> : h \in ToSet(r.dense)}
                                    \cup {<<h.store, h.id>> : h \in ToSet(r.bm25)}
      <4>1. \A s \in Seq(Hit) : ToSet(s) = {s[i_1] : i_1 \in 1 .. Len(s)}
        BY DEF ToSet
      <4>2. ToSet(r.dense) = {r.dense[k] : k \in 1 .. Len(r.dense)} /\ ToSet(r.bm25) = {r.bm25[k] : k \in 1 .. Len(r.bm25)}
        BY <1>2, <4>1
      <4>3. Keys(r.dense, r.bm25) = {<<r.dense[k].store, r.dense[k].id>> : k \in 1 .. Len(r.dense)}
                                      \cup {<<r.bm25[k].store, r.bm25[k].id>> : k \in 1 .. Len(r.bm25)}
        BY <1>2, KeysAreHits
      <4> QED
        BY <4>2, <4>3
    <3> QED
      BY <1>1, <3>3, <3>4 DEF AllGrounded
  <2>2. ToSet(<< >>) = {}
    BY DEF ToSet
  <2> QED
    BY <1>1, <1>6, <1>8, <1>10, <2>1, <2>2 DEF AllGrounded
<1>12. ASSUME log.writes = 0, Fits(q, table)
       PROVE  PagesRight(q, AllOf(q, table))
  <2>1. PagesRight(r, AllOf(r, table)) /\ Pooling(r, table)
    BY <1>1, <1>10, <1>12
  <2>2. PICK D, B : /\ D = Strung(DenseLegs(Passing(r, table), r.targets))
                   /\ B = Strung(Bm25Legs(Passing(r, table), r.targets))
    OBVIOUS
  <2>3. Searched(r) = Len(r.targets)
    <3>1. Len(r.targets) \in Nat /\ Len(r.left) = 0
      BY <1>1, <1>2 DEF Placed
    <3> QED
      BY <3>1 DEF Searched
  <2>4. r.dense = D[Len(r.targets)] /\ r.bm25 = B[Len(r.targets)]
    BY <2>1, <2>2, <2>3 DEF Pooling
  <2>5. AllOf(r, table) = Cited(fused)
    BY <2>2, <2>4 DEF AllOf, Fused
  <2>6. PagesRight(r, Cited(fused)) /\ r.offset <= Len(fused)
    <3>1. r.offset \in 0 .. Len(Cited(fused)) /\ Len(fused) \in Nat
      BY <1>3, <2>1, <2>5 DEF PagesRight
    <3> QED
      BY <1>3, <2>1, <2>5, <3>1
  <2>7. PICK all \in Seq(Stores \X ChunkIds) : all = Cited(fused)
    BY <1>3
  <2>8. PagesRight(q, all)
    <3>1. /\ Len(cited) = Upto(r.offset, r.limit, Len(all)) - r.offset
          /\ \A i \in 1 .. Len(cited) : cited[i] = all[r.offset + i]
          /\ q.offset = IF r.surface = "http" THEN NextCursor(r.offset + r.limit, Len(all)) ELSE -1
      BY <1>3, <1>4, <1>8, <2>6, <2>7
    <3>2. /\ Len(q.seen) = Len(r.seen) + Len(cited)
          /\ \A i \in 1 .. Len(r.seen) : q.seen[i] = r.seen[i]
          /\ \A i \in 1 .. Len(cited) : q.seen[Len(r.seen) + i] = cited[i]
      <4>1. PICK S, a, b : S = Stores \X ChunkIds /\ a = r.seen /\ b = cited
        OBVIOUS
      <4>2. a \in Seq(S) /\ b \in Seq(S)
        BY <1>2, <1>4, <4>1
      <4>3. /\ Len(a \o b) = Len(a) + Len(b)
            /\ \A i \in 1 .. Len(a) : (a \o b)[i] = a[i]
            /\ \A i \in 1 .. Len(b) : (a \o b)[Len(a) + i] = b[i]
        BY <4>2, Concatenation
      <4>4. q.seen = a \o b
        BY <1>8, <4>1
      <4> QED
        BY <4>1, <4>3, <4>4
    <3>3. PICK c \in Seq(Stores \X ChunkIds) : c = cited
      BY <1>4
    <3>4. PagesRight(r, all) /\ r \in Searches /\ q \in Searches /\ q.pc = "answered" /\ q.surface = r.surface
      BY <1>1, <1>8, <2>6, <2>7
    <3>5. /\ Len(q.seen) = Len(r.seen) + Len(c)
          /\ \A i \in 1 .. Len(r.seen) : q.seen[i] = r.seen[i]
          /\ \A i \in 1 .. Len(c) : q.seen[Len(r.seen) + i] = c[i]
          /\ Len(c) = Upto(r.offset, r.limit, Len(all)) - r.offset
          /\ \A i \in 1 .. Len(c) : c[i] = all[r.offset + i]
          /\ q.offset = IF r.surface = "http" THEN NextCursor(r.offset + r.limit, Len(all)) ELSE -1
      BY <3>1, <3>2, <3>3
    <3> QED
      BY <3>4, <3>5, PageIsShown
  <2> QED
    BY <1>10, <2>5, <2>7, <2>8
<1> QED
  BY <1>1, <1>8, <1>9, <1>11, <1>12 DEF IsSearch

(* A write between two steps adds to what the search may cite, and ends the  *)
(* promise to find everything.                                               *)
LEMMA WritesBetween ==
    ASSUME NEW r, NEW table, NEW log, IsSearch(r, table, log), NEW new, NEW newLog,
           new \subseteq newLog.chunks, log.chunks \subseteq newLog.chunks, newLog.writes # 0
    PROVE  IsSearch(r, new, newLog)
<1>1. AllGrounded(r, newLog.chunks)
  BY DEF IsSearch, AllGrounded, Grounded
<1> QED
  BY <1>1 DEF IsSearch

-----------------------------------------------------------------------------
(* The best of few are all of them. *)
LEMMA BestByVector ==
    ASSUME NEW S, IsFiniteSet(S), NEW top \in Best(S, LegK, Similarity)
    PROVE  top \in SUBSET S /\ (Cardinality(S) <= LegK => top = S)
<1>1. LegK \in Nat /\ Cardinality(S) \in Nat
  BY FS_CardinalityType, RetrievalAssumption
<1>2. top \in SUBSET S /\ Cardinality(top) = Min({LegK, Cardinality(S)})
  BY DEF Best, kSubset
<1>3. Cardinality(S) <= LegK => Cardinality(top) = Cardinality(S)
  BY <1>1, <1>2, LesserOfTwo
<1> QED
  BY <1>2, <1>3, FS_Subset

LEMMA BestByText ==
    ASSUME NEW S, IsFiniteSet(S), NEW top \in Best(S, LegK, Relevance)
    PROVE  top \in SUBSET S /\ (Cardinality(S) <= LegK => top = S)
<1>1. LegK \in Nat /\ Cardinality(S) \in Nat
  BY FS_CardinalityType, RetrievalAssumption
<1>2. top \in SUBSET S /\ Cardinality(top) = Min({LegK, Cardinality(S)})
  BY DEF Best, kSubset
<1>3. Cardinality(S) <= LegK => Cardinality(top) = Cardinality(S)
  BY <1>1, <1>2, LesserOfTwo
<1> QED
  BY <1>2, <1>3, FS_Subset

LEMMA FewPerStore ==
    ASSUME NEW r \in Searches, NEW table, Rows(table), NEW s, Contains(r.targets, s)
    PROVE  LET own == {c \in Passing(r, table) : c.store = s}
           IN  /\ IsFiniteSet(own) /\ Cardinality(own) \in Nat
               /\ Fits(r, table) => Cardinality(own) <= LegK
<1>1. Rows(Passing(r, table))
  BY PassingRows
<1> DEFINE own == {c \in Passing(r, table) : c.store = s}
<1>2. IsFiniteSet(own)
  BY <1>1, FS_Subset DEF Rows
<1>3. s \in ToSet(r.targets)
  BY DEF Contains, ToSet, Searches
<1> QED
  BY <1>2, <1>3, FS_CardinalityType DEF Fits

LEMMA HitsPass ==
    ASSUME NEW r, r = reader, NEW table, NEW s
    PROVE  Hits(table, s) = {c \in Passing(r, table) : c.store = s}
BY DEF Hits, Passes, Passing, PassesFor

(* What a step of a search keeps. *)
LEMMA SearchGoesOn ==
    ASSUME SearchInvariant, UNCHANGED <<tables, touched>>,
           IsSearch(reader', chunks, touched)
    PROVE  SearchInvariant'
<1>1. chunks' = chunks /\ touched' = touched
  BY DEF tables
<1>2. reader'.pc \in SearchPcs
  BY DEF IsSearch, Searches
<1>3. reader'.pc \notin {"chunks", "blocks"}
  BY <1>2 DEF SearchPcs
<1>4. IsSearch(reader', chunks', touched')
  BY <1>1
<1>5. touched'.writes \in Nat
  BY <1>1 DEF SearchInvariant
<1> QED
  BY <1>3, <1>4, <1>5 DEF SearchInvariant

LEMMA DenseSearchKeeps ==
    ASSUME SearchInvariant, TablesExact, DenseSearch
    PROVE  SearchInvariant'
<1>1. PICK r, q : r = reader /\ q = reader'
  OBVIOUS
<1>2. r.pc = "dense" /\ UNCHANGED <<tables, touched>>
  BY <1>1 DEF DenseSearch
<1>3. Rows(chunks) /\ IsSearch(r, chunks, touched)
  BY <1>1, <1>2, ExactRows DEF SearchInvariant, SearchPcs
<1>4. r \in Searches /\ Contains(r.targets, Head(r.left))
  <2>1. r \in Searches /\ Placed(r)
    BY <1>3 DEF IsSearch
  <2> QED
    BY <1>2, <2>1, HeadIsNext
<1> DEFINE own == {c \in Passing(r, chunks) : c.store = Head(r.left)}
<1>5. PICK ann \in SUBSET chunks : \E top \in Best(Hits(ann, Head(r.left)), LegK, Similarity) :
         q = IF Cardinality(top) >= LegK
             THEN [r EXCEPT !.pc = "bm25", !.dense = @ \o retain_own_chunks(top, Head(r.left), Similarity)]
             ELSE IF r.fetch >= MaxFactor * LegK
             THEN [r EXCEPT !.pc = "exact"]
             ELSE [r EXCEPT !.fetch = Min({2 * @, MaxFactor * LegK})]
  BY <1>1 DEF DenseSearch, kSubset
<1>6. PICK top \in Best(Hits(ann, Head(r.left)), LegK, Similarity) :
         q = IF Cardinality(top) >= LegK
             THEN [r EXCEPT !.pc = "bm25", !.dense = @ \o retain_own_chunks(top, Head(r.left), Similarity)]
             ELSE IF r.fetch >= MaxFactor * LegK
             THEN [r EXCEPT !.pc = "exact"]
             ELSE [r EXCEPT !.fetch = Min({2 * @, MaxFactor * LegK})]
  BY <1>5
<1>7. IsFiniteSet(own) /\ Cardinality(own) \in Nat /\ (Fits(r, chunks) => Cardinality(own) <= LegK)
  BY <1>3, <1>4, FewPerStore
<1>8. top \in SUBSET own
  <2>1. Hits(ann, Head(r.left)) \in SUBSET own
    BY <1>1 DEF Hits, Passes, Passing, PassesFor
  <2>2. IsFiniteSet(Hits(ann, Head(r.left)))
    BY <1>7, <2>1, FS_Subset
  <2> QED
    BY <2>1, <2>2, BestByVector
<1>9. IsSearch(q, chunks, touched)
  <2>1. CASE Cardinality(top) >= LegK
    <3>1. Fits(r, chunks) => top = own
      <4>1. IsFiniteSet(top) /\ Cardinality(top) <= Cardinality(own) /\ Cardinality(top) \in Nat
        BY <1>7, <1>8, FS_Subset, FS_CardinalityType
      <4>2. LegK \in Nat
        BY RetrievalAssumption
      <4>3. Fits(r, chunks) => Cardinality(top) = Cardinality(own)
        BY <1>7, <2>1, <4>1, <4>2
      <4> QED
        BY <1>7, <1>8, <4>3, FS_Subset
    <3>2. q = [r EXCEPT !.pc = "bm25", !.dense = @ \o retain_own_chunks(top, Head(r.left), Similarity)]
      BY <1>6, <2>1
    <3>3. r.pc \in {"dense", "exact"}
      BY <1>2
    <3> QED
      BY <1>3, <1>8, <3>1, <3>2, <3>3, DenseLegEnds
  <2>2. CASE ~(Cardinality(top) >= LegK)
    <3>1. \/ q = [r EXCEPT !.pc = "exact"]
          \/ q = [r EXCEPT !.fetch = Min({2 * @, MaxFactor * LegK})]
      BY <1>6, <2>2
    <3>2. Min({2 * r.fetch, MaxFactor * LegK}) \in Nat
      <4>1. r.fetch \in Nat /\ MaxFactor \in Nat /\ LegK \in Nat
        BY <1>4, RetrievalAssumption DEF Searches
      <4>2. 2 * r.fetch \in Nat /\ MaxFactor * LegK \in Nat
        BY <4>1
      <4> QED
        BY <4>2, LesserOfTwo
    <3>3. PICK f \in Nat : f = Min({2 * r.fetch, MaxFactor * LegK})
      BY <3>2
    <3>4. q = [r EXCEPT !.pc = "exact"] \/ q = [r EXCEPT !.fetch = f]
      BY <3>1, <3>3
    <3>5. r.pc \in {"dense", "exact"}
      BY <1>2
    <3> QED
      BY <1>3, <3>4, <3>5, DenseLegWidens
  <2> QED
    BY <2>1, <2>2
<1> QED
  BY <1>1, <1>2, <1>9, SearchGoesOn

LEMMA ExactScanKeeps ==
    ASSUME SearchInvariant, TablesExact, ExactScan
    PROVE  SearchInvariant'
<1>1. PICK r, q : r = reader /\ q = reader'
  OBVIOUS
<1>2. r.pc = "exact" /\ UNCHANGED <<tables, touched>>
  BY <1>1 DEF ExactScan
<1>3. Rows(chunks) /\ IsSearch(r, chunks, touched)
  BY <1>1, <1>2, ExactRows DEF SearchInvariant, SearchPcs
<1>4. r \in Searches /\ Contains(r.targets, Head(r.left)) /\ r.pc \in {"dense", "exact"}
  <2>1. r \in Searches /\ Placed(r)
    BY <1>3 DEF IsSearch
  <2> QED
    BY <1>2, <2>1, HeadIsNext
<1> DEFINE own == {c \in Passing(r, chunks) : c.store = Head(r.left)}
<1>5. Hits(chunks, Head(r.left)) = own
  BY <1>1, HitsPass
<1>6. PICK top \in Best(own, LegK, Similarity) :
         q = [r EXCEPT !.pc = "bm25", !.dense = @ \o retain_own_chunks(top, Head(r.left), Similarity)]
  BY <1>1, <1>5 DEF ExactScan
<1>7. IsFiniteSet(own) /\ (Fits(r, chunks) => Cardinality(own) <= LegK)
  BY <1>3, <1>4, FewPerStore
<1>8. top \in SUBSET own /\ (Fits(r, chunks) => top = own)
  BY <1>7, BestByVector
<1>9. IsSearch(q, chunks, touched)
  BY <1>3, <1>4, <1>6, <1>8, DenseLegEnds
<1> QED
  BY <1>1, <1>2, <1>9, SearchGoesOn

LEMMA Bm25SearchKeeps ==
    ASSUME SearchInvariant, TablesExact, Bm25Search
    PROVE  SearchInvariant'
<1>1. PICK r, q : r = reader /\ q = reader'
  OBVIOUS
<1>2. r.pc = "bm25" /\ UNCHANGED <<tables, touched>>
  BY <1>1 DEF Bm25Search
<1>3. Rows(chunks) /\ IsSearch(r, chunks, touched)
  BY <1>1, <1>2, ExactRows DEF SearchInvariant, SearchPcs
<1>4. r \in Searches /\ Contains(r.targets, Head(r.left))
  <2>1. r \in Searches /\ Placed(r)
    BY <1>3 DEF IsSearch
  <2> QED
    BY <1>2, <2>1, HeadIsNext
<1> DEFINE own == {c \in Passing(r, chunks) : c.store = Head(r.left)}
           matched == {c \in own : Relevance(c.id) > 0}
           all == {c \in Passing(r, chunks) : c.store = Head(r.left) /\ Relevance(c.id) > 0}
<1>5. {c \in Hits(chunks, Head(r.left)) : Relevance(c.id) > 0} = matched /\ matched = all
  BY <1>1, HitsPass
<1>6. PICK top \in Best(matched, LegK, Relevance) :
         q = [r EXCEPT !.pc = IF Len(r.left) = 1 THEN "fuse" ELSE "dense",
                       !.left = Tail(@), !.fetch = StartFactor * LegK,
                       !.bm25 = @ \o retain_own_chunks(top, Head(r.left), Relevance)]
  BY <1>1, <1>5 DEF Bm25Search
<1>7. IsFiniteSet(own) /\ Cardinality(own) \in Nat /\ (Fits(r, chunks) => Cardinality(own) <= LegK)
  BY <1>3, <1>4, FewPerStore
<1>8. IsFiniteSet(matched) /\ (Fits(r, chunks) => Cardinality(matched) <= LegK)
  <2>1. matched \in SUBSET own /\ LegK \in Nat
    BY RetrievalAssumption
  <2>2. IsFiniteSet(matched) /\ Cardinality(matched) <= Cardinality(own) /\ Cardinality(matched) \in Nat
    BY <1>7, <2>1, FS_Subset, FS_CardinalityType
  <2> QED
    BY <1>7, <2>1, <2>2
<1>9. top \in SUBSET all /\ (Fits(r, chunks) => top = all)
  BY <1>5, <1>8, BestByText
<1>10. StartFactor * LegK \in Nat
  <2>1. StartFactor \in Nat /\ LegK \in Nat
    BY RetrievalAssumption
  <2> QED
    BY <2>1
<1>11. IsSearch(q, chunks, touched)
  BY <1>2, <1>3, <1>6, <1>9, <1>10, Bm25LegEnds
<1> QED
  BY <1>1, <1>2, <1>11, SearchGoesOn

LEMMA AnswerKeeps ==
    ASSUME SearchInvariant, TablesExact, Answer
    PROVE  SearchInvariant'
<1>1. PICK r, q : r = reader /\ q = reader'
  OBVIOUS
<1>2. r.pc = "fuse" /\ UNCHANGED <<tables, touched>>
  BY <1>1 DEF Answer
<1>3. Rows(chunks) /\ IsSearch(r, chunks, touched)
  BY <1>1, <1>2, ExactRows DEF SearchInvariant, SearchPcs
<1>4. PICK fused, next : /\ fused = rrf_fuse_global(r.dense, r.bm25)
                         /\ next = IF r.surface = "http"
                                   THEN NextCursor(r.offset + r.limit, Len(fused)) ELSE -1
  OBVIOUS
<1>5. q = [r EXCEPT !.pc = "answered", !.offset = next, !.dense = << >>, !.bm25 = << >>,
                    !.seen = @ \o Cited(PageFrom(fused, r.offset, r.limit))]
  BY <1>1, <1>4 DEF Answer, PageFrom, Cited
<1>6. IsSearch(q, chunks, touched)
  BY <1>2, <1>3, <1>4, <1>5, Answers
<1> QED
  BY <1>1, <1>2, <1>6, SearchGoesOn

LEMMA NextPageKeeps ==
    ASSUME SearchInvariant, TablesExact, NextPage
    PROVE  SearchInvariant'
<1>1. PICK r, q : r = reader /\ q = reader'
  OBVIOUS
<1>2. r.pc = "answered" /\ r.offset >= 0 /\ UNCHANGED <<tables, touched>>
  BY <1>1 DEF NextPage
<1>3. Rows(chunks) /\ IsSearch(r, chunks, touched)
  BY <1>1, <1>2, ExactRows DEF SearchInvariant, SearchPcs
<1>4. q = [r EXCEPT !.pc = FirstLeg(r.targets), !.left = r.targets]
  BY <1>1 DEF NextPage
<1>5. IsSearch(q, chunks, touched)
  BY <1>2, <1>3, <1>4, PageTurns
<1> QED
  BY <1>1, <1>2, <1>5, SearchGoesOn

LEMMA AskKeeps ==
    ASSUME TablesExact, NEW q \in Queries, Ask(q[1], q[2], q[3], q[4])
    PROVE  SearchInvariant'
<1>1. PICK targets : targets = Targets(q[1], q[2])
  OBVIOUS
<1>2. PICK r, log : r = NewSearch(q[1], targets, q[3], q[4]) /\ log = [chunks |-> chunks, resources |-> {}, writes |-> 0]
  OBVIOUS
<1>3. reader' = r /\ touched' = log /\ chunks' = chunks
  BY <1>1, <1>2 DEF Ask, BeginReading, tables
<1>4. q[1] \in {"http", "cli", "mcp"} /\ q[2] \in Seq(Stores) /\ q[3] \in Nat \ {0} /\ q[4] \in BOOLEAN
  BY RetrievalAssumption
<1>5. targets \in Seq(Stores)
  BY <1>1, <1>4, TargetsAreStores
<1>6. StartFactor * LegK \in Nat
  <2>1. StartFactor \in Nat /\ LegK \in Nat
    BY RetrievalAssumption
  <2> QED
    BY <2>1
<1>7. r \in Searches
  <2>1. /\ << >> \in Seq(Hit) /\ << >> \in Seq(Stores \X ChunkIds) /\ 0 \in Nat \cup {-1}
        /\ FirstLeg(targets) \in SearchPcs
    BY DEF FirstLeg, SearchPcs
  <2> QED
    BY <1>2, <1>4, <1>5, <1>6, <2>1 DEF NewSearch, Searches
<1>8. /\ r.left = r.targets /\ r.offset = 0 /\ r.dense = << >> /\ r.bm25 = << >> /\ r.seen = << >>
      /\ r.pc = FirstLeg(r.targets)
  BY <1>2 DEF NewSearch
<1>9. Rows(chunks) /\ chunks \subseteq log.chunks /\ log.writes = 0
  BY <1>2, ExactRows
<1>10. IsSearch(r, chunks, log)
  BY <1>7, <1>8, <1>9, NothingShown
<1>11. r.pc \notin {"chunks", "blocks"}
  BY <1>8 DEF FirstLeg
<1> QED
  BY <1>3, <1>9, <1>10, <1>11 DEF SearchInvariant

LEMMA DocumentReadsKeep ==
    ASSUME SearchInvariant,
           \/ \E scope, id : FindDocument(scope, id)
           \/ GetChunks \/ GetBlocks \/ Done
    PROVE  SearchInvariant'
<1>1. CASE \E scope, id : FindDocument(scope, id)
  <2>1. PICK scope, id : FindDocument(scope, id)
    BY <1>1
  <2>2. PICK rows : /\ rows = {r \in resources : r.id = id /\ (Cardinality(scope) = 1 => r.store \in scope)}
                    /\ Cardinality(rows) = 1
                    /\ \A r \in rows : BeginReading([pc |-> "chunks", store |-> r.store, id |-> id,
                                                    chunks |-> 0, text |-> "none"])
    BY <2>1 DEF FindDocument
  <2>3. PICK r : r \in rows
    <3>1. rows # {}
      BY <2>2, FS_EmptySet
    <3> QED
      BY <3>1
  <2>4. /\ reader' = [pc |-> "chunks", store |-> r.store, id |-> id, chunks |-> 0, text |-> "none"]
        /\ touched'.writes = 0
    BY <2>2, <2>3 DEF BeginReading
  <2>5. reader'.pc = "chunks" /\ IsDocumentRead(reader')
    BY <2>4 DEF IsDocumentRead
  <2> QED
    BY <2>4, <2>5 DEF SearchInvariant, SearchPcs
<1>2. CASE GetChunks
  <2>1. /\ reader' = [reader EXCEPT !.pc = "blocks",
                        !.chunks = Cardinality({c \in chunks : c.store = reader.store /\ c.resource_id = reader.id})]
        /\ touched' = touched
    BY <1>2 DEF GetChunks
  <2>2. reader = [pc |-> reader.pc, store |-> reader.store, id |-> reader.id,
                  chunks |-> reader.chunks, text |-> reader.text]
    BY <1>2 DEF GetChunks, SearchInvariant, IsDocumentRead
  <2>3. PICK n : n = Cardinality({c \in chunks : c.store = reader.store /\ c.resource_id = reader.id})
    OBVIOUS
  <2>4. reader' = [pc |-> "blocks", store |-> reader.store, id |-> reader.id,
                   chunks |-> n, text |-> reader.text]
    BY <2>1, <2>2, <2>3
  <2>5. reader'.pc = "blocks" /\ IsDocumentRead(reader')
    BY <2>4 DEF IsDocumentRead
  <2> QED
    BY <2>1, <2>5 DEF SearchInvariant, SearchPcs
<1>3. CASE GetBlocks
  <2>1. PICK text : reader' = [reader EXCEPT !.pc = "shown", !.text = text] /\ touched' = touched
    BY <1>3 DEF GetBlocks
  <2>2. reader = [pc |-> reader.pc, store |-> reader.store, id |-> reader.id,
                  chunks |-> reader.chunks, text |-> reader.text]
    BY <1>3 DEF GetBlocks, SearchInvariant, IsDocumentRead
  <2>3. reader'.pc = "shown"
    BY <2>1, <2>2
  <2> QED
    BY <2>1, <2>3 DEF SearchInvariant, SearchPcs
<1>4. CASE Done
  BY <1>4 DEF Done, Idle, SearchInvariant, SearchPcs
<1> QED
  BY <1>1, <1>2, <1>3, <1>4

LEMMA CommitKeepsSearch ==
    ASSUME SearchInvariant, NEW db, NEW behind, Commit(db, behind)
    PROVE  SearchInvariant'
<1>1. reader' = reader /\ chunks' = db.chunks
  BY DEF Commit
<1>2. CASE reader = Idle
  BY <1>1, <1>2 DEF Commit, SearchInvariant, Idle, SearchPcs
<1>3. CASE reader # Idle
  <2>1. touched' = [chunks |-> touched.chunks \cup db.chunks,
                    resources |-> touched.resources \cup (resources \ db.resources),
                    writes |-> touched.writes + 1]
    BY <1>3 DEF Commit
  <2>2. PICK n \in Nat : n = touched.writes
    BY DEF SearchInvariant
  <2>3. /\ touched'.writes = n + 1 /\ chunks' \subseteq touched'.chunks
        /\ touched.chunks \subseteq touched'.chunks
    BY <1>1, <2>1, <2>2
  <2>4. touched'.writes \in Nat /\ touched'.writes # 0
    BY <2>3
  <2>5. PICK r, table, log, new, newLog :
           r = reader /\ table = chunks /\ log = touched /\ new = chunks' /\ newLog = touched'
    OBVIOUS
  <2>6. ASSUME IsSearch(r, table, log)
        PROVE  IsSearch(r, new, newLog)
    BY <2>3, <2>4, <2>5, <2>6, WritesBetween
  <2> QED
    BY <1>1, <2>4, <2>5, <2>6 DEF SearchInvariant
<1> QED
  BY <1>2, <1>3

-----------------------------------------------------------------------------
(* Every step of a search *)

(* However writes fall between the statements of a search, what it has found *)
(* stays grounded in rows there were since it began, and without writes its  *)
(* pools and pages are those of the one fusion of all that matches           *)
(* (core/src/search.rs).                                                     *)
THEOREM SearchInvariantHolds == RetrievalSpec => []SearchInvariant
<1>1. RetrievalInit => SearchInvariant
  BY DEF RetrievalInit, SearchInvariant, Idle, SearchPcs
<1>2. TablesExact /\ SearchInvariant /\ [RetrievalNext]_retrievalVars => SearchInvariant'
  <2> SUFFICES ASSUME TablesExact, SearchInvariant, [RetrievalNext]_retrievalVars
               PROVE  SearchInvariant'
    OBVIOUS
  <2>1. ASSUME Removal \/ \E j \in Writers : JobStep(j)
        PROVE  SearchInvariant'
    <3>1. (\E db, behind : Commit(db, behind)) \/ UNCHANGED <<tables, raced, reader, touched>>
      BY <2>1 DEF Removal, JobStep, StartJob, EndJob, IndexDocument, PruneDocument, RemoveSource, DeleteByStore
    <3>2. CASE UNCHANGED <<tables, raced, reader, touched>>
      BY <3>2 DEF tables, SearchInvariant
    <3> QED
      BY <3>1, <3>2, CommitKeepsSearch
  <2>2. ASSUME NEW q \in Queries, Ask(q[1], q[2], q[3], q[4])
        PROVE  SearchInvariant'
    BY <2>2, AskKeeps
  <2>3. CASE DenseSearch
    BY <2>3, DenseSearchKeeps
  <2>4. CASE ExactScan
    BY <2>4, ExactScanKeeps
  <2>5. CASE Bm25Search
    BY <2>5, Bm25SearchKeeps
  <2>6. CASE Answer
    BY <2>6, AnswerKeeps
  <2>7. CASE NextPage
    BY <2>7, NextPageKeeps
  <2>8. ASSUME NEW scope \in SUBSET Stores, NEW r \in resources, FindDocument(scope, r.id)
        PROVE  SearchInvariant'
    BY <2>8, DocumentReadsKeep
  <2>9. CASE GetChunks \/ GetBlocks \/ Done
    BY <2>9, DocumentReadsKeep
  <2>10. CASE UNCHANGED retrievalVars
    BY <2>10 DEF retrievalVars, SearchInvariant
  <2> QED
    BY <2>1, <2>2, <2>3, <2>4, <2>5, <2>6, <2>7, <2>8, <2>9, <2>10 DEF RetrievalNext, Reading
<1> QED
  BY <1>1, <1>2, TablesStayExact, PTL DEF RetrievalSpec

(* A citation names a store that was searched, and a chunk that store held,  *)
(* and that passed the filters, at some moment since the search began: on    *)
(* every surface and page, whatever the approximate index returned, whether  *)
(* the exact scan had to step in, and whatever was indexed or deleted        *)
(* meanwhile.                                                                *)
THEOREM CitationsStayGrounded == RetrievalSpec => []CitationsGrounded
<1>1. ASSUME SearchInvariant
      PROVE  CitationsGrounded
  <2> SUFFICES ASSUME reader.pc = "answered", NEW hit \in ToSet(reader.seen)
               PROVE  /\ Contains(reader.targets, hit[1])
                      /\ \E c \in touched.chunks : <<c.store, c.id>> = hit /\ Passes(c)
    BY DEF CitationsGrounded
  <2>1. Grounded(reader, touched.chunks, hit)
    BY <1>1 DEF SearchInvariant, SearchPcs, IsSearch, AllGrounded
  <2> QED
    BY <2>1 DEF Grounded, Passes, PassesFor
<1> QED
  BY <1>1, SearchInvariantHolds, PTL

(* Over unchanging tables, when the matching chunks of every searched store  *)
(* fit one leg, a client that follows the cursors of /v1/search sees each of *)
(* them exactly once, however many nearer chunks other stores have, whatever *)
(* the approximate index returns and however the scores tie; the surfaces    *)
(* without cursors show no hit twice, even of a store named twice.           *)
THEOREM SearchesFindAll == RetrievalSpec => []SearchFindsAll
<1>1. ASSUME TablesExact, SearchInvariant
      PROVE  SearchFindsAll
  <2> SUFFICES ASSUME reader.pc = "answered", reader.offset < 0, touched.writes = 0,
                      \A s \in ToSet(reader.targets) : Cardinality(Hits(chunks, s)) <= LegK
               PROVE  /\ Cardinality(ToSet(reader.seen)) = Len(reader.seen)
                      /\ reader.surface = "http" =>
                           ToSet(reader.seen) =
                             {<<c.store, c.id>> : c \in
                               {d \in chunks : d.store \in ToSet(reader.targets) /\ Passes(d)}}
    BY DEF SearchFindsAll
  <2>1. PICK r : r = reader
    OBVIOUS
  <2>2. r \in Searches /\ Rows(Passing(r, chunks)) /\ r.targets \in Seq(Stores)
    <3>1. r \in Searches
      BY <1>1, <2>1 DEF SearchInvariant, SearchPcs, IsSearch
    <3> QED
      BY <1>1, <3>1, ExactRows, PassingRows DEF Searches
  <2>3. Fits(r, chunks)
    <3>1. ASSUME NEW s \in ToSet(r.targets)
          PROVE  Cardinality({c \in Passing(r, chunks) : c.store = s}) <= LegK
      <4>1. Hits(chunks, s) = {c \in Passing(r, chunks) : c.store = s}
        BY <2>1, HitsPass
      <4>2. Cardinality(Hits(chunks, s)) <= LegK
        BY <2>1
      <4> QED
        BY <4>1, <4>2
    <3> QED
      BY <3>1 DEF Fits
  <2>4. PICK all : all = AllOf(r, chunks)
    OBVIOUS
  <2>5. PagesRight(r, all)
    BY <1>1, <2>1, <2>3, <2>4 DEF SearchInvariant, SearchPcs, IsSearch
  <2>6. /\ all \in Seq(Stores \X ChunkIds)
        /\ \A i, j \in 1 .. Len(all) : all[i] = all[j] => i = j
        /\ ToSet(all) = {<<c.store, c.id>> : c \in {d \in Passing(r, chunks) : d.store \in ToSet(r.targets)}}
    BY <2>2, <2>4, FusedFinds DEF AllOf
  <2>7. PICK m \in 0 .. Len(all) : Shown(r, m, all) /\ (r.surface = "http" => m = Len(all))
    <3>1. r.pc = "answered" /\ ~(r.offset >= 0)
      BY <2>1, <2>2 DEF Searches
    <3> QED
      BY <2>5, <3>1 DEF PagesRight
  <2>8. Len(r.seen) = m /\ (\A i \in 1 .. m : r.seen[i] = all[i]) /\ r.seen \in Seq(Stores \X ChunkIds)
    BY <2>2, <2>7 DEF Shown, Searches
  <2>9. \A i, j \in 1 .. Len(r.seen) : r.seen[i] = r.seen[j] => i = j
    <3>1. \A i \in 1 .. m : i \in 1 .. Len(all)
      BY <2>6, <2>7
    <3> QED
      BY <2>6, <2>8, <3>1
  <2>10. Cardinality(ToSet(r.seen)) = Len(r.seen)
    BY <2>8, <2>9, OnceEach
  <2>11. ASSUME r.surface = "http"
         PROVE  ToSet(r.seen) = {<<c.store, c.id>> : c \in
                                  {d \in chunks : d.store \in ToSet(r.targets) /\ Passes(d)}}
    <3>1. ToSet(r.seen) = {r.seen[i] : i \in 1 .. m} /\ ToSet(all) = {all[i] : i \in 1 .. m}
      BY <2>6, <2>7, <2>8, <2>11 DEF ToSet
    <3>2. ToSet(r.seen) = ToSet(all)
      BY <2>8, <3>1
    <3>3. {d \in Passing(r, chunks) : d.store \in ToSet(r.targets)}
             = {d \in chunks : d.store \in ToSet(r.targets) /\ Passes(d)}
      BY <2>1 DEF Passing, PassesFor, Passes
    <3> QED
      BY <2>6, <3>2, <3>3
  <2> QED
    BY <2>1, <2>10, <2>11
<1> QED
  BY <1>1, TablesStayExact, SearchInvariantHolds, PTL

=============================================================================
