------------------------- MODULE DataDirectoryProofs -------------------------
(***************************************************************************)
(* Theorems about modules Migrations and DataDirectory, for any number of   *)
(* processes and every chain of migrations: the version marker, the history *)
(* and the tables stay in lockstep as long as downgrades and rebuilds are   *)
(* run alone; whatever the                                                  *)
(* processes of a data directory do, the database sees one of the           *)
(* behaviours of Migrations, a first run ends with its "default" store, and *)
(* a daemon that serves is found by its discovery files and keeps its       *)
(* schema unless a start-up has overlapped another one or a probe.          *)
(***************************************************************************)
EXTENDS DataDirectory, TLAPS

(* What the statement a process is about to run relies on. *)
Stage(p) ==
    /\ at[p] \in FreshPoints => version \in {0, HeadVersion}
    /\ at[p] \in {"create", "recreate"} =>
        \E k \in Baseline - 1 .. HeadVersion :
            todo[p] = Baseline .. k /\ k + 1 .. HeadVersion \subseteq schema
    /\ at[p] = "verify" => todo[p] = AllTables
    /\ at[p] \in {"bookkeep_seed", "seed"} => AllTables \subseteq schema
    /\ at[p] \in {"verify", "recreate"} => version = HeadVersion
    /\ at[p] \in {"bookkeep", "verify_applied", "plan", "apply"} =>
        Baseline <= version /\ version <= HeadVersion
    /\ at[p] = "apply" =>
        \E k \in Baseline .. HeadVersion : k <= version /\ todo[p] = k + 1 .. HeadVersion
    /\ at[p] \in {"list", "drop", "reset"} => kind[p] = "rebuild" /\ Legacy(version)
    /\ at[p] = "drop" => schema \subseteq todo[p] /\ (rows # {} => 0 \in todo[p])
    /\ at[p] = "reset" => schema = {} /\ rows = {}
    /\ at[p] \in {"history", "replay"} =>
        kind[p] = "downgrade" /\ Baseline <= goal[p] /\ goal[p] <= version
    /\ at[p] = "history" => from[p] = version
    /\ at[p] = "replay" => todo[p] = goal[p] + 1 .. version

(* A fresh store has some of its tables, or all but no version. *)
Tables ==
    /\ VersionInLockstep
    /\ version = 0 => schema \subseteq AllTables /\ rows \subseteq {Baseline}

OneAlone ==
    \A p, q \in Procs : Running(p) /\ kind[p] \in Alone /\ Running(q) => p = q

(* As much of the types as the argument needs. *)
Sorts ==
    /\ version \in Nat
    /\ rows \in SUBSET Nat
    /\ schema \in SUBSET Nat
    /\ at \in [Procs -> Points]
    /\ kind \in [Procs -> Kinds]
    /\ from \in [Procs -> Nat]
    /\ goal \in [Procs -> Nat]
    /\ todo \in [Procs -> SUBSET Nat]

(* The inductive invariant. *)
SchemaInvariant ==
    /\ Sorts
    /\ Tables
    /\ OneAlone
    /\ \A p \in Procs : Stage(p)

(* Everything a process keeps for itself. *)
Own(p) == <<at[p], kind[p], from[p], goal[p], todo[p]>>

(* How the version moves while no downgrade and no rebuild is under way. *)
Grows ==
    \/ version' = version
    \/ version \in {0, HeadVersion} /\ version' = HeadVersion
    \/ Baseline <= version /\ version < HeadVersion /\ version' = version + 1

-----------------------------------------------------------------------------
(* The parts of a step *)

LEMMA VersionNumbers ==
    /\ Baseline \in Nat /\ HeadVersion \in Nat /\ Newest \in Nat
    /\ 0 < Baseline /\ Baseline <= HeadVersion /\ HeadVersion <= Newest
    /\ InitVersions \subseteq 0 .. Newest
  BY VersionsAssumption DEF VersionsAssumption

(* What Min and Max pick from an interval. *)
LEMMA Ends ==
    ASSUME NEW a \in Nat, NEW b \in Nat, a <= b
    PROVE  Min(a .. b) = a /\ Max(a .. b) = b
<1>1. \E x \in a .. b : \A y \in a .. b : x <= y
  <2>1. a \in a .. b /\ \A y \in a .. b : a <= y
    OBVIOUS
  <2> QED
    BY <2>1
<1>2. \E x \in a .. b : \A y \in a .. b : x >= y
  <2>1. b \in a .. b /\ \A y \in a .. b : b >= y
    OBVIOUS
  <2> QED
    BY <2>1
<1>3. Min(a .. b) \in a .. b /\ \A y \in a .. b : Min(a .. b) <= y
  BY <1>1 DEF Min
<1>4. Max(a .. b) \in a .. b /\ \A y \in a .. b : Max(a .. b) >= y
  BY <1>2 DEF Max
<1> QED
  BY <1>3, <1>4

(* A process that acts leaves what the others rely on. *)
LEMMA OthersStage ==
    ASSUME Alone = {"downgrade", "rebuild"},
           SchemaInvariant, NEW p \in Procs, NEW q \in Procs, p # q, Running(p),
           Own(q)' = Own(q),
           kind[p] \in Alone \/ (Grows /\ schema \subseteq schema')
    PROVE  Stage(q)'
<1>1. at'[q] = at[q] /\ kind'[q] = kind[q] /\ from'[q] = from[q] /\ goal'[q] = goal[q] /\ todo'[q] = todo[q]
  BY DEF Own
<1>2. Stage(q) /\ version \in Nat
  BY DEF SchemaInvariant, Sorts
<1>3. CASE ~Running(q)
  BY <1>1, <1>3 DEF Stage, Running, FreshPoints
<1>4. CASE Running(q)
  <2>1. kind[p] \notin Alone /\ kind[q] \notin Alone
    BY <1>4 DEF SchemaInvariant, OneAlone
  <2>2. at[q] \notin {"list", "drop", "reset", "history", "replay"}
    BY <1>2, <2>1 DEF Stage
  <2>3. Grows /\ schema \subseteq schema'
    BY <2>1
  <2>4. version' \in {0, HeadVersion} \/ version \notin {0, HeadVersion}
    BY <2>3, VersionNumbers DEF Grows
  <2>5. version = HeadVersion => version' = HeadVersion
    BY <2>3, VersionNumbers DEF Grows
  <2>6. Baseline <= version /\ version <= HeadVersion =>
          version <= version' /\ Baseline <= version' /\ version' <= HeadVersion /\ version' \in Nat
    BY <1>2, <2>3, VersionNumbers DEF Grows
  <2>7. at[q] = "apply" =>
          \E k \in Baseline .. HeadVersion : k <= version' /\ todo[q] = k + 1 .. HeadVersion
    <3> SUFFICES ASSUME at[q] = "apply"
                 PROVE  \E k \in Baseline .. HeadVersion : k <= version' /\ todo[q] = k + 1 .. HeadVersion
      OBVIOUS
    <3>1. PICK k \in Baseline .. HeadVersion : k <= version /\ todo[q] = k + 1 .. HeadVersion
      BY <1>2 DEF Stage
    <3>2. version <= version' /\ version' \in Nat
      BY <1>2, <2>6 DEF Stage
    <3>3. k <= version'
      BY <1>2, <3>1, <3>2, VersionNumbers
    <3> QED
      BY <3>1, <3>3
  <2> QED
    BY <1>1, <1>2, <2>2, <2>3, <2>4, <2>5, <2>6, <2>7 DEF Stage
<1> QED
  BY <1>3, <1>4

LEMMA WholeStep ==
    ASSUME Alone = {"downgrade", "rebuild"},
           SchemaInvariant, NEW p \in Procs, Running(p),
           \A q \in Procs \ {p} : Own(q)' = Own(q),
           kind'[p] = kind[p],
           Sorts', Tables', Stage(p)',
           kind[p] \in Alone \/ (Grows /\ schema \subseteq schema')
    PROVE  SchemaInvariant'
<1>1. \A q \in Procs : Stage(q)'
  BY OthersStage
<1>2. \A q \in Procs : kind'[q] = kind[q] /\ (Running(q)' => Running(q))
  BY DEF Own, Running
<1>3. OneAlone'
  BY <1>2 DEF SchemaInvariant, OneAlone
<1> QED
  BY <1>1, <1>3 DEF SchemaInvariant

(* The steps that only move the process on. *)
LEMMA QuietStep ==
    ASSUME Alone = {"downgrade", "rebuild"}, SchemaInvariant, NEW p \in Procs,
           \/ OpenVerify(p) \/ MigrateVerify(p) \/ DroppedAll(p) \/ CreatedAll(p)
           \/ AppliedAll(p) \/ PostCheck(p) \/ DowngradeRead(p) \/ ReplayedAll(p)
    PROVE  SchemaInvariant'
<1> USE DEF Goto
<1>1. Sorts /\ Tables /\ Stage(p)
  BY DEF SchemaInvariant
<1>2. UNCHANGED <<version, rows, schema, kind, goal, todo>> /\ Running(p)
  BY DEF Running, OpenVerify, MigrateVerify, DroppedAll, CreatedAll, AppliedAll, PostCheck, DowngradeRead, ReplayedAll
<1>3. at' \in [Procs -> Points] /\ from' \in [Procs -> Nat]
  BY <1>1 DEF Sorts, Points, FreshPoints, OpenVerify, MigrateVerify, DroppedAll, CreatedAll, AppliedAll, PostCheck,
              DowngradeRead, ReplayedAll
<1>4. \A q \in Procs \ {p} : at'[q] = at[q] /\ from'[q] = from[q]
  BY <1>1 DEF Sorts, OpenVerify, MigrateVerify, DroppedAll, CreatedAll, AppliedAll, PostCheck, DowngradeRead, ReplayedAll
<1>5. Sorts' /\ Tables'
  BY <1>1, <1>2, <1>3 DEF Sorts, Tables, VersionInLockstep
<1>6. \A q \in Procs \ {p} : Own(q)' = Own(q)
  BY <1>2, <1>4 DEF Own
<1>7. Stage(p)'
  <2>1. CASE CreatedAll(p)
    <3>1. at[p] = "create" => AllTables \subseteq schema
      <4> SUFFICES ASSUME at[p] = "create" PROVE AllTables \subseteq schema
        OBVIOUS
      <4>1. PICK k \in Baseline - 1 .. HeadVersion :
              todo[p] = Baseline .. k /\ k + 1 .. HeadVersion \subseteq schema
        BY <1>1 DEF Stage
      <4>2. k = Baseline - 1
        <5>1. todo[p] = {} /\ Baseline \in Nat /\ k \in Int
          BY <2>1, VersionNumbers DEF CreatedAll
        <5>2. Baseline \notin Baseline .. k
          BY <4>1, <5>1
        <5>3. ~(Baseline <= k)
          BY <5>1, <5>2
        <5> QED
          BY <5>1, <5>3, VersionNumbers
      <4>3. k + 1 = Baseline
        BY <4>2, VersionNumbers
      <4> QED
        BY <4>1, <4>3 DEF AllTables
    <3> QED
      BY <1>1, <1>2, <2>1, <3>1 DEF Sorts, Stage, CreatedAll, FreshPoints
  <2>2. CASE OpenVerify(p)
    <3>1. HeadVersion \in Baseline - 1 .. HeadVersion /\ HeadVersion + 1 .. HeadVersion = {}
      BY VersionNumbers
    <3>2. at[p] = "verify" /\ todo[p] = Baseline .. HeadVersion /\ HeadVersion + 1 .. HeadVersion \subseteq schema
      BY <1>1, <2>2, <3>1 DEF Stage, OpenVerify, AllTables
    <3> QED
      BY <1>1, <1>2, <2>2, <3>1, <3>2 DEF Sorts, Stage, OpenVerify, FreshPoints
  <2>3. CASE DroppedAll(p)
    BY <1>1, <1>2, <2>3 DEF Sorts, Stage, DroppedAll, FreshPoints
  <2>4. CASE MigrateVerify(p)
    BY <1>1, <1>2, <2>4 DEF Sorts, Stage, MigrateVerify, FreshPoints
  <2>5. CASE AppliedAll(p) \/ PostCheck(p) \/ ReplayedAll(p)
    BY <1>1, <1>2, <2>5 DEF Sorts, Stage, AppliedAll, PostCheck, ReplayedAll, FreshPoints
  <2>6. CASE DowngradeRead(p)
    BY <1>1, <1>2, <2>6, VersionNumbers DEF Sorts, Stage, DowngradeRead, FreshPoints
  <2> QED
    BY <2>1, <2>2, <2>3, <2>4, <2>5, <2>6
<1> QED
  BY <1>2, <1>5, <1>6, <1>7, WholeStep DEF Grows

(* The steps that read the version and plan to create what is missing. *)
LEMMA ReadStep ==
    ASSUME Alone = {"downgrade", "rebuild"}, SchemaInvariant, NEW p \in Procs,
           OpenRead(p) \/ MigrateRead(p)
    PROVE  SchemaInvariant'
<1> USE DEF Goto
<1>1. Sorts /\ Tables /\ Stage(p)
  BY DEF SchemaInvariant
<1>2. UNCHANGED <<version, rows, schema, kind, goal>> /\ Running(p)
  BY DEF Running, OpenRead, MigrateRead
<1>3. AllTables \in SUBSET Nat
  BY VersionNumbers DEF AllTables
<1>4. /\ at' \in [Procs -> Points] /\ from' \in [Procs -> Nat] /\ todo' \in [Procs -> SUBSET Nat]
      /\ todo'[p] = AllTables
      /\ \A q \in Procs \ {p} : at'[q] = at[q] /\ from'[q] = from[q] /\ todo'[q] = todo[q]
  BY <1>1, <1>3 DEF Sorts, Points, FreshPoints, OpenRead, MigrateRead
<1>5. Sorts' /\ Tables'
  BY <1>1, <1>2, <1>4 DEF Sorts, Tables, VersionInLockstep
<1>6. \A q \in Procs \ {p} : Own(q)' = Own(q)
  BY <1>2, <1>4 DEF Own
<1>7. \E k \in Baseline - 1 .. HeadVersion :
         todo'[p] = Baseline .. k /\ k + 1 .. HeadVersion \subseteq schema'
  <2>1. HeadVersion \in Baseline - 1 .. HeadVersion /\ HeadVersion + 1 .. HeadVersion = {}
    BY VersionNumbers
  <2> QED
    BY <1>4, <2>1 DEF AllTables
<1>8. /\ at'[p] \in {"create", "verify", "refused", "list", "bookkeep"}
      /\ at'[p] = "create" => version = 0
      /\ at'[p] = "verify" => version = HeadVersion
      /\ at'[p] = "list" => kind[p] = "rebuild" /\ Legacy(version)
      /\ at'[p] = "bookkeep" => Baseline <= version /\ version <= HeadVersion
  <2>1. CASE OpenRead(p)
    BY <1>1, <2>1, VersionNumbers DEF Sorts, OpenRead, classify_version, Legacy
  <2>2. CASE MigrateRead(p)
    BY <1>1, <2>2, VersionNumbers DEF Sorts, MigrateRead, Legacy
  <2> QED
    BY <2>1, <2>2
<1>9. Stage(p)'
  BY <1>2, <1>4, <1>7, <1>8 DEF Stage, FreshPoints, Legacy
<1> QED
  BY <1>2, <1>5, <1>6, <1>9, WholeStep DEF Grows

(* The steps of a fresh store. *)
LEMMA FreshStep ==
    ASSUME Alone = {"downgrade", "rebuild"}, SchemaInvariant, NEW p \in Procs,
           CreateTable(p) \/ SeedTable(p) \/ SeedAllAndStamp(p)
    PROVE  SchemaInvariant'
<1> USE DEF Goto
<1>1. Sorts /\ Tables /\ Stage(p)
  BY DEF SchemaInvariant
<1>2. UNCHANGED <<kind, from, goal>> /\ Running(p)
  BY DEF Running, CreateTable, SeedTable, SeedAllAndStamp
<1>3. /\ at' \in [Procs -> Points]
      /\ \A q \in Procs \ {p} : at'[q] = at[q]
  BY <1>1 DEF Sorts, Points, FreshPoints, CreateTable, SeedTable, SeedAllAndStamp
<1>5. version \in {0, HeadVersion}
  BY <1>1 DEF Stage, FreshPoints, CreateTable, SeedTable, SeedAllAndStamp
<1>6. Baseline \in Nat /\ Baseline \in AllTables /\ AllTables \in SUBSET Nat
      /\ Baseline + 1 .. HeadVersion \in SUBSET Nat
      /\ {Baseline} \cup (Baseline + 1 .. HeadVersion) = AllTables
  BY VersionNumbers DEF AllTables
<1>7. version = HeadVersion => schema = AllTables /\ rows \cup {Baseline} = AllTables
  BY <1>1, VersionNumbers DEF Tables, VersionInLockstep, AllTables
<1>8. version = 0 => schema \subseteq AllTables /\ rows \subseteq {Baseline}
  BY <1>1 DEF Tables
<1>10. CASE CreateTable(p)
  <2> DEFINE t == Max(todo[p])
  <2>1. /\ at[p] \in {"create", "recreate"} /\ todo[p] # {}
        /\ schema' = schema \cup {t} /\ UNCHANGED <<version, rows, at>>
        /\ todo' = [todo EXCEPT ![p] = todo[p] \ {t}]
    BY <1>10 DEF CreateTable
  <2> HIDE DEF t
  <2>2. t \in AllTables /\ todo[p] \subseteq AllTables
    <3>2. PICK k \in Baseline - 1 .. HeadVersion : todo[p] = Baseline .. k
      BY <1>1, <2>1 DEF Stage
    <3>3. Baseline <= k /\ k \in Nat
      BY <2>1, <3>2, VersionNumbers
    <3>4. t = k
      BY <3>2, <3>3, Ends, VersionNumbers DEF t
    <3> QED
      BY <3>2, <3>3, <3>4, VersionNumbers DEF AllTables
  <2>3. /\ todo' \in [Procs -> SUBSET Nat] /\ todo'[p] = todo[p] \ {t}
        /\ \A q \in Procs \ {p} : todo'[q] = todo[q]
    BY <1>1, <2>1 DEF Sorts
  <2>4. \A q \in Procs \ {p} : Own(q)' = Own(q)
    BY <1>2, <1>3, <2>3 DEF Own
  <2>5. Sorts'
    BY <1>1, <1>2, <1>3, <1>6, <2>1, <2>2, <2>3 DEF Sorts
  <2>6. Tables'
    <3>1. schema' \subseteq AllTables /\ (version = HeadVersion => schema' = schema)
      BY <1>5, <1>7, <1>8, <2>1, <2>2
    <3> QED
      BY <1>1, <1>5, <2>1, <3>1, VersionNumbers DEF Tables, VersionInLockstep
  <2>7. Stage(p)'
    <3>1. PICK k \in Baseline - 1 .. HeadVersion :
            todo[p] = Baseline .. k /\ k + 1 .. HeadVersion \subseteq schema
      BY <1>1, <2>1 DEF Stage
    <3>2. Baseline <= k /\ k \in Nat
      BY <2>1, <3>1, VersionNumbers
    <3>3. t = k
      BY <3>1, <3>2, Ends, VersionNumbers DEF t
    <3>4. k - 1 \in Baseline - 1 .. HeadVersion /\ todo'[p] = Baseline .. k - 1
      BY <2>3, <3>1, <3>2, <3>3, VersionNumbers
    <3>5. (k - 1) + 1 .. HeadVersion \subseteq schema'
      BY <2>1, <3>1, <3>2, <3>3, VersionNumbers
    <3>6. version' \in {0, HeadVersion} /\ (at[p] = "recreate" => version' = HeadVersion)
      BY <1>1, <1>5, <2>1 DEF Stage
    <3> QED
      BY <2>1, <3>4, <3>5, <3>6 DEF Stage, FreshPoints
  <2> QED
    BY <1>2, <2>1, <2>4, <2>5, <2>6, <2>7, WholeStep DEF Grows
<1>11. CASE SeedTable(p)
  <2>1. rows' = rows \cup {Baseline} /\ UNCHANGED <<version, schema, todo>>
    BY <1>11 DEF SeedTable
  <2>2. Sorts'
    BY <1>1, <1>2, <1>3, <1>6, <2>1 DEF Sorts
  <2>3. Tables'
    BY <1>1, <1>5, <1>7, <1>8, <2>1, VersionNumbers DEF Tables, VersionInLockstep, AllTables
  <2>4. Stage(p)'
    BY <1>1, <1>5, <1>6, <1>11, <2>1 DEF Sorts, Stage, SeedTable, FreshPoints
  <2>5. \A q \in Procs \ {p} : Own(q)' = Own(q)
    BY <1>2, <1>3, <2>1 DEF Own
  <2> QED
    BY <1>2, <1>6, <2>1, <2>2, <2>3, <2>4, <2>5, WholeStep DEF Grows
<1>12. CASE SeedAllAndStamp(p)
  <2>1. /\ rows' = rows \cup (Baseline + 1 .. HeadVersion)
        /\ version' = HeadVersion
        /\ UNCHANGED <<schema, todo>>
    BY <1>12 DEF SeedAllAndStamp
  <2>2. Sorts'
    BY <1>1, <1>2, <1>3, <1>6, <2>1, VersionNumbers DEF Sorts
  <2>3. AllTables \subseteq schema
    BY <1>1, <1>12 DEF Stage, SeedAllAndStamp
  <2>4. schema' = AllTables /\ rows' \cup {Baseline} = AllTables
    BY <1>5, <1>6, <1>7, <1>8, <2>1, <2>3
  <2>5. Tables'
    BY <2>1, <2>4, VersionNumbers DEF Tables, VersionInLockstep, AllTables
  <2>6. Stage(p)'
    BY <1>1, <1>12, <2>1 DEF Sorts, Stage, SeedAllAndStamp, FreshPoints
  <2>7. \A q \in Procs \ {p} : Own(q)' = Own(q)
    BY <1>2, <1>3, <2>1 DEF Own
  <2> QED
    BY <1>2, <1>5, <2>1, <2>2, <2>5, <2>6, <2>7, WholeStep DEF Grows
<1> QED
  BY <1>10, <1>11, <1>12

(* The steps of the confirmed rebuild, which runs alone. *)
LEMMA RebuildStep ==
    ASSUME Alone = {"downgrade", "rebuild"}, SchemaInvariant, NEW p \in Procs,
           ListTables(p) \/ DropTable(p) \/ ResetVersion(p)
    PROVE  SchemaInvariant'
<1> USE DEF Goto
<1>1. Sorts /\ Tables /\ Stage(p)
  BY DEF SchemaInvariant
<1>2. UNCHANGED <<kind, from, goal>> /\ Running(p) /\ kind[p] \in Alone
  BY <1>1 DEF Running, Stage, ListTables, DropTable, ResetVersion
<1>3. /\ at' \in [Procs -> Points]
      /\ \A q \in Procs \ {p} : at'[q] = at[q]
  BY <1>1 DEF Sorts, Points, FreshPoints, ListTables, DropTable, ResetVersion
<1>4. \A q \in Procs \ {p} : todo'[q] = todo[q]
  BY <1>1 DEF Sorts, ListTables, DropTable, ResetVersion
<1>5. Legacy(version) /\ kind[p] = "rebuild" /\ version # 0 /\ ~(version >= Baseline)
  BY <1>1, VersionNumbers DEF Sorts, Stage, ListTables, DropTable, ResetVersion, Legacy
<1>6. \A q \in Procs \ {p} : Own(q)' = Own(q)
  BY <1>2, <1>3, <1>4 DEF Own
<1>7. CASE ListTables(p)
  <2> DEFINE tables == schema \cup (IF rows = {} THEN {} ELSE {0})
  <2>1. /\ at[p] = "list" /\ at' = [at EXCEPT ![p] = "drop"] /\ UNCHANGED <<version, rows, schema>>
        /\ todo' = [todo EXCEPT ![p] = tables]
    BY <1>7 DEF ListTables
  <2>2. tables \in SUBSET Nat /\ schema \subseteq tables /\ (rows # {} => 0 \in tables)
    <3>1. schema \subseteq Nat /\ 0 \in Nat
      BY <1>1 DEF Sorts
    <3>2. CASE rows = {}
      BY <3>1, <3>2
    <3>3. CASE rows # {}
      BY <3>1, <3>3
    <3> QED
      BY <3>2, <3>3
  <2> HIDE DEF tables
  <2>3. Sorts' /\ todo'[p] = tables /\ at'[p] = "drop"
    BY <1>1, <1>2, <1>3, <2>1, <2>2 DEF Sorts
  <2>4. Tables'
    BY <1>5, <2>1 DEF Tables, VersionInLockstep
  <2>5. Stage(p)'
    BY <1>2, <1>5, <2>1, <2>2, <2>3 DEF Stage, FreshPoints, Legacy
  <2> QED
    BY <1>2, <1>6, <2>3, <2>4, <2>5, WholeStep
<1>8. CASE DropTable(p)
  <2>1. PICK t \in todo[p] : /\ schema' = schema \ {t}
                             /\ rows' = IF t = 0 THEN {} ELSE rows
                             /\ todo' = [todo EXCEPT ![p] = todo[p] \ {t}]
    BY <1>8 DEF DropTable
  <2>2. at[p] = "drop" /\ UNCHANGED <<version, at>>
    BY <1>8 DEF DropTable
  <2>3. Sorts' /\ todo'[p] = todo[p] \ {t}
    BY <1>1, <1>2, <1>3, <2>1, <2>2 DEF Sorts
  <2>4. Tables'
    BY <1>5, <2>2 DEF Tables, VersionInLockstep
  <2>5. schema' \subseteq todo'[p] /\ (rows' # {} => 0 \in todo'[p])
    BY <1>1, <2>1, <2>2, <2>3 DEF Stage
  <2>6. Stage(p)'
    BY <1>2, <1>5, <2>2, <2>5 DEF Stage, FreshPoints, Legacy
  <2> QED
    BY <1>2, <1>6, <2>3, <2>4, <2>6, WholeStep
<1>9. CASE ResetVersion(p)
  <2>1. /\ schema = {} /\ rows = {} /\ version' = 0 /\ UNCHANGED <<schema, rows>>
        /\ at' = [at EXCEPT ![p] = "create"] /\ todo' = [todo EXCEPT ![p] = AllTables]
    BY <1>1, <1>9 DEF Stage, ResetVersion
  <2>2. AllTables \in SUBSET Nat
    BY VersionNumbers DEF AllTables
  <2>3. Sorts' /\ todo'[p] = AllTables /\ at'[p] = "create"
    BY <1>1, <1>2, <1>3, <2>1, <2>2 DEF Sorts
  <2>4. Tables'
    BY <2>1, VersionNumbers DEF Tables, VersionInLockstep
  <2>5. \E k \in Baseline - 1 .. HeadVersion :
           todo'[p] = Baseline .. k /\ k + 1 .. HeadVersion \subseteq schema'
    <3>1. HeadVersion \in Baseline - 1 .. HeadVersion /\ HeadVersion + 1 .. HeadVersion = {}
      BY VersionNumbers
    <3> QED
      BY <2>3, <3>1 DEF AllTables
  <2>6. Stage(p)'
    BY <2>1, <2>3, <2>5 DEF Stage, FreshPoints
  <2> QED
    BY <1>2, <1>6, <2>3, <2>4, <2>6, WholeStep
<1> QED
  BY <1>7, <1>8, <1>9

(* The bookkeeping and the plan of a migration. *)
LEMMA PlanStep ==
    ASSUME Alone = {"downgrade", "rebuild"}, SchemaInvariant, NEW p \in Procs,
           MigrateBookkeeping(p) \/ PlanPending(p)
    PROVE  SchemaInvariant'
<1> USE DEF Goto
<1>1. Sorts /\ Tables /\ Stage(p)
  BY DEF SchemaInvariant
<1>2. /\ UNCHANGED <<version, schema, kind, from, goal>> /\ Running(p)
      /\ rows' = rows \cup {Baseline}
  BY DEF Running, MigrateBookkeeping, PlanPending
<1>3. Baseline <= version /\ version <= HeadVersion
  BY <1>1 DEF Stage, MigrateBookkeeping, PlanPending
<1>4. {v \in Baseline + 1 .. HeadVersion : v > version} = version + 1 .. HeadVersion
  BY <1>1, <1>3, VersionNumbers DEF Sorts
<1>5. version + 1 .. HeadVersion \in SUBSET Nat
  BY <1>1, VersionNumbers DEF Sorts
<1>6. \/ at' = [at EXCEPT ![p] = "verify_applied"] /\ todo' = todo
      \/ at' = [at EXCEPT ![p] = "apply"] /\ todo' = [todo EXCEPT ![p] = version + 1 .. HeadVersion]
  <2>1. ~(version < Baseline)
    BY <1>1, <1>3, VersionNumbers DEF Sorts
  <2>2. CASE MigrateBookkeeping(p)
    BY <2>2 DEF MigrateBookkeeping
  <2>3. CASE PlanPending(p)
    BY <1>4, <2>1, <2>3 DEF PlanPending
  <2> QED
    BY <2>2, <2>3
<1>7. at' \in [Procs -> Points] /\ todo' \in [Procs -> SUBSET Nat]
  BY <1>1, <1>5, <1>6 DEF Sorts, Points
<1>8. \A q \in Procs \ {p} : at'[q] = at[q] /\ todo'[q] = todo[q]
  BY <1>1, <1>6 DEF Sorts
<1>9. \A q \in Procs \ {p} : Own(q)' = Own(q)
  BY <1>2, <1>8 DEF Own
<1>10. Sorts' /\ Tables'
  BY <1>1, <1>2, <1>3, <1>7, VersionNumbers DEF Sorts, Tables, VersionInLockstep
<1>11. Stage(p)'
  <2>1. CASE at' = [at EXCEPT ![p] = "verify_applied"]
    BY <1>1, <1>2, <1>3, <2>1 DEF Sorts, Stage, FreshPoints
  <2>2. CASE at' = [at EXCEPT ![p] = "apply"] /\ todo' = [todo EXCEPT ![p] = version + 1 .. HeadVersion]
    <3>1. version' \in Baseline .. HeadVersion /\ version' <= version' /\ todo'[p] = version' + 1 .. HeadVersion
      BY <1>1, <1>2, <1>3, <2>2, VersionNumbers DEF Sorts
    <3> QED
      BY <1>1, <1>2, <1>3, <2>2, <3>1 DEF Sorts, Stage, FreshPoints
  <2> QED
    BY <1>6, <2>1, <2>2
<1> QED
  BY <1>2, <1>9, <1>10, <1>11, WholeStep DEF Grows

(* One migration: the planned step that succeeds is the next of the store,  *)
(* whatever the other processes applied since the plan was made.            *)
LEMMA ApplyStep ==
    ASSUME Alone = {"downgrade", "rebuild"}, SchemaInvariant, NEW p \in Procs, ApplyOne(p)
    PROVE  SchemaInvariant'
<1> USE DEF Goto
<1>1. Sorts /\ Tables /\ Stage(p)
  BY DEF SchemaInvariant
<1>2. at[p] = "apply" /\ UNCHANGED <<kind, from, goal>> /\ Running(p) /\ todo[p] # {}
  BY DEF Running, ApplyOne
<1>3. Baseline <= version /\ version <= HeadVersion
  BY <1>1, <1>2 DEF Stage
<1>4. PICK k \in Baseline .. HeadVersion : k <= version /\ todo[p] = k + 1 .. HeadVersion
  BY <1>1, <1>2 DEF Stage
<1>5. k + 1 <= HeadVersion /\ k \in Nat /\ k + 1 \in Nat
  BY <1>2, <1>4, VersionNumbers
<1>6. Min(todo[p]) = k + 1
  BY <1>4, <1>5, Ends, VersionNumbers
<1>7. todo[p] \ {k + 1} = k + 2 .. HeadVersion
  BY <1>4, <1>5, VersionNumbers
<1>8. CASE at' = [at EXCEPT ![p] = "failed"] /\ UNCHANGED <<version, rows, schema, todo>>
  <2>1. at' \in [Procs -> Points] /\ \A q \in Procs \ {p} : at'[q] = at[q]
    BY <1>1, <1>8 DEF Sorts, Points
  <2>2. \A q \in Procs \ {p} : Own(q)' = Own(q)
    BY <1>2, <1>8, <2>1 DEF Own
  <2>3. Sorts' /\ Tables'
    BY <1>1, <1>2, <1>8, <2>1 DEF Sorts, Tables, VersionInLockstep
  <2>4. Stage(p)'
    BY <1>1, <1>8 DEF Sorts, Stage, FreshPoints
  <2> QED
    BY <1>2, <1>8, <2>2, <2>3, <2>4, WholeStep DEF Grows
<1>9. CASE /\ k + 1 \notin rows
           /\ schema' = schema \cup {k + 1} /\ rows' = rows \cup {k + 1} /\ version' = k + 1
           /\ todo' = [todo EXCEPT ![p] = todo[p] \ {k + 1}]
           /\ UNCHANGED at
  <2>1. schema = Baseline .. version /\ rows \cup {Baseline} = Baseline .. version
    BY <1>1, <1>3 DEF Tables, VersionInLockstep
  <2>2. k + 1 # Baseline /\ k + 1 \notin Baseline .. version
    BY <1>4, <1>9, <2>1, VersionNumbers
  <2>3. k = version
    BY <1>1, <1>4, <1>5, <2>2, VersionNumbers DEF Sorts
  <2>4. Baseline .. version + 1 = (Baseline .. version) \cup {version + 1}
    BY <1>1, <1>3, VersionNumbers DEF Sorts
  <2>5. schema' = Baseline .. version + 1 /\ rows' \cup {Baseline} = Baseline .. version + 1
    BY <1>9, <2>1, <2>3, <2>4
  <2>6. version' = version + 1 /\ version + 1 \in Nat /\ version < HeadVersion
    BY <1>1, <1>5, <1>9, <2>3, VersionNumbers DEF Sorts
  <2>7. todo' = [todo EXCEPT ![p] = k + 2 .. HeadVersion]
    BY <1>7, <1>9
  <2>8. k + 2 .. HeadVersion \in SUBSET Nat
    BY <1>5, VersionNumbers
  <2>9. todo' \in [Procs -> SUBSET Nat] /\ todo'[p] = k + 2 .. HeadVersion
        /\ \A q \in Procs \ {p} : todo'[q] = todo[q]
    BY <1>1, <2>7, <2>8 DEF Sorts
  <2>10. rows' \in SUBSET Nat /\ schema' \in SUBSET Nat
    BY <1>1, <1>5, <1>9 DEF Sorts
  <2>11. Sorts'
    BY <1>1, <1>2, <1>9, <2>6, <2>9, <2>10 DEF Sorts
  <2>12. Tables'
    <3>1. schema' = Baseline .. version' /\ rows' \cup {Baseline} = Baseline .. version' /\ version' # 0
      BY <1>1, <2>5, <2>6 DEF Sorts
    <3> QED
      BY <3>1 DEF Tables, VersionInLockstep
  <2>13. \A q \in Procs \ {p} : Own(q)' = Own(q)
    BY <1>2, <1>9, <2>9 DEF Own
  <2>14. \E j \in Baseline .. HeadVersion : j <= version' /\ todo'[p] = j + 1 .. HeadVersion
    <3>1. k + 1 \in Baseline .. HeadVersion /\ k + 1 <= version' /\ todo'[p] = (k + 1) + 1 .. HeadVersion
      BY <1>4, <1>5, <1>9, <2>9, VersionNumbers
    <3> QED
      BY <3>1
  <2>15. Baseline <= version' /\ version' <= HeadVersion
    BY <1>1, <1>3, <2>6, VersionNumbers DEF Sorts
  <2>16. Stage(p)'
    BY <1>2, <1>9, <2>14, <2>15 DEF Stage, FreshPoints
  <2>17. Grows /\ schema \subseteq schema'
    BY <1>3, <1>9, <2>6 DEF Grows
  <2> QED
    BY <1>2, <2>11, <2>12, <2>13, <2>16, <2>17, WholeStep
<1> QED
  <2>1. todo' = [todo EXCEPT ![p] = @ \ {k + 1}] <=> todo' = [todo EXCEPT ![p] = todo[p] \ {k + 1}]
    OBVIOUS
  <2> QED
    BY <1>6, <1>8, <1>9, <2>1 DEF ApplyOne

(* A downgrade, which runs alone: the whole history down to the target is   *)
(* planned, and undone from the top.                                        *)
LEMMA DowngradeStepHolds ==
    ASSUME Alone = {"downgrade", "rebuild"}, SchemaInvariant, NEW p \in Procs,
           DowngradeHistory(p) \/ ReplayOne(p)
    PROVE  SchemaInvariant'
<1> USE DEF Goto
<1>1. Sorts /\ Tables /\ Stage(p)
  BY DEF SchemaInvariant
<1>2. at[p] \in {"history", "replay"} /\ UNCHANGED <<kind, from, goal>> /\ Running(p)
  BY DEF Running, DowngradeHistory, ReplayOne
<1>3. kind[p] = "downgrade" /\ Baseline <= goal[p] /\ goal[p] <= version
  BY <1>1, <1>2 DEF Stage
<1>4. goal[p] \in Nat /\ version \in Nat /\ goal[p] + 1 \in Nat
  BY <1>1 DEF Sorts
<1>5. schema = Baseline .. version /\ rows \cup {Baseline} = Baseline .. version
  BY <1>1, <1>3, <1>4, VersionNumbers DEF Tables, VersionInLockstep
<1>6. CASE DowngradeHistory(p)
  <2>1. from[p] = version
    BY <1>1, <1>6 DEF Stage, DowngradeHistory
  <2>2. {v \in rows : goal[p] < v /\ v <= from[p]} = goal[p] + 1 .. version
    <3>1. \A v \in goal[p] + 1 .. version : v \in rows
      BY <1>3, <1>4, <1>5, VersionNumbers
    <3>2. rows \subseteq Nat
      BY <1>1 DEF Sorts
    <3>3. \A v \in Nat : goal[p] < v /\ v <= version <=> v \in goal[p] + 1 .. version
      BY <1>4
    <3>4. goal[p] + 1 .. version \subseteq Nat
      BY <1>4
    <3> HIDE DEF Goto
    <3> QED
      BY <2>1, <3>1, <3>2, <3>3, <3>4, Zenon
  <2>3. goal[p] + 1 .. version \in SUBSET Nat
    BY <1>4
  <2>4. /\ UNCHANGED <<version, rows, schema>>
        /\ \/ at' = [at EXCEPT ![p] = "replay"] /\ todo' = [todo EXCEPT ![p] = goal[p] + 1 .. version]
           \/ at' = [at EXCEPT ![p] = "refused"] /\ todo' = todo
    BY <1>6, <2>2 DEF DowngradeHistory
  <2>5. /\ at' \in [Procs -> Points] /\ todo' \in [Procs -> SUBSET Nat]
        /\ \A q \in Procs \ {p} : at'[q] = at[q] /\ todo'[q] = todo[q]
    BY <1>1, <2>3, <2>4 DEF Sorts, Points
  <2>6. \A q \in Procs \ {p} : Own(q)' = Own(q)
    BY <1>2, <2>5 DEF Own
  <2>7. Sorts' /\ Tables'
    BY <1>1, <1>2, <2>4, <2>5 DEF Sorts, Tables, VersionInLockstep
  <2>8. Stage(p)'
    BY <1>1, <1>2, <1>3, <2>4 DEF Sorts, Stage, FreshPoints
  <2> QED
    BY <1>2, <1>3, <2>6, <2>7, <2>8, WholeStep
<1>7. CASE ReplayOne(p)
  <2>1. todo[p] = goal[p] + 1 .. version /\ todo[p] # {}
    BY <1>1, <1>7 DEF Stage, ReplayOne
  <2>2. goal[p] + 1 <= version
    BY <1>4, <2>1
  <2>3. Max(todo[p]) = version
    BY <1>4, <2>1, <2>2, Ends
  <2>4. version \in schema /\ version - 1 \in Nat /\ version > Baseline
    BY <1>3, <1>4, <1>5, <2>2, VersionNumbers
  <2>5. todo[p] \ {version} = goal[p] + 1 .. version - 1
    BY <1>4, <2>1, <2>2
  <2>6. /\ schema' = schema \ {version} /\ rows' = rows \ {version} /\ version' = version - 1
        /\ todo' = [todo EXCEPT ![p] = goal[p] + 1 .. version - 1] /\ UNCHANGED at
    BY <1>7, <2>3, <2>4, <2>5 DEF ReplayOne
  <2>7. goal[p] + 1 .. version - 1 \in SUBSET Nat
    BY <1>4, <2>4
  <2>8. /\ todo' \in [Procs -> SUBSET Nat] /\ todo'[p] = goal[p] + 1 .. version - 1
        /\ \A q \in Procs \ {p} : todo'[q] = todo[q]
    BY <1>1, <2>6, <2>7 DEF Sorts
  <2>9. \A q \in Procs \ {p} : Own(q)' = Own(q)
    BY <1>2, <2>6, <2>8 DEF Own
  <2>10. Sorts'
    BY <1>1, <1>2, <2>4, <2>6, <2>8 DEF Sorts
  <2>11. (Baseline .. version) \ {version} = Baseline .. version - 1
    BY <1>4, VersionNumbers
  <2>12. schema' = Baseline .. version - 1 /\ rows' \cup {Baseline} = Baseline .. version - 1
    <3>1. Baseline # version
      BY <2>4, VersionNumbers
    <3> QED
      BY <1>5, <2>6, <2>11, <3>1
  <2>13. version - 1 # 0
    BY <1>4, <2>4, VersionNumbers
  <2>14. Tables'
    BY <2>6, <2>12, <2>13 DEF Tables, VersionInLockstep
  <2>15. goal[p] <= version - 1
    BY <1>4, <2>2
  <2>16. Stage(p)'
    BY <1>2, <1>3, <1>7, <2>6, <2>8, <2>15 DEF Stage, FreshPoints, ReplayOne
  <2> QED
    BY <1>2, <1>3, <2>9, <2>10, <2>14, <2>16, WholeStep
<1> QED
  BY <1>6, <1>7

(* A process starts or goes. *)
LEMMA EdgeStep ==
    ASSUME SchemaInvariant, NEW p \in Procs,
           \/ Begin(p, "open", 0) \/ BeginMigrate(p)
           \/ \E target \in Baseline .. Newest : BeginDowngrade(p, target)
           \/ Leave(p)
    PROVE  SchemaInvariant'
<1> USE DEF Goto
<1>1. Sorts /\ Tables /\ OneAlone /\ \A q \in Procs : Stage(q)
  BY DEF SchemaInvariant
<1>2. ASSUME NEW k \in Kinds, NEW target \in Nat, Begin(p, k, target)
      PROVE  SchemaInvariant'
  <2>1. UNCHANGED <<version, rows, schema, todo>>
    BY <1>2 DEF Begin
  <2>2. Sorts' /\ Tables'
    BY <1>1, <1>2 DEF Sorts, Tables, VersionInLockstep, Begin, Points
  <2>3. OneAlone'
    BY <1>1, <1>2 DEF Sorts, OneAlone, Begin, Admitted, Running
  <2>4. \A q \in Procs : Stage(q)'
    BY <1>1, <1>2, <2>1 DEF Sorts, Stage, Begin, FreshPoints, Legacy
  <2> QED
    BY <2>2, <2>3, <2>4 DEF SchemaInvariant
<1>3. CASE Begin(p, "open", 0) \/ BeginMigrate(p)
  BY <1>2, <1>3 DEF BeginMigrate, Kinds
<1>4. CASE \E target \in Baseline .. Newest : BeginDowngrade(p, target)
  <2>1. PICK target \in Baseline .. Newest : BeginDowngrade(p, target)
    BY <1>4
  <2>2. target \in Nat
    BY VersionNumbers
  <2> QED
    BY <1>2, <2>1, <2>2 DEF BeginDowngrade, Kinds
<1>6. CASE Leave(p)
  <2>1. UNCHANGED <<version, rows, schema>>
    BY <1>6 DEF Leave
  <2>2. Sorts' /\ Tables'
    BY <1>1, <1>6 DEF Sorts, Tables, VersionInLockstep, Leave, Points, Kinds
  <2>3. OneAlone'
    BY <1>1, <1>6 DEF Sorts, OneAlone, Leave, Running
  <2>4. \A q \in Procs : Stage(q)'
    BY <1>1, <1>6, <2>1 DEF Sorts, Stage, Leave, FreshPoints, Legacy
  <2> QED
    BY <2>2, <2>3, <2>4 DEF SchemaInvariant
<1> QED
  BY <1>3, <1>4, <1>6

-----------------------------------------------------------------------------
(* Theorems *)

LEMMA SchemaInvariantInit == Init => SchemaInvariant
<1> SUFFICES ASSUME Init
             PROVE  SchemaInvariant
  OBVIOUS
<1>1. version \in Nat
  BY VersionNumbers DEF Init
<1>2. Sorts
  <2>1. Baseline .. version \in SUBSET Nat /\ 1 .. version \in SUBSET Nat /\ {Baseline} \in SUBSET Nat
    BY <1>1, VersionNumbers
  <2>2. schema \in SUBSET Nat /\ rows \in SUBSET Nat
    BY <2>1 DEF Init
  <2> QED
    BY <1>1, <2>2 DEF Init, Sorts, Points, Kinds
<1>3. Tables
  <2>1. version = Baseline => Baseline .. version = {Baseline}
    BY VersionNumbers
  <2>2. version >= Baseline => ~(version < Baseline) /\ version # 0
    BY <1>1, VersionNumbers
  <2>3. version >= Baseline => Baseline \in Baseline .. version
    BY <1>1, VersionNumbers
  <2>4. VersionInLockstep
    BY <2>1, <2>2, <2>3 DEF Init, VersionInLockstep
  <2>5. version = 0 => schema = {} /\ rows = {}
    BY VersionNumbers DEF Init
  <2> QED
    BY <2>4, <2>5 DEF Tables
<1>4. OneAlone /\ \A p \in Procs : Stage(p)
  BY DEF Init, OneAlone, Running, Stage, FreshPoints
<1> QED
  BY <1>2, <1>3, <1>4 DEF SchemaInvariant

LEMMA SchemaInvariantStep ==
    ASSUME Alone = {"downgrade", "rebuild"}, SchemaInvariant, [Next]_vars
    PROVE  SchemaInvariant'
<1>1. CASE UNCHANGED vars
  BY <1>1 DEF vars, SchemaInvariant, Sorts, Tables, VersionInLockstep, OneAlone, Running, Stage, Legacy
<1>2. CASE Next
  <2>1. PICK p \in Procs :
          \/ Begin(p, "open", 0) \/ BeginMigrate(p)
          \/ \E target \in Baseline .. Newest : BeginDowngrade(p, target)
          \/ ProcStep(p) \/ Leave(p)
    BY <1>2 DEF Next
  <2>2. CASE ProcStep(p)
    BY <2>2, QuietStep, ReadStep, FreshStep, RebuildStep, PlanStep, ApplyStep, DowngradeStepHolds, EdgeStep
       DEF ProcStep, OpenStep, CreateStep, MigrateStep, DowngradeStep
  <2> QED
    BY <2>1, <2>2, EdgeStep
<1> QED
  BY <1>1, <1>2

(* However many processes create, open and migrate the store at once, and   *)
(* wherever any of them is killed: the statement each is about to run finds *)
(* what it relies on (connection.rs open, runner.rs, migrate.rs).           *)
THEOREM SchemaInvariantHolds ==
    ASSUME Alone = {"downgrade", "rebuild"}
    PROVE  Spec => []SchemaInvariant
  BY SchemaInvariantInit, SchemaInvariantStep, PTL DEF Spec

(* The version marker, the history and the tables stay in lockstep for any  *)
(* number of processes and any chain of migrations, provided downgrades and *)
(* rebuilds are run alone.                                                  *)
THEOREM LockstepHolds ==
    ASSUME Alone = {"downgrade", "rebuild"}
    PROVE  Spec => []VersionInLockstep
<1>1. SchemaInvariant => VersionInLockstep
  BY DEF SchemaInvariant, Tables
<1> QED
  BY <1>1, SchemaInvariantHolds, PTL

------------------------------------------------------------------------------

(* Everything about the directory that its database does not see. *)
LEMMA DirStepIsDatabaseStep == [DirNext]_allVars => [Next]_vars
<1> SUFFICES ASSUME [DirNext]_allVars
             PROVE  [Next]_vars
  OBVIOUS
<1>1. CASE UNCHANGED allVars \/ EditConfig
  BY <1>1 DEF allVars, EditConfig
<1>2. ASSUME NEW p \in Procs,
             \/ \E c \in Commands \ {"none"} : Start(p, c)
             \/ ScaffoldCheck(p) \/ ScaffoldLink(p) \/ SockCheck(p) \/ SockRemove(p)
             \/ StateBuilt(p) \/ BindTcp(p) \/ WriteUrl(p) \/ DropSock(p) \/ RemoveDefault(p)
      PROVE  UNCHANGED vars
  BY <1>2 DEF Start, ScaffoldCheck, ScaffoldLink, SockCheck, SockRemove, StateBuilt, BindTcp, WriteUrl, DropSock,
              RemoveDefault
<1>3. ASSUME NEW p \in Procs, LoadConfig(p) \/ SockBind(p) \/ Probe(p) \/ DropUrl(p)
      PROVE  [Next]_vars
  <2>1. \/ Begin(p, "open", 0) \/ BeginMigrate(p)
        \/ \E target \in Baseline .. Newest : BeginDowngrade(p, target)
        \/ UNCHANGED vars
        \/ GoEmbedded(p)
    BY <1>3 DEF LoadConfig, SockBind, Probe, DropUrl
  <2>2. CASE GoEmbedded(p)
    BY <2>2 DEF GoEmbedded, Next
  <2> QED
    BY <2>1, <2>2 DEF Next
<1>4. ASSUME NEW p \in Procs, SeedDefault(p) \/ StartFails(p) \/ Exit(p) \/ Work(p)
      PROVE  [Next]_vars
  BY <1>4 DEF SeedDefault, StartFails, Exit, Work, Next
<1> QED
  BY <1>1, <1>2, <1>3, <1>4 DEF DirNext

(* The database of a data directory goes through the behaviours of          *)
(* Migrations, whichever command each process was started as.               *)
THEOREM DirectoryImplementsMigrations == DirSpec => Spec
<1>1. DirInit => Init
  BY DEF DirInit
<1> QED
  BY <1>1, DirStepIsDatabaseStep, PTL DEF DirSpec, Spec

(* Daemons, routed and embedded commands and `db` maintenance on one data   *)
(* directory keep the version marker in lockstep with history and tables.   *)
THEOREM DirectoryInLockstep ==
    ASSUME Alone = {"downgrade", "rebuild"}
    PROVE  DirSpec => []VersionInLockstep
  BY LockstepHolds, DirectoryImplementsMigrations, PTL

-----------------------------------------------------------------------------
(* The first run *)

PastConfig == {"sock_check", "sock_remove", "sock_bind", "probe", "drop_sock", "drop_url"}

(* A process that has loaded an untouched config without seeding found the  *)
(* database there.                                                          *)
Loaded(p) ==
    /\ stage[p] = "load" => config # "absent"
    /\ stage[p] \in PastConfig /\ cmd[p] \in {"serve", "local"} => dbFile \/ config = "edited"
    /\ stage[p] \in {"sock_check", "sock_remove", "sock_bind"} => cmd[p] = "serve"
    /\ stage[p] \in {"drop_sock", "drop_url"} => cmd[p] # "remote"
    /\ stage[p] = "seed_open" => dbFile

DirSorts ==
    /\ config \in {"absent", "template", "edited"}
    /\ dbFile \in BOOLEAN /\ defaultStore \in BOOLEAN /\ excused \in BOOLEAN
    /\ cmd \in [Procs -> Commands]
    /\ stage \in [Procs -> Stages]

(* The inductive invariant. *)
FirstRunInvariant ==
    /\ DirSorts
    /\ dbFile => config # "absent"
    /\ \A p \in Procs : Loaded(p)
    /\ FirstRunSeeded

(* A process that moves on, while the config and the database file only     *)
(* come to be, leaves what the others rely on.                              *)
LEMMA WholeDirStep ==
    ASSUME FirstRunInvariant, NEW p \in Procs,
           \A q \in Procs \ {p} : stage'[q] = stage[q] /\ cmd'[q] = cmd[q],
           dbFile => dbFile',
           config # "absent" => config' # "absent",
           config = "edited" => config' = "edited",
           DirSorts', dbFile' => config' # "absent", Loaded(p)', FirstRunSeeded'
    PROVE  FirstRunInvariant'
<1>1. ASSUME NEW q \in Procs, q # p
      PROVE  Loaded(q)'
  BY <1>1 DEF FirstRunInvariant, DirSorts, Loaded
<1> QED
  BY <1>1 DEF FirstRunInvariant

(* The steps that leave config, database file and default store alone. *)
LEMMA PlainDirStep ==
    ASSUME FirstRunInvariant, NEW p \in Procs, stage[p] # "seed_open",
           UNCHANGED <<config, dbFile, defaultStore, excused>>,
           \A q \in Procs \ {p} : stage'[q] = stage[q] /\ cmd'[q] = cmd[q],
           cmd' \in [Procs -> Commands], stage' \in [Procs -> Stages], Loaded(p)'
    PROVE  FirstRunInvariant'
<1>1. DirSorts' /\ (dbFile' => config' # "absent")
  BY DEF FirstRunInvariant, DirSorts
<1>2. FirstRunSeeded'
  <2> SUFFICES ASSUME dbFile', config' = "template", ~defaultStore', ~excused'
               PROVE  \E q \in Procs : stage'[q] \in Seeding
    BY DEF FirstRunSeeded
  <2>1. PICK q \in Procs : stage[q] \in Seeding
    BY DEF FirstRunInvariant, FirstRunSeeded
  <2> QED
    BY <2>1 DEF Seeding
<1> QED
  BY <1>1, <1>2, WholeDirStep

LEMMA FirstRunStep ==
    ASSUME FirstRunInvariant, NEW p \in Procs,
           \/ \E c \in Commands \ {"none"} : Start(p, c)
           \/ ScaffoldCheck(p) \/ ScaffoldLink(p) \/ LoadConfig(p) \/ SeedDefault(p)
           \/ SockCheck(p) \/ SockRemove(p) \/ SockBind(p)
           \/ StateBuilt(p) \/ StartFails(p) \/ BindTcp(p) \/ WriteUrl(p)
           \/ Probe(p) \/ DropSock(p) \/ DropUrl(p)
           \/ Work(p) \/ RemoveDefault(p) \/ Exit(p)
    PROVE  FirstRunInvariant'
<1> USE DEF Enter
<1>1. DirSorts /\ Loaded(p) /\ (dbFile => config # "absent") /\ FirstRunSeeded
  BY DEF FirstRunInvariant
<1> DEFINE Frame == UNCHANGED <<config, dbFile, defaultStore, excused>>
<1>2. ASSUME NEW s \in Stages, stage' = [stage EXCEPT ![p] = s],
             \/ cmd' = cmd
             \/ \E c \in Commands : cmd' = [cmd EXCEPT ![p] = c]
      PROVE  /\ stage' \in [Procs -> Stages] /\ cmd' \in [Procs -> Commands]
             /\ stage'[p] = s
             /\ \A q \in Procs \ {p} : stage'[q] = stage[q] /\ cmd'[q] = cmd[q]
  BY <1>1, <1>2 DEF DirSorts
<1>3. CASE \E c \in Commands \ {"none"} : Start(p, c)
  <2>1. PICK c \in Commands \ {"none"} : Start(p, c)
    BY <1>3
  <2>2. PICK s \in {"probe", "scaffold"} : stage' = [stage EXCEPT ![p] = s] /\ (s = "probe" => c \in {"migrate", "downgrade"})
    BY <2>1 DEF Start
  <2>3. s \in Stages
    BY DEF Stages, Probing
  <2>4. cmd' = [cmd EXCEPT ![p] = c]
    BY <2>1 DEF Start
  <2>5. Loaded(p)'
    BY <1>1, <2>2, <2>4 DEF DirSorts, Loaded, PastConfig
  <2>6. stage[p] # "seed_open" /\ Frame
    BY <2>1 DEF Start
  <2> QED
    BY <1>2, <2>2, <2>3, <2>4, <2>5, <2>6, PlainDirStep
<1>4. CASE ScaffoldCheck(p)
  <2>1. PICK s \in {"link", "load"} : stage' = [stage EXCEPT ![p] = s] /\ (s = "load" => config # "absent")
    BY <1>4 DEF ScaffoldCheck
  <2>2. s \in Stages
    BY DEF Stages
  <2>3. stage[p] # "seed_open" /\ Frame /\ cmd' = cmd
    BY <1>4 DEF ScaffoldCheck
  <2>4. Loaded(p)'
    BY <1>1, <2>1, <2>3 DEF DirSorts, Loaded, PastConfig
  <2> QED
    BY <1>2, <2>1, <2>2, <2>3, <2>4, PlainDirStep
<1>5. CASE ScaffoldLink(p)
  <2>1. stage' = [stage EXCEPT ![p] = "load"] /\ stage[p] = "link" /\ UNCHANGED <<cmd, dbFile, defaultStore, excused>>
    BY <1>5 DEF ScaffoldLink
  <2>2. config' = IF config = "absent" THEN "template" ELSE config
    BY <1>5 DEF ScaffoldLink
  <2>3. "load" \in Stages
    BY DEF Stages
  <2>4. DirSorts'
    BY <1>1, <1>2, <2>1, <2>2, <2>3 DEF DirSorts
  <2>5. Loaded(p)'
    BY <1>1, <2>1, <2>2 DEF DirSorts, Loaded, PastConfig
  <2>6. FirstRunSeeded'
    <3> SUFFICES ASSUME dbFile', config' = "template", ~defaultStore', ~excused'
                 PROVE  \E q \in Procs : stage'[q] \in Seeding
      BY DEF FirstRunSeeded
    <3>1. config = "template"
      BY <1>1, <2>1, <2>2
    <3>2. PICK q \in Procs : stage[q] \in Seeding
      BY <1>1, <2>1, <3>1 DEF FirstRunSeeded
    <3> QED
      BY <1>1, <2>1, <3>2 DEF Seeding, DirSorts
  <2> QED
    BY <1>1, <1>2, <2>1, <2>2, <2>3, <2>4, <2>5, <2>6, WholeDirStep DEF DirSorts
<1>6. CASE LoadConfig(p)
  <2>1. stage[p] = "load" /\ UNCHANGED <<config, defaultStore, cmd, excused>> /\ config # "absent"
    BY <1>1, <1>6 DEF LoadConfig, Loaded
  <2>2. CASE stage' = [stage EXCEPT ![p] = "seed_open"] /\ dbFile'
    <3>1. "seed_open" \in Stages
      BY DEF Stages, Seeding
    <3>2. DirSorts' /\ stage'[p] = "seed_open"
      BY <1>1, <1>2, <1>6, <2>1, <2>2, <3>1 DEF DirSorts, LoadConfig
    <3>3. Loaded(p)' /\ FirstRunSeeded'
      BY <2>1, <2>2, <3>2 DEF Loaded, FirstRunSeeded, PastConfig, Seeding
    <3> QED
      BY <1>2, <2>1, <2>2, <3>1, <3>2, <3>3, WholeDirStep
  <2>3. CASE /\ stage' = [stage EXCEPT ![p] = NextStage(p)] /\ dbFile' = dbFile
             /\ cmd[p] # "remote" => dbFile \/ config # "template"
    <3>1. NextStage(p) \in Stages
      BY DEF NextStage, Stages, StartUp, Probing
    <3>2. Loaded(p)'
      BY <1>1, <2>1, <2>3 DEF DirSorts, Loaded, PastConfig, NextStage
    <3> QED
      BY <1>2, <2>1, <2>3, <3>1, <3>2, PlainDirStep
  <2> QED
    BY <1>6, <2>2, <2>3 DEF LoadConfig
<1>7. CASE SeedDefault(p)
  <2>1. stage[p] = "seed_open" /\ defaultStore' = TRUE /\ stage' = [stage EXCEPT ![p] = NextStage(p)]
        /\ UNCHANGED <<config, dbFile, cmd, excused>>
    BY <1>7 DEF SeedDefault
  <2>2. NextStage(p) \in Stages
    BY DEF NextStage, Stages, StartUp, Probing
  <2>3. DirSorts'
    BY <1>1, <1>2, <2>1, <2>2 DEF DirSorts
  <2>4. Loaded(p)' /\ FirstRunSeeded'
    BY <1>1, <2>1 DEF DirSorts, Loaded, FirstRunSeeded, PastConfig, NextStage
  <2> QED
    BY <1>1, <1>2, <2>1, <2>2, <2>3, <2>4, WholeDirStep
<1>8. CASE SockCheck(p) \/ SockRemove(p)
  <2>1. PICK s \in {"off", "sock_bind", "sock_remove"} :
          stage' = [stage EXCEPT ![p] = s] /\ (cmd' = cmd \/ (cmd' = [cmd EXCEPT ![p] = "none"] /\ s = "off"))
    BY <1>8 DEF SockCheck, SockRemove
  <2>2. stage[p] \in {"sock_check", "sock_remove"} /\ Frame
    BY <1>8 DEF SockCheck, SockRemove
  <2>3. s \in Stages /\ "none" \in Commands
    BY DEF Stages, StartUp, Commands
  <2>4. Loaded(p)'
    BY <1>1, <2>1, <2>2 DEF DirSorts, Loaded, PastConfig
  <2> QED
    BY <1>2, <2>1, <2>2, <2>3, <2>4, PlainDirStep
<1>9. CASE SockBind(p)
  <2>1. stage[p] = "sock_bind" /\ (dbFile \/ config = "edited") /\ UNCHANGED <<config, defaultStore, excused>>
    BY <1>1, <1>9 DEF SockBind, Loaded, PastConfig
  <2>2. PICK s \in {"off", "opening"} :
          stage' = [stage EXCEPT ![p] = s] /\ (cmd' = cmd \/ cmd' = [cmd EXCEPT ![p] = "none"]) /\ dbFile' \in {TRUE, dbFile}
    BY <1>9 DEF SockBind
  <2>3. s \in Stages /\ "none" \in Commands
    BY DEF Stages, StartUp, Commands
  <2>4. DirSorts' /\ Loaded(p)'
    <3>1. stage' \in [Procs -> Stages] /\ cmd' \in [Procs -> Commands] /\ stage'[p] = s
      BY <1>2, <2>2, <2>3
    <3>2. DirSorts'
      BY <1>1, <2>1, <2>2, <3>1, Zenon DEF DirSorts
    <3> QED
      BY <3>1, <3>2 DEF Loaded, PastConfig
  <2>5. FirstRunSeeded'
    <3> SUFFICES ASSUME dbFile', config' = "template", ~defaultStore', ~excused'
                 PROVE  \E q \in Procs : stage'[q] \in Seeding
      BY DEF FirstRunSeeded
    <3>1. PICK q \in Procs : stage[q] \in Seeding
      BY <1>1, <2>1 DEF FirstRunSeeded
    <3> QED
      BY <1>1, <2>1, <2>2, <3>1 DEF Seeding, DirSorts
  <2>6. \A q \in Procs \ {p} : stage'[q] = stage[q] /\ cmd'[q] = cmd[q]
    BY <1>2, <2>2, <2>3
  <2>7. dbFile => dbFile'
    BY <2>2
  <2>8. config' = config /\ config # "absent"
    BY <1>1, <2>1
  <2> QED
    BY <2>4, <2>5, <2>6, <2>7, <2>8, WholeDirStep
<1>10. CASE StateBuilt(p) \/ BindTcp(p) \/ WriteUrl(p) \/ StartFails(p)
  <2>1. PICK s \in {"tcp_bind", "url_write", "serving", "off"} :
          stage' = [stage EXCEPT ![p] = s] /\ (cmd' = cmd \/ cmd' = [cmd EXCEPT ![p] = "none"])
    BY <1>10 DEF StateBuilt, BindTcp, WriteUrl, StartFails
  <2>2. stage[p] # "seed_open" /\ Frame
    BY <1>10 DEF StateBuilt, BindTcp, WriteUrl, StartFails
  <2>3. s \in Stages /\ "none" \in Commands
    BY DEF Stages, StartUp, Commands
  <2>4. Loaded(p)'
    BY <1>1, <2>1 DEF DirSorts, Loaded, PastConfig
  <2> QED
    BY <1>2, <2>1, <2>2, <2>3, <2>4, PlainDirStep
<1>11. ASSUME GoEmbedded(p), stage[p] \in {"probe", "drop_url"}, cmd[p] # "remote",
              UNCHANGED <<config, defaultStore, excused>>
       PROVE  FirstRunInvariant'
  <2>1. CASE cmd[p] = "local" /\ stage' = [stage EXCEPT ![p] = "embedded"] /\ dbFile' = TRUE /\ cmd' = cmd
    <3>1. dbFile \/ config = "edited"
      BY <1>1, <1>11, <2>1 DEF Loaded, PastConfig
    <3>2. "embedded" \in Stages
      BY DEF Stages
    <3>3. DirSorts' /\ Loaded(p)'
      BY <1>1, <1>2, <1>11, <2>1, <3>2 DEF DirSorts, Loaded, PastConfig
    <3>4. FirstRunSeeded'
      <4> SUFFICES ASSUME dbFile', config' = "template", ~defaultStore', ~excused'
                   PROVE  \E q \in Procs : stage'[q] \in Seeding
        BY DEF FirstRunSeeded
      <4>1. PICK q \in Procs : stage[q] \in Seeding
        BY <1>1, <1>11, <3>1 DEF FirstRunSeeded
      <4> QED
        BY <1>1, <1>11, <2>1, <4>1 DEF Seeding, DirSorts
    <3> QED
      BY <1>1, <1>2, <1>11, <2>1, <3>1, <3>2, <3>3, <3>4, WholeDirStep
  <2>2. CASE /\ dbFile' = dbFile
             /\ \/ stage' = [stage EXCEPT ![p] = "maintain"] /\ cmd' = cmd
                \/ stage' = [stage EXCEPT ![p] = "off"] /\ cmd' = [cmd EXCEPT ![p] = "none"]
    <3>1. "maintain" \in Stages /\ "off" \in Stages /\ "none" \in Commands
      BY DEF Stages, Commands
    <3>2. Loaded(p)'
      BY <1>1, <2>2 DEF DirSorts, Loaded, PastConfig
    <3> QED
      BY <1>2, <1>11, <2>2, <3>1, <3>2, PlainDirStep
  <2> QED
    BY <1>11, <2>1, <2>2 DEF GoEmbedded
<1>12. CASE Probe(p)
  <2>1. stage[p] = "probe" /\ UNCHANGED <<config, defaultStore, excused>>
    BY <1>12 DEF Probe
  <2>2. CASE /\ dbFile' = dbFile
             /\ \/ stage' = [stage EXCEPT ![p] = "routed"] /\ cmd' = cmd
                \/ stage' = [stage EXCEPT ![p] = "off"] /\ cmd' = [cmd EXCEPT ![p] = "none"]
                \/ stage' = [stage EXCEPT ![p] = "drop_sock"] /\ cmd' = cmd /\ cmd[p] # "remote"
    <3>1. "routed" \in Stages /\ "off" \in Stages /\ "drop_sock" \in Stages /\ "none" \in Commands
      BY DEF Stages, Probing, Commands
    <3>2. Loaded(p)'
      BY <1>1, <2>1, <2>2 DEF DirSorts, Loaded, PastConfig
    <3> QED
      BY <1>2, <2>1, <2>2, <3>1, <3>2, PlainDirStep
  <2> QED
    BY <1>11, <1>12, <2>1, <2>2 DEF Probe
<1>13. CASE DropSock(p)
  <2>1. stage[p] = "drop_sock" /\ Frame /\ cmd' = cmd /\ stage' = [stage EXCEPT ![p] = "drop_url"]
    BY <1>13 DEF DropSock
  <2>2. "drop_url" \in Stages
    BY DEF Stages, Probing
  <2>3. Loaded(p)'
    BY <1>1, <2>1 DEF DirSorts, Loaded, PastConfig
  <2> QED
    BY <1>2, <2>1, <2>2, <2>3, PlainDirStep
<1>14. CASE DropUrl(p)
  BY <1>1, <1>11, <1>14 DEF DropUrl, Loaded
<1>15. CASE Work(p) \/ RemoveDefault(p)
  <2>1. /\ UNCHANGED <<config, dbFile, cmd, stage>>
        /\ excused' \in BOOLEAN /\ defaultStore' \in BOOLEAN
        /\ (excused' = excused /\ defaultStore' = defaultStore) \/ excused'
    BY <1>1, <1>15 DEF Work, RemoveDefault, DirSorts
  <2>2. DirSorts' /\ Loaded(p)'
    BY <1>1, <2>1 DEF DirSorts, Loaded
  <2>3. FirstRunSeeded'
    BY <1>1, <2>1 DEF FirstRunSeeded
  <2> QED
    BY <1>1, <2>1, <2>2, <2>3, WholeDirStep
<1>16. CASE Exit(p)
  <2>1. /\ stage' = [stage EXCEPT ![p] = "off"] /\ cmd' = [cmd EXCEPT ![p] = "none"]
        /\ UNCHANGED <<config, dbFile, defaultStore>>
        /\ excused' = (excused \/ stage[p] \in Seeding)
    BY <1>16 DEF Exit
  <2>2. "off" \in Stages /\ "none" \in Commands
    BY DEF Stages, Commands
  <2>3. Loaded(p)'
    BY <1>1, <2>1 DEF DirSorts, Loaded, PastConfig
  <2>4. CASE stage[p] = "seed_open"
    <3>1. excused'
      BY <2>1, <2>4 DEF Seeding
    <3>2. DirSorts' /\ FirstRunSeeded'
      BY <1>1, <1>2, <2>1, <2>2, <3>1 DEF DirSorts, FirstRunSeeded
    <3> QED
      BY <1>1, <1>2, <2>1, <2>2, <2>3, <3>2, WholeDirStep
  <2>5. CASE stage[p] # "seed_open"
    <3>1. excused' = excused
      BY <1>1, <2>1, <2>5 DEF Seeding, DirSorts
    <3> QED
      BY <1>2, <2>1, <2>2, <2>3, <2>5, <3>1, PlainDirStep
  <2> QED
    BY <2>4, <2>5
<1> QED
  BY <1>3, <1>4, <1>5, <1>6, <1>7, <1>8, <1>9, <1>10, <1>12, <1>13, <1>14, <1>15, <1>16

(* An untouched first-run install has its "default" store, is being seeded, *)
(* or lost the store to a rebuild, a removal or a kill in the middle of the *)
(* seeding: no order of the processes that start at the same time leaves it *)
(* out (scaffold.rs, app_db.rs load_config_scaffolded).                     *)
THEOREM FirstRunAlwaysSeeded == DirSpec => []FirstRunSeeded
<1>1. DirInit => FirstRunInvariant
  <2> SUFFICES ASSUME DirInit
               PROVE  FirstRunInvariant
    OBVIOUS
  <2>1. dbFile \in BOOLEAN /\ defaultStore = dbFile /\ excused = FALSE
    BY DEF DirInit
  <2>2. config \in {"absent", "template", "edited"} /\ (dbFile => config # "absent")
    BY DEF DirInit
  <2>3. "none" \in Commands /\ "off" \in Stages
    BY DEF Commands, Stages
  <2>4. DirSorts
    BY <2>1, <2>2, <2>3 DEF DirInit, DirSorts
  <2>5. \A p \in Procs : Loaded(p)
    BY DEF DirInit, Loaded, PastConfig
  <2>6. FirstRunSeeded
    BY <2>1 DEF FirstRunSeeded
  <2> QED
    BY <2>2, <2>4, <2>5, <2>6 DEF FirstRunInvariant
<1>2. FirstRunInvariant /\ [DirNext]_allVars => FirstRunInvariant'
  <2> SUFFICES ASSUME FirstRunInvariant, [DirNext]_allVars
               PROVE  FirstRunInvariant'
    OBVIOUS
  <2>1. CASE UNCHANGED allVars
    BY <2>1 DEF allVars, dirVars, FirstRunInvariant, DirSorts, Loaded, FirstRunSeeded
  <2>2. CASE EditConfig
    BY <2>2 DEF EditConfig, FirstRunInvariant, DirSorts, Loaded, FirstRunSeeded
  <2> QED
    BY <2>1, <2>2, FirstRunStep DEF DirNext
<1>3. FirstRunInvariant => FirstRunSeeded
  BY DEF FirstRunInvariant
<1> QED
  BY <1>1, <1>2, <1>3, PTL DEF DirSpec

-----------------------------------------------------------------------------
(* Versions are numbers and plans are without gaps, also when maintenance   *)
(* is not run alone.                                                        *)
Interval(S) == \E a \in Nat \ {0}, b \in Nat : S = a .. b

Numbers ==
    /\ version \in Nat /\ rows \in SUBSET Nat
    /\ from \in [Procs -> Nat] /\ goal \in [Procs -> Nat]
    /\ schema \in SUBSET Nat /\ at \in [Procs -> Points]
    /\ todo \in [Procs -> SUBSET Nat]
    /\ \A p \in Procs : at[p] # "drop" => Interval(todo[p])

LEMMA IntervalEnds ==
    ASSUME NEW S, Interval(S), S # {}
    PROVE  /\ Min(S) \in Nat /\ Interval(S \ {Min(S)})
           /\ Max(S) \in Nat /\ Max(S) - 1 \in Nat /\ Interval(S \ {Max(S)})
<1>1. PICK a \in Nat \ {0}, b \in Nat : S = a .. b
  BY DEF Interval
<1>2. a <= b /\ Min(S) = a /\ Max(S) = b
  BY <1>1, Ends
<1>3. S \ {a} = a + 1 .. b /\ a + 1 \in Nat \ {0}
  BY <1>1
<1>4. S \ {b} = a .. b - 1 /\ b - 1 \in Nat
  BY <1>1, <1>2
<1> QED
  BY <1>1, <1>2, <1>3, <1>4 DEF Interval

LEMMA NumbersMove ==
    ASSUME Numbers, NEW p \in Procs,
           at' \in [Procs -> Points], \A q \in Procs \ {p} : at'[q] = at[q],
           todo' \in [Procs -> SUBSET Nat], \A q \in Procs \ {p} : todo'[q] = todo[q],
           at'[p] # "drop" => Interval(todo'[p]),
           version' \in Nat, rows' \in SUBSET Nat, schema' \in SUBSET Nat,
           from' \in [Procs -> Nat], goal' \in [Procs -> Nat]
    PROVE  Numbers'
  BY DEF Numbers

LEMMA Intervals == /\ Interval({}) /\ Interval(AllTables) /\ AllTables \in SUBSET Nat
                   /\ Baseline + 1 .. HeadVersion \in SUBSET Nat
<1>1. {} = 2 .. 1 /\ Baseline \in Nat \ {0} /\ AllTables \in SUBSET Nat
      /\ Baseline + 1 .. HeadVersion \in SUBSET Nat
  BY VersionNumbers DEF AllTables
<1> QED
  BY <1>1, VersionNumbers DEF Interval, AllTables

(* The steps of a plan: what is left of it has no gaps either. *)
LEMMA NumbersPlanned ==
    ASSUME Numbers, NEW p \in Procs, at[p] \in {"apply", "replay", "create", "recreate"}, todo[p] # {},
           \/ /\ todo' = [todo EXCEPT ![p] = todo[p] \ {Min(todo[p])}] /\ version' = Min(todo[p])
              /\ rows' = rows \cup {Min(todo[p])} /\ schema' = schema \cup {Min(todo[p])} /\ UNCHANGED at
           \/ /\ todo' = [todo EXCEPT ![p] = todo[p] \ {Max(todo[p])}] /\ version' = Max(todo[p]) - 1
              /\ rows' = rows \ {Max(todo[p])} /\ schema' = schema \ {Max(todo[p])} /\ UNCHANGED at
           \/ /\ todo' = [todo EXCEPT ![p] = todo[p] \ {Max(todo[p])}]
              /\ schema' = schema \cup {Max(todo[p])} /\ UNCHANGED <<at, rows, version>>
           \/ at' = [at EXCEPT ![p] = "failed"] /\ UNCHANGED <<version, rows, schema, todo>>,
           UNCHANGED <<from, goal>>
    PROVE  Numbers'
<1> DEFINE low == Min(todo[p])
           high == Max(todo[p])
<1>1. /\ low \in Nat /\ Interval(todo[p] \ {low}) /\ todo[p] \subseteq Nat
      /\ high \in Nat /\ high - 1 \in Nat /\ Interval(todo[p] \ {high}) /\ Interval(todo[p])
  BY IntervalEnds DEF Numbers
<1>2. \/ /\ todo' = [todo EXCEPT ![p] = todo[p] \ {low}] /\ version' = low
         /\ rows' = rows \cup {low} /\ schema' = schema \cup {low} /\ UNCHANGED at
      \/ /\ todo' = [todo EXCEPT ![p] = todo[p] \ {high}] /\ version' = high - 1
         /\ rows' = rows \ {high} /\ schema' = schema \ {high} /\ UNCHANGED at
      \/ /\ todo' = [todo EXCEPT ![p] = todo[p] \ {high}]
         /\ schema' = schema \cup {high} /\ UNCHANGED <<at, rows, version>>
      \/ at' = [at EXCEPT ![p] = "failed"] /\ UNCHANGED <<version, rows, schema, todo>>
  OBVIOUS
<1> HIDE DEF low, high
<1>3. "failed" \in Points /\ version \in Nat /\ rows \in SUBSET Nat /\ schema \in SUBSET Nat
      /\ at \in [Procs -> Points] /\ todo \in [Procs -> SUBSET Nat]
  BY DEF Numbers, Points
<1>4. /\ version' \in Nat /\ rows' \in SUBSET Nat /\ schema' \in SUBSET Nat
      /\ at' \in [Procs -> Points] /\ todo' \in [Procs -> SUBSET Nat]
      /\ from' \in [Procs -> Nat] /\ goal' \in [Procs -> Nat]
  BY <1>1, <1>2, <1>3 DEF Numbers
<1>5. /\ \A q \in Procs \ {p} : at'[q] = at[q] /\ todo'[q] = todo[q]
      /\ Interval(todo'[p])
  BY <1>1, <1>2, <1>3
<1> QED
  BY <1>4, <1>5, NumbersMove

LEMMA NumbersKept ==
    ASSUME Numbers, [Next]_vars
    PROVE  Numbers'
<1> USE VersionNumbers
<1> USE DEF Goto
<1>0. /\ version \in Nat /\ rows \in SUBSET Nat /\ schema \in SUBSET Nat
      /\ at \in [Procs -> Points] /\ todo \in [Procs -> SUBSET Nat]
      /\ from \in [Procs -> Nat] /\ goal \in [Procs -> Nat]
      /\ \A q \in Procs : at[q] # "drop" => Interval(todo[q])
  BY DEF Numbers
<1>1. CASE UNCHANGED vars
  BY <1>1 DEF vars, Numbers
<1>2. ASSUME NEW p \in Procs, UNCHANGED <<todo, schema>>, at[p] # "drop" \/ todo[p] = {},
             rows' \in {rows, rows \cup {Baseline}, rows \cup (Baseline + 1 .. HeadVersion)},
             version' \in {version, HeadVersion},
             NEW x \in Points, at' = [at EXCEPT ![p] = x],
             goal' \in [Procs -> Nat], from' \in [Procs -> Nat]
      PROVE  Numbers'
  <2>1. Interval(todo'[p]) /\ todo' = todo
    BY <1>0, <1>2, Intervals
  <2>2. rows' \in SUBSET Nat /\ version' \in Nat /\ schema' \in SUBSET Nat
    BY <1>0, <1>2, Intervals
  <2>3. at' \in [Procs -> Points] /\ \A q \in Procs \ {p} : at'[q] = at[q]
    BY <1>0, <1>2
  <2> QED
    BY <1>0, <1>2, <2>1, <2>2, <2>3, NumbersMove
<1>3. ASSUME NEW p \in Procs, NEW t \in Baseline .. Newest \cup {0}, NEW k, Begin(p, k, t)
      PROVE  Numbers'
  <2>1. "read" \in Points /\ at[p] = "idle" /\ at' = [at EXCEPT ![p] = "read"]
        /\ UNCHANGED <<version, rows, schema, todo>>
        /\ goal' \in [Procs -> Nat] /\ from' \in [Procs -> Nat]
    BY <1>0, <1>3 DEF Begin, Points
  <2> QED
    BY <1>2, <2>1
<1>4. ASSUME NEW p \in Procs, Leave(p) PROVE Numbers'
  <2>1. todo' = [todo EXCEPT ![p] = {}] /\ UNCHANGED <<version, rows, schema>>
        /\ at' = [at EXCEPT ![p] = "idle"] /\ "idle" \in Points
        /\ goal' \in [Procs -> Nat] /\ from' \in [Procs -> Nat]
    BY <1>0, <1>4 DEF Leave, Points
  <2> QED
    BY <1>0, <2>1, NumbersMove, Intervals
<1>5. ASSUME NEW p \in Procs, ApplyOne(p) \/ ReplayOne(p) \/ CreateTable(p) PROVE Numbers'
  <2>1. CASE ApplyOne(p)
    BY <2>1, NumbersPlanned DEF ApplyOne
  <2>2. CASE ReplayOne(p)
    BY <2>2, NumbersPlanned DEF ReplayOne
  <2>3. CASE CreateTable(p)
    BY <2>3, NumbersPlanned DEF CreateTable
  <2> QED
    BY <1>5, <2>1, <2>2, <2>3
<1>6. ASSUME NEW p \in Procs, NEW T \in SUBSET Nat, NEW x \in Points,
             todo' = [todo EXCEPT ![p] = T], at' = [at EXCEPT ![p] = x], x # "drop" => Interval(T),
             rows' \in SUBSET Nat, version' \in Nat, schema' \in SUBSET Nat,
             goal' = goal, from' \in [Procs -> Nat]
      PROVE  Numbers'
  <2>1. at' \in [Procs -> Points] /\ todo' \in [Procs -> SUBSET Nat]
        /\ at'[p] = x /\ todo'[p] = T
        /\ \A q \in Procs \ {p} : at'[q] = at[q] /\ todo'[q] = todo[q]
    BY <1>0, <1>6
  <2> QED
    BY <1>0, <1>6, <2>1, NumbersMove
<1>7. ASSUME NEW p \in Procs, PlanPending(p) PROVE Numbers'
  <2> DEFINE steps == {v \in Baseline + 1 .. HeadVersion : v > version}
  <2>1. version + 1 \in Nat \ {0}
    BY <1>0
  <2>2. ASSUME version >= Baseline PROVE steps \in SUBSET Nat /\ Interval(steps)
    <3>1. steps = version + 1 .. HeadVersion
      BY <1>0, <2>1, <2>2
    <3> QED
      BY <2>1, <3>1 DEF Interval
  <2>3. at[p] = "plan" /\ rows' = rows \cup {Baseline} /\ UNCHANGED <<version, schema, from, goal>>
    BY <1>7 DEF PlanPending
  <2>4. CASE version < Baseline
    <3>1. at' = [at EXCEPT ![p] = "failed"] /\ todo' = todo /\ "failed" \in Points
      BY <1>7, <2>4 DEF PlanPending, Points
    <3> QED
      BY <1>0, <1>2, <2>3, <3>1
  <2>5. CASE ~(version < Baseline)
    <3>1. at' = [at EXCEPT ![p] = "apply"] /\ todo' = [todo EXCEPT ![p] = steps] /\ "apply" \in Points
      BY <1>7, <2>5 DEF PlanPending, Points
    <3>2. steps \in SUBSET Nat /\ Interval(steps)
      BY <1>0, <2>2, <2>5
    <3> HIDE DEF steps
    <3> QED
      BY <1>0, <1>6, <2>3, <3>1, <3>2
  <2> QED
    BY <2>4, <2>5
<1>8. ASSUME NEW p \in Procs, DowngradeHistory(p) PROVE Numbers'
  <2> DEFINE planned == {v \in rows : goal[p] < v /\ v <= from[p]}
  <2>1. goal[p] \in Nat /\ from[p] \in Nat /\ rows \subseteq Nat
    BY <1>0
  <2>2. ASSUME goal[p] + 1 .. from[p] \subseteq planned
        PROVE  Interval(planned) /\ planned \in SUBSET Nat
    <3>1. \A v \in planned : v \in goal[p] + 1 .. from[p]
      BY <2>1
    <3> HIDE DEF planned
    <3>2. planned = goal[p] + 1 .. from[p]
      BY <2>2, <3>1
    <3> QED
      BY <2>1, <3>2 DEF Interval
  <2>3. /\ UNCHANGED <<version, rows, schema, from, goal>> /\ at[p] = "history"
        /\ \/ at' = [at EXCEPT ![p] = "refused"] /\ todo' = todo
           \/ /\ goal[p] + 1 .. from[p] \subseteq planned
              /\ at' = [at EXCEPT ![p] = "replay"] /\ todo' = [todo EXCEPT ![p] = planned]
    BY <1>8 DEF DowngradeHistory
  <2> HIDE DEF planned
  <2>4. "refused" \in Points /\ "replay" \in Points
    BY DEF Points
  <2>5. CASE at' = [at EXCEPT ![p] = "refused"] /\ todo' = todo
    BY <1>0, <1>2, <2>3, <2>4, <2>5
  <2>6. CASE /\ goal[p] + 1 .. from[p] \subseteq planned
             /\ at' = [at EXCEPT ![p] = "replay"] /\ todo' = [todo EXCEPT ![p] = planned]
    BY <1>0, <1>6, <2>2, <2>3, <2>4, <2>6
  <2> QED
    BY <2>3, <2>5, <2>6
<1>9. ASSUME NEW p \in Procs, OpenRead(p) \/ MigrateRead(p) \/ ResetVersion(p) PROVE Numbers'
  <2>1. PICK x \in Points \ {"drop"} : at' = [at EXCEPT ![p] = x]
    BY <1>9 DEF OpenRead, MigrateRead, ResetVersion, Points, FreshPoints
  <2>2. todo' = [todo EXCEPT ![p] = AllTables] /\ UNCHANGED <<rows, schema, goal>>
        /\ version' \in Nat /\ from' \in [Procs -> Nat]
    BY <1>0, <1>9 DEF OpenRead, MigrateRead, ResetVersion
  <2> QED
    BY <1>0, <1>6, <2>1, <2>2, Intervals
<1>10. ASSUME NEW p \in Procs, ListTables(p) PROVE Numbers'
  <2> DEFINE tables == schema \cup (IF rows = {} THEN {} ELSE {0})
  <2>1. tables \in SUBSET Nat /\ "drop" \in Points
    BY <1>0 DEF Points
  <2>2. todo' = [todo EXCEPT ![p] = tables] /\ at' = [at EXCEPT ![p] = "drop"]
        /\ UNCHANGED <<version, rows, schema, from, goal>>
    BY <1>10 DEF ListTables
  <2> HIDE DEF tables
  <2> QED
    BY <1>0, <1>6, <2>1, <2>2
<1>11. ASSUME NEW p \in Procs, DropTable(p) PROVE Numbers'
  <2>1. PICK t \in todo[p] : /\ schema' = schema \ {t} /\ rows' = (IF t = 0 THEN {} ELSE rows)
                             /\ todo' = [todo EXCEPT ![p] = todo[p] \ {t}]
                             /\ at[p] = "drop" /\ UNCHANGED <<version, at, from, goal>>
    BY <1>11 DEF DropTable
  <2>2. todo' \in [Procs -> SUBSET Nat] /\ \A q \in Procs \ {p} : todo'[q] = todo[q]
    BY <1>0, <2>1
  <2> QED
    BY <1>0, <2>1, <2>2, NumbersMove
<1>12. ASSUME NEW p \in Procs,
              \/ OpenVerify(p) \/ CreatedAll(p) \/ SeedTable(p) \/ SeedAllAndStamp(p) \/ DroppedAll(p)
              \/ MigrateBookkeeping(p) \/ MigrateVerify(p) \/ AppliedAll(p) \/ PostCheck(p)
              \/ DowngradeRead(p) \/ ReplayedAll(p)
       PROVE  Numbers'
  <2>1. PICK x \in Points : at' = [at EXCEPT ![p] = x]
    BY <1>12 DEF OpenVerify, CreatedAll, SeedTable, SeedAllAndStamp, DroppedAll, MigrateBookkeeping,
       MigrateVerify, AppliedAll, PostCheck, DowngradeRead, ReplayedAll, Points, FreshPoints
  <2>2. /\ UNCHANGED <<todo, schema>> /\ (at[p] # "drop" \/ todo[p] = {})
        /\ rows' \in {rows, rows \cup {Baseline}, rows \cup (Baseline + 1 .. HeadVersion)}
        /\ version' \in {version, HeadVersion}
        /\ goal' \in [Procs -> Nat] /\ from' \in [Procs -> Nat]
    BY <1>0, <1>12 DEF OpenVerify, CreatedAll, SeedTable, SeedAllAndStamp, DroppedAll, MigrateBookkeeping,
       MigrateVerify, AppliedAll, PostCheck, DowngradeRead, ReplayedAll
  <2> QED
    BY <1>2, <2>1, <2>2
<1>13. ASSUME NEW p \in Procs, ProcStep(p) PROVE Numbers'
  BY <1>5, <1>7, <1>8, <1>9, <1>10, <1>11, <1>12, <1>13
     DEF ProcStep, OpenStep, CreateStep, MigrateStep, DowngradeStep
<1>14. ASSUME NEW p \in Procs, BeginMigrate(p) PROVE Numbers'
  BY <1>3, <1>14 DEF BeginMigrate
<1>15. ASSUME NEW p \in Procs, NEW t \in Baseline .. Newest, BeginDowngrade(p, t) PROVE Numbers'
  BY <1>3, <1>15 DEF BeginDowngrade
<1> QED
  BY <1>1, <1>3, <1>4, <1>13, <1>14, <1>15 DEF Next

LEMMA NumbersHold == Spec => []Numbers
<1>1. Init => Numbers
  <2>1. 0 .. Newest \subseteq Nat
    BY VersionNumbers
  <2> SUFFICES ASSUME Init PROVE Numbers
    OBVIOUS
  <2>2. version \in Nat /\ rows \in SUBSET Nat /\ schema \in SUBSET Nat
    BY <2>1, VersionNumbers DEF Init
  <2> QED
    BY <2>2, Intervals DEF Init, Numbers, Points
<1> QED
  BY <1>1, NumbersKept, PTL DEF Spec

-----------------------------------------------------------------------------
(* The serving daemon *)

(* Statements only a `db` maintenance command runs, and those that are      *)
(* reached from a version read as head.                                     *)
MaintenancePoints ==
    {"list", "drop", "reset", "bookkeep", "verify_applied", "plan", "apply", "post_check", "history",
     "replay", "done"}
HeadPoints == {"verify", "recreate", "opened"}

Bound == {"opening", "tcp_bind", "url_write", "serving"}
PastCheck == {"sock_remove", "sock_bind", "opening", "tcp_bind", "url_write"}
Disturbing == {"drop_sock", "drop_url", "maintain"}

(* Only maintenance runs under "maintain", and only daemons start up. *)
Role(p) ==
    /\ at[p] = "idle" => kind[p] = "open"
    /\ stage[p] # "maintain" => kind[p] = "open" /\ at[p] \notin MaintenancePoints
    /\ stage[p] \in StartUp \cup {"serving"} => cmd[p] = "serve"
    /\ cmd[p] = "serve" => stage[p] \in StartUp \cup {"serving", "scaffold", "link", "load", "seed_open", "off"}

(* A daemon starts while the others have settled, and goes on past a socket *)
(* only when nobody serves.                                                 *)
StartsAlone(p) ==
    /\ Starting(p) => \A q \in Procs \ {p} : stage[q] \in Settled
    /\ stage[p] \in PastCheck => \A q \in Procs : stage[q] # "serving"

(* What it has bound, written and opened stays as it was. *)
Holds(p) ==
    /\ stage[p] \in Bound => sock = p
    /\ stage[p] \in {"url_write", "serving"} => port = p
    /\ stage[p] \in {"tcp_bind", "url_write", "serving"} => at[p] = "opened"
    /\ stage[p] \in Bound /\ at[p] \in HeadPoints => version = HeadVersion
    /\ stage[p] = "serving" => url = p /\ \A q \in Procs : stage[q] \notin Disturbing

ServingSorts ==
    /\ cmd \in [Procs -> Commands] /\ stage \in [Procs -> Stages]
    /\ at \in [Procs -> Points] /\ kind \in [Procs -> Kinds]

(* The inductive invariant. *)
ServingInvariant ==
    /\ ServingSorts
    /\ \A p \in Procs : Role(p)
    /\ ~overlapped => \A p \in Procs : StartsAlone(p) /\ Holds(p)

(* A command that is not maintenance moves the version only to head, and    *)
(* what it has read as head is head.                                        *)
LEMMA DatabaseWork ==
    ASSUME ServingSorts, Numbers, NEW p \in Procs, Role(p), ProcStep(p)
    PROVE  \E x \in Points \ {"idle"} :
             /\ at' = [at EXCEPT ![p] = x] /\ kind' = kind
             /\ at[p] = "opened" => x = "opened"
             /\ stage[p] # "maintain" =>
                  /\ x \notin MaintenancePoints
                  /\ version' \in {version, HeadVersion}
                  /\ x \in HeadPoints => \/ version' = HeadVersion
                                         \/ at[p] \in HeadPoints /\ version' = version
<1> DEFINE Moved(x) ==
             /\ at' = [at EXCEPT ![p] = x] /\ kind' = kind
             /\ at[p] = "opened" => x = "opened"
             /\ stage[p] # "maintain" =>
                  /\ x \notin MaintenancePoints
                  /\ version' \in {version, HeadVersion}
                  /\ x \in HeadPoints => \/ version' = HeadVersion
                                         \/ at[p] \in HeadPoints /\ version' = version
<1> USE DEF Goto
<1>1. at \in [Procs -> Points] /\ at = [at EXCEPT ![p] = at[p]] /\ at[p] \in Points
  BY DEF ServingSorts
<1>2. CASE OpenRead(p)
  <2>1. PICK x \in {"create", "verify", "refused"} :
          at' = [at EXCEPT ![p] = x] /\ (x = "verify" => version = HeadVersion)
    <3>1. CASE version = 0
      <4>1. classify_version(version) = "Fresh"
        BY <3>1, VersionNumbers DEF classify_version, Legacy
      <4> QED
        BY <1>2, <4>1 DEF OpenRead
    <3>2. CASE version = HeadVersion
      BY <1>2, <3>2 DEF OpenRead
    <3>3. CASE version # 0 /\ version # HeadVersion
      <4>1. classify_version(version) \in {"Legacy", "Pending", "TooNew"}
        BY <3>3, VersionNumbers DEF classify_version, Legacy, Numbers
      <4> QED
        BY <1>2, <4>1 DEF OpenRead
    <3> QED
      BY <3>1, <3>2, <3>3
  <2>2. Moved(x) /\ x \in Points \ {"idle"}
    BY <1>2, <2>1 DEF OpenRead, Points, FreshPoints, MaintenancePoints, HeadPoints
  <2> QED
    BY <2>2
<1>3. CASE OpenVerify(p) \/ CreatedAll(p) \/ SeedTable(p)
  <2>1. PICK x \in {"recreate", "refused", "opened", "bookkeep_seed", "seed"} :
          /\ at' = [at EXCEPT ![p] = x] /\ at[p] # "opened"
          /\ x \in HeadPoints => at[p] \in HeadPoints
    BY <1>3 DEF OpenVerify, CreatedAll, SeedTable, HeadPoints
  <2>2. Moved(x) /\ x \in Points \ {"idle"}
    BY <1>3, <2>1 DEF OpenVerify, CreatedAll, SeedTable, Points, FreshPoints,
       MaintenancePoints
  <2> QED
    BY <2>2
<1>4. CASE SeedAllAndStamp(p)
  <2>1. PICK x \in {"opened", "post_check"} :
          at' = [at EXCEPT ![p] = x] /\ (x = "post_check" => stage[p] = "maintain")
    BY <1>4 DEF SeedAllAndStamp, Role
  <2>2. Moved(x) /\ x \in Points \ {"idle"}
    BY <1>4, <2>1 DEF SeedAllAndStamp, Points, MaintenancePoints
  <2> QED
    BY <2>2
<1>5. CASE CreateTable(p)
  <2>1. Moved(at[p]) /\ at[p] \in Points \ {"idle"}
    BY <1>1, <1>5 DEF CreateTable, Points, MaintenancePoints, HeadPoints
  <2> QED
    BY <2>1
<1>6. CASE MigrateStep(p) \/ DowngradeStep(p)
  <2>1. /\ at[p] \in MaintenancePoints \/ kind[p] # "open"
        /\ at[p] \notin {"opened", "idle"} /\ kind' = kind
    BY <1>6 DEF MigrateStep, MigrateRead, ListTables, DropTable, DroppedAll, ResetVersion, MigrateBookkeeping,
       MigrateVerify, PlanPending, ApplyOne, AppliedAll, PostCheck, DowngradeStep, DowngradeRead,
       DowngradeHistory, ReplayOne, ReplayedAll, MaintenancePoints
  <2>2. stage[p] = "maintain"
    BY <2>1 DEF Role
  <2>3. \E x \in Points \ {"idle"} : at' = [at EXCEPT ![p] = x]
    <3>1. CASE MigrateRead(p)
      BY <3>1 DEF MigrateRead, Points, FreshPoints
    <3>2. CASE ~MigrateRead(p)
      BY <1>1, <1>6, <2>1, <3>2 DEF MigrateStep, ListTables, DropTable, DroppedAll, ResetVersion, MigrateBookkeeping,
         MigrateVerify, PlanPending, ApplyOne, AppliedAll, PostCheck, DowngradeStep, DowngradeRead,
         DowngradeHistory, ReplayOne, ReplayedAll, Points, FreshPoints
    <3> QED
      BY <3>1, <3>2
  <2> QED
    BY <2>1, <2>2, <2>3
<1> QED
  BY <1>2, <1>3, <1>4, <1>5, <1>6 DEF ProcStep, OpenStep, CreateStep

(* A step of p that goes on to stage x and disturbs no daemon. *)
Moves(p, x) ==
    /\ stage' = [stage EXCEPT ![p] = x] /\ overlapped' = overlapped
    /\ \A q \in Procs \ {p} : cmd'[q] = cmd[q] /\ at'[q] = at[q] /\ kind'[q] = kind[q]
    /\ cmd'[p] = "serve" => cmd[p] = "serve"
    /\ stage[p] = "off" => x = "off"
    /\ stage[p] \in Settled => x \in Settled
    /\ x = "serving" => stage[p] \in {"url_write", "serving"}
    /\ x \in PastCheck => stage[p] \in PastCheck \/ ~Answers(sock)
    /\ x \in Disturbing => stage[p] \in Disturbing \/ sock = NoProc \/ port = NoProc
    /\ sock' # sock => stage[p] \in PastCheck \cup {"drop_sock"}
    /\ url' # url => stage[p] \in PastCheck \cup {"drop_url"}
    /\ port' # port => stage[p] \in PastCheck \/ port = p
    /\ version' # version => version' = HeadVersion \/ stage[p] = "maintain"

LEMMA OneMoves ==
    ASSUME ServingInvariant, NEW p \in Procs, NEW x \in Stages, Moves(p, x),
           ServingSorts', Role(p)', ~overlapped => Holds(p)'
    PROVE  ServingInvariant'
<1>1. /\ stage'[p] = x
      /\ \A q \in Procs \ {p} : /\ stage'[q] = stage[q] /\ cmd'[q] = cmd[q]
                                /\ at'[q] = at[q] /\ kind'[q] = kind[q]
  BY DEF Moves, ServingInvariant, ServingSorts
<1>2. \A q \in Procs : Role(q)'
  BY <1>1 DEF ServingInvariant, Role
<1>3. ASSUME ~overlapped, NEW q \in Procs, Starting(q)' PROVE Starting(q)
  <2>1. CASE q = p
    <3>1. cmd[p] = "serve" /\ stage[p] # "off"
      BY <1>1, <1>3, <2>1 DEF Starting, Moves
    <3>2. x \notin {"routed", "embedded", "off", "serving"}
      BY <1>1, <1>3, <2>1 DEF Starting, Role, StartUp
    <3>3. stage[p] # "serving"
      BY <3>2 DEF Moves, Settled
    <3> QED
      BY <2>1, <3>1, <3>3 DEF Starting
  <2>2. CASE q # p
    BY <1>1, <1>3, <2>2 DEF Starting
  <2> QED
    BY <2>1, <2>2
<1>4. ASSUME ~overlapped, NEW q \in Procs, q # p, Starting(q) PROVE stage[p] \in Settled
  BY <1>4 DEF ServingInvariant, StartsAlone
<1>5. ASSUME NEW q \in Procs, stage[q] \in PastCheck PROVE Starting(q)
  BY <1>5 DEF PastCheck, StartUp, Role, ServingInvariant, Starting
<1>6. ASSUME ~overlapped, NEW q \in Procs PROVE StartsAlone(q)'
  <2>1. ASSUME Starting(q)', NEW r \in Procs \ {q} PROVE stage'[r] \in Settled
    <3>1. stage[r] \in Settled
      BY <1>3, <1>6, <2>1 DEF ServingInvariant, StartsAlone
    <3> QED
      BY <1>1, <3>1 DEF Moves
  <2>2. ASSUME stage'[q] \in PastCheck, NEW r \in Procs, stage'[r] = "serving" PROVE FALSE
    <3>1. q # r /\ "serving" \notin PastCheck
      BY <2>2 DEF PastCheck
    <3>2. CASE r = p
      <4>1. stage[q] \in PastCheck /\ stage[p] \in {"url_write", "serving"}
        BY <1>1, <2>2, <3>1, <3>2 DEF Moves
      <4>2. stage[p] \in Settled
        BY <1>4, <1>5, <1>6, <3>1, <3>2, <4>1
      <4>3. stage[p] # "serving"
        BY <1>6, <4>1 DEF ServingInvariant, StartsAlone
      <4> QED
        BY <4>1, <4>2, <4>3 DEF Settled
    <3>3. CASE r # p
      <4>1. stage[r] = "serving"
        BY <1>1, <2>2, <3>3
      <4>2. stage[q] \notin PastCheck
        BY <1>6, <4>1 DEF ServingInvariant, StartsAlone
      <4>3. q = p /\ ~Answers(sock)
        BY <1>1, <2>2, <4>2 DEF Moves
      <4>4. sock = r
        BY <1>6, <4>1 DEF ServingInvariant, Holds, Bound
      <4> QED
        BY <4>1, <4>3, <4>4, DirectoryAssumption DEF Answers
    <3> QED
      BY <3>2, <3>3
  <2> QED
    BY <2>1, <2>2 DEF StartsAlone
<1>7. ASSUME ~overlapped, NEW q \in Procs, q # p PROVE Holds(q)'
  <2>1. Holds(q) /\ stage'[q] = stage[q] /\ at'[q] = at[q]
    BY <1>1, <1>7 DEF ServingInvariant
  <2>2. ASSUME stage[q] \in Bound
        PROVE  /\ stage[p] \notin PastCheck /\ stage[p] \notin Disturbing
    <3>1. stage[q] = "serving" \/ Starting(q)
      BY <1>5, <2>2 DEF Bound, PastCheck
    <3>2. CASE stage[q] = "serving"
      BY <1>7, <2>1, <3>2 DEF ServingInvariant, StartsAlone, Holds
    <3>3. CASE Starting(q)
      BY <1>4, <1>7, <3>3 DEF Settled, PastCheck, Disturbing
    <3> QED
      BY <3>1, <3>2, <3>3
  <2>3. stage[q] \in Bound => sock' = sock /\ url' = url /\ version' \in {version, HeadVersion}
    BY <2>2 DEF Moves, Disturbing
  <2>4. stage[q] \in {"url_write", "serving"} => port' = q
    BY <1>7, <2>1, <2>2 DEF Moves, Holds, Bound
  <2>5. ASSUME stage[q] = "serving", NEW r \in Procs PROVE stage'[r] \notin Disturbing
    <3>1. stage[r] \notin Disturbing /\ sock # NoProc /\ port # NoProc
      BY <2>1, <2>5, DirectoryAssumption DEF Holds, Bound
    <3> QED
      BY <1>1, <3>1 DEF Moves
  <2> QED
    BY <2>1, <2>3, <2>4, <2>5 DEF Holds, Bound
<1> QED
  BY <1>2, <1>6, <1>7 DEF ServingInvariant, Moves

(* The steps that do not touch the database. *)
LEMMA PlainStepServes ==
    ASSUME ServingInvariant, NEW p \in Procs,
           \/ ScaffoldCheck(p) \/ ScaffoldLink(p) \/ SockCheck(p) \/ SockRemove(p)
           \/ StateBuilt(p) \/ BindTcp(p) \/ WriteUrl(p) \/ DropSock(p) \/ RemoveDefault(p)
    PROVE  ServingInvariant'
<1> USE DEF Enter
<1>0. /\ ServingSorts /\ Role(p) /\ (~overlapped => StartsAlone(p) /\ Holds(p))
      /\ UNCHANGED <<at, kind, version>>
  BY DEF ServingInvariant, ScaffoldCheck, ScaffoldLink, SockCheck, SockRemove, StateBuilt, BindTcp,
     WriteUrl, DropSock, RemoveDefault, vars
<1>1. ASSUME NEW x \in Stages, NEW c \in {cmd[p], "none"},
             stage' = [stage EXCEPT ![p] = x],
             cmd' = cmd \/ cmd' = [cmd EXCEPT ![p] = c]
      PROVE  /\ ServingSorts' /\ stage'[p] = x
             /\ \A q \in Procs \ {p} : stage'[q] = stage[q]
             /\ \A q \in Procs \ {p} : cmd'[q] = cmd[q] /\ at'[q] = at[q] /\ kind'[q] = kind[q]
  BY <1>0, <1>1 DEF ServingSorts, Commands
<1>2. CASE ScaffoldCheck(p)
  <2>1. PICK x \in {"link", "load"} : stage' = [stage EXCEPT ![p] = x]
    BY <1>2 DEF ScaffoldCheck
  <2>2. x \in Stages /\ UNCHANGED <<cmd, sock, url, port, overlapped>> /\ stage[p] = "scaffold"
    BY <1>2, <2>1 DEF ScaffoldCheck, Stages
  <2>3. Moves(p, x)
    BY <1>0, <1>1, <2>1, <2>2 DEF Moves, Settled, PastCheck, Disturbing
  <2>4. Role(p)' /\ Holds(p)'
    BY <1>0, <1>1, <2>1, <2>2 DEF Role, Holds, StartUp, Bound
  <2> QED
    BY <1>1, <2>1, <2>2, <2>3, <2>4, OneMoves
<1>3. CASE ScaffoldLink(p)
  <2>1. /\ "load" \in Stages /\ stage' = [stage EXCEPT ![p] = "load"] /\ stage[p] = "link"
        /\ UNCHANGED <<cmd, sock, url, port, overlapped>>
    BY <1>3 DEF ScaffoldLink, Stages
  <2>2. Moves(p, "load")
    BY <1>0, <1>1, <2>1 DEF Moves, Settled, PastCheck, Disturbing
  <2>3. Role(p)' /\ Holds(p)'
    BY <1>0, <1>1, <2>1 DEF Role, Holds, StartUp, Bound
  <2> QED
    BY <1>1, <2>1, <2>2, <2>3, OneMoves
<1>4. CASE SockCheck(p)
  <2>1. PICK x \in {"off", "sock_bind", "sock_remove"} :
          /\ stage' = [stage EXCEPT ![p] = x]
          /\ x # "off" => ~Answers(sock) /\ cmd' = cmd
          /\ cmd' = cmd \/ cmd' = [cmd EXCEPT ![p] = "none"]
    BY <1>4 DEF SockCheck
  <2>2. /\ x \in Stages /\ UNCHANGED <<sock, url, port, overlapped>> /\ stage[p] = "sock_check"
        /\ cmd'[p] \in {cmd[p], "none"}
    BY <1>0, <1>4, <2>1 DEF SockCheck, Stages, StartUp, ServingSorts
  <2>3. Moves(p, x)
    BY <1>0, <1>1, <2>1, <2>2 DEF Moves, Settled, PastCheck, Disturbing
  <2>4. Role(p)' /\ Holds(p)'
    BY <1>0, <1>1, <2>1, <2>2 DEF Role, Holds, StartUp, Bound
  <2> QED
    BY <1>1, <2>1, <2>2, <2>3, <2>4, OneMoves
<1>5. CASE SockRemove(p)
  <2>1. PICK x \in {"off", "sock_bind"} :
          /\ stage' = [stage EXCEPT ![p] = x]
          /\ x # "off" => cmd' = cmd
          /\ cmd' = cmd \/ cmd' = [cmd EXCEPT ![p] = "none"]
    BY <1>5 DEF SockRemove
  <2>2. /\ x \in Stages /\ UNCHANGED <<url, port, overlapped>> /\ stage[p] = "sock_remove"
        /\ cmd'[p] \in {cmd[p], "none"}
    BY <1>0, <1>5, <2>1 DEF SockRemove, Stages, StartUp, ServingSorts
  <2>3. Moves(p, x)
    BY <1>0, <1>1, <2>1, <2>2 DEF Moves, Settled, PastCheck, Disturbing
  <2>4. Role(p)' /\ Holds(p)'
    BY <1>0, <1>1, <2>1, <2>2 DEF Role, Holds, StartUp, Bound
  <2> QED
    BY <1>1, <2>1, <2>2, <2>3, <2>4, OneMoves
<1>6. CASE StateBuilt(p)
  <2>1. /\ "tcp_bind" \in Stages /\ stage' = [stage EXCEPT ![p] = "tcp_bind"]
        /\ stage[p] = "opening" /\ at[p] = "opened"
        /\ UNCHANGED <<cmd, sock, url, port, overlapped>>
    BY <1>6 DEF StateBuilt, Stages, StartUp
  <2>2. Moves(p, "tcp_bind")
    BY <1>0, <1>1, <2>1 DEF Moves, Settled, PastCheck, Disturbing
  <2>3. Role(p)' /\ (~overlapped => Holds(p)')
    BY <1>0, <1>1, <2>1 DEF Role, Holds, StartUp, Bound
  <2> QED
    BY <1>1, <2>1, <2>2, <2>3, OneMoves
<1>7. CASE BindTcp(p)
  <2>1. /\ "url_write" \in Stages /\ stage' = [stage EXCEPT ![p] = "url_write"]
        /\ stage[p] = "tcp_bind" /\ port' = p
        /\ UNCHANGED <<cmd, sock, url, overlapped>>
    BY <1>7 DEF BindTcp, Stages, StartUp
  <2>2. Moves(p, "url_write")
    BY <1>0, <1>1, <2>1 DEF Moves, Settled, PastCheck, Disturbing
  <2>3. Role(p)' /\ (~overlapped => Holds(p)')
    BY <1>0, <1>1, <2>1 DEF Role, Holds, StartUp, Bound
  <2> QED
    BY <1>1, <2>1, <2>2, <2>3, OneMoves
<1>8. CASE WriteUrl(p)
  <2>1. /\ "serving" \in Stages /\ stage' = [stage EXCEPT ![p] = "serving"]
        /\ stage[p] = "url_write" /\ url' = p
        /\ UNCHANGED <<cmd, sock, port, overlapped>>
    BY <1>8 DEF WriteUrl, Stages
  <2>2. Moves(p, "serving")
    BY <1>0, <1>1, <2>1 DEF Moves, Settled, PastCheck, Disturbing
  <2>3. ASSUME ~overlapped, NEW q \in Procs PROVE stage'[q] \notin Disturbing
    <3>1. Starting(p)
      BY <1>0, <2>1 DEF Starting, Role, StartUp
    <3> QED
      BY <1>0, <1>1, <2>1, <2>3, <3>1 DEF StartsAlone, Settled, Disturbing
  <2>4. Role(p)' /\ (~overlapped => Holds(p)')
    BY <1>0, <1>1, <2>1, <2>3 DEF Role, Holds, StartUp, Bound
  <2> QED
    BY <1>1, <2>1, <2>2, <2>4, OneMoves
<1>9. CASE DropSock(p)
  <2>1. /\ "drop_url" \in Stages /\ stage' = [stage EXCEPT ![p] = "drop_url"]
        /\ stage[p] = "drop_sock"
        /\ UNCHANGED <<cmd, url, port, overlapped>>
    BY <1>9 DEF DropSock, Stages, Probing
  <2>2. Moves(p, "drop_url")
    BY <1>0, <1>1, <2>1 DEF Moves, Settled, PastCheck, Disturbing
  <2>3. Role(p)' /\ Holds(p)'
    BY <1>0, <1>1, <2>1 DEF Role, Holds, StartUp, Bound
  <2> QED
    BY <1>1, <2>1, <2>2, <2>3, OneMoves
<1>10. CASE RemoveDefault(p)
  <2>1. UNCHANGED <<at, kind, version, cmd, stage, sock, url, port, overlapped>>
    BY <1>0, <1>10 DEF RemoveDefault
  <2> QED
    BY <2>1 DEF ServingInvariant, ServingSorts, Role, StartsAlone, Holds, Starting
<1> QED
  BY <1>2, <1>3, <1>4, <1>5, <1>6, <1>7, <1>8, <1>9, <1>10

(* What the steps on the database do to p's place in it. *)
LEMMA BeginAndLeave ==
    ASSUME ServingSorts, NEW p \in Procs
    PROVE  /\ \A k \in Kinds : \A t : Begin(p, k, t) =>
                at' = [at EXCEPT ![p] = "read"] /\ kind' = [kind EXCEPT ![p] = k] /\ version' = version
           /\ Leave(p) =>
                at' = [at EXCEPT ![p] = "idle"] /\ kind' = [kind EXCEPT ![p] = "open"] /\ version' = version
           /\ \A t : BeginDowngrade(p, t) =>
                at' = [at EXCEPT ![p] = "read"] /\ kind' = [kind EXCEPT ![p] = "downgrade"]
                /\ version' = version
           /\ BeginMigrate(p) => \E k \in {"rebuild", "migrate"} :
                at' = [at EXCEPT ![p] = "read"] /\ kind' = [kind EXCEPT ![p] = k] /\ version' = version
           /\ {"open", "rebuild", "migrate", "downgrade"} \subseteq Kinds
           /\ {"idle", "read"} \subseteq Points
<1>1. {"open", "rebuild", "migrate", "downgrade"} \subseteq Kinds /\ {"idle", "read"} \subseteq Points
  BY DEF Kinds, Points
<1>2. \A k, t : Begin(p, k, t) =>
        at' = [at EXCEPT ![p] = "read"] /\ kind' = [kind EXCEPT ![p] = k] /\ version' = version
  BY DEF Begin, Goto
<1> QED
  BY <1>1, <1>2 DEF Leave, BeginDowngrade, BeginMigrate, Goto

LEMMA DatabaseStepServes ==
    ASSUME ServingInvariant, Numbers, NEW p \in Procs,
           \/ LoadConfig(p) \/ SeedDefault(p) \/ SockBind(p) \/ StartFails(p)
           \/ Work(p) \/ Exit(p)
    PROVE  ServingInvariant'
<1> USE DEF Enter
<1>0. ServingSorts /\ Role(p) /\ (~overlapped => StartsAlone(p) /\ Holds(p))
  BY DEF ServingInvariant
<1>1. /\ stage[p] \in Stages /\ cmd[p] \in Commands /\ at[p] \in Points /\ kind[p] \in Kinds
      /\ "none" \in Commands /\ "idle" \in Points /\ "open" \in Kinds /\ "read" \in Points
  BY <1>0 DEF ServingSorts, Commands, Points, Kinds
<1>2. CASE LoadConfig(p)
  <2>1. PICK x \in {"seed_open", "sock_check", "probe"}, a \in {"read", at[p]}, k \in {"open", kind[p]} :
          /\ stage' = [stage EXCEPT ![p] = x]
          /\ at' = [at EXCEPT ![p] = a] \/ (at' = at /\ a = at[p])
          /\ kind' = [kind EXCEPT ![p] = k] \/ (kind' = kind /\ k = kind[p])
          /\ version' = version
          /\ x = "sock_check" => cmd[p] = "serve"
          /\ x = "probe" => cmd[p] # "serve"
          /\ x \in {"sock_check", "probe"} => a = at[p] /\ k = kind[p]
          /\ x = "seed_open" => a = "read" /\ k = "open"
    <3>1. CASE Begin(p, "open", 0) /\ stage' = [stage EXCEPT ![p] = "seed_open"]
      BY <1>0, <3>1, BeginAndLeave
    <3>2. CASE UNCHANGED vars /\ stage' = [stage EXCEPT ![p] = NextStage(p)]
      BY <1>1, <3>2 DEF vars, NextStage
    <3> QED
      BY <1>2, <3>1, <3>2 DEF LoadConfig
  <2>2. /\ x \in Stages /\ stage[p] = "load" /\ UNCHANGED <<cmd, sock, url, port, overlapped>>
    BY <1>2, <2>1 DEF LoadConfig, Stages, StartUp, Probing, Seeding
  <2>3. a \in Points /\ k \in Kinds
    BY <1>1, <2>1
  <2>4. ServingSorts' /\ stage'[p] = x /\ cmd'[p] = cmd[p] /\ at'[p] = a /\ kind'[p] = k
        /\ \A q \in Procs \ {p} : cmd'[q] = cmd[q] /\ at'[q] = at[q] /\ kind'[q] = kind[q]
    BY <1>0, <1>1, <2>1, <2>2, <2>3 DEF ServingSorts
  <2>5. Moves(p, x)
    BY <2>1, <2>2, <2>4 DEF Moves, Settled, PastCheck, Disturbing
  <2>6. Role(p)' /\ Holds(p)'
    BY <1>0, <2>1, <2>2, <2>4 DEF Role, Holds, StartUp, Bound, MaintenancePoints
  <2> QED
    BY <2>2, <2>4, <2>5, <2>6, OneMoves
<1>3. CASE SeedDefault(p)
  <2>1. PICK x \in {"sock_check", "probe"} :
          /\ stage' = [stage EXCEPT ![p] = x]
          /\ x = "sock_check" => cmd[p] = "serve"
          /\ x = "probe" => cmd[p] # "serve"
    BY <1>3 DEF SeedDefault, NextStage
  <2>2. /\ x \in Stages /\ stage[p] = "seed_open" /\ UNCHANGED <<cmd, sock, url, port, overlapped>>
        /\ at' = [at EXCEPT ![p] = "idle"] /\ kind' = [kind EXCEPT ![p] = "open"]
        /\ version' = version
    BY <1>0, <1>3, <2>1, BeginAndLeave DEF SeedDefault, Stages, StartUp, Probing
  <2>3. ServingSorts' /\ stage'[p] = x /\ cmd'[p] = cmd[p] /\ at'[p] = "idle" /\ kind'[p] = "open"
        /\ \A q \in Procs \ {p} : cmd'[q] = cmd[q] /\ at'[q] = at[q] /\ kind'[q] = kind[q]
    BY <1>0, <1>1, <2>1, <2>2 DEF ServingSorts
  <2>4. Moves(p, x)
    BY <2>1, <2>2, <2>3 DEF Moves, Settled, PastCheck, Disturbing
  <2>5. Role(p)' /\ Holds(p)'
    BY <1>0, <2>1, <2>2, <2>3 DEF Role, Holds, StartUp, Bound, MaintenancePoints
  <2> QED
    BY <2>2, <2>3, <2>4, <2>5, OneMoves
<1>4. CASE SockBind(p)
  <2>1. CASE sock = NoProc
    <3>1. /\ stage' = [stage EXCEPT ![p] = "opening"] /\ "opening" \in Stages
          /\ at' = [at EXCEPT ![p] = "read"] /\ kind' = [kind EXCEPT ![p] = "open"]
          /\ sock' = p /\ stage[p] = "sock_bind"
          /\ UNCHANGED <<version, cmd, url, port, overlapped>>
      BY <1>0, <1>4, <2>1, BeginAndLeave DEF SockBind, Stages, StartUp
    <3>2. ServingSorts' /\ stage'[p] = "opening" /\ cmd'[p] = cmd[p] /\ at'[p] = "read"
          /\ kind'[p] = "open"
          /\ \A q \in Procs \ {p} : cmd'[q] = cmd[q] /\ at'[q] = at[q] /\ kind'[q] = kind[q]
      BY <1>0, <1>1, <3>1 DEF ServingSorts
    <3>3. Moves(p, "opening")
      BY <3>1, <3>2 DEF Moves, Settled, PastCheck, Disturbing
    <3>4. Role(p)' /\ Holds(p)'
      BY <1>0, <3>1, <3>2 DEF Role, Holds, StartUp, Bound, MaintenancePoints, HeadPoints
    <3> QED
      BY <3>1, <3>2, <3>3, <3>4, OneMoves
  <2>2. CASE sock # NoProc
    <3>1. /\ stage' = [stage EXCEPT ![p] = "off"] /\ "off" \in Stages
          /\ cmd' = [cmd EXCEPT ![p] = "none"] /\ stage[p] = "sock_bind"
          /\ UNCHANGED <<at, kind, version, sock, url, port, overlapped>>
      BY <1>4, <2>2 DEF SockBind, Stages, vars
    <3>2. ServingSorts' /\ stage'[p] = "off" /\ cmd'[p] = "none" /\ at'[p] = at[p]
          /\ kind'[p] = kind[p]
          /\ \A q \in Procs \ {p} : cmd'[q] = cmd[q] /\ at'[q] = at[q] /\ kind'[q] = kind[q]
      BY <1>0, <1>1, <3>1 DEF ServingSorts
    <3>3. Moves(p, "off")
      BY <3>1, <3>2 DEF Moves, Settled, PastCheck, Disturbing
    <3>4. Role(p)' /\ Holds(p)'
      BY <1>0, <3>1, <3>2 DEF Role, Holds, StartUp, Bound
    <3> QED
      BY <3>1, <3>2, <3>3, <3>4, OneMoves
  <2> QED
    BY <2>1, <2>2
<1>5. CASE StartFails(p)
  <2>1. /\ stage' = [stage EXCEPT ![p] = "off"] /\ "off" \in Stages
        /\ cmd' = [cmd EXCEPT ![p] = "none"] /\ stage[p] \in {"opening", "tcp_bind"}
        /\ at' = [at EXCEPT ![p] = "idle"] /\ kind' = [kind EXCEPT ![p] = "open"]
        /\ UNCHANGED <<version, url, port, overlapped>>
    BY <1>0, <1>5, BeginAndLeave DEF StartFails, Stages
  <2>2. ServingSorts' /\ stage'[p] = "off" /\ cmd'[p] = "none" /\ at'[p] = "idle"
        /\ kind'[p] = "open"
        /\ \A q \in Procs \ {p} : cmd'[q] = cmd[q] /\ at'[q] = at[q] /\ kind'[q] = kind[q]
    BY <1>0, <1>1, <2>1 DEF ServingSorts
  <2>3. Moves(p, "off")
    BY <2>1, <2>2 DEF Moves, Settled, PastCheck, Disturbing
  <2>4. Role(p)' /\ Holds(p)'
    BY <2>1, <2>2 DEF Role, Holds, StartUp, Bound, MaintenancePoints
  <2> QED
    BY <2>1, <2>2, <2>3, <2>4, OneMoves
<1>6. CASE Work(p)
  <2>1. /\ ProcStep(p) /\ UNCHANGED <<sock, url, port, cmd, stage, overlapped>>
    BY <1>6 DEF Work
  <2>2. PICK a \in Points \ {"idle"} :
          /\ at' = [at EXCEPT ![p] = a] /\ kind' = kind
          /\ at[p] = "opened" => a = "opened"
          /\ stage[p] # "maintain" =>
               /\ a \notin MaintenancePoints
               /\ version' \in {version, HeadVersion}
               /\ a \in HeadPoints => \/ version' = HeadVersion
                                      \/ at[p] \in HeadPoints /\ version' = version
    BY <1>0, <2>1, DatabaseWork
  <2>3. ServingSorts' /\ stage'[p] = stage[p] /\ cmd'[p] = cmd[p] /\ at'[p] = a /\ kind'[p] = kind[p]
        /\ \A q \in Procs \ {p} : cmd'[q] = cmd[q] /\ at'[q] = at[q] /\ kind'[q] = kind[q]
    BY <1>0, <1>1, <2>1, <2>2 DEF ServingSorts
  <2>4. Moves(p, stage[p])
    <3>1. stage' = [stage EXCEPT ![p] = stage[p]]
      BY <1>0, <2>1 DEF ServingSorts
    <3> QED
      BY <2>1, <2>2, <2>3, <3>1 DEF Moves
  <2>5. Role(p)'
    BY <1>0, <2>1, <2>2, <2>3 DEF Role
  <2>6. ~overlapped => Holds(p)'
    <3>1. stage[p] \in Bound => stage[p] # "maintain"
      BY DEF Bound
    <3> QED
      BY <1>0, <2>1, <2>2, <2>3, <3>1 DEF Holds
  <2> QED
    BY <1>1, <2>3, <2>4, <2>5, <2>6, OneMoves
<1>7. CASE Exit(p)
  <2>1. PICK a \in {"idle", at[p]}, k \in {"open", kind[p]} :
          /\ at' = [at EXCEPT ![p] = a] \/ (at' = at /\ a = at[p])
          /\ kind' = [kind EXCEPT ![p] = k] \/ (kind' = kind /\ k = kind[p])
          /\ version' = version
          /\ a = "idle" /\ k = "open"
    <3>1. CASE at[p] = "idle"
      BY <1>0, <1>1, <1>7, <3>1 DEF Exit, vars, Role
    <3>2. CASE at[p] # "idle"
      BY <1>0, <1>7, <3>2, BeginAndLeave DEF Exit
    <3> QED
      BY <3>1, <3>2
  <2>2. /\ stage' = [stage EXCEPT ![p] = "off"] /\ "off" \in Stages /\ stage[p] # "off"
        /\ cmd' = [cmd EXCEPT ![p] = "none"]
        /\ UNCHANGED <<sock, url, overlapped>> /\ (port' # port => port = p)
    BY <1>7 DEF Exit, Stages
  <2>3. ServingSorts' /\ stage'[p] = "off" /\ cmd'[p] = "none" /\ at'[p] = "idle"
        /\ kind'[p] = "open"
        /\ \A q \in Procs \ {p} : cmd'[q] = cmd[q] /\ at'[q] = at[q] /\ kind'[q] = kind[q]
    BY <1>0, <1>1, <2>1, <2>2 DEF ServingSorts
  <2>4. Moves(p, "off")
    BY <2>1, <2>2, <2>3 DEF Moves, Settled, PastCheck, Disturbing
  <2>5. Role(p)' /\ Holds(p)'
    BY <2>3 DEF Role, Holds, StartUp, Bound, MaintenancePoints
  <2> QED
    BY <2>2, <2>3, <2>4, <2>5, OneMoves
<1> QED
  BY <1>2, <1>3, <1>4, <1>5, <1>6, <1>7

(* Where a command goes that found no daemon, or that found one. *)
LEMMA ProbedStepServes ==
    ASSUME ServingInvariant, NEW p \in Procs, Probe(p) \/ DropUrl(p)
    PROVE  ServingInvariant'
<1> USE DEF Enter
<1>0. /\ ServingSorts /\ Role(p) /\ stage[p] \in {"probe", "drop_url"}
      /\ UNCHANGED <<sock, port, overlapped>>
      /\ url' # url => stage[p] = "drop_url"
      /\ cmd[p] # "serve" /\ kind[p] = "open" /\ at[p] \notin MaintenancePoints
  BY DEF ServingInvariant, Role, Probe, DropUrl, StartUp
<1>1. /\ cmd[p] \in Commands /\ at[p] \in Points /\ kind[p] \in Kinds
      /\ "none" \in Commands /\ "read" \in Points
      /\ {"open", "migrate", "rebuild", "downgrade"} \subseteq Kinds
      /\ cmd = [cmd EXCEPT ![p] = cmd[p]]
      /\ at = [at EXCEPT ![p] = at[p]] /\ kind = [kind EXCEPT ![p] = kind[p]]
      /\ "read" \notin MaintenancePoints
  BY <1>0 DEF ServingSorts, Commands, Points, Kinds, MaintenancePoints
<1> DEFINE Went(x, c, a, k) ==
             /\ stage' = [stage EXCEPT ![p] = x] /\ cmd' = [cmd EXCEPT ![p] = c]
             /\ at' = [at EXCEPT ![p] = a] /\ kind' = [kind EXCEPT ![p] = k] /\ version' = version
             /\ x # "maintain" \/ a # "read" => k = "open"
<1>2. ASSUME GoEmbedded(p)
      PROVE  \E x \in {"embedded", "maintain", "off"}, c \in {cmd[p], "none"},
                a \in {"read", at[p]}, k \in Kinds : Went(x, c, a, k)
  <2>1. CASE Begin(p, "open", 0) /\ stage' = [stage EXCEPT ![p] = "embedded"] /\ UNCHANGED cmd
    BY <1>0, <1>1, <2>1, BeginAndLeave
  <2>2. CASE BeginMigrate(p) /\ stage' = [stage EXCEPT ![p] = "maintain"] /\ UNCHANGED cmd
    <3>1. PICK k \in {"rebuild", "migrate"} :
            at' = [at EXCEPT ![p] = "read"] /\ kind' = [kind EXCEPT ![p] = k] /\ version' = version
      BY <1>0, <2>2, BeginAndLeave
    <3> QED
      BY <1>1, <2>2, <3>1
  <2>3. CASE (\E t : BeginDowngrade(p, t)) /\ stage' = [stage EXCEPT ![p] = "maintain"] /\ UNCHANGED cmd
    BY <1>0, <1>1, <2>3, BeginAndLeave
  <2>4. CASE UNCHANGED vars /\ stage' = [stage EXCEPT ![p] = "off"] /\ cmd' = [cmd EXCEPT ![p] = "none"]
    BY <1>0, <1>1, <2>4 DEF vars
  <2> QED
    BY <1>2, <2>1, <2>2, <2>3, <2>4 DEF GoEmbedded
<1>3. ASSUME Probe(p), sock # NoProc \/ cmd[p] = "remote"
      PROVE  \E x \in {"routed", "off", "drop_sock"}, c \in {cmd[p], "none"} :
               Went(x, c, at[p], kind[p]) /\ (x = "drop_sock" => port = NoProc)
  <2>1. at' = [at EXCEPT ![p] = at[p]] /\ kind' = [kind EXCEPT ![p] = kind[p]] /\ version' = version
    BY <1>1, <1>3 DEF Probe, vars
  <2>2. CASE stage' = [stage EXCEPT ![p] = "drop_sock"] /\ port = NoProc /\ cmd' = cmd
    BY <1>0, <1>1, <2>1, <2>2
  <2>3. CASE stage' = [stage EXCEPT ![p] = "routed"] /\ cmd' = cmd
    BY <1>0, <1>1, <2>1, <2>3
  <2>4. CASE stage' = [stage EXCEPT ![p] = "off"] /\ cmd' = [cmd EXCEPT ![p] = "none"]
    BY <1>0, <2>1, <2>4
  <2> QED
    BY <1>3, <2>2, <2>3, <2>4 DEF Probe
<1>4. \/ GoEmbedded(p) /\ (stage[p] = "drop_url" \/ sock = NoProc)
      \/ Probe(p) /\ (sock # NoProc \/ cmd[p] = "remote")
  BY DEF Probe, DropUrl
<1>5. PICK x \in {"embedded", "maintain", "off", "routed", "drop_sock"}, c \in {cmd[p], "none"},
           a \in {"read", at[p]}, k \in Kinds :
        /\ Went(x, c, a, k)
        /\ x \in Disturbing => stage[p] \in Disturbing \/ sock = NoProc \/ port = NoProc
  <2>1. CASE GoEmbedded(p) /\ (stage[p] = "drop_url" \/ sock = NoProc)
    BY <1>2, <2>1 DEF Disturbing
  <2>2. CASE Probe(p) /\ (sock # NoProc \/ cmd[p] = "remote")
    <3>1. PICK x \in {"routed", "off", "drop_sock"}, c \in {cmd[p], "none"} :
            Went(x, c, at[p], kind[p]) /\ (x = "drop_sock" => port = NoProc)
      BY <1>3, <2>2
    <3> QED
      BY <1>1, <3>1 DEF Disturbing
  <2> QED
    BY <1>4, <2>1, <2>2
<1>6. x \in Stages /\ c \in Commands /\ a \in Points
  BY <1>1 DEF Stages, Probing
<1>7. /\ ServingSorts' /\ stage'[p] = x /\ cmd'[p] = c /\ at'[p] = a /\ kind'[p] = k
      /\ \A q \in Procs \ {p} : cmd'[q] = cmd[q] /\ at'[q] = at[q] /\ kind'[q] = kind[q]
  BY <1>0, <1>5, <1>6 DEF ServingSorts
<1>8. Moves(p, x)
  BY <1>0, <1>5, <1>7 DEF Moves, Settled, PastCheck
<1>9. Role(p)' /\ Holds(p)'
  BY <1>0, <1>1, <1>5, <1>7 DEF Role, Holds, StartUp, Bound, MaintenancePoints
<1> QED
  BY <1>6, <1>7, <1>8, <1>9, OneMoves

(* A start that overlaps no other start or probe: everything has settled,   *)
(* or the command is no daemon and no daemon is starting.                   *)
LEMMA StartServes ==
    ASSUME ServingInvariant, NEW p \in Procs, NEW c \in Commands \ {"none"}, Start(p, c)
    PROVE  ServingInvariant'
<1> DEFINE x == IF c \in {"migrate", "downgrade"} THEN "probe" ELSE "scaffold"
<1>1. /\ stage[p] = "off" /\ stage' = [stage EXCEPT ![p] = x] /\ cmd' = [cmd EXCEPT ![p] = c]
      /\ UNCHANGED <<at, kind, version, sock, url, port>>
  BY DEF Start, Enter, vars
<1>2. /\ x \in Stages /\ x \in {"probe", "scaffold"} /\ (c = "serve" => x = "scaffold")
  BY DEF Stages, Probing
<1> HIDE DEF x
<1>3. /\ ServingSorts' /\ stage'[p] = x /\ cmd'[p] = c
      /\ \A q \in Procs \ {p} : cmd'[q] = cmd[q] /\ stage'[q] = stage[q]
  BY <1>1, <1>2 DEF ServingInvariant, ServingSorts
<1>4. \A q \in Procs : Role(q)'
  BY <1>1, <1>2, <1>3 DEF ServingInvariant, Role, StartUp
<1>5. ASSUME \A q \in Procs : stage[q] = "off", NEW q \in Procs PROVE StartsAlone(q)' /\ Holds(q)'
  <2>1. \A r \in Procs \ {p} : stage'[r] = "off"
    BY <1>3, <1>5
  <2> QED
    BY <1>2, <1>3, <2>1 DEF StartsAlone, Holds, Starting, Settled, PastCheck, Bound
<1>6. ASSUME ~overlapped, \A q \in Procs : ~Starting(q),
             c = "serve" => \A q \in Procs : stage[q] \in Settled, NEW q \in Procs
      PROVE  StartsAlone(q)' /\ Holds(q)'
  <2>1. ASSUME q = p PROVE StartsAlone(q)' /\ Holds(q)'
    BY <1>2, <1>3, <1>6, <2>1 DEF StartsAlone, Holds, Starting, PastCheck, Bound
  <2>2. ASSUME q # p PROVE StartsAlone(q)' /\ Holds(q)'
    <3>1. StartsAlone(q) /\ Holds(q) /\ ~Starting(q) /\ ~Starting(q)'
      BY <1>3, <1>6, <2>2 DEF ServingInvariant, Starting
    <3>2. \A r \in Procs : /\ stage'[r] = "serving" => stage[r] = "serving"
                           /\ stage'[r] \in Disturbing => stage[r] \in Disturbing
      BY <1>2, <1>3 DEF Disturbing
    <3> QED
      BY <1>1, <1>3, <2>2, <3>1, <3>2 DEF StartsAlone, Holds
  <2> QED
    BY <2>1, <2>2
<1>7. ~overlapped' =>
        \/ \A q \in Procs : stage[q] = "off"
        \/ /\ ~overlapped /\ \A q \in Procs : ~Starting(q)
           /\ c = "serve" => \A q \in Procs : stage[q] \in Settled
  BY DEF Start
<1> QED
  BY <1>3, <1>4, <1>5, <1>6, <1>7 DEF ServingInvariant

(* As long as no start-up overlaps another start-up or a probe, the         *)
(* discovery files lead to the daemon that serves and the schema it serves  *)
(* from stays at head, whatever other commands, kills and left-over files   *)
(* there are; maintenance need not be run alone for it.                     *)
THEOREM ServingStaysUndisturbed == DirSpec => []ServingUndisturbed
<1>1. DirInit => ServingInvariant
  <2> SUFFICES ASSUME DirInit PROVE ServingInvariant
    OBVIOUS
  <2>1. ServingSorts
    BY DEF DirInit, Init, ServingSorts, Commands, Stages, Points, Kinds
  <2>2. \A p \in Procs : Role(p) /\ StartsAlone(p) /\ Holds(p)
    BY DEF DirInit, Init, Role, StartsAlone, Holds, Starting, StartUp, MaintenancePoints,
       PastCheck, Bound
  <2> QED
    BY <2>1, <2>2 DEF ServingInvariant
<1>2. ServingInvariant /\ Numbers /\ [DirNext]_allVars => ServingInvariant'
  <2> SUFFICES ASSUME ServingInvariant, Numbers, [DirNext]_allVars PROVE ServingInvariant'
    OBVIOUS
  <2>1. CASE UNCHANGED allVars \/ EditConfig
    <3>1. UNCHANGED <<at, kind, version, cmd, stage, sock, url, port, overlapped>>
      BY <2>1 DEF EditConfig, allVars, dirVars, vars
    <3> QED
      BY <3>1 DEF ServingInvariant, ServingSorts, Role, StartsAlone, Holds, Starting
  <2> QED
    BY <2>1, PlainStepServes, DatabaseStepServes, ProbedStepServes, StartServes DEF DirNext
<1>3. ServingInvariant => ServingUndisturbed
  BY DEF ServingInvariant, Holds, HeadPoints, Bound, ServingUndisturbed
<1> QED
  BY <1>1, <1>2, <1>3, NumbersHold, DirectoryImplementsMigrations, PTL DEF DirSpec

==============================================================================
