------------------------------ MODULE Migrations ------------------------------
(***************************************************************************)
(* The schema of the unified database and the processes that create,        *)
(* migrate, downgrade and open it (store-libsql/src/connection.rs,          *)
(* schema.rs and migrations/).                                              *)
(*                                                                          *)
(* A process reads `PRAGMA user_version` outside any transaction and acts   *)
(* on what it read; each migration step, each downgrade step and the seed   *)
(* of a fresh store is one BEGIN IMMEDIATE transaction, every other         *)
(* statement commits by itself.  An action is one transaction or one such   *)
(* statement, so processes interleave between them; a process may be        *)
(* killed, or give up on a locked database, before any of them.             *)
(*                                                                          *)
(* What a migration does to the tables is reduced to whether it has been    *)
(* applied: `schema` holds the versions whose up-step the tables show.  So  *)
(* the tables of a store are its versions, created one by one and dropped   *)
(* one by one.  Documents are left out, and rows carry no drifted checksum. *)
(***************************************************************************)
EXTENDS Integers, FiniteSets, FiniteSetsExt

CONSTANTS
    Procs,        \* processes that use the data directory
    Baseline,     \* BASELINE_VERSION
    HeadVersion,  \* head_version(migrations()) of the installed binary
    Newest,       \* the highest version a store may have (written by a newer build)
    Irreversible, \* versions recorded with a down_unsupported_reason
    Repeatable,   \* versions whose up- and down-SQL can run twice (DROP IF EXISTS first)
    InitVersions, \* user_version of the stores considered
    Alone         \* kinds of maintenance never run beside another process

ASSUME VersionsAssumption ==
    /\ Baseline \in Nat /\ HeadVersion \in Nat /\ Newest \in Nat
    /\ 0 < Baseline /\ Baseline < HeadVersion /\ HeadVersion <= Newest   \* a chain of one step or more
    /\ Irreversible \subseteq Baseline + 1 .. Newest
    /\ Repeatable \subseteq Baseline + 1 .. Newest
    /\ InitVersions \subseteq 0 .. Newest
ASSUME AloneAssumption == Alone \subseteq {"downgrade", "rebuild"}

VARIABLES
    version,   \* PRAGMA user_version
    rows,      \* versions with a row in schema_migrations
    schema,    \* versions the tables show
    at,        \* [Procs -> Points]: the statement the process runs next
    kind,      \* [Procs -> Kinds]: what it was started for
    from,      \* [Procs -> version read]: the version its plan was made from
    goal,      \* [Procs -> version]: a downgrade's target
    todo       \* [Procs -> SUBSET versions]: the steps still planned, or the tables
               \* still to be created or dropped

vars == <<version, rows, schema, at, kind, from, goal, todo>>

Kinds == {"open", "migrate", "rebuild", "downgrade"}
AllTables == Baseline .. HeadVersion

FreshPoints == {"create", "bookkeep_seed", "seed"}
Points == {"idle", "read", "refused", "failed", "done", "opened", "list", "drop", "reset", "verify", "recreate",
           "bookkeep", "verify_applied", "plan", "apply", "post_check",
           "history", "replay"} \cup FreshPoints

(* Everything a store at version v has on disk; a store that predates the   *)
(* framework has its tables and no history.                                 *)
Init ==
    /\ version \in InitVersions
    /\ schema = IF version = 0 THEN {}
                ELSE IF version < Baseline THEN 1 .. version
                ELSE Baseline .. version
    /\ rows \in IF version < Baseline THEN {{}}
                ELSE IF version = Baseline THEN {{}, {Baseline}}
                ELSE {Baseline .. version}
    /\ at = [p \in Procs |-> "idle"]
    /\ kind = [p \in Procs |-> "open"]
    /\ from = [p \in Procs |-> 0]
    /\ goal = [p \in Procs |-> 0]
    /\ todo = [p \in Procs |-> {}]

-----------------------------------------------------------------------------
(* Bookkeeping *)

Legacy(v) == 0 < v /\ v < Baseline

classify_version(v) ==
    CASE v = 0 -> "Fresh"
      [] Legacy(v) -> "Legacy"
      [] Baseline <= v /\ v < HeadVersion -> "Pending"
      [] v = HeadVersion -> "AtHead"
      [] v > HeadVersion -> "TooNew"

(* verify_checksums: a row for the baseline and for every migration of the  *)
(* compiled chain up to `up_to`; newer rows are skipped.                    *)
verify_checksums(up_to) == \A v \in Baseline .. HeadVersion : v <= up_to => v \in rows

(* The `db migrate` of a legacy store has its own kind: the prompt has been *)
(* answered yes.  A `db` command refuses to run beside a daemon and nothing *)
(* else in the code keeps processes apart; Alone is an operator's care.     *)
Running(p) == at[p] \notin {"idle", "opened"}

Admitted(p, k) ==
    /\ k \in Alone => \A q \in Procs \ {p} : ~Running(q)
    /\ \A q \in Procs \ {p} : Running(q) => kind[q] \notin Alone

Goto(p, point) == at' = [at EXCEPT ![p] = point]

Begin(p, k, target) ==
    /\ at[p] = "idle"
    /\ Admitted(p, k)
    /\ Goto(p, "read")
    /\ kind' = [kind EXCEPT ![p] = k]
    /\ goal' = [goal EXCEPT ![p] = target]
    /\ from' = [from EXCEPT ![p] = 0]
    /\ UNCHANGED <<version, rows, schema, todo>>

(* run_db_migrate_async: the inspection only decides whether the prompt is  *)
(* needed; migrate_store reads the version again.                           *)
BeginMigrate(p) == Begin(p, IF Legacy(version) THEN "rebuild" ELSE "migrate", 0)

(* run_db_downgrade_async: the target is --to or one step back, and is      *)
(* validated against the inspected history before the prompt.               *)
validate_downgrade_target(target) ==
    /\ Baseline <= target
    /\ target < version
    /\ \A v \in rows \cap Irreversible : ~(target < v /\ v <= version)

BeginDowngrade(p, target) ==
    /\ validate_downgrade_target(target)
    /\ Begin(p, "downgrade", target)

-----------------------------------------------------------------------------
(* LibsqlDb::open *)

(* Every version but a fresh one and head is refused. *)
OpenRead(p) ==
    /\ at[p] = "read" /\ kind[p] = "open"
    /\ Goto(p, CASE classify_version(version) = "Fresh" -> "create"
                 [] classify_version(version) = "AtHead" -> "verify"
                 [] OTHER -> "refused")
    /\ from' = [from EXCEPT ![p] = version]
    /\ todo' = [todo EXCEPT ![p] = AllTables]
    /\ UNCHANGED <<version, rows, schema, kind, goal>>

(* The idempotent DDL of a store that is already at head comes next. *)
OpenVerify(p) ==
    /\ at[p] = "verify"
    /\ Goto(p, IF verify_checksums(HeadVersion) THEN "recreate" ELSE "refused")
    /\ UNCHANGED <<version, rows, schema, kind, from, goal, todo>>

-----------------------------------------------------------------------------
(* create_schema: CREATE ... IF NOT EXISTS one table after the other, each   *)
(* as it is at head, without a version; of a fresh store, in open or in      *)
(* `db migrate`, and again of one at head.  The tables later steps changed   *)
(* come before the last of the baseline's.                                   *)
CreateTable(p) ==
    /\ at[p] \in {"create", "recreate"}
    /\ todo[p] # {}
    /\ schema' = schema \cup {Max(todo[p])}
    /\ todo' = [todo EXCEPT ![p] = @ \ {Max(todo[p])}]
    /\ UNCHANGED <<version, rows, at, kind, from, goal>>

CreatedAll(p) ==
    /\ at[p] \in {"create", "recreate"}
    /\ todo[p] = {}
    /\ Goto(p, IF at[p] = "create" THEN "bookkeep_seed" ELSE "opened")
    /\ UNCHANGED <<version, rows, schema, kind, from, goal, todo>>

(* Variant: the version is stamped before the rows are there. *)
SeedTableAndStamp(p) ==
    /\ at[p] = "bookkeep_seed"
    /\ rows' = rows \cup {Baseline}
    /\ version' = HeadVersion
    /\ Goto(p, "seed")
    /\ UNCHANGED <<schema, kind, from, goal, todo>>

(* ensure_table and ensure_baseline_row, committed by themselves. *)
SeedTable(p) ==
    /\ at[p] = "bookkeep_seed"
    /\ rows' = rows \cup {Baseline}
    /\ Goto(p, "seed")
    /\ UNCHANGED <<version, schema, kind, from, goal, todo>>

(* seed_for_fresh_create's transaction: a row for every migration, rows a   *)
(* concurrent creator has put there skipped, the version last.              *)
SeedAllAndStamp(p) ==
    /\ at[p] = "seed"
    /\ rows' = rows \cup (Baseline + 1 .. HeadVersion)
    /\ version' = HeadVersion
    /\ Goto(p, IF kind[p] = "open" THEN "opened" ELSE "post_check")
    /\ UNCHANGED <<schema, kind, from, goal, todo>>

-----------------------------------------------------------------------------
(* migrate_store *)

MigrateRead(p) ==
    /\ at[p] = "read" /\ kind[p] \in {"migrate", "rebuild"}
    /\ Goto(p, CASE version = 0 -> "create"
                 [] Legacy(version) /\ kind[p] = "rebuild" -> "list"
                 [] Legacy(version) /\ kind[p] # "rebuild" -> "refused"
                 [] version > HeadVersion -> "refused"
                 [] OTHER -> "bookkeep")
    /\ from' = [from EXCEPT ![p] = version]
    /\ todo' = [todo EXCEPT ![p] = AllTables]
    /\ UNCHANGED <<version, rows, schema, kind, goal>>

(* drop_all_tables: the names are listed (0 is schema_migrations), then the *)
(* tables go, one statement each, and the version is reset at last.         *)
ListTables(p) ==
    /\ at[p] = "list"
    /\ todo' = [todo EXCEPT ![p] = schema \cup (IF rows = {} THEN {} ELSE {0})]
    /\ Goto(p, "drop")
    /\ UNCHANGED <<version, rows, schema, kind, from, goal>>

DropTable(p) ==
    /\ at[p] = "drop"
    /\ \E t \in todo[p] :
          /\ schema' = schema \ {t}
          /\ rows' = IF t = 0 THEN {} ELSE rows
          /\ todo' = [todo EXCEPT ![p] = @ \ {t}]
    /\ UNCHANGED <<version, at, kind, from, goal>>

DroppedAll(p) ==
    /\ at[p] = "drop"
    /\ todo[p] = {}
    /\ Goto(p, "reset")
    /\ UNCHANGED <<version, rows, schema, kind, from, goal, todo>>

ResetVersion(p) ==
    /\ at[p] = "reset"
    /\ version' = 0
    /\ Goto(p, "create")
    /\ todo' = [todo EXCEPT ![p] = AllTables]
    /\ UNCHANGED <<rows, schema, kind, from, goal>>

(* The table and the baseline row of a store that predates the framework,   *)
(* before its history is verified.                                          *)
MigrateBookkeeping(p) ==
    /\ at[p] = "bookkeep"
    /\ rows' = rows \cup {Baseline}
    /\ Goto(p, "verify_applied")
    /\ UNCHANGED <<version, schema, kind, from, goal, todo>>

MigrateVerify(p) ==
    /\ at[p] = "verify_applied"
    /\ Goto(p, IF verify_checksums(from[p]) THEN "plan" ELSE "refused")
    /\ UNCHANGED <<version, rows, schema, kind, from, goal, todo>>

(* apply_pending_with_progress: the version is read again and the pending   *)
(* steps are planned once.                                                  *)
PlanPending(p) ==
    /\ at[p] = "plan"
    /\ rows' = rows \cup {Baseline}
    /\ IF version < Baseline
       THEN /\ Goto(p, "failed")
            /\ UNCHANGED todo
       ELSE /\ Goto(p, "apply")
            /\ todo' = [todo EXCEPT ![p] = {v \in Baseline + 1 .. HeadVersion : v > version}]
    /\ UNCHANGED <<version, schema, kind, from, goal>>

(* One migration in its own transaction: the up-SQL, which fails on tables  *)
(* that already show it, the row, whose insert fails on a duplicate, and    *)
(* the version; a failure rolls back and ends the run.                      *)
ApplyOne(p) ==
    /\ at[p] = "apply"
    /\ todo[p] # {}
    /\ LET v == Min(todo[p]) IN
         IF (v \in Repeatable \/ v \notin schema) /\ v \notin rows
         THEN /\ schema' = schema \cup {v}
              /\ rows' = rows \cup {v}
              /\ version' = v
              /\ todo' = [todo EXCEPT ![p] = @ \ {v}]
              /\ UNCHANGED at
         ELSE /\ Goto(p, "failed")
              /\ UNCHANGED <<version, rows, schema, todo>>
    /\ UNCHANGED <<kind, from, goal>>

AppliedAll(p) ==
    /\ at[p] = "apply"
    /\ todo[p] = {}
    /\ Goto(p, "post_check")
    /\ UNCHANGED <<version, rows, schema, kind, from, goal, todo>>

PostCheck(p) ==
    /\ at[p] = "post_check"
    /\ Goto(p, IF verify_checksums(HeadVersion) THEN "done" ELSE "failed")
    /\ UNCHANGED <<version, rows, schema, kind, from, goal, todo>>

-----------------------------------------------------------------------------
(* downgrade_store *)

DowngradeRead(p) ==
    /\ at[p] = "read" /\ kind[p] = "downgrade"
    /\ Goto(p, IF goal[p] < Baseline \/ goal[p] >= version THEN "refused" ELSE "history")
    /\ from' = [from EXCEPT ![p] = version]
    /\ UNCHANGED <<version, rows, schema, kind, goal, todo>>

(* The stored history between the target and the version read must be       *)
(* complete, the target's own row must stay, and every step must have its   *)
(* down-SQL.                                                                *)
DowngradeHistory(p) ==
    LET planned == {v \in rows : goal[p] < v /\ v <= from[p]} IN
    /\ at[p] = "history"
    /\ IF /\ goal[p] + 1 .. from[p] \subseteq planned
          /\ goal[p] \in rows
          /\ planned \cap Irreversible = {}
       THEN /\ Goto(p, "replay")
            /\ todo' = [todo EXCEPT ![p] = planned]
       ELSE /\ Goto(p, "refused")
            /\ UNCHANGED todo
    /\ UNCHANGED <<version, rows, schema, kind, from, goal>>

(* One step back in its own transaction, newest first: the stored down-SQL, *)
(* the row's deletion, the version.                                         *)
ReplayOne(p) ==
    /\ at[p] = "replay"
    /\ todo[p] # {}
    /\ LET v == Max(todo[p]) IN
         IF v \in Repeatable \/ v \in schema
         THEN /\ schema' = schema \ {v}
              /\ rows' = rows \ {v}
              /\ version' = v - 1
              /\ todo' = [todo EXCEPT ![p] = @ \ {v}]
              /\ UNCHANGED at
         ELSE /\ Goto(p, "failed")
              /\ UNCHANGED <<version, rows, schema, todo>>
    /\ UNCHANGED <<kind, from, goal>>

ReplayedAll(p) ==
    /\ at[p] = "replay"
    /\ todo[p] = {}
    /\ Goto(p, "done")
    /\ UNCHANGED <<version, rows, schema, kind, from, goal, todo>>

-----------------------------------------------------------------------------
(* The process reports its result or closes the store, or before its next   *)
(* statement is killed, times out on the database lock or is refused over   *)
(* the embedding column's shape (validate_embedding_column).                *)
Leave(p) ==
    /\ at[p] # "idle"
    /\ Goto(p, "idle")
    /\ kind' = [kind EXCEPT ![p] = "open"]
    /\ from' = [from EXCEPT ![p] = 0]
    /\ goal' = [goal EXCEPT ![p] = 0]
    /\ todo' = [todo EXCEPT ![p] = {}]
    /\ UNCHANGED <<version, rows, schema>>

OpenStep(p) == OpenRead(p) \/ OpenVerify(p)
CreateStep(p) == CreateTable(p) \/ CreatedAll(p) \/ SeedTable(p) \/ SeedAllAndStamp(p)
MigrateStep(p) ==
    \/ MigrateRead(p) \/ ListTables(p) \/ DropTable(p) \/ DroppedAll(p) \/ ResetVersion(p)
    \/ MigrateBookkeeping(p) \/ MigrateVerify(p) \/ PlanPending(p)
    \/ ApplyOne(p) \/ AppliedAll(p) \/ PostCheck(p)
DowngradeStep(p) == DowngradeRead(p) \/ DowngradeHistory(p) \/ ReplayOne(p) \/ ReplayedAll(p)

ProcStep(p) == OpenStep(p) \/ CreateStep(p) \/ MigrateStep(p) \/ DowngradeStep(p)

Next ==
    \E p \in Procs :
        \/ Begin(p, "open", 0)
        \/ BeginMigrate(p)
        \/ \E target \in Baseline .. Newest : BeginDowngrade(p, target)
        \/ ProcStep(p)
        \/ Leave(p)

Spec == Init /\ [][Next]_vars

-----------------------------------------------------------------------------
(* Properties *)

(* "`PRAGMA user_version` is kept in lockstep": a store that claims a       *)
(* version has exactly the history and the tables of that version, however  *)
(* many processes create, migrate and open it at once and wherever they are *)
(* interrupted.                                                             *)
VersionInLockstep ==
    version >= Baseline =>
        /\ schema = Baseline .. version
        /\ rows \cup {Baseline} = Baseline .. version
=============================================================================
