----------------------------- MODULE DataDirectory -----------------------------
(***************************************************************************)
(* The processes that share one data directory: daemons (`localdb serve`),  *)
(* commands that route to a daemon when there is one and open the database  *)
(* themselves when there is not, and the `db` maintenance commands that     *)
(* refuse to run beside a daemon.  Composes Migrations (what each process   *)
(* does to the database) with                                               *)
(*   - first-run scaffolding (cli/src/scaffold.rs, app_db.rs),              *)
(*   - the discovery files daemon.sock and daemon.url (server/src/socket.rs,*)
(*     daemon.rs) and the probe that reads and cleans them up               *)
(*     (cli/src/daemon_client.rs).                                          *)
(*                                                                          *)
(* `serve` installs no signal handler, so a daemon that is stopped is       *)
(* killed: its guards run only when start-up fails, and a stopped daemon    *)
(* always leaves its files behind.                                          *)
(***************************************************************************)
EXTENDS Migrations

CONSTANTS
    NoProc,     \* no process
    Remote      \* commands may be given LOCALDB_DAEMON_URL

ASSUME DirectoryAssumption ==
    /\ NoProc \notin Procs
    /\ Remote \in BOOLEAN

VARIABLES
    config,       \* config.yaml: "absent", the pristine "template", or "edited"
    dbFile,       \* localdb.db exists
    defaultStore, \* the store named "default" exists
    sock,         \* daemon.sock: the process whose listener it names, or NoProc
    url,          \* daemon.url: the process that wrote it, or NoProc
    port,         \* the process that listens on the configured port, or NoProc
    cmd,          \* [Procs -> Commands]
    stage,        \* [Procs -> Stages]
    fresh,        \* [Procs -> BOOLEAN]: this process wrote the config (was_scaffolded)
    excused,      \* history: something other than a first run took "default" away
    overlapped    \* history: since all was quiet, a daemon and a command that probes
                  \* have started at the same time, or two daemons have

dirVars ==
    <<config, dbFile, defaultStore, sock, url, port, cmd, stage, fresh, excused, overlapped>>
allVars == <<vars, dirVars>>

Commands == {"none", "serve", "local", "remote", "migrate", "downgrade"}
StartUp == {"sock_check", "sock_remove", "sock_bind", "opening", "tcp_bind", "url_write"}
Probing == {"probe", "drop_sock", "drop_url"}
Seeding == {"seed_open"}
Stages == {"off", "scaffold", "link", "load", "serving", "routed", "embedded", "maintain"}
            \cup StartUp \cup Probing \cup Seeding

DirInit ==
    /\ Init
    /\ dbFile = (version > 0)
    /\ config \in IF dbFile THEN {"template", "edited"} ELSE {"absent"}
    /\ defaultStore = dbFile
    /\ sock = NoProc /\ url = NoProc /\ port = NoProc
    /\ cmd = [p \in Procs |-> "none"]
    /\ stage = [p \in Procs |-> "off"]
    /\ fresh = [p \in Procs |-> FALSE]
    /\ excused = FALSE /\ overlapped = FALSE

Enter(p, s) == stage' = [stage EXCEPT ![p] = s]
Starting(p) == cmd[p] = "serve" /\ stage[p] \notin {"off", "serving"}
Settled == {"off", "serving", "routed", "embedded"}

-----------------------------------------------------------------------------
(* Commands *)

(* Scaffolding is for every command but the `db` ones, which need a config  *)
(* and a database file that are there.                                      *)
Start(p, c) ==
    /\ stage[p] = "off"
    /\ c = "remote" => Remote
    /\ c \in {"migrate", "downgrade"} => config # "absent"
    /\ cmd' = [cmd EXCEPT ![p] = c]
    /\ Enter(p, IF c \in {"migrate", "downgrade"} THEN "probe" ELSE "scaffold")
    /\ overlapped' =
        /\ \E q \in Procs : stage[q] # "off"
        /\ \/ overlapped
           \/ \E q \in Procs : Starting(q)
           \/ c = "serve" /\ \E q \in Procs : stage[q] \notin Settled
    /\ UNCHANGED <<vars, config, dbFile, defaultStore, sock, url, port, fresh, excused>>

(* ensure_config_scaffolded: whoever finds no config links the template     *)
(* into place in one step; losing that race is success, and the loser       *)
(* counts as having scaffolded too.                                         *)
ScaffoldCheck(p) ==
    /\ stage[p] = "scaffold"
    /\ Enter(p, IF config = "absent" THEN "link" ELSE "load")
    /\ UNCHANGED <<vars, config, dbFile, defaultStore, sock, url, port, cmd, fresh, excused, overlapped>>

ScaffoldLink(p) ==
    /\ stage[p] = "link"
    /\ config' = IF config = "absent" THEN "template" ELSE config
    /\ fresh' = [fresh EXCEPT ![p] = TRUE]
    /\ Enter(p, "load")
    /\ UNCHANGED <<vars, dbFile, defaultStore, sock, url, port, cmd, excused, overlapped>>

NextStage(p) == IF cmd[p] = "serve" THEN "sock_check" ELSE "probe"

(* Variant: only the process that wrote the config seeds. *)
LoadConfigFreshOnly(p) ==
    /\ stage[p] = "load"
    /\ IF fresh[p] /\ cmd[p] # "remote"
       THEN /\ Enter(p, "seed_open")
            /\ dbFile' = TRUE
            /\ Begin(p, "open", 0)
       ELSE /\ Enter(p, NextStage(p))
            /\ UNCHANGED <<vars, dbFile>>
    /\ UNCHANGED <<config, defaultStore, sock, url, port, cmd, fresh, excused, overlapped>>

(* load_config_scaffolded: the "default" store is seeded on a first run, or *)
(* when an untouched template has no database yet; never for a command that *)
(* is routed by LOCALDB_DAEMON_URL.  Seeding opens the database.            *)
LoadConfig(p) ==
    /\ stage[p] = "load"
    /\ IF /\ fresh[p] \/ (~dbFile /\ config = "template")
          /\ cmd[p] # "remote"
       THEN /\ Enter(p, "seed_open")
            /\ dbFile' = TRUE
            /\ Begin(p, "open", 0)
       ELSE /\ Enter(p, NextStage(p))
            /\ UNCHANGED <<vars, dbFile>>
    /\ UNCHANGED <<config, defaultStore, sock, url, port, cmd, fresh, excused, overlapped>>

(* ensure_default_store: a lookup, then an insert that a racer's UNIQUE     *)
(* name turns into a second lookup; either way the store is there and the   *)
(* handle is closed.                                                        *)
SeedDefault(p) ==
    /\ stage[p] = "seed_open" /\ at[p] = "opened"
    /\ defaultStore' = TRUE
    /\ Leave(p)
    /\ Enter(p, NextStage(p))
    /\ UNCHANGED <<config, dbFile, sock, url, port, cmd, fresh, excused, overlapped>>

(* The user edits the config. *)
EditConfig ==
    /\ config = "template"
    /\ config' = "edited"
    /\ UNCHANGED <<vars, dbFile, defaultStore, sock, url, port, cmd, stage, fresh, excused, overlapped>>

-----------------------------------------------------------------------------
(* start_daemon *)

(* Is some process behind the socket file? *)
Answers(p) == p # NoProc /\ stage[p] \in {"opening", "tcp_bind", "url_write", "serving"}

(* Variant: a file at the socket path is taken for a stale one. *)
SockCheckBlind(p) ==
    /\ stage[p] = "sock_check"
    /\ Enter(p, IF sock = NoProc THEN "sock_bind" ELSE "sock_remove")
    /\ UNCHANGED <<vars, config, dbFile, defaultStore, sock, url, port, cmd, fresh, excused, overlapped>>

(* SocketGuard::new, one file-system call at a time. *)
SockCheck(p) ==
    /\ stage[p] = "sock_check"
    /\ IF Answers(sock)
       THEN Enter(p, "off") /\ cmd' = [cmd EXCEPT ![p] = "none"]
       ELSE Enter(p, IF sock = NoProc THEN "sock_bind" ELSE "sock_remove") /\ UNCHANGED cmd
    /\ UNCHANGED <<vars, config, dbFile, defaultStore, sock, url, port, fresh, excused, overlapped>>

(* The start ends here when the file has gone in the meantime. *)
SockRemove(p) ==
    /\ stage[p] = "sock_remove"
    /\ sock' = NoProc
    /\ Enter(p, IF sock = NoProc THEN "off" ELSE "sock_bind")
    /\ cmd' = IF sock = NoProc THEN [cmd EXCEPT ![p] = "none"] ELSE cmd
    /\ UNCHANGED <<vars, config, dbFile, defaultStore, url, port, fresh, excused, overlapped>>

(* bind fails when the file is there again (DaemonRunning); on success the  *)
(* daemon's own database is opened next.                                    *)
SockBind(p) ==
    /\ stage[p] = "sock_bind"
    /\ IF sock = NoProc
       THEN /\ sock' = p
            /\ Enter(p, "opening")
            /\ dbFile' = TRUE
            /\ Begin(p, "open", 0)
            /\ UNCHANGED cmd
       ELSE /\ Enter(p, "off")
            /\ cmd' = [cmd EXCEPT ![p] = "none"]
            /\ UNCHANGED <<vars, sock, dbFile>>
    /\ UNCHANGED <<config, defaultStore, url, port, fresh, excused, overlapped>>

StateBuilt(p) ==
    /\ stage[p] = "opening" /\ at[p] = "opened"
    /\ Enter(p, "tcp_bind")
    /\ UNCHANGED <<vars, config, dbFile, defaultStore, sock, url, port, cmd, fresh, excused, overlapped>>

(* An error after the bind drops the guard, which removes the file at the   *)
(* socket path, whoever bound it.  The port may be some other program's.    *)
StartFails(p) ==
    /\ \/ stage[p] = "opening" /\ at[p] \in {"refused", "failed"}
       \/ stage[p] = "tcp_bind"
    /\ sock' = NoProc
    /\ Leave(p)
    /\ Enter(p, "off")
    /\ cmd' = [cmd EXCEPT ![p] = "none"]
    /\ UNCHANGED <<config, dbFile, defaultStore, url, port, fresh, excused, overlapped>>

BindTcp(p) ==
    /\ stage[p] = "tcp_bind"
    /\ port = NoProc
    /\ port' = p
    /\ Enter(p, "url_write")
    /\ UNCHANGED <<vars, config, dbFile, defaultStore, sock, url, cmd, fresh, excused, overlapped>>

(* UrlFileGuard::new overwrites whatever is there. *)
WriteUrl(p) ==
    /\ stage[p] = "url_write"
    /\ url' = p
    /\ Enter(p, "serving")
    /\ UNCHANGED <<vars, config, dbFile, defaultStore, sock, port, cmd, fresh, excused, overlapped>>

-----------------------------------------------------------------------------
(* probe_daemon, and where each command goes after it *)

(* No daemon: routable commands open the database, `db` commands start      *)
(* their maintenance unless there is no file or nothing to do.              *)
GoEmbedded(p) ==
    \/ /\ cmd[p] \in {"local", "remote"}
       /\ Enter(p, "embedded")
       /\ dbFile' = TRUE
       /\ Begin(p, "open", 0)
       /\ UNCHANGED cmd
    \/ /\ dbFile
       /\ \/ cmd[p] = "migrate" /\ BeginMigrate(p)
          \/ cmd[p] = "downgrade" /\ \E target \in Baseline .. Newest : BeginDowngrade(p, target)
       /\ Enter(p, "maintain")
       /\ UNCHANGED <<dbFile, cmd>>
    \/ /\ cmd[p] \in {"migrate", "downgrade"}
       /\ Enter(p, "off")
       /\ cmd' = [cmd EXCEPT ![p] = "none"]
       /\ UNCHANGED <<vars, dbFile>>

(* The override is believed unasked.  Otherwise the socket file must exist  *)
(* and the address of daemon.url (or the default) accept a connection, by   *)
(* whatever program; an existing file without an answer is cleaned up as    *)
(* stale.                                                                   *)
Probe(p) ==
    /\ stage[p] = "probe"
    /\ \/ /\ cmd[p] = "remote" \/ sock # NoProc
          /\ Enter(p, IF cmd[p] \in {"local", "remote"} THEN "routed" ELSE "off")
          /\ cmd' = IF cmd[p] \in {"local", "remote"} THEN cmd ELSE [cmd EXCEPT ![p] = "none"]
          /\ UNCHANGED <<vars, dbFile>>
       \/ /\ cmd[p] # "remote" /\ sock # NoProc /\ port = NoProc
          /\ Enter(p, "drop_sock")
          /\ UNCHANGED <<vars, dbFile, cmd>>
       \/ /\ cmd[p] # "remote" /\ sock = NoProc
          /\ GoEmbedded(p)
    /\ UNCHANGED <<config, defaultStore, sock, url, port, fresh, excused, overlapped>>

DropSock(p) ==
    /\ stage[p] = "drop_sock"
    /\ sock' = NoProc
    /\ Enter(p, "drop_url")
    /\ UNCHANGED <<vars, config, dbFile, defaultStore, url, port, cmd, fresh, excused, overlapped>>

DropUrl(p) ==
    /\ stage[p] = "drop_url"
    /\ url' = NoProc
    /\ GoEmbedded(p)
    /\ UNCHANGED <<config, defaultStore, sock, port, fresh, excused, overlapped>>

-----------------------------------------------------------------------------
(* The database side of a process goes on under every stage; a rebuild      *)
(* drops the stores with one of the tables.                                 *)
Work(p) ==
    /\ ProcStep(p)
    /\ defaultStore' \in IF at[p] = "drop" THEN {FALSE, defaultStore}
                         ELSE IF at[p] = "reset" THEN {FALSE}
                         ELSE {defaultStore}
    /\ excused' = (excused \/ at[p] \in {"drop", "reset"})
    /\ UNCHANGED <<config, dbFile, sock, url, port, cmd, stage, fresh, overlapped>>

(* `store remove default`, embedded or through a daemon. *)
RemoveDefault(p) ==
    /\ stage[p] \in {"embedded", "serving"} /\ at[p] = "opened"
    /\ defaultStore
    /\ defaultStore' = FALSE
    /\ excused' = TRUE
    /\ UNCHANGED <<vars, config, dbFile, sock, url, port, cmd, stage, fresh, overlapped>>

(* A process ends, or is killed at any point: the files stay, the listeners *)
(* go.  Killed between creating the database and seeding it, it leaves the  *)
(* install without a "default" store for good.                              *)
Exit(p) ==
    /\ stage[p] # "off"
    /\ IF at[p] = "idle" THEN UNCHANGED vars ELSE Leave(p)
    /\ Enter(p, "off")
    /\ cmd' = [cmd EXCEPT ![p] = "none"]
    /\ fresh' = [fresh EXCEPT ![p] = FALSE]
    /\ port' = IF port = p THEN NoProc ELSE port
    /\ excused' = (excused \/ stage[p] \in Seeding)
    /\ UNCHANGED <<config, dbFile, defaultStore, sock, url, overlapped>>

DirNext ==
    \/ EditConfig
    \/ \E p \in Procs :
        \/ \E c \in Commands \ {"none"} : Start(p, c)
        \/ ScaffoldCheck(p) \/ ScaffoldLink(p) \/ LoadConfig(p) \/ SeedDefault(p)
        \/ SockCheck(p) \/ SockRemove(p) \/ SockBind(p)
        \/ StateBuilt(p) \/ StartFails(p) \/ BindTcp(p) \/ WriteUrl(p)
        \/ Probe(p) \/ DropSock(p) \/ DropUrl(p)
        \/ Work(p) \/ RemoveDefault(p) \/ Exit(p)

DirSpec == DirInit /\ [][DirNext]_allVars

-----------------------------------------------------------------------------
(* Properties *)

(* "CLI and MCP commands probe this path on startup; if a connection        *)
(* succeeds they route through the daemon": while a daemon serves, the      *)
(* discovery files lead to it, whatever earlier daemons left behind and     *)
(* whoever cleaned up after them; and so `db migrate` and `db downgrade`    *)
(* do not change the schema it serves from.  Not promised once a start-up   *)
(* has overlapped another start-up or a probe: the probe takes the socket   *)
(* bound before the port for a stale one and removes it, and a maintenance  *)
(* command goes ahead.                                                      *)
ServingUndisturbed ==
    \A p \in Procs : stage[p] = "serving" /\ ~overlapped =>
        /\ sock = p /\ url = p
        /\ version = HeadVersion

(* An untouched first-run install ends up with its "default" store, whether *)
(* its first command was local, started a daemon or went to a remote one.   *)
FirstRunSeeded ==
    dbFile /\ config = "template" /\ ~defaultStore
        => excused \/ \E p \in Procs : stage[p] \in Seeding
=============================================================================
