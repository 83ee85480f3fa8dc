---------------------------- MODULE ConfigReload ----------------------------
(***************************************************************************)
(* How haproxy_manager.py changes the configuration HAProxy runs.          *)
(*                                                                         *)
(* generate_config() renders the database into three files that            *)
(* `haproxy -c` accepts or refuses as one set (haproxy.cfg,                *)
(* blocked_ips.map, coraza-spoe.cfg).  Before the first write it snapshots *)
(* the set on disk; if the new set is refused it copies the snapshot back; *)
(* only when the new set has been loaded does it become the next snapshot. *)
(*                                                                         *)
(* The same files are written by the blocked-IP routes, and read by the    *)
(* supervisor that restarts a dead HAProxy.  Nothing in the program        *)
(* serialises these actors: every step below is one point at which another *)
(* thread, a crash or the death of HAProxy can intervene.  Serialized is   *)
(* the assumption, not made by the code, that operations do not overlap.   *)
(***************************************************************************)
EXTENDS Naturals, Sequences

CONSTANTS
    Workers,        \* threads of the gunicorn API workers
    Supervisor,     \* start-up.sh: init.py first, then the ensure_haproxy loop
    Cfgs, BadCfgs,  \* what the domains table can render to; what HAProxy refuses
    FirstCfgs,      \* what it renders to when the container is first started
    Maps, BadMaps,  \* what the blocked_ips table can hold; with a malformed row
    SpoeCfg,        \* the rendered Coraza SPOE engine file
    Absent, Torn,   \* no such file; a file a copy stopped in the middle of
    Coraza,         \* HAPROXY_CORAZA_SPOE_BACKEND is set
    Serialized,     \* operations of different threads do not overlap
    Faults,         \* the kinds of failure the environment injects
    MaxFaults,      \* bound: failures injected in one behaviour
    MaxMasters      \* bound: HAProxy master processes alive at once

FaultKinds == {"copy", "write", "validator", "socket", "timeout", "silent",
               "start", "malformed", "exit", "crash"}

ASSUME ConfigAssumption ==
    /\ Supervisor \notin Workers
    /\ BadCfgs \subseteq Cfgs /\ FirstCfgs \subseteq Cfgs /\ BadMaps \subseteq Maps
    /\ Cfgs \cap Maps = {} /\ SpoeCfg \notin Cfgs \cup Maps
    /\ Absent # Torn /\ {Absent, Torn} \cap (Cfgs \cup Maps \cup {SpoeCfg}) = {}
    /\ Coraza \in BOOLEAN /\ Serialized \in BOOLEAN
    /\ Faults \subseteq FaultKinds
    /\ MaxFaults \in Nat /\ MaxMasters \in Nat \ {0}

VARIABLES
    db,         \* haproxy_config.db: the rendering its rows ask for, the blocked rows
    live,       \* the files HAProxy loads
    backup,     \* their *.backup copies
    masters,    \* what each running HAProxy master loaded; the last owns the CLI socket
    pc,         \* where each thread is
    at,         \* the pair of _config_backup_pairs() a thread copies next
    snap,       \* what each thread has read from the database
    outcome,    \* how each thread's last generate_config() ended
    phase,      \* which part of init.py is running; "run": gunicorn is up;
                \* "ended": the container is down
    unverified, \* history: the backup was taken without a verdict from haproxy -c
    faults      \* history: how many failures so far, and whether a malformed
                \* address was one of them

vars == <<db, live, backup, masters, pc, at, snap, outcome, phase, unverified, faults>>

Threads == Workers \cup {Supervisor}
Files   == {"cfg", "map", "spoe"}
Contents == Cfgs \cup Maps \cup {SpoeCfg, Absent, Torn}

\* The order of the copies in create_backup, promote and restore.
_config_backup_pairs == <<"cfg", "map", "spoe">>

\* The verdict of `haproxy -c` on a set of files: the map is loaded through
\* map_ip(), the SPOE file through the filter line rendered when Coraza is on.
Loads(set) ==
    /\ set["cfg"] \in Cfgs \ BadCfgs
    /\ set["map"] \in Maps \ BadMaps
    /\ Coraza => set["spoe"] = SpoeCfg

\* Every file the configuration names is there and no copy of it was cut short.
Whole(set) ==
    /\ set["cfg"] \in Cfgs /\ set["map"] \in Maps
    /\ Coraza => set["spoe"] = SpoeCfg

Labels == {"idle", "read", "backup", "backup_copy", "backup_unverified", "blocked",
           "map", "spoe", "cfg", "validate", "reload", "start", "promote", "restore",
           "restore_signal", "signal_restored", "probe", "recheck", "launch",
           "signal", "blk_read", "blk_map", "blk_promote", "abort"}
Outcomes == {"none", "ok", "failed", "rolled_back", "rollback_failed"}

\* do_initial_setup(): the generate_config() that follows the creation of the
\* self-signed certificate, the one of every start, start_haproxy(); then requests.
\* "ended": start-up.sh has exited, and the container with it.
Phases == {"cert", "boot", "bootstart", "run", "ended"}

NoSnap == [cfg |-> Absent, map |-> Absent]

Injected == [count: Nat, malformed: BOOLEAN]

TypeOK ==
    /\ db \in [cfg: Cfgs, map: Maps]
    /\ live \in [Files -> Contents] /\ backup \in [Files -> Contents]
    /\ masters \in Seq([Files -> Contents])
    /\ pc \in [Threads -> Labels]
    /\ at \in [Threads -> 1..3]
    /\ snap \in [Threads -> [cfg: Cfgs \cup {Absent}, map: Maps \cup {Absent}]]
    /\ outcome \in [Threads -> Outcomes]
    /\ phase \in Phases
    /\ unverified \in BOOLEAN
    /\ faults \in Injected
-----------------------------------------------------------------------------
Fault(kind) ==
    /\ kind \in Faults /\ faults.count < MaxFaults
    /\ faults' = [count |-> faults.count + 1,
                  malformed |-> faults.malformed \/ kind = "malformed"]

Goto(t, label) == pc' = [pc EXCEPT ![t] = label]

\* The thread leaves its operation, or goes on at a label outside generate_config().
Leave(t, label) ==
    /\ pc' = [pc EXCEPT ![t] = label]
    /\ at' = [at EXCEPT ![t] = 1]
    /\ snap' = [snap EXCEPT ![t] = NoSnap]
    /\ phase' = CASE t = Supervisor /\ label = "probe" -> "bootstart"
                  [] t = Supervisor /\ label = "idle"  -> "run"
                  [] t = Supervisor /\ label = "read" /\ phase = "cert" -> "boot"
                  [] OTHER -> phase

\* generate_config() returns or raises.  A request handler reports the result.
\* In do_initial_setup() nothing catches an exception of the first call, which ends
\* init.py; after the second it goes on to start_haproxy() in any case.
\* start_haproxy() goes on only after a success.
Return(t, result) ==
    /\ outcome' = [outcome EXCEPT ![t] = result]
    /\ Leave(t, IF t # Supervisor THEN "idle"
                ELSE IF phase = "boot" THEN "probe"
                ELSE IF phase = "cert" THEN (IF result = "ok" THEN "read" ELSE "abort")
                ELSE IF result = "ok" THEN "recheck" ELSE "idle")

\* A thread starts an operation; no request is served before init.py is done.
MayBegin(t) ==
    /\ phase = "run" /\ pc[t] = "idle"
    /\ Serialized => \A s \in Threads : pc[s] = "idle"

\* Mutant: one pair too many.
NextPair_PastTheEnd(t, label) ==
    IF at[t] <= 3
    THEN at' = [at EXCEPT ![t] = @ + 1] /\ UNCHANGED pc
    ELSE at' = [at EXCEPT ![t] = 1] /\ Goto(t, label)

\* After one pair of files: go on to the next pair, or leave the loop.
NextPair(t, label) ==
    IF at[t] < 3
    THEN at' = [at EXCEPT ![t] = @ + 1] /\ UNCHANGED pc
    ELSE at' = [at EXCEPT ![t] = 1] /\ Goto(t, label)

\* shutil.copy2(): opens the destination with truncation, then writes it.
Copied(dst, src, f) == IF src[f] = Absent THEN dst ELSE [dst EXCEPT ![f] = src[f]]
CutShort(dst, f)    == [dst EXCEPT ![f] = Torn]

\* The master behind the CLI socket re-executes itself; it keeps the workers it
\* has when the files on disk do not load.
Reloaded == IF Loads(live) THEN [masters EXCEPT ![Len(masters)] = live] ELSE masters

Started == Append(masters, live)
-----------------------------------------------------------------------------
(* Requests *)

\* A route that calls generate_config(): it has committed a change of the
\* domains table (or none: /api/regenerate, /api/config/reload).
request_generate(t) ==
    /\ t \in Workers /\ MayBegin(t)
    /\ \E c \in Cfgs : db' = [db EXCEPT !.cfg = c]
    /\ outcome' = [outcome EXCEPT ![t] = "none"]
    /\ Goto(t, "read")
    /\ UNCHANGED <<live, backup, masters, at, snap, phase, unverified, faults>>

\* POST and DELETE /api/blocked-ips: the row is committed first, and not checked.
request_block(t) ==
    /\ t \in Workers /\ MayBegin(t)
    /\ \E m \in Maps \ {db.map} :
        /\ db' = [db EXCEPT !.map = m]
        /\ IF m \in BadMaps THEN Fault("malformed") ELSE UNCHANGED faults
    /\ outcome' = [outcome EXCEPT ![t] = "none"]
    /\ Goto(t, "blk_read")
    /\ UNCHANGED <<live, backup, masters, at, snap, phase, unverified>>

\* GET /api/reload: no validation, no backup; starts HAProxy if it is not running.
request_reload(t) ==
    /\ t \in Workers /\ MayBegin(t)
    /\ outcome' = [outcome EXCEPT ![t] = "none"]
    /\ Goto(t, IF masters # <<>> THEN "signal" ELSE "launch")
    /\ UNCHANGED <<db, live, backup, masters, at, snap, phase, unverified, faults>>

\* The supervisor loop of start-up.sh finds no haproxy process.
ensure_haproxy ==
    /\ MayBegin(Supervisor) /\ masters = <<>>
    /\ Goto(Supervisor, "probe")
    /\ outcome' = [outcome EXCEPT ![Supervisor] = "none"]
    /\ UNCHANGED <<db, live, backup, masters, at, snap, phase, unverified, faults>>
-----------------------------------------------------------------------------
(* generate_config() *)

generate_config_read(t) ==
    /\ pc[t] = "read"
    /\ snap' = [snap EXCEPT ![t].cfg = db.cfg]
    /\ Goto(t, "backup")
    /\ UNCHANGED <<db, live, backup, masters, at, outcome, phase, unverified, faults>>

\* Byte by byte, every file or its absence: the set on disk is the one that last loaded.
_config_set_matches_backup == live = backup

\* Mutant: the snapshot is taken whatever haproxy -c says of it.
create_backup_RequireValidDropped(t) ==
    /\ pc[t] = "backup"
    /\ Goto(t, IF live["cfg"] = Absent \/ _config_set_matches_backup THEN "blocked" ELSE "backup_copy")
    /\ UNCHANGED <<db, live, backup, masters, at, snap, outcome, phase, unverified, faults>>

\* What create_backup() decides from the files as they are.  The status it
\* returns only chooses log lines, except for the error of a failed copy.
create_backup(t) ==
    /\ pc[t] = "backup"
    /\ \/ \* first run, unchanged since it last loaded, or refused by HAProxy:
          \* the backup there is, if any, stays the rollback target
          /\ live["cfg"] = Absent \/ _config_set_matches_backup \/ ~Loads(live)
          /\ Goto(t, "blocked") /\ UNCHANGED <<unverified, faults>>
       \/ /\ live["cfg"] # Absent /\ ~_config_set_matches_backup /\ Loads(live)
          /\ Goto(t, "backup_copy") /\ UNCHANGED <<unverified, faults>>
       \/ \* haproxy -c could not run: "backing it up unverified"
          /\ live["cfg"] # Absent /\ ~_config_set_matches_backup /\ Fault("validator")
          /\ Goto(t, "backup_unverified") /\ unverified' = TRUE
    /\ UNCHANGED <<db, live, backup, masters, at, snap, outcome, phase>>

create_backup_copy(t) ==
    LET f == _config_backup_pairs[at[t]] IN
    /\ pc[t] \in {"backup_copy", "backup_unverified"}
    /\ \/ /\ backup' = Copied(backup, live, f)
          /\ NextPair(t, "blocked")
          /\ unverified' = IF at[t] = 3 /\ pc[t] = "backup_copy" THEN FALSE ELSE unverified
          /\ UNCHANGED <<snap, outcome, phase, faults>>
       \/ \* status 'error': generate_config() refuses to go on
          /\ live[f] # Absent /\ Fault("copy")
          /\ backup' = CutShort(backup, f)
          /\ Return(t, "failed")
          /\ UNCHANGED unverified
    /\ UNCHANGED <<db, live, masters>>

\* update_blocked_ips_map() reads the table anew; "blk_" is the blocked-IP route.
update_blocked_ips_map_read(t) ==
    /\ pc[t] \in {"blocked", "blk_read"}
    /\ snap' = [snap EXCEPT ![t].map = db.map]
    /\ Goto(t, IF pc[t] = "blocked" THEN "map" ELSE "blk_map")
    /\ UNCHANGED <<db, live, backup, masters, at, outcome, phase, unverified, faults>>

\* Inside generate_config() the result of update_blocked_ips_map() is ignored.
update_blocked_ips_map(t) ==
    /\ pc[t] = "map"
    /\ \/ live' = [live EXCEPT !["map"] = snap[t].map] /\ UNCHANGED faults
       \/ Fault("write") /\ UNCHANGED live
    /\ Goto(t, IF Coraza THEN "spoe" ELSE "cfg")
    /\ UNCHANGED <<db, backup, masters, at, snap, outcome, phase, unverified>>

\* coraza-spoe.cfg, then haproxy.cfg, each by rename.  An exception here leaves
\* generate_config() without a rollback.
WriteRendered(t, label, file, content, next) ==
    /\ pc[t] = label
    /\ \/ /\ live' = [live EXCEPT ![file] = content]
          /\ Goto(t, next)
          /\ UNCHANGED <<at, snap, outcome, phase, faults>>
       \/ Fault("write") /\ Return(t, "failed") /\ UNCHANGED live
    /\ UNCHANGED <<db, backup, masters, unverified>>

write_coraza_spoe(t) == WriteRendered(t, "spoe", "spoe", SpoeCfg, "cfg")
write_haproxy_cfg(t) == WriteRendered(t, "cfg", "cfg", snap[t].cfg, "validate")
-----------------------------------------------------------------------------
(* reload_haproxy_safely() *)

\* Mutant: the reload is attempted without the validation gate.
validate_haproxy_config_NoGate(t) ==
    /\ pc[t] = "validate"
    /\ Goto(t, IF masters # <<>> THEN "reload" ELSE "start")
    /\ UNCHANGED <<db, live, backup, masters, at, snap, outcome, phase, unverified, faults>>

\* The gate: a refused set is rolled back, and so is one nobody could check.
validate_haproxy_config(t) ==
    /\ pc[t] = "validate"
    /\ \/ /\ Loads(live) /\ UNCHANGED faults
          /\ Goto(t, IF masters # <<>> THEN "reload" ELSE "start")
       \/ /\ ~Loads(live) /\ UNCHANGED faults
          /\ Goto(t, "restore")
       \/ Fault("validator") /\ Goto(t, "restore")
    /\ UNCHANGED <<db, live, backup, masters, at, snap, outcome, phase, unverified>>

\* echo reload | socat: exit status 0 says that the socket took the command.
reload_haproxy_safely_reload(t) ==
    /\ pc[t] = "reload"
    /\ \/ /\ masters # <<>> /\ masters' = Reloaded
          /\ Goto(t, "promote") /\ UNCHANGED faults
       \/ /\ masters # <<>> /\ Fault("silent") /\ UNCHANGED masters
          /\ Goto(t, "promote")
       \/ /\ masters = <<>> /\ UNCHANGED <<masters, faults>>
          /\ Goto(t, "restore_signal")
       \/ /\ masters # <<>> /\ Fault("socket") /\ UNCHANGED masters
          /\ Goto(t, "restore_signal")
       \/ \* subprocess.TimeoutExpired: the command may or may not have been taken
          /\ masters # <<>> /\ Fault("timeout")
          /\ masters' \in {masters, Reloaded}
          /\ Goto(t, "restore")
    /\ UNCHANGED <<db, live, backup, at, snap, outcome, phase, unverified>>

reload_haproxy_safely_start(t) ==
    /\ pc[t] = "start" /\ Len(masters) < MaxMasters
    /\ \/ /\ Loads(live) /\ masters' = Started
          /\ Goto(t, "promote")
          /\ UNCHANGED <<at, snap, outcome, phase, faults>>
       \/ \* CalledProcessError
          /\ \/ ~Loads(live) /\ UNCHANGED faults
             \/ Fault("start")
          /\ Goto(t, "restore")
          /\ UNCHANGED <<masters, at, snap, outcome, phase>>
       \/ \* TimeoutExpired reaches the outer handler, which does not roll back
          /\ Fault("timeout")
          /\ masters' \in {masters} \cup (IF Loads(live) THEN {Started} ELSE {})
          /\ Return(t, "failed")
    /\ UNCHANGED <<db, live, backup, unverified>>

\* A failed promotion is logged and the change still counts as a success.
promote_current_config_to_backup(t) ==
    LET f == _config_backup_pairs[at[t]] IN
    /\ pc[t] = "promote"
    /\ \/ /\ backup' = Copied(backup, live, f) /\ UNCHANGED faults
          /\ unverified' = IF at[t] = 3 THEN FALSE ELSE unverified
          /\ IF at[t] = 3 THEN Return(t, "ok")
             ELSE NextPair(t, "idle") /\ UNCHANGED <<snap, outcome, phase>>
       \/ /\ live[f] # Absent /\ Fault("copy")
          /\ backup' = CutShort(backup, f)
          /\ Return(t, "ok")
          /\ UNCHANGED unverified
    /\ UNCHANGED <<db, live, masters>>

\* Mutant: only haproxy.cfg is restored, not the files it loads.
restore_backup_CfgOnly(t) ==
    /\ pc[t] \in {"restore", "restore_signal"}
    /\ live' = IF backup["cfg"] = Absent THEN live ELSE Copied(live, backup, "cfg")
    /\ Return(t, IF backup["cfg"] = Absent THEN "rollback_failed" ELSE "rolled_back")
    /\ UNCHANGED <<db, backup, masters, unverified, faults>>

\* "restore_signal" is the failed reload, after which a second one is sent.
restore_backup(t) ==
    LET f == _config_backup_pairs[at[t]] IN
    /\ pc[t] \in {"restore", "restore_signal"}
    /\ \/ \* nothing to roll back to: the refused set stays on disk
          /\ backup["cfg"] = Absent
          /\ Return(t, "rollback_failed")
          /\ UNCHANGED <<live, faults>>
       \/ /\ backup["cfg"] # Absent
          /\ live' = Copied(live, backup, f) /\ UNCHANGED faults
          /\ IF at[t] = 3 /\ pc[t] = "restore" THEN Return(t, "rolled_back")
             ELSE NextPair(t, "signal_restored") /\ UNCHANGED <<snap, outcome, phase>>
       \/ /\ backup["cfg"] # Absent
          /\ backup[f] # Absent /\ Fault("copy")
          /\ live' = CutShort(live, f)
          /\ Return(t, "rollback_failed")
    /\ UNCHANGED <<db, backup, masters, unverified>>

\* The second reload, whose exit status nobody reads; if it times out the outer
\* "except" of the reload branch restores once more.
reload_restored(t) ==
    /\ pc[t] = "signal_restored"
    /\ \/ /\ \/ masters # <<>> /\ masters' = Reloaded
             \/ UNCHANGED masters
          /\ Return(t, "rolled_back")
          /\ UNCHANGED faults
       \/ /\ masters # <<>> /\ Fault("timeout")
          /\ masters' \in {masters, Reloaded}
          /\ Goto(t, "restore")
          /\ UNCHANGED <<at, snap, outcome, phase>>
    /\ UNCHANGED <<db, live, backup, unverified>>
-----------------------------------------------------------------------------
(* The blocked-IP routes: the map write is the whole change *)

\* Mutant: the map is promoted without _blocked_ips_map_is_wellformed().
update_blocked_ips_map_route_NoGuard(t) ==
    /\ pc[t] = "blk_map"
    /\ live' = [live EXCEPT !["map"] = snap[t].map]
    /\ Goto(t, IF backup["cfg"] # Absent THEN "blk_promote" ELSE "signal")
    /\ UNCHANGED <<db, backup, masters, at, snap, outcome, phase, unverified, faults>>

\* update_blocked_ips_map() with its default promote_backup; a failure is a 500.
update_blocked_ips_map_route(t) ==
    /\ pc[t] = "blk_map"
    /\ \/ /\ live' = [live EXCEPT !["map"] = snap[t].map]
          /\ Goto(t, IF backup["cfg"] # Absent /\ snap[t].map \notin BadMaps
                     THEN "blk_promote" ELSE "signal")
          /\ UNCHANGED <<at, snap, phase, faults>>
       \/ Fault("write") /\ Leave(t, "idle") /\ UNCHANGED live
    /\ UNCHANGED <<db, backup, masters, outcome, unverified>>

_promote_blocked_ips_map_to_backup(t) ==
    /\ pc[t] = "blk_promote"
    /\ \/ backup' = Copied(backup, live, "map") /\ UNCHANGED faults
       \/ Fault("copy") /\ backup' = CutShort(backup, "map")
    /\ Goto(t, "signal")
    /\ UNCHANGED <<db, live, masters, at, snap, outcome, phase, unverified>>

\* A reload whose failure is at most logged; with no HAProxy there is none.
signal_haproxy(t) ==
    /\ pc[t] = "signal"
    /\ \/ masters # <<>> /\ masters' = Reloaded /\ UNCHANGED faults
       \/ masters # <<>> /\ Fault("socket") /\ UNCHANGED masters
       \/ masters = <<>> /\ UNCHANGED <<masters, faults>>
    /\ Leave(t, "idle")
    /\ UNCHANGED <<db, live, backup, outcome, unverified>>
-----------------------------------------------------------------------------
(* start_haproxy() *)

\* Mutant: a configuration that does not load is not regenerated.
start_haproxy_NoRegenerate(t) ==
    /\ pc[t] = "probe"
    /\ Leave(t, IF masters = <<>> /\ Loads(live) THEN "launch" ELSE "idle")
    /\ UNCHANGED <<db, live, backup, masters, outcome, unverified, faults>>

\* Is it running, is there a configuration, does it load; if not, regenerate.
start_haproxy(t) ==
    /\ pc[t] = "probe"
    /\ \/ /\ masters # <<>> \/ live["cfg"] = Absent
          /\ Leave(t, "idle") /\ UNCHANGED faults
       \/ /\ masters = <<>> /\ live["cfg"] # Absent /\ UNCHANGED faults
          /\ Leave(t, IF Loads(live) THEN "launch" ELSE "read")
       \/ /\ masters = <<>> /\ live["cfg"] # Absent /\ Fault("validator")
          /\ Leave(t, "idle")
    /\ UNCHANGED <<db, live, backup, masters, outcome, unverified>>

\* "Test the configuration again"
start_haproxy_recheck(t) ==
    /\ pc[t] = "recheck"
    /\ \/ Leave(t, IF Loads(live) THEN "launch" ELSE "idle") /\ UNCHANGED faults
       \/ Leave(t, "idle") /\ Fault("validator")
    /\ UNCHANGED <<db, live, backup, masters, outcome, unverified>>

\* haproxy -W, without another look at the process table; /api/reload does it too.
start_haproxy_launch(t) ==
    /\ pc[t] = "launch" /\ Len(masters) < MaxMasters
    /\ \/ Loads(live) /\ masters' = Started /\ UNCHANGED faults
       \/ ~Loads(live) /\ UNCHANGED <<masters, faults>>
       \/ Fault("start") /\ UNCHANGED masters
    /\ Leave(t, "idle")
    /\ UNCHANGED <<db, live, backup, outcome, unverified>>
-----------------------------------------------------------------------------
(* What happens to the processes *)

haproxy_dies ==
    /\ masters # <<>>
    /\ masters' \in {Tail(masters), SubSeq(masters, 1, Len(masters) - 1)}
    /\ UNCHANGED <<db, live, backup, pc, at, snap, outcome, phase, unverified, faults>>

\* The file a thread is in the middle of copying.
InFlight(t) == IF pc[t] = "blk_promote" THEN "map" ELSE _config_backup_pairs[at[t]]

IntoBackup(t) == pc[t] \in {"backup_copy", "backup_unverified", "promote", "blk_promote"}
IntoLive(t)   == pc[t] \in {"restore", "restore_signal"} /\ backup["cfg"] # Absent

\* The threads of S vanish; any copy they were making may be cut short.
Interrupted(S) ==
    \E b \in SUBSET {t \in S : IntoBackup(t) /\ live[InFlight(t)] # Absent},
       l \in SUBSET {t \in S : IntoLive(t) /\ backup[InFlight(t)] # Absent} :
        /\ backup' = [f \in Files |-> IF \E t \in b : InFlight(t) = f THEN Torn ELSE backup[f]]
        /\ live' = [f \in Files |-> IF \E t \in l : InFlight(t) = f THEN Torn ELSE live[f]]

\* A gunicorn worker is recycled or killed, or the supervisor's python is.
process_exits(t) ==
    /\ phase = "run" /\ pc[t] # "idle" /\ Fault("exit")
    /\ Interrupted({t})
    /\ Leave(t, "idle")
    /\ UNCHANGED <<db, masters, outcome, unverified>>

\* start-up.sh runs init.py.  The self-signed certificate is there from now on, so
\* that do_initial_setup() comes to its guarded generate_config() at once.
Booting ==
    /\ masters' = <<>>
    /\ pc' = [t \in Threads |-> IF t = Supervisor THEN "read" ELSE "idle"]
    /\ at' = [t \in Threads |-> 1]
    /\ snap' = [t \in Threads |-> NoSnap]
    /\ outcome' = [t \in Threads |-> "none"]
    /\ phase' = "boot"

\* The container dies and is started again; /etc/haproxy is a volume.
container_restarts ==
    /\ phase # "ended" /\ Fault("crash")
    /\ Interrupted(Threads)
    /\ Booting
    /\ UNCHANGED <<db, unverified>>

\* init.py has raised, which under `set -e` ends start-up.sh before it starts the
\* supervisor's loop and gunicorn; a HAProxy that runs goes with the container.
container_ends ==
    /\ pc[Supervisor] = "abort"
    /\ Goto(Supervisor, "idle")
    /\ masters' = <<>> /\ phase' = "ended"
    /\ UNCHANGED <<db, live, backup, at, snap, outcome, unverified, faults>>

\* Docker's --restart policy, or an operator: nothing here makes it happen.
container_starts ==
    /\ phase = "ended"
    /\ Booting
    /\ UNCHANGED <<db, live, backup, unverified, faults>>
-----------------------------------------------------------------------------
\* A first start: no configuration, and whatever domains the database holds.  The
\* self-signed certificate has just been published.
Init ==
    /\ db \in [cfg: FirstCfgs, map: Maps \ BadMaps]
    /\ live = [f \in Files |-> Absent] /\ backup = [f \in Files |-> Absent]
    /\ masters = <<>>
    /\ pc = [t \in Threads |-> IF t = Supervisor THEN "read" ELSE "idle"]
    /\ at = [t \in Threads |-> 1]
    /\ snap = [t \in Threads |-> NoSnap]
    /\ outcome = [t \in Threads |-> "none"]
    /\ phase = "cert"
    /\ unverified = FALSE
    /\ faults = [count |-> 0, malformed |-> FALSE]

generate_config(t) ==
    \/ generate_config_read(t)
    \/ create_backup(t) \/ create_backup_copy(t)
    \/ update_blocked_ips_map_read(t) \/ update_blocked_ips_map(t)
    \/ write_coraza_spoe(t) \/ write_haproxy_cfg(t)
    \/ validate_haproxy_config(t)
    \/ reload_haproxy_safely_reload(t) \/ reload_haproxy_safely_start(t)
    \/ promote_current_config_to_backup(t)
    \/ restore_backup(t) \/ reload_restored(t)

Step(t) ==
    \/ generate_config(t)
    \/ update_blocked_ips_map_route(t) \/ _promote_blocked_ips_map_to_backup(t)
    \/ signal_haproxy(t)
    \/ start_haproxy(t) \/ start_haproxy_recheck(t) \/ start_haproxy_launch(t)

Request(t) == request_generate(t) \/ request_block(t) \/ request_reload(t)

Next ==
    \/ \E t \in Threads : Step(t) \/ Request(t) \/ process_exits(t)
    \/ ensure_haproxy \/ haproxy_dies
    \/ container_restarts \/ container_ends \/ container_starts

Spec == Init /\ [][Next]_vars

(* A thread that has work goes on with it: the subprocess calls are bounded by   *)
(* DEFAULT_SUBPROCESS_TIMEOUT.  The supervisor's loop has no condition but its   *)
(* sleep; strong fairness makes up for Serialized, which lets it run only in     *)
(* between requests.  Requests, deaths and failures are never forced, nor is the *)
(* start of a container that has ended.                                          *)
FairSpec ==
    /\ Spec
    /\ \A t \in Threads : WF_vars(Step(t))
    /\ SF_vars(ensure_haproxy) /\ WF_vars(container_ends)
-----------------------------------------------------------------------------
(* Properties *)

\* create_backup() keeps the older, validated backup so that "a rollback always
\* lands on something HAProxy will actually start with": a complete backup that
\* was not taken blindly is a set HAProxy accepts.
WholeBackupLoads == Whole(backup) /\ ~unverified => Loads(backup)

\* Once there is a rollback target, at every point - between any two writes,
\* after a failed copy, after a crash - haproxy.cfg or its backup is a rendering
\* HAProxy accepts: however many failures there are, a failed change never costs
\* both.  (The map is derived from the database whenever it is written.)  Only
\* an address that HAProxy cannot parse keeps a good haproxy.cfg out of the backup.
GoodCfgKept ==
    backup["cfg"] # Absent /\ ~unverified /\ ~faults.malformed
        => \E set \in {live, backup} : set["cfg"] \in Cfgs \ BadCfgs

\* With at most one failure the same is true of the sets as a whole: the files on
\* disk or their backups are a set HAProxy starts with.
NeverStranded ==
    backup["cfg"] # Absent /\ ~unverified /\ faults.count <= 1
        => Loads(live) \/ Loads(backup)

\* When generate_config() fails without saying ROLLBACK FAILED after its gate,
\* restore_backup() has left a set HAProxy accepts on disk, as long as no second
\* failure has spoilt the backup before.
RollbackHonest ==
    [][\A t \in Threads :
          outcome'[t] = "rolled_back" /\ outcome[t] # "rolled_back"
          /\ ~unverified /\ faults.count <= 1
              => Loads(live')]_vars

\* start_haproxy() has something to start from.
Startable ==
    /\ live["cfg"] # Absent
    /\ \/ Loads(live) \/ Loads(backup)
       \/ db.cfg \notin BadCfgs /\ db.map \notin BadMaps

\* A dead HAProxy comes back without an operator as long as the container runs and
\* there is something to start from: the supervisor starts it, after regenerating or
\* rolling back what does not load.  (Addresses HAProxy cannot parse, re-added for
\* ever, would invalidate the map each time it has been rolled back.  And a first
\* start whose configuration is refused ends the container, which nothing in the
\* program starts again.)
EventuallyServing ==
    <>[](db.map \notin BadMaps) => []<>(masters # <<>> \/ ~Startable \/ phase = "ended")

\* ensure_haproxy.py: start_haproxy() "only ever acts when haproxy is genuinely
\* gone", so there is never a second master beside the first.
OneMaster == Len(masters) <= 1
=============================================================================
