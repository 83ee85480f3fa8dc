----------------------------- MODULE BlockedIPs -----------------------------
(***************************************************************************)
(* How haproxy_manager.py keeps the blocked addresses.                     *)
(*                                                                         *)
(* The table blocked_ips is what was asked for, blocked_ips.map is written *)
(* from it and is what HAProxy loads, and HAProxy's runtime map is what it *)
(* enforces: a reload replaces it by the file, and commands on the CLI     *)
(* socket change it in between ("the fast path").  Every route commits its *)
(* row, rewrites the file from a SELECT of its own, and sends its command. *)
(*                                                                         *)
(* No lock spans these steps, so that two routes, or a route and a reload  *)
(* of somebody else, can mix them.  alone is the history that tells the    *)
(* operations no other one has overlapped, and clean says that nothing has *)
(* disturbed the three copies since they were last rebuilt.                *)
(***************************************************************************)
EXTENDS Naturals, FiniteSets

CONSTANTS
    Handlers,   \* threads of the gunicorn API workers
    Ips,        \* addresses
    None,       \* no thread, no address
    Mishaps,    \* the kinds of failure the environment injects
    MaxMishaps  \* bound: failures injected in one behaviour

MishapKinds == {"write", "rejected", "timeout", "silent", "exit", "script"}

ASSUME BlockedAssumption ==
    /\ None \notin Handlers \cup Ips
    /\ Mishaps \subseteq MishapKinds /\ MaxMishaps \in Nat

VARIABLES
    blocked_ips,  \* the table: without a row, for ever, until a time, past it
    writer,       \* the thread whose transaction holds SQLite's write lock
    file,         \* blocked_ips.map
    runtime,      \* the map in the HAProxy worker
    at,           \* where each thread is
    task,         \* what it has read and not used yet
    reply,        \* the answer the last step gave, if it gave one
    alone,        \* history: the operations under way that nothing has overlapped
    clean,        \* history: nothing has disturbed the copies since they were rebuilt
    mishaps       \* history: failures injected so far

blocked_vars == <<blocked_ips, writer, file, runtime, at, task, reply, alone, clean, mishaps>>
history      == <<alone, clean, mishaps>>

Row == {"none", "permanent", "temporary", "expired"}
Ops == {"add", "remove", "temporary", "expire", "sync", "generate"}
Places == {"idle", "map_read", "map_write", "command", "lookup", "reload",
           "delete", "commit", "select", "clear", "fill", "show"}
\* "fallback": success with runtime_map_updated false.
Replies == {"none", "success", "fallback", "partial", "error"}

\* SELECT ip_address FROM blocked_ips
Blocked == {ip \in Ips : blocked_ips[ip] # "none"}

\* snap: the addresses a SELECT returned; todo: the rest of a loop over addresses;
\* gone: those its open transaction has deleted; ok: no command has failed;
\* cleared: HAProxy has emptied the runtime map for it (history).
Task   == [op: Ops \cup {"none"}, ip: Ips \cup {None}, snap: SUBSET Ips,
           todo: SUBSET Ips, gone: SUBSET Ips, ok: BOOLEAN, cleared: BOOLEAN]
NoTask == [op |-> "none", ip |-> None, snap |-> {}, todo |-> {}, gone |-> {},
           ok |-> TRUE, cleared |-> FALSE]

BlockedTypeOK ==
    /\ blocked_ips \in [Ips -> Row]
    /\ writer \in Handlers \cup {None}
    /\ \A t \in Handlers :
        writer = t <=> task[t].gone # {} /\ at[t] \notin {"map_read", "map_write"}
    /\ file \in SUBSET Ips /\ runtime \in SUBSET Ips
    /\ at \in [Handlers -> Places]
    /\ task \in [Handlers -> Task]
    /\ \A t \in Handlers : at[t] = "idle" <=> task[t] = NoTask
    /\ reply \in Replies
    /\ alone \in SUBSET Handlers /\ clean \in BOOLEAN
    /\ mishaps \in Nat
-----------------------------------------------------------------------------
NoneUnderWay == \A t \in Handlers : at[t] = "idle"

GoTo(t, label) == at' = [at EXCEPT ![t] = label]

\* A failure: the copies may differ from now on.
Mishap(kind) ==
    /\ kind \in Mishaps /\ mishaps < MaxMishaps
    /\ mishaps' = mishaps + 1 /\ clean' = FALSE /\ UNCHANGED alone

\* A request arrives: it overlaps whatever is under way.
Begin(t, op, label, ip) ==
    /\ at[t] = "idle"
    /\ GoTo(t, label)
    /\ task' = [task EXCEPT ![t] = [NoTask EXCEPT !.op = op, !.ip = ip]]
    /\ reply' = "none"
    /\ alone' = IF NoneUnderWay THEN {t} ELSE {}
    /\ clean' = (clean /\ NoneUnderWay)
    /\ UNCHANGED mishaps

Answer(t, answer) ==
    /\ GoTo(t, "idle")
    /\ task' = [task EXCEPT ![t] = NoTask]
    /\ reply' = answer

\* The thread goes on with its operation.
Continue(t, label, j) ==
    /\ GoTo(t, label)
    /\ task' = [task EXCEPT ![t] = j]
    /\ reply' = "none"

\* The three copies have been rebuilt from the table, with nobody in between.
Rebuilt(t) ==
    /\ clean' = (clean \/ t \in alone)
    /\ UNCHANGED <<alone, mishaps>>
-----------------------------------------------------------------------------
(* Requests: each commits its row first *)

\* INSERT; an address that has a row is a 409.
add_blocked_ip(t) ==
    /\ writer = None
    /\ \E ip \in Ips \ Blocked :
        /\ blocked_ips' = [blocked_ips EXCEPT ![ip] = "permanent"]
        /\ Begin(t, "add", "map_read", ip)
    /\ UNCHANGED <<writer, file, runtime>>

\* DELETE; an address without a row is a 404.
remove_blocked_ip(t) ==
    /\ writer = None
    /\ \E ip \in Blocked :
        /\ blocked_ips' = [blocked_ips EXCEPT ![ip] = "none"]
        /\ Begin(t, "remove", "map_read", ip)
    /\ UNCHANGED <<writer, file, runtime>>

\* INSERT OR REPLACE, whatever kind of row there is.
temporary_block(t) ==
    /\ writer = None
    /\ \E ip \in Ips :
        /\ blocked_ips' = [blocked_ips EXCEPT ![ip] = "temporary"]
        /\ Begin(t, "temporary", "map_read", ip)
    /\ UNCHANGED <<writer, file, runtime>>

sync_blocked_ips(t) ==
    /\ Begin(t, "sync", "map_read", None)
    /\ UNCHANGED <<blocked_ips, writer, file, runtime>>

\* Any route that ends in generate_config(), as far as the map is concerned.
generate_config_map(t) ==
    /\ Begin(t, "generate", "map_read", None)
    /\ UNCHANGED <<blocked_ips, writer, file, runtime>>

\* Mutant: every temporary block is taken for expired.
ExpiredBlocks_Temporary == {ip \in Ips : blocked_ips[ip] \in {"temporary", "expired"}}

ExpiredBlocks == {ip \in Ips : blocked_ips[ip] = "expired"}

\* The SELECT of the expired rows: no transaction is open yet.
clear_expired_blocks(t) ==
    /\ ExpiredBlocks # {}
    /\ at[t] = "idle"
    /\ GoTo(t, "delete")
    /\ task' = [task EXCEPT ![t] = [NoTask EXCEPT !.op = "expire", !.todo = ExpiredBlocks]]
    /\ reply' = "none"
    /\ alone' = IF NoneUnderWay THEN {t} ELSE {}
    /\ clean' = (clean /\ NoneUnderWay)
    /\ UNCHANGED <<blocked_ips, writer, file, runtime, mishaps>>
-----------------------------------------------------------------------------
(* update_blocked_ips_map() *)

update_blocked_ips_map_read(t) ==
    /\ at[t] = "map_read"
    /\ Continue(t, "map_write", [task[t] EXCEPT !.snap = Blocked])
    /\ UNCHANGED <<blocked_ips, writer, file, runtime, history>>

\* What follows it: clear_expired_blocks() and generate_config() do not look at
\* its result, and the first is done.
AfterMap(t, written) ==
    LET op == task[t].op IN
    \/ op = "expire" /\ Answer(t, IF task[t].ok THEN "success" ELSE "partial")
    \/ op = "generate" /\ Continue(t, "reload", task[t])
    \/ op \in {"add", "remove", "temporary", "sync"} /\ ~written /\ Answer(t, "error")
    \/ op = "sync" /\ written /\ Continue(t, "select", task[t])
    \/ op \in {"add", "remove", "temporary"} /\ written /\ Continue(t, "command", task[t])

update_blocked_ips_map(t) ==
    /\ at[t] = "map_write"
    /\ \/ file' = task[t].snap /\ AfterMap(t, TRUE) /\ UNCHANGED history
       \/ Mishap("write") /\ AfterMap(t, FALSE) /\ UNCHANGED file
    /\ UNCHANGED <<blocked_ips, writer, runtime>>
-----------------------------------------------------------------------------
(* haproxy_cli(): one command to the worker through the CLI socket.  It is      *)
(* executed; or refused in the body of the answer, or by socat; or times out,    *)
(* executed or not.  An empty answer may hide that nothing was done.             *)

Executed(new) == runtime' = new /\ UNCHANGED history
Ignored       == Mishap("silent") /\ UNCHANGED runtime
Refused(new)  == \/ Mishap("rejected") /\ UNCHANGED runtime
                 \/ Mishap("timeout") /\ runtime' \in {runtime, new}

\* The boolean of add_ip_to_runtime_map() and remove_ip_from_runtime_map() is
\* reported by add and remove, which reload, and by the two that do not.
AfterCommand(t, done) ==
    LET j == [task[t] EXCEPT !.ok = @ /\ done] IN
    CASE j.op \in {"add", "remove"} -> Continue(t, "reload", j)
      [] j.op = "temporary"         -> Answer(t, IF done THEN "success" ELSE "fallback")
      [] OTHER                      -> Continue(t, IF j.todo = {} THEN "commit" ELSE "delete", j)

Adds(j) == j.op \in {"add", "temporary"}

add_ip_to_runtime_map(t) ==
    LET new == runtime \cup {task[t].ip} IN
    /\ at[t] = "command" /\ Adds(task[t])
    /\ \/ (Executed(new) \/ Ignored) /\ Continue(t, "lookup", task[t])
       \/ Refused(new) /\ AfterCommand(t, FALSE)
    /\ UNCHANGED <<blocked_ips, writer, file>>

\* "Key not found." is the requested end state.
remove_ip_from_runtime_map(t) ==
    LET new == runtime \ {task[t].ip} IN
    /\ at[t] = "command" /\ ~Adds(task[t])
    /\ \/ (Executed(new) \/ Ignored) /\ Continue(t, "lookup", task[t])
       \/ Refused(new) /\ AfterCommand(t, FALSE)
    /\ UNCHANGED <<blocked_ips, writer, file>>

\* Mutant: an empty answer counts as done, without the read-back.
runtime_map_lookup_Trusting(t) ==
    /\ at[t] = "lookup"
    /\ AfterCommand(t, TRUE)
    /\ UNCHANGED <<blocked_ips, writer, file, runtime, history>>

\* The read-back: did the command do what was asked?
runtime_map_lookup(t) ==
    /\ at[t] = "lookup"
    /\ \/ AfterCommand(t, (task[t].ip \in runtime) = Adds(task[t])) /\ UNCHANGED history
       \/ (Mishap("rejected") \/ Mishap("timeout")) /\ AfterCommand(t, FALSE)
    /\ UNCHANGED <<blocked_ips, writer, file, runtime>>

\* echo reload | socat, whose failure add and remove only log.  The worker that
\* comes up has read the file.
reload(t) ==
    LET answer == IF task[t].ok THEN "success" ELSE "fallback" IN
    /\ at[t] = "reload"
    /\ \/ /\ runtime' = file
          /\ IF file = task[t].snap THEN Rebuilt(t) ELSE UNCHANGED history
       \/ Refused(file) \/ Ignored
    /\ Answer(t, answer)
    /\ UNCHANGED <<blocked_ips, writer, file>>
-----------------------------------------------------------------------------
(* clear_expired_blocks() *)

\* DELETE ... WHERE ip_address = ?: the first one opens the transaction, which
\* stays open over all the commands.  SQLite gives up waiting for the lock.
delete_expired(t) ==
    /\ at[t] = "delete"
    /\ \/ /\ writer \in {None, t} /\ writer' = t
          /\ \E ip \in task[t].todo :
                Continue(t, "command", [task[t] EXCEPT !.ip = ip, !.todo = @ \ {ip},
                                                      !.gone = @ \cup {ip}])
       \/ /\ writer \notin {None, t} /\ UNCHANGED writer
          /\ Answer(t, "error")
    /\ UNCHANGED <<blocked_ips, file, runtime, history>>

\* Mutant: the transaction is committed when the connection is closed, after the
\* map has been rewritten.
commit_Late(t) ==
    /\ at[t] = "commit"
    /\ Continue(t, "map_read", task[t])
    /\ UNCHANGED <<blocked_ips, writer, file, runtime, history>>

commit(t) ==
    /\ at[t] = "commit"
    /\ blocked_ips' = [ip \in Ips |-> IF ip \in task[t].gone THEN "none" ELSE blocked_ips[ip]]
    /\ writer' = None
    /\ Continue(t, "map_read", task[t])
    /\ UNCHANGED <<file, runtime, history>>
-----------------------------------------------------------------------------
(* sync_blocked_ips() *)

sync_select(t) ==
    /\ at[t] = "select"
    /\ Continue(t, "clear", [task[t] EXCEPT !.snap = Blocked, !.todo = Blocked])
    /\ UNCHANGED <<blocked_ips, writer, file, runtime, history>>

\* An empty answer is taken for a map that has been emptied.
sync_clear(t) ==
    LET next == IF task[t].todo = {} THEN "show" ELSE "fill" IN
    /\ at[t] = "clear"
    /\ \/ Executed({}) /\ Continue(t, next, [task[t] EXCEPT !.cleared = TRUE])
       \/ Ignored /\ Continue(t, next, [task[t] EXCEPT !.cleared = FALSE])
       \/ Refused({}) /\ Answer(t, "error")
    /\ UNCHANGED <<blocked_ips, writer, file>>

\* add_ip_to_runtime_map(ip, verify=False), whatever it returns.
sync_fill(t) ==
    /\ at[t] = "fill"
    /\ \E ip \in task[t].todo :
        LET new  == runtime \cup {ip}
            rest == task[t].todo \ {ip} IN
        /\ Executed(new) \/ Ignored \/ Refused(new)
        /\ Continue(t, IF rest = {} THEN "show" ELSE "fill", [task[t] EXCEPT !.todo = rest])
    /\ UNCHANGED <<blocked_ips, writer, file>>

\* Mutant: the commands that did not visibly complain are counted instead.
sync_show_CountsCommands(t) ==
    /\ at[t] = "show"
    /\ Answer(t, "success")
    /\ IF task[t].cleared THEN Rebuilt(t) ELSE UNCHANGED history
    /\ UNCHANGED <<blocked_ips, writer, file, runtime>>

\* runtime_map_keys(): `@1 show map` of an empty map says nothing, the bare form
\* that is tried next is rejected, and that raises; otherwise what is missing
\* counts, and what a clear that did nothing has left there does not.
sync_show(t) ==
    /\ at[t] = "show"
    /\ \/ runtime = {} /\ Answer(t, "error") /\ UNCHANGED history
       \/ /\ runtime # {} /\ task[t].snap \subseteq runtime
          /\ Answer(t, "success")
          /\ IF task[t].cleared THEN Rebuilt(t) ELSE UNCHANGED history
       \/ /\ runtime # {} /\ ~ task[t].snap \subseteq runtime
          /\ Answer(t, "partial") /\ UNCHANGED history
       \/ (Mishap("rejected") \/ Mishap("timeout")) /\ Answer(t, "error")
    /\ UNCHANGED <<blocked_ips, writer, file, runtime>>
-----------------------------------------------------------------------------
(* Time and processes *)

\* expiry_time passes.
block_expires(ip) ==
    /\ blocked_ips[ip] = "temporary"
    /\ blocked_ips' = [blocked_ips EXCEPT ![ip] = "expired"]
    /\ reply' = "none"
    /\ UNCHANGED <<writer, file, runtime, at, task, history>>

\* HAProxy is reloaded or restarted by somebody else: certificate scripts,
\* /api/reload, the supervisor.  It mixes with whatever is under way.
other_reload ==
    /\ runtime # file
    /\ runtime' = file
    /\ alone' = {} /\ clean' = (clean /\ NoneUnderWay)
    /\ reply' = "none"
    /\ UNCHANGED <<blocked_ips, writer, file, at, task, mishaps>>

\* manage-blocked-ips.sh goes past the table: "block" and "unblock" edit the file and
\* then send a command, "clear" only sends one.
ManageScript ==
    /\ "script" \in Mishaps /\ mishaps < MaxMishaps
    /\ mishaps' = mishaps + 1 /\ clean' = FALSE /\ alone' = {}
    /\ reply' = "none"
    /\ UNCHANGED <<blocked_ips, writer, at, task>>

manage_file(ip) ==
    /\ ManageScript
    /\ file' \in {file \cup {ip}, file \ {ip}}
    /\ UNCHANGED runtime

manage_runtime(ip) ==
    /\ ManageScript
    /\ runtime' \in {runtime \cup {ip}, runtime \ {ip}, {}}
    /\ UNCHANGED file

\* The gunicorn worker is recycled; SQLite rolls its transaction back.
worker_exits(t) ==
    /\ at[t] # "idle" /\ Mishap("exit")
    /\ GoTo(t, "idle")
    /\ task' = [task EXCEPT ![t] = NoTask]
    /\ writer' = IF writer = t THEN None ELSE writer
    /\ reply' = "none"
    /\ UNCHANGED <<blocked_ips, file, runtime>>
-----------------------------------------------------------------------------
\* A container whose init.py has written the map of what the table holds.
BlockedInit ==
    /\ blocked_ips \in [Ips -> {"none", "permanent"}]
    /\ writer = None
    /\ file = Blocked /\ runtime = Blocked
    /\ at = [t \in Handlers |-> "idle"]
    /\ task = [t \in Handlers |-> NoTask]
    /\ reply = "none"
    /\ alone = {} /\ clean = TRUE
    /\ mishaps = 0

BlockedRequest(t) ==
    \/ add_blocked_ip(t) \/ remove_blocked_ip(t) \/ temporary_block(t)
    \/ clear_expired_blocks(t) \/ sync_blocked_ips(t) \/ generate_config_map(t)

BlockedStep(t) ==
    \/ update_blocked_ips_map_read(t) \/ update_blocked_ips_map(t)
    \/ add_ip_to_runtime_map(t) \/ remove_ip_from_runtime_map(t)
    \/ runtime_map_lookup(t) \/ reload(t)
    \/ delete_expired(t) \/ commit(t)
    \/ sync_select(t) \/ sync_clear(t) \/ sync_fill(t) \/ sync_show(t)

BlockedNext ==
    \/ \E t \in Handlers : BlockedRequest(t) \/ BlockedStep(t) \/ worker_exits(t)
    \/ \E ip \in Ips : block_expires(ip) \/ manage_file(ip) \/ manage_runtime(ip)
    \/ other_reload

BlockedSpec == BlockedInit /\ [][BlockedNext]_blocked_vars
-----------------------------------------------------------------------------
(* Properties *)

\* "The FILE IS AUTHORITATIVE; this is only the no-reload fast path": once the
\* copies have been rebuilt with nobody in between, they agree whenever no
\* operation is under way, until the next failure or overlap - whatever drift
\* there was before.  (A sync rebuilds them only if HAProxy has emptied its map:
\* when an empty answer hides that it has not, addresses the table lacks may stay
\* until the next reload, and no read-back looks for them.)
Agree == clean /\ NoneUnderWay => file = Blocked /\ runtime = Blocked

Says(t, answers) == at'[t] = "idle" /\ reply' \in answers

TrueReply(t) ==
    LET j == task[t] IN
    /\ Adds(j) /\ Says(t, {"success", "fallback"}) => j.ip \in Blocked' \cap file'
    /\ Adds(j) /\ Says(t, {"success"}) => j.ip \in runtime'
    /\ j.op = "remove" /\ Says(t, {"success", "fallback"}) => j.ip \notin Blocked' \cup file'
    /\ j.op = "remove" /\ Says(t, {"success"}) => j.ip \notin runtime'
    /\ j.op = "expire" /\ Says(t, {"success"}) => j.gone \cap (Blocked' \cup runtime') = {}
    /\ j.op = "sync" /\ Says(t, {"success"}) =>
        Blocked' \subseteq runtime' /\ (j.cleared => runtime' = Blocked')

\* What the answer to an operation nobody overlapped says is true: "success" is
\* enforced now, "fallback" will be by the next reload ("degrade to 'enforced on
\* reload', not to 'not blocked'"), and a sync that succeeds has left HAProxy
\* with every address of the table, and with no other one if its map was cleared.
RepliesHonest == [][\A t \in alone : TrueReply(t)]_blocked_vars

\* "Remove expired temporary IP blocks": an operation nobody overlaps deletes no
\* row of a block that has not expired, except the one remove_blocked_ip() names.
\* (A block that is renewed between the SELECT and the DELETE is deleted with it.)
OnlyExpiredCleared ==
    [][\A ip \in Ips :
        blocked_ips[ip] \in {"permanent", "temporary"} /\ blocked_ips'[ip] = "none"
            => \E t \in Handlers :
                    \/ at[t] = "idle" /\ task'[t].op = "remove"
                    \/ at[t] = "commit" /\ t \notin alone]_blocked_vars
=============================================================================
