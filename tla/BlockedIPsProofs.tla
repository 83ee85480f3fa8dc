--------------------------- MODULE BlockedIPsProofs ---------------------------
(***************************************************************************)
(* That table, map file and runtime map of the blocked addresses agree     *)
(* once they have been rebuilt, and that the answers are true, for any     *)
(* number of threads, addresses and failures.  The invariant follows the   *)
(* one operation that nothing has overlapped: what its rows, its snapshot, *)
(* the file and the runtime map are at each place.                         *)
(***************************************************************************)
EXTENDS BlockedIPs, TLAPS

\* An operation that nothing has overlapped is the only one under way, ...
Serial == \A t \in alone, s \in Handlers : at[s] # "idle" => s = t

\* ... and nothing is overlapped while the copies are undisturbed.
Watched == clean => \A t \in Handlers : at[t] # "idle" => t \in alone

\* Which operations come to which place.
OpAt(t) ==
    LET j == task[t] IN
    /\ at[t] # "idle" => j.op # "none"
    /\ at[t] \in {"delete", "commit"} => j.op = "expire"
    /\ at[t] \in {"select", "clear", "fill", "show"} => j.op = "sync"
    /\ at[t] \in {"command", "lookup"} =>
        /\ j.op \in {"add", "remove", "temporary", "expire"} /\ j.ip \in Ips
        /\ j.op = "expire" => j.ip \in j.gone
    /\ at[t] = "reload" => j.op \in {"add", "remove", "generate"}
    /\ j.op \in {"add", "remove", "temporary"} => j.ip \in Ips
    /\ j.gone # {} => j.op = "expire"
    /\ at[t] = "commit" => j.gone # {}

InMap == {"map_read", "map_write"}

\* The row asked for is there, or gone; what is being deleted has expired.
RowsKnown(t) ==
    LET j == task[t] IN
    /\ Adds(j) => j.ip \in Blocked
    /\ j.op = "remove" => j.ip \notin Blocked
    /\ j.op = "expire" /\ at[t] \notin InMap =>
        \A ip \in j.gone \cup j.todo : blocked_ips[ip] = "expired"
    /\ j.op = "expire" /\ at[t] \in InMap => j.gone \cap Blocked = {}

\* What the last SELECT returned is still the table.
SnapshotHolds(t) ==
    \/ at[t] \in {"map_write", "reload", "clear", "fill", "show"}
    \/ at[t] \in {"command", "lookup"} /\ task[t].op # "expire"
    => task[t].snap = Blocked

\* Whoever looks at the result of the rewriting goes on only with the file rewritten.
FileKnown(t) ==
    task[t].op \in {"add", "remove", "temporary", "sync"} /\ at[t] \notin InMap =>
        file = Blocked

\* The addresses of an expiring operation whose command has been judged.
Judged(t) == IF at[t] \in {"command", "lookup"} THEN task[t].gone \ {task[t].ip} ELSE task[t].gone

\* No failed command, no address left or missing; a sync whose clear was executed
\* fills from nothing.
RuntimeKnown(t) ==
    LET j == task[t] IN
    /\ at[t] = "reload" /\ j.ok /\ j.op = "add" => j.ip \in runtime
    /\ at[t] = "reload" /\ j.ok /\ j.op = "remove" => j.ip \notin runtime
    /\ j.op = "expire" /\ j.ok => Judged(t) \cap runtime = {}
    /\ at[t] = "clear" => j.todo = j.snap
    /\ at[t] \in {"fill", "show"} /\ j.cleared => runtime \cup j.todo \subseteq j.snap

\* How far the three copies are apart, when nothing has disturbed them.
CopiesKnown(t) ==
    LET j == task[t] IN
    /\ at[t] \in InMap /\ j.op # "expire" => file = runtime
    /\ at[t] \in InMap /\ j.op \in {"sync", "generate"} => runtime = Blocked
    /\ at[t] \in InMap /\ j.op = "expire" => runtime = Blocked
    /\ at[t] \in InMap \cup {"command"} /\ Adds(j) => Blocked = runtime \cup {j.ip}
    /\ at[t] \in InMap \cup {"command"} /\ j.op = "remove" => Blocked = runtime \ {j.ip}
    /\ at[t] \notin InMap => file = Blocked
    /\ at[t] \in {"lookup", "reload", "select", "clear", "show"} /\ j.op # "expire" => runtime = Blocked
    /\ at[t] = "fill" => runtime \cup j.todo = Blocked
    /\ at[t] \in {"delete", "lookup", "commit"} /\ j.op = "expire" => runtime = Blocked \ j.gone
    /\ at[t] = "command" /\ j.op = "expire" => runtime \ {j.ip} = Blocked \ j.gone

Known(t) ==
    /\ RowsKnown(t) /\ SnapshotHolds(t) /\ FileKnown(t) /\ RuntimeKnown(t)
    /\ clean => CopiesKnown(t)

BlockedInv ==
    /\ BlockedTypeOK /\ Serial /\ Watched /\ Agree
    /\ \A t \in Handlers : OpAt(t)
    /\ \A t \in alone : at[t] # "idle" => Known(t)
-----------------------------------------------------------------------------
(* Types *)

TypeInv == BlockedTypeOK /\ \A t \in Handlers : OpAt(t)

\* Thread t is at label with the task j, and nobody else has moved.
Turn(t, label, j) ==
    at' = [at EXCEPT ![t] = label] /\ task' = [task EXCEPT ![t] = j]

LEMMA TurnNext ==
    ASSUME BlockedTypeOK, NEW t \in Handlers, NEW label \in Places, NEW j \in Task, Turn(t, label, j)
    PROVE  /\ at' \in [Handlers -> Places] /\ task' \in [Handlers -> Task]
           /\ at'[t] = label /\ task'[t] = j
           /\ \A s \in Handlers \ {t} : at'[s] = at[s] /\ task'[s] = task[s]
  BY DEF BlockedTypeOK, Turn

LEMMA NoTaskType == NoTask \in Task /\ NoTask.op = "none" /\ NoTask.gone = {} /\ NoTask.todo = {}
                    /\ NoTask.snap = {} /\ NoTask.ok = TRUE /\ "idle" \in Places
  BY DEF NoTask, Task, Ops, Places

LEMMA PlaceNames ==
    /\ {"idle", "map_read", "map_write", "command", "lookup", "reload", "delete", "commit",
        "select", "clear", "fill", "show"} = Places
    /\ {"none", "success", "fallback", "partial", "error"} = Replies
  BY DEF Places, Replies

\* What one thread's step must show for the types to hold after it.
LEMMA KeepType ==
    ASSUME TypeInv, NEW t \in Handlers,
           at' \in [Handlers -> Places], task' \in [Handlers -> Task],
           \A s \in Handlers \ {t} : at'[s] = at[s] /\ task'[s] = task[s],
           OpAt(t)', at'[t] = "idle" => task'[t] = NoTask,
           writer' \in Handlers \cup {None},
           writer' = t <=> task'[t].gone # {} /\ at'[t] \notin {"map_read", "map_write"},
           \A s \in Handlers \ {t} : writer' = s <=> writer = s,
           blocked_ips' \in [Ips -> Row], file' \in SUBSET Ips, runtime' \in SUBSET Ips,
           reply' \in Replies, alone' \in SUBSET Handlers, clean' \in BOOLEAN, mishaps' \in Nat
    PROVE  TypeInv'
  <1>1. \A s \in Handlers \ {t} : OpAt(s)'
    BY DEF TypeInv, OpAt
  <1>2. at'[t] # "idle" => task'[t] # NoTask
    BY NoTaskType DEF OpAt
  <1>3. \A s \in Handlers : at'[s] = "idle" <=> task'[s] = NoTask
    BY <1>2 DEF TypeInv, BlockedTypeOK
  <1>4. \A s \in Handlers :
          writer' = s <=> task'[s].gone # {} /\ at'[s] \notin {"map_read", "map_write"}
    BY DEF TypeInv, BlockedTypeOK
  <1> QED BY <1>1, <1>3, <1>4 DEF TypeInv, BlockedTypeOK

LEMMA HistoryType ==
    ASSUME BlockedTypeOK, NEW t, NEW kind, Mishap(kind) \/ Rebuilt(t) \/ UNCHANGED history
    PROVE  /\ alone' = alone /\ alone' \in SUBSET Handlers
           /\ clean' \in BOOLEAN /\ mishaps' \in Nat
           /\ clean' => clean \/ t \in alone
  <1>1. alone' = alone /\ alone' \in SUBSET Handlers /\ mishaps' \in Nat
    BY DEF BlockedTypeOK, Mishap, Rebuilt, history
  <1>2. clean \in BOOLEAN
    BY DEF BlockedTypeOK
  <1>3. CASE Mishap(kind)
    BY <1>1, <1>3, Zenon DEF Mishap
  <1>4. CASE Rebuilt(t)
    BY <1>1, <1>4, Zenon DEF Rebuilt
  <1>5. CASE UNCHANGED history
    BY <1>1, <1>2, <1>5, Zenon DEF history
  <1> QED BY <1>3, <1>4, <1>5

\* A command does all or nothing, and undisturbed it does all.
LEMMA Command ==
    ASSUME BlockedTypeOK, NEW new \in SUBSET Ips, Executed(new) \/ Ignored \/ Refused(new)
    PROVE  /\ alone' = alone /\ alone' \in SUBSET Handlers
           /\ clean' \in BOOLEAN /\ mishaps' \in Nat
           /\ runtime' \in {runtime, new} /\ runtime' \in SUBSET Ips
           /\ clean' => clean /\ runtime' = new
           /\ Ignored \/ Refused(new) => ~ clean'
  <1>1. alone' = alone /\ alone' \in SUBSET Handlers /\ mishaps' \in Nat
        /\ runtime' \in {runtime, new} /\ runtime' \in SUBSET Ips
    BY DEF BlockedTypeOK, Executed, Ignored, Refused, Mishap, history
  <1>2. clean \in BOOLEAN
    BY DEF BlockedTypeOK
  <1>3. CASE Executed(new) /\ ~ Ignored /\ ~ Refused(new)
    <2>1. clean' = clean /\ runtime' = new
      BY <1>3 DEF Executed, history
    <2> QED BY <1>1, <1>2, <1>3, <2>1, Zenon
  <1>4. CASE Ignored \/ Refused(new)
    <2>1. clean' = FALSE
      BY <1>4, Zenon DEF Ignored, Refused, Mishap
    <2> QED BY <1>1, <2>1, Zenon
  <1> QED BY <1>3, <1>4, Zenon

LEMMA RequestTypes ==
    ASSUME TypeInv, NEW t \in Handlers, BlockedRequest(t)
    PROVE  TypeInv' /\ at[t] = "idle" /\ task[t] = NoTask
  <1>0. BlockedTypeOK /\ blocked_ips \in [Ips -> Row] /\ Blocked \subseteq Ips
    BY DEF TypeInv, BlockedTypeOK, Blocked
  <1>1. ASSUME NEW op \in Ops, NEW ip \in Ips \cup {None},
               op \in {"add", "remove", "temporary"} => ip \in Ips,
               blocked_ips' \in [Ips -> Row], UNCHANGED <<writer, file, runtime>>,
               Begin(t, op, "map_read", ip)
        PROVE  TypeInv'
    <2> DEFINE j == [NoTask EXCEPT !.op = op, !.ip = ip]
    <2>1. j \in Task /\ j.op = op /\ j.ip = ip /\ j.gone = {} /\ "map_read" \in Places
      BY <1>1 DEF NoTask, Task, Places
    <2>2. Turn(t, "map_read", j) /\ at[t] = "idle" /\ UNCHANGED mishaps /\ reply' = "none"
          /\ alone' \in SUBSET Handlers /\ clean' \in BOOLEAN
      BY <1>0, <1>1 DEF Begin, Turn, GoTo, BlockedTypeOK
    <2> HIDE DEF j
    <2>3. /\ at' \in [Handlers -> Places] /\ task' \in [Handlers -> Task]
          /\ at'[t] = "map_read" /\ task'[t] = j
          /\ \A s \in Handlers \ {t} : at'[s] = at[s] /\ task'[s] = task[s]
      BY <1>0, <2>1, <2>2, TurnNext
    <2>4. OpAt(t)'
      BY <1>1, <2>1, <2>3 DEF OpAt, Ops
    <2>5. writer # t
      BY <1>0, <2>2, NoTaskType DEF BlockedTypeOK
    <2> QED BY <1>0, <1>1, <2>1, <2>2, <2>3, <2>4, <2>5, PlaceNames, KeepType DEF BlockedTypeOK
  <1>2. ASSUME NEW ip \in Ips, NEW row \in Row, blocked_ips' = [blocked_ips EXCEPT ![ip] = row]
        PROVE  blocked_ips' \in [Ips -> Row]
    BY <1>0, <1>2
  <1>3. ASSUME add_blocked_ip(t) \/ remove_blocked_ip(t) \/ temporary_block(t)
        PROVE  TypeInv'
    <2>1. PICK op \in {"add", "remove", "temporary"}, ip \in Ips, row \in Row :
            /\ blocked_ips' = [blocked_ips EXCEPT ![ip] = row]
            /\ Begin(t, op, "map_read", ip) /\ UNCHANGED <<writer, file, runtime>>
      BY <1>0, <1>3 DEF add_blocked_ip, remove_blocked_ip, temporary_block, Row
    <2>2. op \in Ops
      BY DEF Ops
    <2> QED BY <1>1, <1>2, <2>1, <2>2
  <1>4. ASSUME sync_blocked_ips(t) \/ generate_config_map(t)
        PROVE  TypeInv'
    <2>1. PICK op \in {"sync", "generate"} :
            /\ UNCHANGED <<blocked_ips, writer, file, runtime>>
            /\ Begin(t, op, "map_read", None)
      BY <1>4 DEF sync_blocked_ips, generate_config_map
    <2>2. op \in Ops
      BY DEF Ops
    <2> QED BY <1>0, <1>1, <2>1, <2>2
  <1>5. ASSUME clear_expired_blocks(t)
        PROVE  TypeInv'
    <2> DEFINE j == [NoTask EXCEPT !.op = "expire", !.todo = ExpiredBlocks]
    <2>1. j \in Task /\ j.op = "expire" /\ j.gone = {} /\ "delete" \in Places
      BY DEF NoTask, Task, Places, ExpiredBlocks, Ops
    <2>2. Turn(t, "delete", j) /\ at[t] = "idle" /\ UNCHANGED <<blocked_ips, writer, file, runtime, mishaps>>
          /\ reply' = "none" /\ alone' \in SUBSET Handlers /\ clean' \in BOOLEAN
      BY <1>0, <1>5 DEF clear_expired_blocks, Turn, GoTo, BlockedTypeOK
    <2> HIDE DEF j
    <2>3. /\ at' \in [Handlers -> Places] /\ task' \in [Handlers -> Task]
          /\ at'[t] = "delete" /\ task'[t] = j
          /\ \A s \in Handlers \ {t} : at'[s] = at[s] /\ task'[s] = task[s]
      BY <1>0, <2>1, <2>2, TurnNext
    <2>4. OpAt(t)'
      BY <2>1, <2>3 DEF OpAt
    <2>5. writer # t
      BY <1>0, <2>2, NoTaskType DEF BlockedTypeOK
    <2> QED BY <1>0, <2>1, <2>2, <2>3, <2>4, <2>5, PlaceNames, KeepType DEF BlockedTypeOK
  <1>6. at[t] = "idle"
    BY DEF BlockedRequest, add_blocked_ip, remove_blocked_ip, temporary_block, clear_expired_blocks,
       sync_blocked_ips, generate_config_map, Begin
  <1> QED BY <1>0, <1>3, <1>4, <1>5, <1>6 DEF BlockedRequest, BlockedTypeOK
-----------------------------------------------------------------------------
(* Where the steps of an operation lead *)

\* The same operation, with the same addresses, as far as types go.
SameOp(t, j) == j.op = task[t].op /\ j.ip = task[t].ip /\ j.gone = task[t].gone

\* The operation may come to this place from where it is.
Fits(t, label) ==
    LET op == task[t].op IN
    /\ label \in Places \ {"idle"}
    /\ op = "expire" => (label \in InMap <=> at[t] \in InMap)
    /\ label \in {"delete", "commit"} => op = "expire" /\ at[t] \in {"command", "lookup"}
    /\ label \in {"select", "clear", "fill", "show"} => op = "sync"
    /\ label \in {"command", "lookup"} =>
        op \in {"add", "remove", "temporary"} \/ at[t] \in {"command", "lookup"}
    /\ label = "reload" => op \in {"add", "remove", "generate"}

LEMMA StepTurn ==
    ASSUME TypeInv, NEW t \in Handlers, at[t] # "idle", NEW label, NEW j \in Task, Turn(t, label, j),
           \/ label = "idle" /\ j = NoTask /\ writer # t
           \/ Fits(t, label) /\ SameOp(t, j),
           UNCHANGED <<blocked_ips, writer>>,
           file' \in SUBSET Ips, runtime' \in SUBSET Ips, reply' \in Replies,
           alone' \in SUBSET Handlers, clean' \in BOOLEAN, mishaps' \in Nat
    PROVE  TypeInv'
  <1>0. BlockedTypeOK /\ OpAt(t) /\ label \in Places
    BY NoTaskType DEF TypeInv, Fits
  <1>1. /\ at' \in [Handlers -> Places] /\ task' \in [Handlers -> Task]
        /\ at'[t] = label /\ task'[t] = j
        /\ \A s \in Handlers \ {t} : at'[s] = at[s] /\ task'[s] = task[s]
    BY <1>0, TurnNext
  <1>2. CASE label = "idle" /\ j = NoTask /\ writer # t
    <2>1. OpAt(t)'
      BY <1>1, <1>2, NoTaskType DEF OpAt
    <2> QED BY <1>0, <1>1, <1>2, <2>1, NoTaskType, KeepType DEF BlockedTypeOK
  <1>3. CASE Fits(t, label) /\ SameOp(t, j)
    <2>1. OpAt(t)'
      BY <1>0, <1>1, <1>3 DEF OpAt, Fits, SameOp
    <2>2. writer' = t <=> j.gone # {} /\ label \notin {"map_read", "map_write"}
      BY <1>0, <1>3 DEF BlockedTypeOK, OpAt, Fits, SameOp, InMap
    <2> QED BY <1>0, <1>1, <1>3, <2>1, <2>2, KeepType DEF BlockedTypeOK, Fits
  <1> QED BY <1>2, <1>3

\* What follows the rewriting of the map file.
LEMMA AfterMapTurn ==
    ASSUME NEW t \in Handlers, NEW written \in BOOLEAN, AfterMap(t, written)
    PROVE  /\ reply' \in Replies
           /\ \/ /\ Turn(t, "idle", NoTask)
                 /\ task[t].op = "expire" /\ (reply' = "success" => task[t].ok) /\ reply' # "fallback"
              \/ Turn(t, "idle", NoTask) /\ ~ written /\ reply' = "error"
                 /\ task[t].op \in {"add", "remove", "temporary", "sync"}
              \/ Turn(t, "reload", task[t]) /\ task[t].op = "generate"
              \/ Turn(t, "select", task[t]) /\ task[t].op = "sync" /\ written
              \/ /\ Turn(t, "command", task[t]) /\ written
                 /\ task[t].op \in {"add", "remove", "temporary"}
  BY DEF AfterMap, Answer, Continue, GoTo, Turn, Replies

\* The task after a command that was done, or not.
Told(t, done) == [task[t] EXCEPT !.ok = @ /\ done]

LEMMA ToldIs ==
    ASSUME BlockedTypeOK, NEW t \in Handlers, NEW done \in BOOLEAN
    PROVE  /\ Told(t, done) \in Task /\ SameOp(t, Told(t, done))
           /\ Told(t, done).snap = task[t].snap /\ Told(t, done).todo = task[t].todo
           /\ Told(t, done).ok = (task[t].ok /\ done)
  <1>1. task[t] \in Task /\ task[t].ok \in BOOLEAN
    BY DEF BlockedTypeOK, Task
  <1>2. (task[t].ok /\ done) \in BOOLEAN
    OBVIOUS
  <1> DEFINE c == (task[t].ok /\ done)
  <1>3. Told(t, done) = [task[t] EXCEPT !.ok = c]
    BY DEF Told
  <1> HIDE DEF c
  <1>4. Told(t, done).ok = c
    BY <1>1, <1>3 DEF Task
  <1>5. c \in BOOLEAN
    BY <1>2 DEF c
  <1>6. Told(t, done) \in Task /\ SameOp(t, Told(t, done))
        /\ Told(t, done).snap = task[t].snap /\ Told(t, done).todo = task[t].todo
    BY <1>1, <1>3, <1>5 DEF Task, SameOp
  <1> QED BY <1>4, <1>6, Zenon DEF c

LEMMA AfterCommandTurn ==
    ASSUME NEW t \in Handlers, NEW done \in BOOLEAN, AfterCommand(t, done)
    PROVE  /\ reply' \in Replies
           /\ \/ Turn(t, "reload", Told(t, done)) /\ task[t].op \in {"add", "remove"} /\ reply' = "none"
              \/ /\ Turn(t, "idle", NoTask) /\ task[t].op = "temporary"
                 /\ reply' \in {"success", "fallback"} /\ (reply' = "success" => done)
              \/ /\ Turn(t, IF Told(t, done).todo = {} THEN "commit" ELSE "delete", Told(t, done))
                 /\ task[t].op \notin {"add", "remove", "temporary"} /\ reply' = "none"
  <1>0. Told(t, done).op = task[t].op
    BY DEF Told
  <1>1. CASE task[t].op \in {"add", "remove"}
    BY <1>0, <1>1 DEF AfterCommand, Told, Continue, GoTo, Turn, Replies
  <1>2. CASE task[t].op = "temporary"
    BY <1>0, <1>2 DEF AfterCommand, Told, Answer, GoTo, Turn, Replies
  <1>3. CASE task[t].op \notin {"add", "remove", "temporary"}
    BY <1>0, <1>3 DEF AfterCommand, Told, Continue, GoTo, Turn, Replies
  <1> QED BY <1>1, <1>2, <1>3

\* A thread in an operation has a task; only clear_expired_blocks() holds the lock.
LEMMA Here ==
    ASSUME TypeInv, NEW t \in Handlers
    PROVE  /\ BlockedTypeOK /\ OpAt(t) /\ task[t] \in Task
           /\ blocked_ips \in [Ips -> Row] /\ file \in SUBSET Ips /\ runtime \in SUBSET Ips
           /\ Blocked \subseteq Ips /\ alone \in SUBSET Handlers /\ clean \in BOOLEAN
           /\ mishaps \in Nat /\ task[t].todo \subseteq Ips
           /\ writer = t => task[t].op = "expire" /\ at[t] \notin InMap
  BY DEF TypeInv, BlockedTypeOK, Blocked, OpAt, Task, InMap

LEMMA MapTypes ==
    ASSUME TypeInv, NEW t \in Handlers, update_blocked_ips_map_read(t) \/ update_blocked_ips_map(t)
    PROVE  TypeInv'
  <1>1. CASE update_blocked_ips_map_read(t)
    <2> DEFINE j == [task[t] EXCEPT !.snap = Blocked]
    <2>1. j \in Task /\ SameOp(t, j)
      BY Here DEF Task, SameOp
    <2>2. Turn(t, "map_write", j) /\ reply' = "none" /\ at[t] = "map_read"
          /\ UNCHANGED <<blocked_ips, writer, file, runtime, alone, clean, mishaps>>
      BY <1>1 DEF update_blocked_ips_map_read, Continue, GoTo, Turn, history
    <2> HIDE DEF j
    <2>3. Fits(t, "map_write")
      BY <2>2, PlaceNames DEF Fits, InMap
    <2> QED BY <2>1, <2>2, <2>3, Here, StepTurn, PlaceNames
  <1>2. CASE update_blocked_ips_map(t)
    <2>1. PICK written \in BOOLEAN : AfterMap(t, written)
      BY <1>2 DEF update_blocked_ips_map
    <2>2. /\ at[t] = "map_write" /\ UNCHANGED <<blocked_ips, writer, runtime>> /\ file' \in {file, task[t].snap}
          /\ UNCHANGED history \/ Mishap("write")
      BY <1>2 DEF update_blocked_ips_map
    <2>3. alone' \in SUBSET Handlers /\ clean' \in BOOLEAN /\ mishaps' \in Nat
      BY <2>2, Here, HistoryType
    <2>4. file' \in SUBSET Ips /\ writer # t
      BY <2>2, Here DEF Task, InMap
    <2>5. /\ reply' \in Replies
          /\ \/ Turn(t, "idle", NoTask)
             \/ \E label \in {"reload", "select", "command"} : Turn(t, label, task[t]) /\ Fits(t, label)
      BY <2>1, <2>2, AfterMapTurn, PlaceNames DEF Fits, InMap
    <2>6. CASE Turn(t, "idle", NoTask)
      BY <2>2, <2>3, <2>4, <2>5, <2>6, Here, NoTaskType, StepTurn
    <2>7. CASE \E label \in {"reload", "select", "command"} : Turn(t, label, task[t]) /\ Fits(t, label)
      BY <2>2, <2>3, <2>4, <2>5, <2>7, Here, StepTurn DEF SameOp
    <2> QED BY <2>5, <2>6, <2>7
  <1> QED BY <1>1, <1>2

\* What a command leads to, whether it is executed, refused or read back.
LEMMA AfterCommandTypes ==
    ASSUME TypeInv, NEW t \in Handlers, at[t] \in {"command", "lookup"},
           NEW done \in BOOLEAN, AfterCommand(t, done),
           UNCHANGED <<blocked_ips, writer, file>>, runtime' \in SUBSET Ips,
           alone' \in SUBSET Handlers, clean' \in BOOLEAN, mishaps' \in Nat
    PROVE  TypeInv'
  <1> DEFINE j == Told(t, done)
  <1>0. j \in Task /\ SameOp(t, j) /\ reply' \in Replies
    BY Here, ToldIs, AfterCommandTurn
  <1>1. CASE Turn(t, "idle", NoTask) /\ task[t].op = "temporary"
    BY <1>0, <1>1, Here, NoTaskType, StepTurn
  <1>2. CASE \E label \in {"reload", "commit", "delete"} : Turn(t, label, j) /\ Fits(t, label)
    BY <1>0, <1>2, Here, StepTurn
  <1>3. /\ task[t].op \in {"add", "remove"} => Fits(t, "reload")
        /\ task[t].op \notin {"add", "remove", "temporary"} => Fits(t, "commit") /\ Fits(t, "delete")
    BY Here, PlaceNames DEF Fits, InMap, OpAt
  <1> QED BY <1>1, <1>2, <1>3, AfterCommandTurn

LEMMA CommandTypes ==
    ASSUME TypeInv, NEW t \in Handlers,
           add_ip_to_runtime_map(t) \/ remove_ip_from_runtime_map(t) \/ runtime_map_lookup(t)
    PROVE  TypeInv'
  <1>1. CASE add_ip_to_runtime_map(t) \/ remove_ip_from_runtime_map(t)
    <2>0. task[t].ip \in Ips /\ at[t] = "command" /\ UNCHANGED <<blocked_ips, writer, file>>
      BY <1>1, Here DEF add_ip_to_runtime_map, remove_ip_from_runtime_map, OpAt
    <2>1. PICK new \in SUBSET Ips :
            \/ (Executed(new) \/ Ignored) /\ Continue(t, "lookup", task[t])
            \/ Refused(new) /\ AfterCommand(t, FALSE)
      BY <1>1, <2>0, Here DEF add_ip_to_runtime_map, remove_ip_from_runtime_map
    <2>2. alone' \in SUBSET Handlers /\ clean' \in BOOLEAN /\ mishaps' \in Nat /\ runtime' \in SUBSET Ips
      BY <2>1, Here, Command
    <2>3. CASE AfterCommand(t, FALSE)
      BY <2>0, <2>2, <2>3, AfterCommandTypes
    <2>4. CASE Continue(t, "lookup", task[t])
      <3>1. Turn(t, "lookup", task[t]) /\ reply' \in Replies
        BY <2>4, PlaceNames DEF Continue, GoTo, Turn
      <3>2. Fits(t, "lookup") /\ SameOp(t, task[t])
        BY <2>0, PlaceNames DEF Fits, InMap, SameOp
      <3> QED BY <2>0, <2>2, <3>1, <3>2, Here, StepTurn
    <2> QED BY <2>1, <2>3, <2>4
  <1>2. CASE runtime_map_lookup(t)
    <2>1. PICK done \in BOOLEAN : AfterCommand(t, done)
      BY <1>2 DEF runtime_map_lookup
    <2>2. /\ at[t] = "lookup" /\ UNCHANGED <<blocked_ips, writer, file, runtime>>
          /\ Mishap("rejected") \/ Mishap("timeout") \/ UNCHANGED history
      BY <1>2 DEF runtime_map_lookup
    <2>3. alone' \in SUBSET Handlers /\ clean' \in BOOLEAN /\ mishaps' \in Nat
      BY <2>2, Here, HistoryType
    <2> QED BY <2>1, <2>2, <2>3, Here, AfterCommandTypes
  <1> QED BY <1>1, <1>2

\* An answer ends an operation that does not hold the lock.
LEMMA AnswerTypes ==
    ASSUME TypeInv, NEW t \in Handlers, at[t] # "idle", writer # t,
           NEW answer \in Replies, Answer(t, answer),
           UNCHANGED <<blocked_ips, writer, file>>, runtime' \in SUBSET Ips,
           alone' \in SUBSET Handlers, clean' \in BOOLEAN, mishaps' \in Nat
    PROVE  TypeInv'
  <1>1. Turn(t, "idle", NoTask) /\ reply' \in Replies
    BY DEF Answer, GoTo, Turn
  <1> QED BY <1>1, Here, NoTaskType, StepTurn

LEMMA ReloadTypes ==
    ASSUME TypeInv, NEW t \in Handlers, reload(t)
    PROVE  TypeInv'
  <1>0. at[t] = "reload" /\ UNCHANGED <<blocked_ips, writer, file>> /\ writer # t
    BY Here DEF reload, OpAt
  <1>1. PICK answer \in {"success", "fallback"} : Answer(t, answer)
    BY DEF reload
  <1>2. alone' \in SUBSET Handlers /\ clean' \in BOOLEAN /\ mishaps' \in Nat /\ runtime' \in SUBSET Ips
    <2>1. CASE Refused(file) \/ Ignored
      BY <2>1, Here, Command
    <2>2. CASE runtime' = file /\ (Rebuilt(t) \/ UNCHANGED history)
      BY <2>2, Here, HistoryType
    <2> QED BY <2>1, <2>2 DEF reload
  <1>3. answer \in Replies
    BY PlaceNames
  <1> QED BY <1>0, <1>1, <1>2, <1>3, AnswerTypes

LEMMA SyncTypes ==
    ASSUME TypeInv, NEW t \in Handlers, sync_select(t) \/ sync_clear(t) \/ sync_fill(t) \/ sync_show(t)
    PROVE  TypeInv'
  <1>0. /\ at[t] \in {"select", "clear", "fill", "show"} /\ UNCHANGED <<blocked_ips, writer, file>>
        /\ task[t].op = "sync" /\ writer # t
    <2>1. at[t] \in {"select", "clear", "fill", "show"} /\ UNCHANGED <<blocked_ips, writer, file>>
      BY DEF sync_select, sync_clear, sync_fill, sync_show
    <2> QED BY <2>1, Here DEF OpAt
  <1>1. ASSUME NEW label \in {"clear", "fill", "show"}, NEW j \in Task, SameOp(t, j),
               Continue(t, label, j), runtime' \in SUBSET Ips,
               alone' \in SUBSET Handlers, clean' \in BOOLEAN, mishaps' \in Nat
        PROVE  TypeInv'
    <2>1. Turn(t, label, j) /\ reply' \in Replies
      BY <1>1, PlaceNames DEF Continue, GoTo, Turn
    <2>2. Fits(t, label)
      BY <1>0, PlaceNames DEF Fits, InMap
    <2> QED BY <1>0, <1>1, <2>1, <2>2, Here, StepTurn
  <1>2. ASSUME sync_select(t) PROVE TypeInv'
    <2>1. [task[t] EXCEPT !.snap = Blocked, !.todo = Blocked] \in Task
          /\ SameOp(t, [task[t] EXCEPT !.snap = Blocked, !.todo = Blocked])
      BY Here DEF Task, SameOp
    <2> QED BY <1>1, <1>2, <2>1, Here DEF sync_select, history
  <1>3. ASSUME sync_clear(t) PROVE TypeInv'
    <2> DEFINE k(done) == [task[t] EXCEPT !.cleared = done]
    <2>1. \/ /\ Executed({}) \/ Ignored
             /\ \E label \in {"fill", "show"}, done \in BOOLEAN : Continue(t, label, k(done))
          \/ Refused({}) /\ Answer(t, "error")
      BY <1>3 DEF sync_clear
    <2>2. alone' \in SUBSET Handlers /\ clean' \in BOOLEAN /\ mishaps' \in Nat /\ runtime' \in SUBSET Ips
      BY <2>1, Here, Command
    <2>3. \A done \in BOOLEAN : k(done) \in Task /\ SameOp(t, k(done))
      BY Here DEF Task, SameOp
    <2> HIDE DEF k
    <2> QED BY <1>0, <1>1, <2>1, <2>2, <2>3, AnswerTypes, PlaceNames
  <1>4. ASSUME sync_fill(t) PROVE TypeInv'
    <2>1. PICK ip \in task[t].todo, label \in {"fill", "show"} :
            /\ Executed(runtime \cup {ip}) \/ Ignored \/ Refused(runtime \cup {ip})
            /\ Continue(t, label, [task[t] EXCEPT !.todo = task[t].todo \ {ip}])
      BY <1>4 DEF sync_fill
    <2>2. alone' \in SUBSET Handlers /\ clean' \in BOOLEAN /\ mishaps' \in Nat /\ runtime' \in SUBSET Ips
      <3>1. runtime \cup {ip} \in SUBSET Ips
        BY <2>1, Here
      <3> QED BY <2>1, <3>1, Here, Command
    <2>3. [task[t] EXCEPT !.todo = task[t].todo \ {ip}] \in Task
          /\ SameOp(t, [task[t] EXCEPT !.todo = task[t].todo \ {ip}])
      BY Here DEF Task, SameOp
    <2> QED BY <1>1, <2>1, <2>2, <2>3
  <1>5. ASSUME sync_show(t) PROVE TypeInv'
    <2>1. PICK answer \in {"error", "success", "partial"} :
            /\ Answer(t, answer) /\ UNCHANGED runtime
            /\ UNCHANGED history \/ Rebuilt(t) \/ Mishap("rejected") \/ Mishap("timeout")
      BY <1>5 DEF sync_show
    <2>2. alone' \in SUBSET Handlers /\ clean' \in BOOLEAN /\ mishaps' \in Nat /\ runtime' \in SUBSET Ips
      BY <2>1, Here, HistoryType
    <2> QED BY <1>0, <2>1, <2>2, AnswerTypes, PlaceNames
  <1> QED BY <1>2, <1>3, <1>4, <1>5

LEMMA ExpireTypes ==
    ASSUME TypeInv, NEW t \in Handlers, delete_expired(t) \/ commit(t) \/ worker_exits(t)
    PROVE  TypeInv'
  <1> USE BlockedAssumption
  <1>1. ASSUME NEW ip \in task[t].todo, at[t] = "delete", writer \in {None, t}, writer' = t,
               Continue(t, "command", [task[t] EXCEPT !.ip = ip, !.todo = @ \ {ip}, !.gone = @ \cup {ip}]),
               UNCHANGED <<blocked_ips, file, runtime, history>>
        PROVE  TypeInv'
    <2> DEFINE j == [task[t] EXCEPT !.ip = ip, !.todo = @ \ {ip}, !.gone = @ \cup {ip}]
    <2>1. ip \in Ips /\ j \in Task /\ j.op = "expire" /\ j.ip = ip /\ ip \in j.gone
      <3>1. ip \in Ips /\ task[t].op = "expire" /\ task[t] \in Task
        BY <1>1, Here DEF OpAt
      <3>2. task[t].todo \ {ip} \in SUBSET Ips /\ task[t].gone \cup {ip} \in SUBSET Ips
        BY <3>1 DEF Task
      <3> QED BY <3>1, <3>2 DEF Task
    <2>2. Turn(t, "command", j) /\ reply' \in Replies /\ "command" \in Places
          /\ UNCHANGED <<alone, clean, mishaps>>
      BY <1>1, PlaceNames DEF Continue, GoTo, Turn, history
    <2> HIDE DEF j
    <2>3. /\ at' \in [Handlers -> Places] /\ task' \in [Handlers -> Task]
          /\ at'[t] = "command" /\ task'[t] = j
          /\ \A s \in Handlers \ {t} : at'[s] = at[s] /\ task'[s] = task[s]
      BY <2>1, <2>2, Here, TurnNext
    <2>4. OpAt(t)'
      BY <2>1, <2>3 DEF OpAt
    <2> QED BY <1>1, <2>1, <2>2, <2>3, <2>4, Here, KeepType
  <1>2. ASSUME at[t] = "delete", writer \notin {None, t}, UNCHANGED writer, Answer(t, "error"),
               UNCHANGED <<blocked_ips, file, runtime, history>>
        PROVE  TypeInv'
    <2>1. UNCHANGED <<alone, clean, mishaps>> /\ "error" \in Replies
      BY <1>2, PlaceNames DEF history
    <2> QED BY <1>2, <2>1, Here, AnswerTypes
  <1>3. ASSUME commit(t) PROVE TypeInv'
    <2>1. /\ at[t] = "commit" /\ Turn(t, "map_read", task[t]) /\ reply' \in Replies
          /\ writer' = None /\ UNCHANGED <<file, runtime, alone, clean, mishaps>>
          /\ blocked_ips' = [ip \in Ips |-> IF ip \in task[t].gone THEN "none" ELSE blocked_ips[ip]]
          /\ "map_read" \in Places
      BY <1>3, PlaceNames DEF commit, Continue, GoTo, Turn, history
    <2>2. task[t].op = "expire" /\ blocked_ips' \in [Ips -> Row]
      BY <2>1, Here DEF OpAt, Row
    <2>3. /\ at' \in [Handlers -> Places] /\ task' \in [Handlers -> Task]
          /\ at'[t] = "map_read" /\ task'[t] = task[t]
          /\ \A s \in Handlers \ {t} : at'[s] = at[s] /\ task'[s] = task[s]
      BY <2>1, Here, TurnNext
    <2>4. OpAt(t)'
      BY <2>2, <2>3, Here DEF OpAt
    <2>5. \A s \in Handlers \ {t} : writer # s
      <3>1. writer = t
        BY <2>1, Here DEF BlockedTypeOK, OpAt
      <3> QED BY <3>1
    <2> QED BY <2>1, <2>2, <2>3, <2>4, <2>5, Here, KeepType
  <1>4. ASSUME worker_exits(t) PROVE TypeInv'
    <2>1. /\ at[t] # "idle" /\ Turn(t, "idle", NoTask) /\ reply' \in Replies
          /\ writer' = (IF writer = t THEN None ELSE writer)
          /\ UNCHANGED <<blocked_ips, file, runtime>> /\ Mishap("exit")
      BY <1>4, PlaceNames DEF worker_exits, GoTo, Turn
    <2>2. alone' \in SUBSET Handlers /\ clean' \in BOOLEAN /\ mishaps' \in Nat
      BY <2>1, Here, HistoryType
    <2>3. /\ at' \in [Handlers -> Places] /\ task' \in [Handlers -> Task]
          /\ at'[t] = "idle" /\ task'[t] = NoTask
          /\ \A s \in Handlers \ {t} : at'[s] = at[s] /\ task'[s] = task[s]
      BY <2>1, Here, NoTaskType, TurnNext
    <2>4. OpAt(t)'
      BY <2>3, NoTaskType DEF OpAt
    <2>5. writer \in Handlers \cup {None}
      BY Here DEF BlockedTypeOK
    <2> QED BY <2>1, <2>2, <2>3, <2>4, <2>5, Here, NoTaskType, KeepType
  <1> QED BY <1>1, <1>2, <1>3, <1>4 DEF delete_expired

LEMMA WorldTypes ==
    ASSUME TypeInv,
           \/ \E ip \in Ips : block_expires(ip) \/ manage_file(ip) \/ manage_runtime(ip)
           \/ other_reload
    PROVE  TypeInv'
  <1>0. BlockedTypeOK /\ UNCHANGED <<writer, at, task>>
    BY DEF TypeInv, block_expires, manage_file, manage_runtime, ManageScript, other_reload
  <1>1. \A t \in Handlers : OpAt(t)'
    BY <1>0 DEF TypeInv, OpAt
  <1>2. /\ blocked_ips' \in [Ips -> Row] /\ file' \in SUBSET Ips /\ runtime' \in SUBSET Ips
        /\ reply' \in Replies /\ alone' \in SUBSET Handlers /\ mishaps' \in Nat
    BY <1>0, PlaceNames DEF BlockedTypeOK, Row, block_expires, manage_file, manage_runtime, ManageScript,
       other_reload, history
  <1>3. clean' \in BOOLEAN
    <2>1. clean' = clean \/ clean' = FALSE \/ clean' = (clean /\ NoneUnderWay)
      BY DEF block_expires, manage_file, manage_runtime, ManageScript, other_reload, history
    <2>2. clean \in BOOLEAN
      BY <1>0 DEF BlockedTypeOK
    <2> QED BY <2>1, <2>2, Zenon
  <1> QED BY <1>0, <1>1, <1>2, <1>3 DEF TypeInv, BlockedTypeOK

LEMMA StepTypes ==
    ASSUME TypeInv, NEW t \in Handlers, BlockedStep(t) \/ worker_exits(t)
    PROVE  TypeInv' /\ at[t] # "idle"
  <1>1. TypeInv'
    BY MapTypes, CommandTypes, ReloadTypes, SyncTypes, ExpireTypes DEF BlockedStep
  <1>2. at[t] # "idle"
    BY DEF BlockedStep, worker_exits, update_blocked_ips_map_read, update_blocked_ips_map,
       add_ip_to_runtime_map, remove_ip_from_runtime_map, runtime_map_lookup, reload,
       delete_expired, commit, sync_select, sync_clear, sync_fill, sync_show
  <1> QED BY <1>1, <1>2

LEMMA TypeStep == TypeInv /\ [BlockedNext]_blocked_vars => TypeInv'
  <1>1. ASSUME TypeInv, UNCHANGED blocked_vars PROVE TypeInv'
    BY <1>1 DEF TypeInv, BlockedTypeOK, OpAt, blocked_vars
  <1> QED BY <1>1, RequestTypes, StepTypes, WorldTypes DEF BlockedNext

LEMMA TypeInit == BlockedInit => TypeInv
  <1> SUFFICES ASSUME BlockedInit PROVE TypeInv
    OBVIOUS
  <1>1. /\ at \in [Handlers -> Places] /\ task \in [Handlers -> Task]
        /\ \A t \in Handlers : at[t] = "idle" /\ task[t] = NoTask
    BY NoTaskType DEF BlockedInit
  <1>2. \A t \in Handlers : OpAt(t)
    BY <1>1, NoTaskType DEF OpAt
  <1>3. blocked_ips \in [Ips -> Row] /\ Blocked \subseteq Ips
    BY DEF BlockedInit, Row, Blocked
  <1>4. writer \in Handlers \cup {None} /\ \A t \in Handlers : writer # t
    BY BlockedAssumption DEF BlockedInit
  <1>5. reply \in Replies /\ alone \in SUBSET Handlers /\ clean \in BOOLEAN /\ mishaps \in Nat
        /\ file \in SUBSET Ips /\ runtime \in SUBSET Ips
    BY <1>3, PlaceNames DEF BlockedInit
  <1> QED BY <1>1, <1>2, <1>3, <1>4, <1>5, NoTaskType DEF TypeInv, BlockedTypeOK

\* Rows, file, runtime map and tasks keep their types, and SQLite's write lock is held
\* exactly by the thread that has deleted rows it has not committed, whatever overlaps.
THEOREM BlockedTypes == BlockedSpec => []BlockedTypeOK
  <1>1. TypeInv => BlockedTypeOK
    BY DEF TypeInv
  <1> QED BY <1>1, TypeInit, TypeStep, PTL DEF BlockedSpec
-----------------------------------------------------------------------------
(* The operation that nothing has overlapped *)

InStep(t) ==
    IF at[t] = "idle" THEN clean => file = Blocked /\ runtime = Blocked ELSE Known(t)

\* Once something has overlapped, nothing is claimed.
LEMMA Overlapped ==
    ASSUME BlockedInv, NEW t \in Handlers, at[t] # "idle", t \notin alone
    PROVE  alone = {} /\ ~ clean
  BY DEF BlockedInv, Serial, Watched, BlockedTypeOK

\* What a step must show, for a thread that is alone, for the invariant to hold after it.
LEMMA KeepInv ==
    ASSUME BlockedInv, TypeInv', NEW t \in Handlers, at[t] # "idle",
           \A s \in Handlers \ {t} : at'[s] = at[s] /\ task'[s] = task[s],
           alone' = alone, clean' => clean \/ t \in alone,
           t \in alone => InStep(t)'
    PROVE  BlockedInv'
  <1>0. BlockedTypeOK' /\ \A s \in Handlers : OpAt(s)'
    BY DEF TypeInv
  <1>1. CASE t \notin alone
    <2>1. alone' = {} /\ ~ clean'
      BY <1>1, Overlapped
    <2> QED BY <1>0, <2>1 DEF BlockedInv, Serial, Watched, Agree
  <1>2. CASE t \in alone
    <2>1. \A s \in Handlers \ {t} : at'[s] = "idle"
      BY <1>2 DEF BlockedInv, Serial
    <2>2. alone \subseteq {t}
      BY DEF BlockedInv, Serial
    <2>3. Serial' /\ Watched'
      BY <1>2, <2>1, <2>2 DEF Serial, Watched
    <2>4. Agree'
      BY <1>2 DEF Agree, NoneUnderWay, InStep
    <2>5. \A s \in alone' : at'[s] # "idle" => Known(s)'
      BY <1>2, <2>2 DEF InStep
    <2> QED BY <1>0, <2>3, <2>4, <2>5 DEF BlockedInv
  <1> QED BY <1>1, <1>2

\* What is known of the thread that is alone.
LEMMA AloneHere ==
    ASSUME BlockedInv, NEW t \in alone, at[t] # "idle"
    PROVE  /\ TypeInv /\ t \in Handlers /\ Known(t) /\ OpAt(t) /\ task[t] \in Task
           /\ BlockedTypeOK /\ writer \in {None, t}
  <1>1. TypeInv /\ t \in Handlers /\ Known(t) /\ OpAt(t) /\ BlockedTypeOK
    BY DEF BlockedInv, TypeInv, BlockedTypeOK
  <1>2. \A s \in Handlers \ {t} : at[s] = "idle"
    BY <1>1 DEF BlockedInv, Serial
  <1>3. \A s \in Handlers \ {t} : writer # s
    BY <1>1, <1>2, NoTaskType DEF BlockedTypeOK
  <1> QED BY <1>1, <1>3 DEF BlockedTypeOK

LEMMA BlockedSame == ASSUME UNCHANGED blocked_ips PROVE Blocked' = Blocked
  BY DEF Blocked

LEMMA ReadKnown ==
    ASSUME BlockedInv, NEW t \in alone, update_blocked_ips_map_read(t)
    PROVE  InStep(t)'
  <1> DEFINE j == [task[t] EXCEPT !.snap = Blocked]
  <1>0. /\ at[t] = "map_read" /\ Turn(t, "map_write", j)
        /\ UNCHANGED <<blocked_ips, writer, file, runtime, alone, clean, mishaps>>
    BY DEF update_blocked_ips_map_read, Continue, GoTo, Turn, history
  <1>1. Known(t) /\ t \in Handlers /\ task[t] \in Task /\ BlockedTypeOK /\ Blocked \subseteq Ips
    BY <1>0, AloneHere, Here
  <1>2. /\ j \in Task /\ j.op = task[t].op /\ j.ip = task[t].ip /\ j.gone = task[t].gone
        /\ j.todo = task[t].todo /\ j.ok = task[t].ok /\ j.snap = Blocked
    BY <1>1 DEF Task
  <1> HIDE DEF j
  <1>3. at'[t] = "map_write" /\ task'[t] = j /\ Blocked' = Blocked
    BY <1>0, <1>1, <1>2, TurnNext, BlockedSame, PlaceNames
  <1>4. RowsKnown(t)' /\ SnapshotHolds(t)' /\ FileKnown(t)' /\ RuntimeKnown(t)'
    BY <1>0, <1>1, <1>2, <1>3 DEF Known, RowsKnown, SnapshotHolds, FileKnown, RuntimeKnown, Judged,
       InMap, Adds
  <1>5. clean' => CopiesKnown(t)'
    BY <1>0, <1>1, <1>2, <1>3 DEF Known, CopiesKnown, InMap, Adds
  <1> QED BY <1>3, <1>4, <1>5 DEF InStep, Known

LEMMA WriteKnown ==
    ASSUME BlockedInv, NEW t \in alone, update_blocked_ips_map(t)
    PROVE  InStep(t)'
  <1> DEFINE j == task[t]
  <1>0. PICK written \in BOOLEAN :
          /\ AfterMap(t, written) /\ at[t] = "map_write" /\ UNCHANGED <<blocked_ips, writer, runtime>>
          /\ written => file' = j.snap
          /\ clean' => clean /\ written
    <2>1. CASE file' = j.snap /\ AfterMap(t, TRUE) /\ UNCHANGED history
      <3>1. clean' = clean
        BY <2>1 DEF history
      <3> QED BY <2>1, <3>1, Zenon DEF update_blocked_ips_map
    <2>2. CASE Mishap("write") /\ AfterMap(t, FALSE)
      <3>1. clean' = FALSE
        BY <2>2 DEF Mishap
      <3> QED BY <2>2, <3>1, Zenon DEF update_blocked_ips_map
    <2> QED BY <2>1, <2>2 DEF update_blocked_ips_map
  <1>1. Known(t) /\ OpAt(t) /\ t \in Handlers /\ j \in Task /\ BlockedTypeOK /\ j.snap = Blocked
        /\ Blocked' = Blocked
    BY <1>0, AloneHere, BlockedSame DEF Known, SnapshotHolds
  <1>2. CASE Turn(t, "idle", NoTask) /\ (j.op = "expire" \/ ~ written)
    <2>1. at'[t] = "idle"
      BY <1>1, <1>2, TurnNext, NoTaskType
    <2>2. clean' => clean /\ file' = Blocked /\ j.op = "expire"
      BY <1>0, <1>1, <1>2
    <2> QED BY <1>0, <1>1, <2>1, <2>2 DEF InStep, Known, CopiesKnown, InMap
  <1>3. ASSUME NEW label \in {"reload", "select", "command"}, Turn(t, label, j), written \/ label = "reload",
               label = "reload" => j.op = "generate", label = "select" => j.op = "sync",
               label = "command" => j.op \in {"add", "remove", "temporary"}
        PROVE  InStep(t)'
    <2>1. at'[t] = label /\ task'[t] = j
      BY <1>1, <1>3, TurnNext, PlaceNames
    <2>2. j.op # "generate" => file' = Blocked
      BY <1>0, <1>1, <1>3
    <2>3. RowsKnown(t)' /\ SnapshotHolds(t)' /\ FileKnown(t)' /\ RuntimeKnown(t)'
      BY <1>0, <1>1, <1>3, <2>1, <2>2 DEF Known, RowsKnown, SnapshotHolds, FileKnown, RuntimeKnown,
         Judged, InMap, Adds
    <2>4. clean' => CopiesKnown(t)'
      BY <1>0, <1>1, <1>3, <2>1 DEF Known, CopiesKnown, InMap, Adds
    <2> QED BY <1>3, <2>1, <2>3, <2>4 DEF InStep, Known
  <1>4. \/ Turn(t, "idle", NoTask) /\ (j.op = "expire" \/ ~ written)
        \/ Turn(t, "reload", j) /\ j.op = "generate"
        \/ Turn(t, "select", j) /\ j.op = "sync" /\ written
        \/ Turn(t, "command", j) /\ j.op \in {"add", "remove", "temporary"} /\ written
    BY <1>0, <1>1, AfterMapTurn
  <1> QED BY <1>2, <1>3, <1>4

\* A command that is judged done is one that was read back.
LEMMA JudgedKnown ==
    ASSUME BlockedInv, NEW t \in alone, at[t] \in {"command", "lookup"},
           NEW done \in BOOLEAN, AfterCommand(t, done), UNCHANGED <<blocked_ips, file>>,
           done => runtime' = runtime /\ (task[t].ip \in runtime <=> Adds(task[t])),
           clean' => clean /\ at[t] = "lookup" /\ runtime' = runtime
    PROVE  InStep(t)'
  <1> DEFINE j == task[t]
             k == Told(t, done)
  <1>1. /\ Known(t) /\ OpAt(t) /\ t \in Handlers /\ j \in Task /\ BlockedTypeOK
        /\ Blocked' = Blocked /\ j.op # "none"
    BY AloneHere, BlockedSame DEF OpAt
  <1>2. /\ k \in Task /\ k.op = j.op /\ k.ip = j.ip /\ k.gone = j.gone
        /\ k.snap = j.snap /\ k.todo = j.todo /\ (k.ok => j.ok /\ done)
    BY <1>1, ToldIs DEF SameOp
  <1>3. \/ Turn(t, "idle", NoTask) /\ j.op = "temporary"
        \/ \E label \in {"reload", "commit", "delete"} :
             /\ Turn(t, label, k)
             /\ (label = "reload" /\ j.op \in {"add", "remove"}) \/ (label # "reload" /\ j.op = "expire")
    <2>1. j.op \in {"add", "remove", "temporary", "expire"}
      BY <1>1 DEF OpAt
    <2>2. (IF k.todo = {} THEN "commit" ELSE "delete") \in {"commit", "delete"}
      OBVIOUS
    <2> HIDE DEF k
    <2> QED BY <1>1, <2>1, <2>2, AfterCommandTurn DEF k
  <1> HIDE DEF k
  <1>4. CASE Turn(t, "idle", NoTask) /\ j.op = "temporary"
    <2>1. at'[t] = "idle"
      BY <1>1, <1>4, TurnNext, NoTaskType
    <2> QED BY <1>1, <1>4, <2>1 DEF InStep, Known, CopiesKnown, InMap
  <1>5. ASSUME NEW label \in {"reload", "commit", "delete"}, Turn(t, label, k),
               (label = "reload" /\ j.op \in {"add", "remove"}) \/ (label # "reload" /\ j.op = "expire")
        PROVE  InStep(t)'
    <2>1. at'[t] = label /\ task'[t] = k
      BY <1>1, <1>2, <1>5, TurnNext, PlaceNames
    <2>2. RowsKnown(t)' /\ SnapshotHolds(t)' /\ FileKnown(t)'
      BY <1>1, <1>2, <1>5, <2>1 DEF Known, RowsKnown, SnapshotHolds, FileKnown, InMap, Adds
    <2>3. RuntimeKnown(t)'
      <3>1. k.ok => /\ runtime' = runtime /\ (j.ip \in runtime <=> Adds(j))
                    /\ j.op = "expire" => (j.gone \ {j.ip}) \cap runtime = {}
        BY <1>1, <1>2 DEF Known, RuntimeKnown, Judged
      <3> QED BY <1>1, <1>2, <1>5, <2>1, <3>1 DEF RuntimeKnown, Judged, Adds
    <2>4. clean' => CopiesKnown(t)'
      BY <1>1, <1>2, <1>5, <2>1 DEF Known, CopiesKnown, InMap, Adds
    <2> QED BY <1>5, <2>1, <2>2, <2>3, <2>4 DEF InStep, Known
  <1> QED BY <1>3, <1>4, <1>5

LEMMA CommandKnown ==
    ASSUME BlockedInv, NEW t \in alone, add_ip_to_runtime_map(t) \/ remove_ip_from_runtime_map(t)
    PROVE  InStep(t)'
  <1> DEFINE j   == task[t]
             new == IF Adds(j) THEN runtime \cup {j.ip} ELSE runtime \ {j.ip}
  <1>0. /\ at[t] = "command" /\ UNCHANGED <<blocked_ips, writer, file>>
        /\ \/ (Executed(new) \/ Ignored) /\ Continue(t, "lookup", j)
           \/ Refused(new) /\ AfterCommand(t, FALSE)
    BY DEF add_ip_to_runtime_map, remove_ip_from_runtime_map
  <1>1. /\ Known(t) /\ OpAt(t) /\ t \in Handlers /\ j \in Task /\ BlockedTypeOK
        /\ j.op \in {"add", "remove", "temporary", "expire"} /\ j.ip \in Ips
        /\ Blocked' = Blocked
    BY <1>0, AloneHere, BlockedSame DEF OpAt
  <1>2. new \in SUBSET Ips
    BY <1>1 DEF BlockedTypeOK
  <1> HIDE DEF new
  <1>3. /\ runtime' \in {runtime, new} /\ (clean' => clean /\ runtime' = new)
        /\ Refused(new) => ~ clean'
    BY <1>0, <1>1, <1>2, Command
  <1>4. CASE Refused(new) /\ AfterCommand(t, FALSE)
    BY <1>0, <1>3, <1>4, JudgedKnown
  <1>5. CASE Continue(t, "lookup", j)
    <2>1. at'[t] = "lookup" /\ task'[t] = j
      BY <1>1, <1>5, TurnNext, PlaceNames DEF Continue, GoTo, Turn
    <2>2. RowsKnown(t)' /\ SnapshotHolds(t)' /\ FileKnown(t)'
      BY <1>0, <1>1, <2>1 DEF Known, RowsKnown, SnapshotHolds, FileKnown, InMap, Adds
    <2>3. RuntimeKnown(t)'
      BY <1>0, <1>1, <1>3, <2>1 DEF Known, RuntimeKnown, Judged, Adds, new
    <2>4. clean' => CopiesKnown(t)'
      BY <1>0, <1>1, <1>3, <2>1 DEF Known, CopiesKnown, InMap, Adds, new
    <2> QED BY <2>1, <2>2, <2>3, <2>4 DEF InStep, Known
  <1> QED BY <1>0, <1>4, <1>5

LEMMA LookupKnown ==
    ASSUME BlockedInv, NEW t \in alone, runtime_map_lookup(t)
    PROVE  InStep(t)'
  <1>0. at[t] = "lookup" /\ UNCHANGED <<blocked_ips, writer, file, runtime>>
    BY DEF runtime_map_lookup
  <1>1. CASE AfterCommand(t, (task[t].ip \in runtime) = Adds(task[t])) /\ UNCHANGED history
    <2> DEFINE done == (task[t].ip \in runtime) = Adds(task[t])
    <2>1. done \in BOOLEAN /\ (done => (task[t].ip \in runtime <=> Adds(task[t])))
      BY DEF Adds
    <2>2. clean' => clean
      BY <1>1 DEF history
    <2>3. AfterCommand(t, done)
      BY <1>1
    <2> HIDE DEF done
    <2> QED BY <1>0, <2>1, <2>2, <2>3, JudgedKnown
  <1>2. CASE (Mishap("rejected") \/ Mishap("timeout")) /\ AfterCommand(t, FALSE)
    <2>1. ~ clean'
      BY <1>2, Zenon DEF Mishap
    <2> QED BY <1>0, <1>2, <2>1, JudgedKnown
  <1> QED BY <1>1, <1>2 DEF runtime_map_lookup

\* An operation that ends leaves the copies as they should be, or disturbed.
LEMMA EndKnown ==
    ASSUME TypeInv, NEW t \in Handlers, Turn(t, "idle", NoTask),
           clean' => file' = Blocked' /\ runtime' = Blocked'
    PROVE  InStep(t)'
  <1>1. at'[t] = "idle"
    BY Here, NoTaskType, TurnNext
  <1> QED BY <1>1 DEF InStep

LEMMA ReloadKnown ==
    ASSUME BlockedInv, NEW t \in alone, reload(t)
    PROVE  InStep(t)'
  <1>0. /\ at[t] = "reload" /\ UNCHANGED <<blocked_ips, writer, file>> /\ Turn(t, "idle", NoTask)
    BY DEF reload, Answer, GoTo, Turn
  <1>1. /\ TypeInv /\ Known(t) /\ t \in Handlers /\ BlockedTypeOK /\ task[t].snap = Blocked
        /\ Blocked' = Blocked /\ file \in SUBSET Ips
        /\ clean => file = Blocked
    BY <1>0, AloneHere, Here, BlockedSame DEF Known, SnapshotHolds, CopiesKnown, InMap
  <1>2. CASE runtime' = file /\ file = task[t].snap
    BY <1>0, <1>1, <1>2, EndKnown
  <1>3. CASE runtime' = file /\ UNCHANGED history
    BY <1>0, <1>1, <1>3, EndKnown DEF history
  <1>4. CASE Refused(file) \/ Ignored
    <2>1. ~ clean'
      BY <1>1, <1>4, Command
    <2> QED BY <1>0, <1>1, <2>1, EndKnown
  <1> QED BY <1>2, <1>3, <1>4 DEF reload

LEMMA ExitKnown ==
    ASSUME BlockedInv, NEW t \in alone, worker_exits(t)
    PROVE  InStep(t)'
  <1>1. at[t] # "idle" /\ Turn(t, "idle", NoTask)
    BY DEF worker_exits, GoTo, Turn
  <1>2. ~ clean'
    BY Zenon DEF worker_exits, Mishap
  <1> QED BY <1>1, <1>2, AloneHere, EndKnown

LEMMA ExpireKnown ==
    ASSUME BlockedInv, NEW t \in alone, delete_expired(t) \/ commit(t)
    PROVE  InStep(t)'
  <1>0. /\ TypeInv /\ Known(t) /\ OpAt(t) /\ t \in Handlers /\ task[t] \in Task /\ BlockedTypeOK
        /\ task[t].op = "expire" /\ writer \in {None, t} /\ Blocked \subseteq Ips
    <2>1. at[t] \in {"delete", "commit"}
      BY DEF delete_expired, commit
    <2> QED BY <2>1, AloneHere, Here DEF OpAt
  <1>1. ASSUME delete_expired(t) PROVE InStep(t)'
    <2>1. PICK ip \in task[t].todo :
            Continue(t, "command", [task[t] EXCEPT !.ip = ip, !.todo = @ \ {ip}, !.gone = @ \cup {ip}])
      BY <1>0, <1>1 DEF delete_expired
    <2>2. at[t] = "delete" /\ UNCHANGED <<blocked_ips, file, runtime, alone, clean, mishaps>>
      BY <1>1 DEF delete_expired, history
    <2> DEFINE k == [task[t] EXCEPT !.ip = ip, !.todo = @ \ {ip}, !.gone = @ \cup {ip}]
    <2>3. /\ k \in Task /\ k.op = "expire" /\ k.ip = ip /\ k.ok = task[t].ok
          /\ k.gone = task[t].gone \cup {ip} /\ k.todo = task[t].todo \ {ip}
      <3>1. ip \in Ips /\ task[t].todo \ {ip} \in SUBSET Ips /\ task[t].gone \cup {ip} \in SUBSET Ips
        BY <1>0, <2>1 DEF Task
      <3> QED BY <1>0, <3>1 DEF Task
    <2>4. Turn(t, "command", k)
      BY <2>1 DEF Continue, GoTo, Turn
    <2> HIDE DEF k
    <2>5. at'[t] = "command" /\ task'[t] = k /\ Blocked' = Blocked
      BY <1>0, <2>2, <2>3, <2>4, TurnNext, BlockedSame, PlaceNames
    <2>6. RowsKnown(t)' /\ SnapshotHolds(t)' /\ FileKnown(t)'
      BY <1>0, <2>2, <2>3, <2>5 DEF Known, RowsKnown, SnapshotHolds, FileKnown, InMap, Adds
    <2>7. RuntimeKnown(t)'
      BY <1>0, <2>2, <2>3, <2>5 DEF Known, RuntimeKnown, Judged
    <2>8. clean' => CopiesKnown(t)'
      BY <1>0, <2>2, <2>3, <2>5 DEF Known, CopiesKnown, InMap, Adds
    <2> QED BY <2>5, <2>6, <2>7, <2>8 DEF InStep, Known
  <1>2. ASSUME commit(t) PROVE InStep(t)'
    <2>1. /\ at[t] = "commit" /\ Turn(t, "map_read", task[t])
          /\ UNCHANGED <<file, runtime, alone, clean, mishaps>>
          /\ blocked_ips' = [ip \in Ips |-> IF ip \in task[t].gone THEN "none" ELSE blocked_ips[ip]]
      BY <1>2 DEF commit, Continue, GoTo, Turn, history
    <2>2. at'[t] = "map_read" /\ task'[t] = task[t]
      BY <1>0, <2>1, TurnNext, PlaceNames
    <2>3. Blocked' = Blocked \ task[t].gone
      BY <2>1 DEF Blocked
    <2>4. RowsKnown(t)' /\ SnapshotHolds(t)' /\ FileKnown(t)' /\ RuntimeKnown(t)'
      BY <1>0, <2>1, <2>2, <2>3 DEF Known, RowsKnown, SnapshotHolds, FileKnown, RuntimeKnown, Judged,
         InMap, Adds
    <2>5. clean' => CopiesKnown(t)'
      BY <1>0, <2>1, <2>2, <2>3 DEF Known, CopiesKnown, InMap, Adds
    <2> QED BY <2>2, <2>4, <2>5 DEF InStep, Known
  <1> QED BY <1>1, <1>2

LEMMA SyncKnown ==
    ASSUME BlockedInv, NEW t \in alone, sync_select(t) \/ sync_clear(t) \/ sync_fill(t) \/ sync_show(t)
    PROVE  InStep(t)'
  <1>0. /\ at[t] \in {"select", "clear", "fill", "show"} /\ UNCHANGED <<blocked_ips, writer, file>>
        /\ Blocked' = Blocked
    BY BlockedSame DEF sync_select, sync_clear, sync_fill, sync_show
  <1>1. /\ TypeInv /\ Known(t) /\ t \in Handlers /\ task[t] \in Task /\ BlockedTypeOK
        /\ task[t].op = "sync" /\ file = Blocked /\ Blocked \subseteq Ips /\ runtime \subseteq Ips
    BY <1>0, AloneHere, Here DEF OpAt, Known, FileKnown, InMap
  <1>2. ASSUME NEW label \in {"clear", "fill", "show"}, NEW k \in Task, Turn(t, label, k),
               k.op = "sync", k.ok = task[t].ok, k.snap = Blocked, k.gone = task[t].gone,
               label = "clear" => k.todo = k.snap,
               label \in {"fill", "show"} /\ k.cleared => runtime' \cup k.todo \subseteq k.snap,
               clean' => (label = "fill" /\ runtime' \cup k.todo = Blocked) \/ (label # "fill" /\ runtime' = Blocked)
        PROVE  InStep(t)'
    <2>1. at'[t] = label /\ task'[t] = k
      BY <1>1, <1>2, TurnNext, PlaceNames
    <2>2. RowsKnown(t)' /\ SnapshotHolds(t)' /\ FileKnown(t)' /\ RuntimeKnown(t)'
      BY <1>0, <1>1, <1>2, <2>1 DEF RowsKnown, SnapshotHolds, FileKnown, RuntimeKnown, Adds
    <2>3. clean' => CopiesKnown(t)'
      BY <1>0, <1>1, <1>2, <2>1 DEF CopiesKnown, InMap, Adds
    <2> QED BY <1>2, <2>1, <2>2, <2>3 DEF InStep, Known
  <1>3. ASSUME sync_select(t) PROVE InStep(t)'
    <2> DEFINE k == [task[t] EXCEPT !.snap = Blocked, !.todo = Blocked]
    <2>1. /\ k \in Task /\ k.op = "sync" /\ k.ok = task[t].ok /\ k.snap = Blocked
          /\ k.todo = Blocked /\ k.gone = task[t].gone
      BY <1>1 DEF Task
    <2>2. Turn(t, "clear", k) /\ at[t] = "select" /\ UNCHANGED <<runtime, clean>>
      BY <1>3 DEF sync_select, Continue, GoTo, Turn, history
    <2> HIDE DEF k
    <2>3. clean => runtime = Blocked
      BY <1>1, <2>2 DEF Known, CopiesKnown
    <2> QED BY <1>2, <2>1, <2>2, <2>3
  <1>4. ASSUME sync_clear(t) PROVE InStep(t)'
    <2> DEFINE label == IF task[t].todo = {} THEN "show" ELSE "fill"
    <2>1. at[t] = "clear"
      BY <1>4 DEF sync_clear
    <2>2. task[t].snap = Blocked /\ task[t].todo = Blocked
      BY <1>1, <2>1 DEF Known, SnapshotHolds, RuntimeKnown
    <2> DEFINE k == [task[t] EXCEPT !.cleared = TRUE]
    <2>3. CASE Executed({}) /\ Continue(t, label, k)
      <3>1. Turn(t, label, k) /\ runtime' = {}
        BY <2>3 DEF Continue, GoTo, Turn, Executed
      <3>2. label \in {"fill", "show"} /\ (label = "show" => Blocked = {})
        BY <2>2
      <3>3. /\ k \in Task /\ k.op = "sync" /\ k.ok = task[t].ok /\ k.snap = task[t].snap
            /\ k.todo = task[t].todo /\ k.gone = task[t].gone
        BY <1>1 DEF Task
      <3> HIDE DEF label, k
      <3> QED BY <1>1, <1>2, <2>2, <3>1, <3>2, <3>3
    <2> DEFINE u == [task[t] EXCEPT !.cleared = FALSE]
    <2>5. CASE Ignored /\ Continue(t, label, u)
      <3>1. Turn(t, label, u) /\ ~ clean'
        BY <1>1, <2>5, Zenon DEF Continue, GoTo, Turn, Ignored, Mishap
      <3>2. label \in {"fill", "show"}
        OBVIOUS
      <3>3. /\ u \in Task /\ u.op = "sync" /\ u.ok = task[t].ok /\ u.snap = task[t].snap
            /\ ~ u.cleared /\ u.gone = task[t].gone
        BY <1>1 DEF Task
      <3> HIDE DEF label, u
      <3> QED BY <1>1, <1>2, <2>2, <3>1, <3>2, <3>3
    <2>4. CASE Refused({}) /\ Answer(t, "error")
      <3>1. ~ clean'
        BY <1>1, <2>4, Command
      <3>2. Turn(t, "idle", NoTask)
        BY <2>4 DEF Answer, GoTo, Turn
      <3> QED BY <1>1, <3>1, <3>2, EndKnown
    <2> QED BY <1>4, <2>3, <2>4, <2>5 DEF sync_clear
  <1>5. ASSUME sync_fill(t) PROVE InStep(t)'
    <2>1. PICK ip \in task[t].todo :
            /\ Executed(runtime \cup {ip}) \/ Ignored \/ Refused(runtime \cup {ip})
            /\ Continue(t, IF task[t].todo \ {ip} = {} THEN "show" ELSE "fill",
                        [task[t] EXCEPT !.todo = task[t].todo \ {ip}])
      BY <1>5 DEF sync_fill
    <2> DEFINE k == [task[t] EXCEPT !.todo = task[t].todo \ {ip}]
               label == IF k.todo = {} THEN "show" ELSE "fill"
    <2>2. /\ k \in Task /\ k.op = "sync" /\ k.ok = task[t].ok /\ k.snap = task[t].snap
          /\ k.todo = task[t].todo \ {ip} /\ k.gone = task[t].gone /\ ip \in Ips
          /\ k.cleared = task[t].cleared
      BY <1>1 DEF Task
    <2>3. Turn(t, label, k)
      BY <2>1, <2>2 DEF Continue, GoTo, Turn
    <2>4. label \in {"fill", "show"} /\ (label = "show" <=> k.todo = {})
      OBVIOUS
    <2> HIDE DEF k, label
    <2>5. runtime \cup {ip} \in SUBSET Ips
      BY <1>1, <2>2
    <2>6. runtime' \in {runtime, runtime \cup {ip}} /\ (clean' => clean /\ runtime' = runtime \cup {ip})
      BY <1>1, <2>1, <2>5, Command
    <2>7. /\ at[t] = "fill" /\ task[t].snap = Blocked
          /\ task[t].cleared => runtime \cup task[t].todo \subseteq Blocked
          /\ clean => runtime \cup task[t].todo = Blocked
      BY <1>1, <1>5 DEF sync_fill, Known, SnapshotHolds, RuntimeKnown, CopiesKnown
    <2>8. k.cleared => runtime' \cup k.todo \subseteq k.snap
      BY <2>1, <2>2, <2>6, <2>7
    <2>9. clean' => runtime' \cup k.todo = Blocked
      BY <2>1, <2>2, <2>6, <2>7
    <2> QED BY <1>2, <2>2, <2>3, <2>4, <2>7, <2>8, <2>9
  <1>6. ASSUME sync_show(t) PROVE InStep(t)'
    <2>1. /\ at[t] = "show" /\ Turn(t, "idle", NoTask) /\ UNCHANGED runtime
          /\ \/ UNCHANGED history \/ (task[t].snap \subseteq runtime /\ task[t].cleared)
             \/ Mishap("rejected") \/ Mishap("timeout")
      BY <1>6 DEF sync_show, Answer, GoTo, Turn
    <2>2. /\ task[t].snap = Blocked /\ (task[t].cleared => runtime \subseteq Blocked)
          /\ clean => runtime = Blocked
      BY <1>1, <2>1 DEF Known, SnapshotHolds, RuntimeKnown, CopiesKnown
    <2>3. CASE UNCHANGED history
      BY <1>0, <1>1, <2>1, <2>2, <2>3, EndKnown DEF history
    <2>4. CASE task[t].snap \subseteq runtime /\ task[t].cleared
      BY <1>0, <1>1, <2>1, <2>2, <2>4, EndKnown
    <2>5. CASE Mishap("rejected") \/ Mishap("timeout")
      <3>1. ~ clean'
        BY <2>5, Zenon DEF Mishap
      <3> QED BY <1>1, <2>1, <3>1, EndKnown
    <2> QED BY <2>1, <2>3, <2>4, <2>5
  <1> QED BY <1>3, <1>4, <1>5, <1>6

\* The history after a step of an operation.
LEMMA StepHistory ==
    ASSUME TypeInv, NEW t \in Handlers, BlockedStep(t) \/ worker_exits(t)
    PROVE  /\ alone' = alone /\ (clean' => clean \/ t \in alone)
           /\ \A s \in Handlers \ {t} : at'[s] = at[s] /\ task'[s] = task[s]
  <1>0. BlockedTypeOK /\ file \in SUBSET Ips /\ runtime \in SUBSET Ips /\ task[t].todo \subseteq Ips
    BY Here
  <1>1. \E label, j : Turn(t, label, j)
    <2>1. ASSUME NEW written \in BOOLEAN, AfterMap(t, written) PROVE \E label, j : Turn(t, label, j)
      BY <2>1, AfterMapTurn
    <2>2. ASSUME NEW done \in BOOLEAN, AfterCommand(t, done) PROVE \E label, j : Turn(t, label, j)
      BY <2>2, AfterCommandTurn
    <2>3. ASSUME NEW answer, Answer(t, answer) PROVE \E label, j : Turn(t, label, j)
      BY <2>3 DEF Answer, GoTo, Turn
    <2>4. ASSUME NEW label, NEW j, Continue(t, label, j) PROVE \E l, k : Turn(t, l, k)
      BY <2>4 DEF Continue, GoTo, Turn
    <2>5. ASSUME worker_exits(t) PROVE \E label, j : Turn(t, label, j)
      BY <2>5 DEF worker_exits, GoTo, Turn
    <2>6. ASSUME update_blocked_ips_map_read(t) \/ update_blocked_ips_map(t)
          PROVE  \E label, j : Turn(t, label, j)
      BY <2>1, <2>4, <2>6 DEF update_blocked_ips_map_read, update_blocked_ips_map
    <2>7. ASSUME add_ip_to_runtime_map(t) \/ remove_ip_from_runtime_map(t) \/ runtime_map_lookup(t)
          PROVE  \E label, j : Turn(t, label, j)
      BY <2>2, <2>4, <2>7 DEF add_ip_to_runtime_map, remove_ip_from_runtime_map, runtime_map_lookup
    <2>8. ASSUME reload(t) \/ delete_expired(t) \/ commit(t)
          PROVE  \E label, j : Turn(t, label, j)
      BY <2>3, <2>4, <2>8 DEF reload, delete_expired, commit
    <2>9. ASSUME sync_select(t) \/ sync_clear(t) \/ sync_fill(t) \/ sync_show(t)
          PROVE  \E label, j : Turn(t, label, j)
      BY <2>3, <2>4, <2>9 DEF sync_select, sync_clear, sync_fill, sync_show
    <2> QED BY <2>5, <2>6, <2>7, <2>8, <2>9 DEF BlockedStep
  <1>2. \A s \in Handlers \ {t} : at'[s] = at[s] /\ task'[s] = task[s]
    BY <1>0, <1>1 DEF Turn, BlockedTypeOK
  <1>3. \/ \E new \in SUBSET Ips : Executed(new) \/ Ignored \/ Refused(new)
        \/ \E kind : Mishap(kind)
        \/ Rebuilt(t) \/ UNCHANGED history
    <2>1. ASSUME update_blocked_ips_map_read(t) \/ update_blocked_ips_map(t) \/ worker_exits(t)
                 \/ runtime_map_lookup(t) \/ delete_expired(t) \/ commit(t) \/ sync_select(t) \/ sync_show(t)
          PROVE  (\E kind : Mishap(kind)) \/ Rebuilt(t) \/ UNCHANGED history
      BY <2>1 DEF update_blocked_ips_map_read, update_blocked_ips_map, worker_exits, runtime_map_lookup,
         delete_expired, commit, sync_select, sync_show
    <2>2. ASSUME add_ip_to_runtime_map(t) \/ remove_ip_from_runtime_map(t)
          PROVE  \E new \in SUBSET Ips : Executed(new) \/ Ignored \/ Refused(new)
      <3>1. task[t].ip \in Ips
        BY <2>2, Here DEF add_ip_to_runtime_map, remove_ip_from_runtime_map, OpAt
      <3> QED BY <1>0, <2>2, <3>1 DEF add_ip_to_runtime_map, remove_ip_from_runtime_map
    <2>3. ASSUME reload(t)
          PROVE  Ignored \/ Refused(file) \/ Rebuilt(t) \/ UNCHANGED history
      BY <2>3 DEF reload
    <2>4. ASSUME sync_clear(t) PROVE Executed({}) \/ Ignored \/ Refused({})
      BY <2>4 DEF sync_clear
    <2>5. ASSUME sync_fill(t)
          PROVE  \E new \in SUBSET Ips : Executed(new) \/ Ignored \/ Refused(new)
      BY <1>0, <2>5 DEF sync_fill
    <2> QED BY <1>0, <2>1, <2>2, <2>3, <2>4, <2>5 DEF BlockedStep
  <1> QED BY <1>0, <1>2, <1>3, Command, HistoryType

LEMMA StepKeeps ==
    ASSUME BlockedInv, NEW t \in Handlers, BlockedStep(t) \/ worker_exits(t)
    PROVE  BlockedInv'
  <1>1. TypeInv /\ TypeInv' /\ at[t] # "idle"
    BY StepTypes DEF BlockedInv, TypeInv
  <1>2. t \in alone => InStep(t)'
    BY ReadKnown, WriteKnown, CommandKnown, LookupKnown, ReloadKnown, ExpireKnown, SyncKnown, ExitKnown
       DEF BlockedStep
  <1> QED BY <1>1, <1>2, StepHistory, KeepInv

\* What a request must show for the invariant to hold after it.
LEMMA KeepRequest ==
    ASSUME BlockedInv, TypeInv', NEW t \in Handlers, at'[t] # "idle",
           \A s \in Handlers \ {t} : at'[s] = at[s],
           alone' = IF NoneUnderWay THEN {t} ELSE {}, clean' = (clean /\ NoneUnderWay),
           NoneUnderWay => Known(t)'
    PROVE  BlockedInv'
  <1>0. BlockedTypeOK' /\ \A s \in Handlers : OpAt(s)'
    BY DEF TypeInv
  <1>1. CASE ~ NoneUnderWay
    <2>1. alone' = {} /\ ~ clean'
      BY <1>1, Zenon
    <2> QED BY <1>0, <2>1 DEF BlockedInv, Serial, Watched, Agree
  <1>2. CASE NoneUnderWay
    <2>1. alone' = {t} /\ \A s \in Handlers \ {t} : at'[s] = "idle"
      BY <1>2 DEF NoneUnderWay
    <2> QED BY <1>0, <1>2, <2>1 DEF BlockedInv, Serial, Watched, Agree, NoneUnderWay
  <1> QED BY <1>1, <1>2

LEMMA RequestKeeps ==
    ASSUME BlockedInv, NEW t \in Handlers, BlockedRequest(t)
    PROVE  BlockedInv'
  <1>0. /\ TypeInv /\ TypeInv' /\ BlockedTypeOK /\ blocked_ips \in [Ips -> Row] /\ Blocked \subseteq Ips
        /\ clean /\ NoneUnderWay => file = Blocked /\ runtime = Blocked
    <2>1. TypeInv
      BY DEF BlockedInv, TypeInv
    <2> QED BY <2>1, RequestTypes, Here DEF BlockedInv, Agree
  <1>1. ASSUME NEW op \in Ops, NEW ip \in Ips \cup {None}, Begin(t, op, "map_read", ip),
               op # "none", op # "expire", UNCHANGED <<file, runtime>>,
               op \in {"add", "temporary"} => Blocked' = Blocked \cup {ip},
               op = "remove" => Blocked' = Blocked \ {ip},
               op \in {"sync", "generate"} => Blocked' = Blocked
        PROVE  BlockedInv'
    <2> DEFINE j == [NoTask EXCEPT !.op = op, !.ip = ip]
    <2>1. /\ j \in Task /\ j.op = op /\ j.ip = ip /\ j.gone = {} /\ j.todo = {} /\ "map_read" \in Places
      BY <1>1 DEF NoTask, Task, Places
    <2>2. /\ Turn(t, "map_read", j) /\ alone' = (IF NoneUnderWay THEN {t} ELSE {})
          /\ clean' = (clean /\ NoneUnderWay)
      BY <1>1 DEF Begin, Turn, GoTo
    <2> HIDE DEF j
    <2>3. at'[t] = "map_read" /\ task'[t] = j /\ \A s \in Handlers \ {t} : at'[s] = at[s]
      BY <1>0, <2>1, <2>2, TurnNext
    <2>4. RowsKnown(t)' /\ SnapshotHolds(t)' /\ FileKnown(t)' /\ RuntimeKnown(t)'
      BY <1>1, <2>1, <2>3 DEF RowsKnown, SnapshotHolds, FileKnown, RuntimeKnown, Judged, InMap, Adds
    <2>5. clean' => file = Blocked /\ runtime = Blocked
      BY <1>0, <2>2, Zenon
    <2>6. clean' => CopiesKnown(t)'
      BY <1>1, <2>1, <2>3, <2>5 DEF CopiesKnown, InMap, Adds
    <2>7. Known(t)'
      BY <2>4, <2>6 DEF Known
    <2> QED BY <1>0, <2>2, <2>3, <2>7, KeepRequest
  <1>2. ASSUME add_blocked_ip(t) \/ temporary_block(t) PROVE BlockedInv'
    <2>1. PICK op \in {"add", "temporary"}, ip \in Ips, row \in {"permanent", "temporary"} :
            /\ blocked_ips' = [blocked_ips EXCEPT ![ip] = row]
            /\ Begin(t, op, "map_read", ip) /\ UNCHANGED <<file, runtime>>
      BY <1>2 DEF add_blocked_ip, temporary_block
    <2>2. Blocked' = Blocked \cup {ip} /\ op \in Ops
      BY <1>0, <2>1 DEF Blocked, Ops
    <2> QED BY <1>1, <2>1, <2>2
  <1>3. ASSUME remove_blocked_ip(t) PROVE BlockedInv'
    <2>1. PICK ip \in Ips :
            /\ blocked_ips' = [blocked_ips EXCEPT ![ip] = "none"]
            /\ Begin(t, "remove", "map_read", ip) /\ UNCHANGED <<file, runtime>>
      BY <1>0, <1>3 DEF remove_blocked_ip
    <2>2. Blocked' = Blocked \ {ip} /\ "remove" \in Ops
      BY <1>0, <2>1 DEF Blocked, Ops
    <2> QED BY <1>1, <2>1, <2>2
  <1>4. ASSUME sync_blocked_ips(t) \/ generate_config_map(t) PROVE BlockedInv'
    <2>1. PICK op \in {"sync", "generate"} :
            Begin(t, op, "map_read", None) /\ UNCHANGED <<blocked_ips, file, runtime>>
      BY <1>4 DEF sync_blocked_ips, generate_config_map
    <2>2. op \in Ops
      BY DEF Ops
    <2> QED BY <1>1, <2>1, <2>2, BlockedSame
  <1>5. ASSUME clear_expired_blocks(t) PROVE BlockedInv'
    <2> DEFINE j == [NoTask EXCEPT !.op = "expire", !.todo = ExpiredBlocks]
    <2>1. /\ j \in Task /\ j.op = "expire" /\ j.gone = {} /\ j.todo = ExpiredBlocks /\ "delete" \in Places
      BY DEF NoTask, Task, Places, ExpiredBlocks, Ops
    <2>2. /\ Turn(t, "delete", j) /\ UNCHANGED <<blocked_ips, file, runtime>>
          /\ alone' = (IF NoneUnderWay THEN {t} ELSE {}) /\ clean' = (clean /\ NoneUnderWay)
      BY <1>5 DEF clear_expired_blocks, Turn, GoTo
    <2> HIDE DEF j
    <2>3. at'[t] = "delete" /\ task'[t] = j /\ \A s \in Handlers \ {t} : at'[s] = at[s]
      BY <1>0, <2>1, <2>2, TurnNext
    <2>4. Blocked' = Blocked
      BY <2>2, BlockedSame
    <2>5. RowsKnown(t)' /\ SnapshotHolds(t)' /\ FileKnown(t)' /\ RuntimeKnown(t)'
      BY <2>1, <2>2, <2>3 DEF RowsKnown, SnapshotHolds, FileKnown, RuntimeKnown, Judged, InMap, Adds,
         ExpiredBlocks
    <2>6. clean' => file = Blocked /\ runtime = Blocked
      BY <1>0, <2>2, Zenon
    <2>7. clean' => CopiesKnown(t)'
      BY <2>1, <2>2, <2>3, <2>4, <2>6 DEF CopiesKnown, InMap, Adds
    <2>8. Known(t)'
      BY <2>5, <2>7 DEF Known
    <2> QED BY <1>0, <2>2, <2>3, <2>8, KeepRequest
  <1> QED BY <1>2, <1>3, <1>4, <1>5 DEF BlockedRequest

LEMMA WorldKeeps ==
    ASSUME BlockedInv,
           \/ \E ip \in Ips : block_expires(ip) \/ manage_file(ip) \/ manage_runtime(ip)
           \/ other_reload
    PROVE  BlockedInv'
  <1>0. TypeInv /\ TypeInv' /\ BlockedTypeOK' /\ \A t \in Handlers : OpAt(t)'
    BY WorldTypes DEF BlockedInv, TypeInv
  <1>1. ASSUME NEW ip \in Ips, block_expires(ip) PROVE BlockedInv'
    <2>1. /\ blocked_ips' = [blocked_ips EXCEPT ![ip] = "expired"] /\ blocked_ips[ip] = "temporary"
          /\ UNCHANGED <<writer, file, runtime, at, task, alone, clean, mishaps>>
          /\ blocked_ips \in [Ips -> Row]
      BY <1>0, <1>1 DEF block_expires, history, TypeInv, BlockedTypeOK
    <2>2. Blocked' = Blocked
      BY <2>1 DEF Blocked
    <2>3. ASSUME NEW t \in alone, at[t] # "idle" PROVE Known(t)'
      <3>1. Known(t) /\ task[t] \in Task
        BY <2>3, AloneHere
      <3>2. RowsKnown(t)'
        BY <2>1, <2>2, <3>1 DEF Known, RowsKnown, Adds, Task
      <3>3. SnapshotHolds(t)' /\ FileKnown(t)' /\ RuntimeKnown(t)'
        BY <2>1, <2>2, <3>1 DEF Known, SnapshotHolds, FileKnown, RuntimeKnown, Judged
      <3>4. clean' => CopiesKnown(t)'
        BY <2>1, <2>2, <3>1 DEF Known, CopiesKnown
      <3> QED BY <3>2, <3>3, <3>4 DEF Known
    <2>4. Serial' /\ Watched' /\ Agree'
      BY <2>1, <2>2 DEF BlockedInv, Serial, Watched, Agree, NoneUnderWay
    <2> QED BY <1>0, <2>1, <2>3, <2>4 DEF BlockedInv
  <1>2. ASSUME ManageScript PROVE BlockedInv'
    <2>1. ~ clean' /\ alone' = {}
      BY <1>2, Zenon DEF ManageScript
    <2> QED BY <1>0, <2>1 DEF BlockedInv, Serial, Watched, Agree
  <1>3. ASSUME other_reload PROVE BlockedInv'
    <2>1. /\ runtime' = file /\ alone' = {} /\ clean' = (clean /\ NoneUnderWay)
          /\ UNCHANGED <<blocked_ips, file, at>>
      BY <1>3 DEF other_reload
    <2>2. clean' => clean /\ NoneUnderWay
      BY <2>1, Zenon
    <2> QED BY <1>0, <2>1, <2>2, BlockedSame DEF BlockedInv, Serial, Watched, Agree, NoneUnderWay
  <1> QED BY <1>1, <1>2, <1>3 DEF manage_file, manage_runtime

LEMMA BlockedInvInit == BlockedInit => BlockedInv
  <1> SUFFICES ASSUME BlockedInit PROVE BlockedInv
    OBVIOUS
  <1>1. alone = {} /\ file = Blocked /\ runtime = Blocked /\ \A t \in Handlers : at[t] = "idle"
    BY DEF BlockedInit
  <1> QED BY <1>1, TypeInit DEF TypeInv, BlockedInv, Serial, Watched, Agree

LEMMA BlockedInvStep == BlockedInv /\ [BlockedNext]_blocked_vars => BlockedInv'
  <1>1. ASSUME BlockedInv, UNCHANGED blocked_vars PROVE BlockedInv'
    <2>1. UNCHANGED <<blocked_ips, writer, file, runtime, at, task, reply, alone, clean, mishaps>>
          /\ Blocked' = Blocked
      BY <1>1, BlockedSame DEF blocked_vars
    <2>2. TypeInv'
      BY <1>1, TypeStep DEF BlockedInv, TypeInv
    <2>3. Serial' /\ Watched' /\ Agree'
      BY <1>1, <2>1 DEF BlockedInv, Serial, Watched, Agree, NoneUnderWay
    <2>4. ASSUME NEW t \in alone, at[t] # "idle" PROVE Known(t)'
      <3>1. Known(t)
        BY <1>1, <2>4 DEF BlockedInv
      <3>2. RowsKnown(t)' /\ SnapshotHolds(t)' /\ FileKnown(t)' /\ RuntimeKnown(t)'
        BY <2>1, <3>1 DEF Known, RowsKnown, SnapshotHolds, FileKnown, RuntimeKnown, Judged
      <3>3. clean' => CopiesKnown(t)'
        BY <2>1, <3>1 DEF Known, CopiesKnown
      <3> QED BY <3>2, <3>3 DEF Known
    <2> QED BY <2>1, <2>2, <2>3, <2>4 DEF BlockedInv, TypeInv
  <1> QED BY <1>1, RequestKeeps, StepKeeps, WorldKeeps DEF BlockedNext

\* Table, file and runtime map agree whenever no operation is under way, from one
\* rebuilding that nothing overlapped to the next failure or overlap.
THEOREM CopiesAgree == BlockedSpec => []Agree
  <1>1. BlockedInv => Agree
    BY DEF BlockedInv
  <1> QED BY <1>1, BlockedInvInit, BlockedInvStep, PTL DEF BlockedSpec
-----------------------------------------------------------------------------
(* What the answers say *)

\* The steps of a thread that is alone which do not answer anything but an error.
LEMMA NoClaim ==
    ASSUME NEW t \in Handlers, reply' \notin {"success", "fallback"}
    PROVE  TrueReply(t)
  BY DEF TrueReply, Says

LEMMA ContinueSilent ==
    ASSUME NEW t \in Handlers, NEW label, NEW j, Continue(t, label, j)
    PROVE  TrueReply(t)
  BY NoClaim DEF Continue

LEMMA MapReplies ==
    ASSUME BlockedInv, NEW t \in alone, update_blocked_ips_map(t)
    PROVE  TrueReply(t)
  <1>1. PICK written \in BOOLEAN : AfterMap(t, written)
    BY DEF update_blocked_ips_map
  <1>2. at[t] = "map_write" /\ UNCHANGED <<blocked_ips, runtime>> /\ Blocked' = Blocked
    BY BlockedSame DEF update_blocked_ips_map
  <1>3. t \in Handlers /\ Known(t)
    BY <1>2, AloneHere
  <1>4. CASE reply' \in {"error", "none"}
    BY <1>3, <1>4, NoClaim
  <1>5. CASE task[t].op = "expire" /\ reply' # "fallback" /\ (reply' = "success" => task[t].ok)
    <2>1. task[t].gone \cap Blocked = {} /\ (task[t].ok => task[t].gone \cap runtime = {})
      BY <1>2, <1>3, <1>5 DEF Known, RowsKnown, RuntimeKnown, Judged, InMap
    <2> QED BY <1>2, <1>5, <2>1 DEF TrueReply, Says, Adds
  <1> QED BY <1>1, <1>3, <1>4, <1>5 DEF AfterMap, Answer, Continue

\* A block that is answered without a reload has been read back, or says so.
LEMMA CommandReplies ==
    ASSUME BlockedInv, NEW t \in alone, at[t] \in {"command", "lookup"},
           NEW done \in BOOLEAN, AfterCommand(t, done), UNCHANGED <<blocked_ips, file>>,
           done => runtime' = runtime /\ (task[t].ip \in runtime <=> Adds(task[t]))
    PROVE  TrueReply(t)
  <1>1. t \in Handlers /\ Known(t) /\ Blocked' = Blocked
    BY AloneHere, BlockedSame
  <1>2. CASE reply' = "none"
    BY <1>1, <1>2, NoClaim
  <1>3. CASE task[t].op = "temporary" /\ (reply' = "success" => done)
    <2>1. task[t].ip \in Blocked /\ file = Blocked
      BY <1>1, <1>3 DEF Known, RowsKnown, FileKnown, InMap, Adds
    <2> QED BY <1>1, <1>3, <2>1 DEF TrueReply, Says, Adds
  <1> QED BY <1>1, <1>2, <1>3, AfterCommandTurn

LEMMA ReloadReplies ==
    ASSUME BlockedInv, NEW t \in alone, reload(t)
    PROVE  TrueReply(t)
  <1>1. /\ at[t] = "reload" /\ UNCHANGED <<blocked_ips, file>> /\ Blocked' = Blocked
        /\ reply' = IF task[t].ok THEN "success" ELSE "fallback"
    BY BlockedSame DEF reload, Answer
  <1>2. t \in Handlers /\ Known(t) /\ OpAt(t) /\ BlockedTypeOK /\ file \in SUBSET Ips
    BY <1>1, AloneHere, Here
  <1>3. runtime' \in {runtime, file}
    BY <1>2, Command DEF reload
  <1>4. task[t].op = "generate" \/ file = Blocked
    BY <1>1, <1>2 DEF OpAt, Known, FileKnown, InMap
  <1>5. CASE task[t].op = "generate"
    BY <1>5 DEF TrueReply, Adds
  <1>6. CASE task[t].op = "add"
    BY <1>1, <1>2, <1>3, <1>4, <1>6 DEF TrueReply, Says, Adds, Known, RowsKnown, RuntimeKnown
  <1>7. CASE task[t].op = "remove"
    BY <1>1, <1>2, <1>3, <1>4, <1>7 DEF TrueReply, Says, Adds, Known, RowsKnown, RuntimeKnown
  <1> QED BY <1>1, <1>2, <1>5, <1>6, <1>7 DEF OpAt

LEMMA SyncReplies ==
    ASSUME BlockedInv, NEW t \in alone, sync_show(t)
    PROVE  TrueReply(t)
  <1>1. at[t] = "show" /\ UNCHANGED <<blocked_ips, runtime>> /\ Blocked' = Blocked
    BY BlockedSame DEF sync_show
  <1>2. t \in Handlers /\ task[t].op = "sync" /\ task[t].snap = Blocked
        /\ (task[t].cleared => runtime \subseteq Blocked)
    BY <1>1, AloneHere DEF OpAt, Known, SnapshotHolds, RuntimeKnown
  <1>3. reply' = "success" => task[t].snap \subseteq runtime
    BY DEF sync_show, Answer
  <1> QED BY <1>1, <1>2, <1>3 DEF TrueReply, Says, Adds

LEMMA StepReplies ==
    ASSUME BlockedInv, NEW t \in alone, BlockedStep(t) \/ worker_exits(t)
    PROVE  TrueReply(t)
  <1>1. t \in Handlers /\ TypeInv
    BY DEF BlockedInv, TypeInv, BlockedTypeOK
  <1>2. CASE update_blocked_ips_map_read(t) \/ commit(t) \/ sync_select(t) \/ sync_fill(t)
    BY <1>1, <1>2, ContinueSilent DEF update_blocked_ips_map_read, commit, sync_select, sync_fill
  <1>3. CASE delete_expired(t) \/ sync_clear(t) \/ worker_exits(t)
    BY <1>1, <1>3, NoClaim DEF delete_expired, sync_clear, worker_exits, Continue, Answer
  <1>4. CASE add_ip_to_runtime_map(t) \/ remove_ip_from_runtime_map(t)
    <2>1. at[t] = "command" /\ UNCHANGED <<blocked_ips, file>>
      BY <1>4 DEF add_ip_to_runtime_map, remove_ip_from_runtime_map
    <2>2. Continue(t, "lookup", task[t]) \/ AfterCommand(t, FALSE)
      BY <1>4 DEF add_ip_to_runtime_map, remove_ip_from_runtime_map
    <2> QED BY <1>1, <2>1, <2>2, ContinueSilent, CommandReplies
  <1>5. CASE runtime_map_lookup(t)
    <2>1. at[t] = "lookup" /\ UNCHANGED <<blocked_ips, file, runtime>>
      BY <1>5 DEF runtime_map_lookup
    <2>2. AfterCommand(t, (task[t].ip \in runtime) = Adds(task[t])) \/ AfterCommand(t, FALSE)
      BY <1>5 DEF runtime_map_lookup
    <2> DEFINE done == (task[t].ip \in runtime) = Adds(task[t])
    <2>3. done \in BOOLEAN /\ (done => (task[t].ip \in runtime <=> Adds(task[t])))
      BY DEF Adds
    <2>4. AfterCommand(t, done) \/ AfterCommand(t, FALSE)
      BY <2>2
    <2> HIDE DEF done
    <2> QED BY <2>1, <2>3, <2>4, CommandReplies
  <1> QED BY <1>2, <1>3, <1>4, <1>5, MapReplies, ReloadReplies, SyncReplies DEF BlockedStep

\* What add, remove, the temporary block, the clearing and the sync answer is true
\* of table, file and runtime map, when nothing overlapped the operation - after
\* whatever drift and failures.
THEOREM AnswersTrue == BlockedSpec => RepliesHonest
  <1>1. BlockedInv /\ [BlockedNext]_blocked_vars => [\A t \in alone : TrueReply(t)]_blocked_vars
    <2> SUFFICES ASSUME BlockedInv, BlockedNext, NEW t \in alone
                 PROVE  TrueReply(t)
      OBVIOUS
    <2>1. t \in Handlers
      BY DEF BlockedInv, BlockedTypeOK
    <2>2. CASE \/ \E ip \in Ips : block_expires(ip) \/ manage_file(ip) \/ manage_runtime(ip)
               \/ other_reload
      BY <2>1, <2>2, NoClaim DEF block_expires, manage_file, manage_runtime, ManageScript, other_reload
    <2>3. ASSUME NEW s \in Handlers, BlockedRequest(s) PROVE TrueReply(t)
      BY <2>1, <2>3, NoClaim DEF BlockedRequest, add_blocked_ip, remove_blocked_ip, temporary_block,
         clear_expired_blocks, sync_blocked_ips, generate_config_map, Begin
    <2>4. ASSUME NEW s \in Handlers, BlockedStep(s) \/ worker_exits(s) PROVE TrueReply(t)
      <3>1. at[s] # "idle"
        BY <2>4, StepTypes DEF BlockedInv, TypeInv
      <3>2. s = t
        BY <3>1 DEF BlockedInv, Serial
      <3> QED BY <2>4, <3>2, StepReplies
    <2> QED BY <2>2, <2>3, <2>4 DEF BlockedNext
  <1> QED BY <1>1, BlockedInvInit, BlockedInvStep, PTL DEF BlockedSpec, RepliesHonest

\* An operation that nothing overlaps deletes no row of a block that has not expired,
\* except the one that it is asked to remove.
THEOREM OnlyExpiredDeleted == BlockedSpec => OnlyExpiredCleared
  <1> DEFINE Deletes(t) == \/ at[t] = "idle" /\ task'[t].op = "remove"
                           \/ at[t] = "commit" /\ t \notin alone
  <1>1. BlockedInv /\ [BlockedNext]_blocked_vars =>
          [\A ip \in Ips :
             blocked_ips[ip] \in {"permanent", "temporary"} /\ blocked_ips'[ip] = "none"
                => \E t \in Handlers :
                        \/ at[t] = "idle" /\ task'[t].op = "remove"
                        \/ at[t] = "commit" /\ t \notin alone]_blocked_vars
    <2> SUFFICES ASSUME BlockedInv, BlockedNext, NEW ip \in Ips,
                        blocked_ips[ip] \in {"permanent", "temporary"}, blocked_ips'[ip] = "none"
                 PROVE  \E t \in Handlers : Deletes(t)
      OBVIOUS
    <2>1. TypeInv /\ blocked_ips \in [Ips -> Row]
      BY DEF BlockedInv, TypeInv, BlockedTypeOK
    <2>2. blocked_ips' # blocked_ips
      OBVIOUS
    <2>3. CASE \E t \in Handlers : BlockedRequest(t)
      <3>1. PICK t \in Handlers : BlockedRequest(t)
        BY <2>3
      <3>2. remove_blocked_ip(t)
        BY <2>1, <2>2, <3>1 DEF BlockedRequest, add_blocked_ip, temporary_block, clear_expired_blocks,
           sync_blocked_ips, generate_config_map
      <3>3. PICK a \in Ips : Begin(t, "remove", "map_read", a)
        BY <3>2 DEF remove_blocked_ip, Blocked
      <3>4. at[t] = "idle" /\ task'[t] = [NoTask EXCEPT !.op = "remove", !.ip = a]
        BY <2>1, <3>3 DEF Begin, TypeInv, BlockedTypeOK
      <3> QED BY <3>4 DEF NoTask
    <2>4. CASE \E t \in Handlers : BlockedStep(t) \/ worker_exits(t)
      <3>1. PICK t \in Handlers : BlockedStep(t) \/ worker_exits(t)
        BY <2>4
      <3>2. commit(t)
        BY <2>2, <3>1 DEF BlockedStep, worker_exits, update_blocked_ips_map_read, update_blocked_ips_map,
           add_ip_to_runtime_map, remove_ip_from_runtime_map, runtime_map_lookup, reload, delete_expired,
           sync_select, sync_clear, sync_fill, sync_show
      <3>3. at[t] = "commit" /\ ip \in task[t].gone
        BY <3>2 DEF commit
      <3>4. t \in alone => blocked_ips[ip] = "expired"
        BY <3>3, AloneHere DEF OpAt, Known, RowsKnown, InMap
      <3> QED BY <3>3, <3>4
    <2>5. CASE \/ \E a \in Ips : block_expires(a) \/ manage_file(a) \/ manage_runtime(a)
               \/ other_reload
      BY <2>1, <2>2, <2>5 DEF block_expires, manage_file, manage_runtime, ManageScript, other_reload
    <2> QED BY <2>3, <2>4, <2>5 DEF BlockedNext
  <1> QED BY <1>1, BlockedInvInit, BlockedInvStep, PTL DEF BlockedSpec, OnlyExpiredCleared
=============================================================================
