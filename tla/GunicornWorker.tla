---------------------------- MODULE GunicornWorker ----------------------------
(***************************************************************************)
(* The worker of the management API, haproxy_gunicorn_worker.py: which     *)
(* connections hold its slots and threads, and what takes them back.       *)
(*                                                                         *)
(* Three kinds of thread share the state.  The main loop accepts           *)
(* connections, hands readable ones to the pool and closes those whose     *)
(* time is up.  A pool thread parses the request of its connection, runs   *)
(* the application and gives the connection back.  The monitor shuts the   *)
(* sockets of clients that are late with their headers, and exits the      *)
(* process when every thread has been in the same request for too long.    *)
(* Clients send nothing, a part or a whole request, or close, when they    *)
(* like; the application may never return.                                 *)
(*                                                                         *)
(* Time passes in ticks of the monitor (one second).  left[c] is what is   *)
(* left of the deadline the connection is under.                           *)
(***************************************************************************)
EXTENDS Naturals, Sequences, FiniteSets

CONSTANTS
    Conns,              \* connections that exist at a time
    NoConn,             \* no connection
    Listener,           \* the listening socket, as a source of events
    Threads,            \* cfg.threads pool threads
    WorkerConnections,  \* cfg.worker_connections
    KeepAlive,          \* cfg.keepalive
    FirstByteTimeout,   \* FIRST_BYTE_TIMEOUT
    HeaderDeadline,     \* HEADER_DEADLINE
    PickupGrace,        \* HEADER_PICKUP_GRACE
    ClientTimeout,      \* CLIENT_TIMEOUT
    WedgeSeconds        \* WEDGE_SECONDS, 0 for never

ASSUME WorkerAssumption ==
    /\ IsFiniteSet(Conns) /\ NoConn \notin Conns /\ Listener \notin Conns
    /\ IsFiniteSet(Threads) /\ Threads # {}
    /\ WorkerConnections \in Nat /\ WorkerConnections >= Cardinality(Threads)
    /\ {KeepAlive, FirstByteTimeout, HeaderDeadline, PickupGrace, ClientTimeout}
          \subseteq Nat \ {0}
    /\ WedgeSeconds \in Nat

VARIABLES
    phase,     \* where each connection is
    sent,      \* what its client has sent that nobody has read
    left,      \* ticks to its deadline
    nr_conns,  \* the worker's count of connections
    queue,     \* the work queue of tpool
    serves,    \* the connection of each pool thread
    busy,      \* ticks since the thread took its connection
    armed,     \* threads whose _InFlight entry has a header_deadline
    main,      \* where the main loop is
    events,    \* what the last select() returned and is not handled yet
    monitor,   \* where the monitor is
    late,      \* connections the sweep has collected and not shut yet
    stuck,     \* threads whose application call never returns
    buffered,  \* history: connections whose headers were complete when a
               \* thread took them
    quiet      \* history: ticks since a pool thread last finished with a
               \* connection

clients == <<phase, sent, left, nr_conns>>
pool    == <<queue, serves, busy, armed, stuck>>
loop    == <<main, events>>
sweep   == <<monitor, late>>
history == <<buffered, quiet>>
vars    == <<clients, pool, loop, sweep, history>>

Waiting   == {"pending", "keep"}                \* registered with the poller
InFlight  == {"headers", "body", "request"}     \* in handle()
Returned  == {"done", "reuse"}                  \* handle() returned (keepalive, conn)
Served    == InFlight \cup Returned
Phases    == Waiting \cup Served \cup {"out", "backlog", "queued"}

HasSlot(c) == phase[c] \notin {"out", "backlog"}
Serves(t, p) == serves[t] # NoConn /\ phase[serves[t]] = p
BusyThreads == {t \in Threads : serves[t] # NoConn /\ phase[serves[t]] \in InFlight}

Later(m, n) == IF m < n THEN n ELSE m

\* Ages stop where the watchdog tells them apart no more.
Older(n) == IF n > WedgeSeconds THEN n ELSE n + 1

TypeOK ==
    /\ phase \in [Conns -> Phases]
    /\ sent \in [Conns -> {"nothing", "part", "whole", "eof"}]
    /\ left \in [Conns -> Nat]
    /\ nr_conns \in 0..WorkerConnections
    /\ queue \in Seq(Conns)
    /\ serves \in [Threads -> Conns \cup {NoConn}]
    /\ busy \in [Threads -> 0..(WedgeSeconds + 1)]
    /\ armed \subseteq {t \in Threads : Serves(t, "headers")}
    /\ stuck \subseteq Threads
    /\ main \in {"select", "events", "reap"}
    /\ events \subseteq Conns \cup {Listener}
    /\ monitor \in {"sleep", "cut", "exit"} /\ late \subseteq Conns
    /\ buffered \subseteq Conns /\ quiet \in 0..(WedgeSeconds + 1)
-----------------------------------------------------------------------------
Goes(c, p, n) == phase' = [phase EXCEPT ![c] = p] /\ left' = [left EXCEPT ![c] = n]

\* conn.close(); the connection no longer counts.
Release(c) ==
    /\ Goes(c, "out", 0)
    /\ sent' = [sent EXCEPT ![c] = "nothing"]
    /\ nr_conns' = nr_conns - 1
-----------------------------------------------------------------------------
(* Clients *)

\* A new connection is a new object, whatever the sweep still holds of old ones.
connect(c) ==
    /\ phase[c] = "out" /\ c \notin late
    /\ Goes(c, "backlog", 0)
    /\ UNCHANGED <<sent, nr_conns, pool, loop, sweep, history>>

\* A client sends its next request when it has the answer to the last.  The part
\* of a request that a parser is reading is not told from nothing, nor what is
\* sent before accept() from what is sent right after it.
client_sends(c) ==
    /\ phase[c] \in {"queued", "headers", "body"} \cup Waiting
    /\ sent[c] \in {"nothing", "part"}
    /\ \E s \in {"part", "whole", "eof"} :
           /\ s # sent[c] /\ (s = "part" => phase[c] \notin {"headers", "body"})
           /\ sent' = [sent EXCEPT ![c] = s]
    /\ UNCHANGED <<phase, left, nr_conns, pool, loop, sweep, history>>
-----------------------------------------------------------------------------
(* The main loop, ThreadWorker.run() *)

\* Mutant: the pass with all slots taken waits for futures and does not reap.
run_select_FullSkipsReaping ==
    /\ main = "select"
    /\ IF nr_conns < WorkerConnections
       THEN /\ main' = "events"
            /\ events' = {c \in Conns : phase[c] \in Waiting /\ sent[c] # "nothing"}
                   \cup {l \in {Listener} : \E c \in Conns : phase[c] = "backlog"}
       ELSE UNCHANGED <<main, events>>
    /\ UNCHANGED <<clients, pool, sweep, history>>

\* With all slots taken the poller is not serviced.
run_select ==
    /\ main = "select"
    /\ IF nr_conns < WorkerConnections
       THEN /\ main' = "events"
            /\ events' = {c \in Conns : phase[c] \in Waiting /\ sent[c] # "nothing"}
                   \cup {l \in {Listener} : \E c \in Conns : phase[c] = "backlog"}
       ELSE main' = "reap" /\ UNCHANGED events
    /\ UNCHANGED <<clients, pool, sweep, history>>

\* One accept() per event.  A peer that is not in _allowed_nets costs no slot.
accept(c) ==
    /\ main = "events" /\ Listener \in events
    /\ phase[c] = "backlog"
    /\ events' = events \ {Listener}
    /\ \/ Goes(c, "pending", FirstByteTimeout) /\ nr_conns' = nr_conns + 1 /\ UNCHANGED sent
       \/ Goes(c, "out", 0) /\ UNCHANGED <<sent, nr_conns>>
    /\ UNCHANGED <<main, pool, sweep, history>>

\* unregister, remove from _pending or _keep, then enqueue_req: the header
\* deadline counts from here.  Only the main loop removes connections from the
\* two, so that the connection of an event is still there.
on_client_socket_readable(c) ==
    /\ main = "events" /\ c \in events
    /\ events' = events \ {c}
    /\ Goes(c, "queued", HeaderDeadline)
    /\ queue' = Append(queue, c)
    /\ UNCHANGED <<sent, nr_conns, serves, busy, armed, stuck, main, sweep, history>>

events_handled ==
    /\ main = "events" /\ events = {}
    /\ main' = "reap"
    /\ UNCHANGED <<events, clients, pool, sweep, history>>

Expired(p) == {c \in Conns : phase[c] = p /\ left[c] = 0}

\* Mutant: gunicorn's own murder_keepalived, which knows only _keep.
murder_keepalived_Stock ==
    /\ main = "reap"
    /\ IF Expired("keep") # {}
       THEN (\E c \in Expired("keep") : Release(c)) /\ UNCHANGED main
       ELSE main' = "select" /\ UNCHANGED clients
    /\ UNCHANGED <<pool, events, sweep, history>>

\* Mutant: the slot of a connection that was reaped is not given back.
murder_keepalived_KeepsSlot ==
    /\ main = "reap"
    /\ IF Expired("keep") \cup Expired("pending") # {}
       THEN /\ \E c \in Expired("keep") \cup Expired("pending") :
                   Goes(c, "out", 0) /\ sent' = [sent EXCEPT ![c] = "nothing"]
            /\ UNCHANGED <<main, nr_conns>>
       ELSE main' = "select" /\ UNCHANGED clients
    /\ UNCHANGED <<pool, events, sweep, history>>

\* Both deques are in order of their deadlines, so that what is popped until the
\* head is in time is what has expired.
murder_keepalived ==
    /\ main = "reap"
    /\ IF Expired("keep") \cup Expired("pending") # {}
       THEN /\ \E c \in Expired("keep") \cup Expired("pending") : Release(c)
            /\ UNCHANGED main
       ELSE main' = "select" /\ UNCHANGED clients
    /\ UNCHANGED <<pool, events, sweep, history>>
-----------------------------------------------------------------------------
(* The pool threads *)

\* Mutant: the deadline counts from the enqueueing alone.
handle_EnqueueOnly(t) ==
    /\ serves[t] = NoConn /\ queue # <<>>
    /\ LET c == Head(queue) IN
       /\ queue' = Tail(queue)
       /\ serves' = [serves EXCEPT ![t] = c]
       /\ Goes(c, "headers", left[c])
       /\ buffered' = IF sent[c] = "whole" THEN buffered \cup {c} ELSE buffered
       /\ sent' = IF sent[c] = "part" THEN [sent EXCEPT ![c] = "nothing"] ELSE sent
    /\ busy' = [busy EXCEPT ![t] = 0]
    /\ armed' = armed \cup {t}
    /\ UNCHANGED <<nr_conns, stuck, loop, sweep, quiet>>

\* deadline = max(enqueue + HEADER_DEADLINE, pickup + HEADER_PICKUP_GRACE)
handle(t) ==
    /\ serves[t] = NoConn /\ queue # <<>>
    /\ LET c == Head(queue) IN
       /\ queue' = Tail(queue)
       /\ serves' = [serves EXCEPT ![t] = c]
       /\ Goes(c, "headers", Later(left[c], PickupGrace))
       /\ buffered' = IF sent[c] = "whole" THEN buffered \cup {c} ELSE buffered
       /\ sent' = IF sent[c] = "part" THEN [sent EXCEPT ![c] = "nothing"] ELSE sent
    /\ busy' = [busy EXCEPT ![t] = 0]
    /\ armed' = armed \cup {t}
    /\ UNCHANGED <<nr_conns, stuck, loop, sweep, quiet>>

\* Mutant: the deadline stays armed while the application runs.
handle_request_KeepsDeadline(t) ==
    /\ Serves(t, "headers") /\ sent[serves[t]] = "whole"
    /\ sent' = [sent EXCEPT ![serves[t]] = "nothing"]
    /\ \/ Goes(serves[t], "body", ClientTimeout)
       \/ Goes(serves[t], "request", 0)
    /\ buffered' = buffered \ {serves[t]}
    /\ UNCHANGED <<nr_conns, pool, loop, sweep, quiet>>

\* The parser has the request line and the headers: the deadline is disarmed.
\* The application reads a body from the socket, which has its timeout, or not.
handle_request(t) ==
    /\ Serves(t, "headers") /\ sent[serves[t]] = "whole"
    /\ sent' = [sent EXCEPT ![serves[t]] = "nothing"]
    /\ \/ Goes(serves[t], "body", ClientTimeout)
       \/ Goes(serves[t], "request", 0)
    /\ armed' = armed \ {t}
    /\ buffered' = buffered \ {serves[t]}
    /\ UNCHANGED <<nr_conns, queue, serves, busy, stuck, loop, sweep, quiet>>

\* handle() returns and its finally takes the _InFlight entry away.
handle_returns(t, result) ==
    /\ Goes(serves[t], result, 0)
    /\ armed' = armed \ {t}
    /\ buffered' = buffered \ {serves[t]}
    /\ quiet' = 0
    /\ UNCHANGED <<nr_conns, queue, serves, busy, stuck, loop, sweep>>

\* recv() returns EOF: the client has closed, or the sweep has shut the socket.
headers_cut(t) ==
    /\ Serves(t, "headers") /\ sent[serves[t]] = "eof"
    /\ handle_returns(t, "done")
    /\ UNCHANGED sent

read_body(t) ==
    /\ Serves(t, "body") /\ sent[serves[t]] = "whole"
    /\ sent' = [sent EXCEPT ![serves[t]] = "nothing"]
    /\ Goes(serves[t], "request", 0)
    /\ UNCHANGED <<nr_conns, pool, loop, sweep, history>>

\* EOF, or the recv() has taken CLIENT_TIMEOUT.
body_cut(t) ==
    /\ Serves(t, "body")
    /\ sent[serves[t]] = "eof" \/ left[serves[t]] = 0
    /\ handle_returns(t, "done")
    /\ UNCHANGED sent

app_sticks(t) ==
    /\ Serves(t, "request") /\ t \notin stuck
    /\ stuck' = stuck \cup {t}
    /\ UNCHANGED <<clients, queue, serves, busy, armed, loop, sweep, history>>

\* gunicorn keeps the connection, or closes it (Connection: close, an error, the
\* limits of keep-alive).
app_returns(t) ==
    /\ Serves(t, "request") /\ t \notin stuck
    /\ \E result \in Returned : handle_returns(t, result)
    /\ UNCHANGED sent

\* The callback of the future, run by the pool thread.
finish_request(t) ==
    /\ \/ Serves(t, "done") /\ Release(serves[t])
       \/ /\ Serves(t, "reuse") /\ Goes(serves[t], "keep", KeepAlive)
          /\ UNCHANGED <<sent, nr_conns>>
    /\ serves' = [serves EXCEPT ![t] = NoConn]
    /\ UNCHANGED <<queue, busy, armed, stuck, loop, sweep, history>>
-----------------------------------------------------------------------------
(* The monitor *)

\* The late entries are collected under the lock.  Only the sweep reads
\* header_deadline, so that it is cleared here.
_sweep_header_deadlines ==
    /\ monitor = "sleep"
    /\ LET found == {t \in armed : left[serves[t]] = 0} IN
       /\ late' = {serves[t] : t \in found}
       /\ armed' = armed \ found
    /\ monitor' = "cut"
    /\ UNCHANGED <<clients, queue, serves, busy, stuck, loop, history>>

\* shutdown(SHUT_RDWR) after the lock is released: the connection may have got
\* its headers since, or be closed.  What has arrived can still be read.
shutdown(c) ==
    /\ monitor = "cut" /\ c \in late
    /\ late' = late \ {c}
    /\ sent' = IF phase[c] = "out" \/ sent[c] = "whole" THEN sent
               ELSE [sent EXCEPT ![c] = "eof"]
    /\ UNCHANGED <<phase, left, nr_conns, monitor, pool, loop, history>>

\* Mutant: measured from the oldest request in flight.
_check_wedged_Oldest ==
    /\ monitor = "cut" /\ late = {}
    /\ monitor' = IF /\ WedgeSeconds > 0 /\ BusyThreads = Threads
                     /\ \E t \in Threads : busy[t] > WedgeSeconds
                  THEN "exit" ELSE "sleep"
    /\ UNCHANGED <<late, clients, pool, loop, history>>

\* _wedged_for(): every thread is in a request, and the youngest of them for
\* longer than WEDGE_SECONDS.
_check_wedged ==
    /\ monitor = "cut" /\ late = {}
    /\ monitor' = IF /\ WedgeSeconds > 0 /\ BusyThreads = Threads
                     /\ \A t \in Threads : busy[t] > WedgeSeconds
                  THEN "exit" ELSE "sleep"
    /\ UNCHANGED <<late, clients, pool, loop, history>>

\* os._exit() after the stacks are logged; the master starts another worker,
\* which inherits the listening socket.
respawn ==
    /\ monitor = "exit"
    /\ phase' = [c \in Conns |-> IF phase[c] = "backlog" THEN "backlog" ELSE "out"]
    /\ sent' = [c \in Conns |-> "nothing"]
    /\ left' = [c \in Conns |-> 0]
    /\ nr_conns' = 0
    /\ queue' = <<>> /\ serves' = [t \in Threads |-> NoConn]
    /\ busy' = [t \in Threads |-> 0]
    /\ armed' = {} /\ stuck' = {}
    /\ main' = "select" /\ events' = {}
    /\ monitor' = "sleep" /\ late' = {}
    /\ buffered' = {} /\ quiet' = 0
-----------------------------------------------------------------------------
\* A request that is complete in the buffer is parsed "in milliseconds".
Prompt == \A t \in Threads : Serves(t, "headers") => sent[serves[t]] # "whole"

Tick ==
    /\ Prompt
    /\ left' = [c \in Conns |-> IF left[c] = 0 THEN 0 ELSE left[c] - 1]
    /\ busy' = [t \in Threads |-> Older(busy[t])]
    /\ quiet' = Older(quiet)
    /\ UNCHANGED <<phase, sent, nr_conns, queue, serves, armed, stuck, loop, sweep, buffered>>

Init ==
    /\ phase = [c \in Conns |-> "out"] /\ sent = [c \in Conns |-> "nothing"]
    /\ left = [c \in Conns |-> 0] /\ nr_conns = 0
    /\ queue = <<>> /\ serves = [t \in Threads |-> NoConn]
    /\ busy = [t \in Threads |-> 0] /\ armed = {} /\ stuck = {}
    /\ main = "select" /\ events = {}
    /\ monitor = "sleep" /\ late = {}
    /\ buffered = {} /\ quiet = 0

MainStep ==
    \/ run_select \/ events_handled \/ murder_keepalived
    \/ \E c \in Conns : accept(c) \/ on_client_socket_readable(c)

PoolStep(t) ==
    \/ handle(t) \/ handle_request(t) \/ headers_cut(t) \/ read_body(t) \/ body_cut(t)
    \/ app_returns(t) \/ finish_request(t)

MonitorStep ==
    \/ _sweep_header_deadlines \/ _check_wedged \/ respawn
    \/ \E c \in Conns : shutdown(c)

Next ==
    \/ \E c \in Conns : connect(c) \/ client_sends(c)
    \/ MainStep \/ MonitorStep \/ Tick
    \/ \E t \in Threads : PoolStep(t) \/ app_sticks(t)

Spec == Init /\ [][Next]_vars

(* The three kinds of thread run, and time does not stop: it goes on whenever  *)
(* the parsers have caught up.  Clients and the application owe nothing.       *)
FairSpec ==
    /\ Spec
    /\ WF_vars(MainStep) /\ WF_vars(MonitorStep) /\ SF_vars(Tick)
    /\ \A t \in Threads : WF_vars(PoolStep(t))
-----------------------------------------------------------------------------
(* Properties *)

\* The worker's count is the number of connections it holds, and each of them is
\* where something will take it from: a registered one with the main loop, a
\* queued one in the queue, a served one with a thread.  A connection that is
\* counted and in nobody's hands is a slot lost until the process ends.
Accounted ==
    /\ nr_conns = Cardinality({c \in Conns : HasSlot(c)})
    /\ \A c \in Conns :
          /\ phase[c] = "queued" <=> \E i \in 1..Len(queue) : queue[i] = c
          /\ phase[c] \in Served <=> \E t \in Threads : serves[t] = c

\* "a legit request that waited in the queue behind busy threads already has its
\* headers in the kernel buffer": it is never cut, however long it has waited.
QueuedNotCut == [][(late' \ late) \cap buffered = {}]_vars

\* "EVERY pool thread has been inside the same request for longer than that": a
\* worker in which a thread has finished anything in that time is not recycled.
RecyclesOnlyStuck ==
    [][monitor' = "exit" /\ monitor # "exit" => quiet > WedgeSeconds]_vars

\* "cannot be wedged by silent or slow clients": a connection that waits for its
\* client or for a thread is closed or goes on to its request - also when all
\* slots are taken, and when the application blocks every thread.
ClientsCannotHold ==
    \A c \in Conns :
        phase[c] \in Waiting \cup {"queued", "headers", "body"}
            ~> phase[c] \notin Waiting \cup {"queued", "headers", "body"}

\* "At 1000 the run loop stops polling altogether": the worker always gets back
\* to where it polls, whatever its clients and its application do.
KeepsPolling == []<>(main = "events")
=============================================================================
