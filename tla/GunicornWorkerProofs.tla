------------------------- MODULE GunicornWorkerProofs -------------------------
(***************************************************************************)
(* Proofs about GunicornWorker, for any connections, threads and timeouts. *)
(*                                                                         *)
(*   WorkerTypeCorrect   Spec => []TypeOK                                  *)
(*   SlotsAccounted      Spec => []Accounted                               *)
(*   QueuedServed        Spec => QueuedNotCut                              *)
(*   WatchdogHonest      Spec => RecyclesOnlyStuck                         *)
(***************************************************************************)
EXTENDS GunicornWorker, TLAPS, FiniteSetTheorems, SequenceTheorems

USE DEF Waiting, InFlight, Returned, Served, Phases, HasSlot

-----------------------------------------------------------------------------
(* The work queue *)

In(q, c) == \E i \in 1..Len(q) : q[i] = c
Once(q)  == \A i, j \in 1..Len(q) : q[i] = q[j] => i = j

LEMMA AppendOnce ==
  ASSUME NEW q \in Seq(Conns), NEW c \in Conns
  PROVE  /\ Append(q, c) \in Seq(Conns)
         /\ \A d : In(Append(q, c), d) <=> In(q, d) \/ d = c
         /\ Once(q) /\ ~In(q, c) => Once(Append(q, c))
<1> DEFINE p == Append(q, c)
<1>1. /\ p \in Seq(Conns) /\ Len(p) = Len(q) + 1 /\ Len(q) \in Nat
      /\ \A i \in 1..Len(q) : p[i] = q[i]
      /\ p[Len(q) + 1] = c
  OBVIOUS
<1> HIDE DEF p
<1>2. \A i \in 1..Len(p) : i \in 1..Len(q) \/ i = Len(p)
  BY <1>1
<1>3. 1..Len(q) \subseteq 1..Len(p) /\ Len(p) \in 1..Len(p)
  BY <1>1
<1>4. \A d : In(p, d) <=> In(q, d) \/ d = c
  BY <1>1, <1>2, <1>3 DEF In
<1>5. ASSUME Once(q), ~In(q, c)
      PROVE  Once(p)
  BY <1>1, <1>2, <1>3, <1>5 DEF In, Once
<1> QED
  BY <1>1, <1>4, <1>5 DEF p

LEMMA TailOnce ==
  ASSUME NEW q \in Seq(Conns), q # <<>>, Once(q)
  PROVE  /\ Head(q) \in Conns /\ In(q, Head(q))
         /\ Tail(q) \in Seq(Conns)
         /\ \A d : In(Tail(q), d) <=> In(q, d) /\ d # Head(q)
         /\ Once(Tail(q))
<1> DEFINE p == Tail(q)
<1>1. /\ Head(q) \in Conns /\ p \in Seq(Conns) /\ Len(p) = Len(q) - 1
      /\ Len(q) \in Nat \ {0} /\ Head(q) = q[1]
      /\ \A i \in 1..Len(p) : p[i] = q[i + 1]
  BY HeadTailProperties, EmptySeq
<1> HIDE DEF p
<1>2. \A i \in 1..Len(p) : i + 1 \in 1..Len(q) /\ i + 1 # 1
  BY <1>1
<1>3. \A i \in 1..Len(q) : i # 1 => i - 1 \in 1..Len(p) /\ (i - 1) + 1 = i
  BY <1>1
<1>4. \A d : In(p, d) => In(q, d) /\ d # Head(q)
  BY <1>1, <1>2 DEF In, Once
<1>5. \A d : In(q, d) /\ d # Head(q) => In(p, d)
  <2> SUFFICES ASSUME NEW d, In(q, d), d # Head(q)
               PROVE  In(p, d)
    OBVIOUS
  <2>1. PICK i \in 1..Len(q) : q[i] = d
    BY DEF In
  <2>2. i # 1
    BY <2>1, <1>1
  <2>3. i - 1 \in 1..Len(p) /\ p[i - 1] = d
    BY <2>1, <2>2, <1>1, <1>3
  <2> QED
    BY <2>3 DEF In
<1>6. Once(p)
  <2>1. \A i, j \in 1..Len(p) : p[i] = p[j] => i + 1 = j + 1
    BY <1>1, <1>2 DEF Once
  <2> QED
    BY <2>1, <1>1 DEF Once
<1>7. In(q, Head(q))
  BY <1>1 DEF In
<1> QED
  BY <1>1, <1>4, <1>5, <1>6, <1>7 DEF p

-----------------------------------------------------------------------------
(* The inductive invariant of the slots *)

Slots   == {c \in Conns : HasSlot(c)}
Counted == nr_conns = Cardinality(Slots)

\* Each connection is in one pair of hands.
Owners ==
    /\ \A c \in Conns : phase[c] = "queued" <=> In(queue, c)
    /\ \A c \in Conns : phase[c] \in Served <=> \E t \in Threads : serves[t] = c
    /\ Once(queue)
    /\ \A t, u \in Threads : serves[t] = serves[u] /\ serves[t] # NoConn => t = u

\* What select() has returned still holds when it is handled.
EventsFresh ==
    /\ \A c \in events : c # Listener => phase[c] \in Waiting
    /\ Listener \in events => nr_conns < WorkerConnections
    /\ main # "events" => events = {}

SlotInv == TypeOK /\ Counted /\ Owners /\ EventsFresh

LEMMA AccountedParts == SlotInv => Accounted
  BY DEF SlotInv, Counted, Owners, Slots, Accounted, In

LEMMA FiniteSlots == IsFiniteSet(Slots) /\ Cardinality(Slots) \in Nat
  BY WorkerAssumption, FS_Subset, FS_CardinalityType DEF Slots

\* A step that moves no connection in or out of the slots.
LEMMA SameSlots ==
  ASSUME Counted, UNCHANGED nr_conns,
         \A c \in Conns : HasSlot(c)' <=> HasSlot(c)
  PROVE  Counted'
<1>1. Slots' = Slots
  BY DEF Slots
<1> QED
  BY <1>1 DEF Counted

\* A connection moves between two phases that both hold a slot.
LEMMA MovesInside ==
  ASSUME TypeOK, Counted, UNCHANGED nr_conns, NEW c \in Conns, NEW p \in Phases, NEW n,
         HasSlot(c), p \notin {"out", "backlog"}, Goes(c, p, n)
  PROVE  Counted'
<1>1. \A d \in Conns : HasSlot(d)' <=> HasSlot(d)
  BY DEF Goes, TypeOK
<1> QED
  BY <1>1, SameSlots

\* Or between two that do not.
LEMMA MovesOutside ==
  ASSUME TypeOK, Counted, UNCHANGED nr_conns, NEW c \in Conns, NEW p \in {"out", "backlog"},
         NEW n, ~HasSlot(c), Goes(c, p, n)
  PROVE  Counted'
<1>1. \A d \in Conns : HasSlot(d)' <=> HasSlot(d)
  BY DEF Goes, TypeOK
<1> QED
  BY <1>1, SameSlots

LEMMA Released ==
  ASSUME TypeOK, Counted, NEW c \in Conns, HasSlot(c), Release(c)
  PROVE  Counted' /\ nr_conns' \in 0..WorkerConnections
<1>1. Slots' = Slots \ {c} /\ c \in Slots
  BY DEF Slots, Release, Goes, TypeOK
<1>2. Cardinality(Slots') = Cardinality(Slots) - 1
  BY <1>1, FiniteSlots, FS_RemoveElement
<1>3. Cardinality(Slots') \in Nat
  BY <1>1, FiniteSlots, FS_RemoveElement, FS_CardinalityType
<1>4. nr_conns \in Nat /\ nr_conns <= WorkerConnections /\ WorkerConnections \in Nat
  BY WorkerAssumption DEF TypeOK
<1> QED
  BY <1>2, <1>3, <1>4 DEF Counted, Release

LEMMA Admitted ==
  ASSUME TypeOK, Counted, NEW c \in Conns, ~HasSlot(c), nr_conns < WorkerConnections,
         Goes(c, "pending", FirstByteTimeout), nr_conns' = nr_conns + 1
  PROVE  Counted' /\ nr_conns' \in 0..WorkerConnections
<1>1. Slots' = Slots \cup {c} /\ c \notin Slots
  BY DEF Slots, Goes, TypeOK
<1>2. Cardinality(Slots') = Cardinality(Slots) + 1
  BY <1>1, FiniteSlots, FS_AddElement
<1> QED
  BY <1>2, WorkerAssumption DEF Counted, TypeOK

LEMMA EmptySlots ==
  ASSUME \A c \in Conns : ~HasSlot(c)', nr_conns' = 0
  PROVE  Counted'
<1>1. Slots' = {}
  BY DEF Slots
<1> QED
  BY <1>1, FS_EmptySet DEF Counted
-----------------------------------------------------------------------------
(* The count *)

LEMMA ServedHasSlot ==
  ASSUME SlotInv, NEW t \in Threads, serves[t] # NoConn
  PROVE  serves[t] \in Conns /\ phase[serves[t]] \in Served
  BY DEF SlotInv, TypeOK, Owners

LEMMA QueueHead ==
  ASSUME SlotInv, queue # <<>>
  PROVE  Head(queue) \in Conns /\ phase[Head(queue)] = "queued"
  BY TailOnce DEF SlotInv, TypeOK, Owners

LEMMA MainCount ==
  ASSUME SlotInv, MainStep
  PROVE  Counted' /\ nr_conns' \in 0..WorkerConnections
<1> USE DEF SlotInv
<1>1. CASE UNCHANGED clients
  BY <1>1, SameSlots DEF clients, TypeOK
<1>2. ASSUME NEW c \in Conns, accept(c)
      PROVE  Counted' /\ nr_conns' \in 0..WorkerConnections
  <2>1. ~HasSlot(c) /\ nr_conns < WorkerConnections
    BY <1>2 DEF accept, EventsFresh
  <2>2. CASE Goes(c, "pending", FirstByteTimeout) /\ nr_conns' = nr_conns + 1
    BY <2>1, <2>2, Admitted
  <2>3. CASE Goes(c, "out", 0) /\ UNCHANGED nr_conns
    BY <2>1, <2>3, MovesOutside DEF TypeOK
  <2> QED
    BY <1>2, <2>2, <2>3 DEF accept
<1>3. ASSUME NEW c \in Conns, on_client_socket_readable(c)
      PROVE  Counted' /\ nr_conns' \in 0..WorkerConnections
  <2>1. HasSlot(c)
    BY <1>3, WorkerAssumption DEF on_client_socket_readable, EventsFresh
  <2> QED
    BY <1>3, <2>1, MovesInside DEF on_client_socket_readable, TypeOK
<1>4. ASSUME NEW c \in Expired("keep") \cup Expired("pending"), Release(c)
      PROVE  Counted' /\ nr_conns' \in 0..WorkerConnections
  BY <1>4, Released DEF Expired
<1>5. run_select \/ events_handled => UNCHANGED clients
  BY DEF run_select, events_handled, clients
<1>6. murder_keepalived =>
          \/ UNCHANGED clients
          \/ \E c \in Expired("keep") \cup Expired("pending") : Release(c)
  BY DEF murder_keepalived
<1> QED
  BY <1>1, <1>2, <1>3, <1>4, <1>5, <1>6 DEF MainStep

\* A step of a thread on its connection, which keeps its slot.
LEMMA ThreadMoves ==
  ASSUME SlotInv, NEW t \in Threads, serves[t] # NoConn, NEW p \in Served \cup {"keep"},
         NEW n, Goes(serves[t], p, n), UNCHANGED nr_conns
  PROVE  Counted' /\ nr_conns' \in 0..WorkerConnections
<1>1. serves[t] \in Conns /\ HasSlot(serves[t])
  BY ServedHasSlot
<1> QED
  BY <1>1, MovesInside DEF SlotInv, TypeOK

LEMMA PoolCount ==
  ASSUME SlotInv, NEW t \in Threads, PoolStep(t) \/ app_sticks(t)
  PROVE  Counted' /\ nr_conns' \in 0..WorkerConnections
<1>1. CASE handle(t)
  <2>1. Head(queue) \in Conns /\ HasSlot(Head(queue))
    BY <1>1, QueueHead DEF handle
  <2> QED
    BY <1>1, <2>1, MovesInside DEF handle, SlotInv, TypeOK
<1>2. CASE handle_request(t)
  BY <1>2, ThreadMoves DEF handle_request, Serves
<1>3. ASSUME NEW result \in Returned, serves[t] # NoConn, handle_returns(t, result)
      PROVE  Counted' /\ nr_conns' \in 0..WorkerConnections
  BY <1>3, ThreadMoves DEF handle_returns
<1>4. CASE headers_cut(t) \/ body_cut(t) \/ app_returns(t)
  BY <1>3, <1>4 DEF headers_cut, body_cut, app_returns, Serves
<1>5. CASE read_body(t)
  BY <1>5, ThreadMoves DEF read_body, Serves
<1>6. CASE finish_request(t)
  <2>1. CASE Serves(t, "done") /\ Release(serves[t])
    BY <2>1, ServedHasSlot, Released DEF Serves, SlotInv
  <2>2. CASE Serves(t, "reuse") /\ Goes(serves[t], "keep", KeepAlive) /\ UNCHANGED nr_conns
    BY <2>2, ThreadMoves DEF Serves
  <2> QED
    BY <1>6, <2>1, <2>2 DEF finish_request
<1>7. CASE app_sticks(t)
  BY <1>7, SameSlots DEF app_sticks, clients, SlotInv, TypeOK
<1> QED
  BY <1>1, <1>2, <1>4, <1>5, <1>6, <1>7 DEF PoolStep

LEMMA OtherCount ==
  ASSUME SlotInv,
         MonitorStep \/ Tick \/ (\E c \in Conns : connect(c) \/ client_sends(c))
  PROVE  Counted' /\ nr_conns' \in 0..WorkerConnections
<1> USE DEF SlotInv
<1>1. CASE UNCHANGED <<phase, nr_conns>>
  BY <1>1, SameSlots DEF TypeOK
<1>2. CASE respawn
  BY <1>2, EmptySlots, WorkerAssumption DEF respawn
<1>3. ASSUME NEW c \in Conns, connect(c)
      PROVE  Counted' /\ nr_conns' \in 0..WorkerConnections
  BY <1>3, MovesOutside DEF connect, TypeOK
<1>4. \/ UNCHANGED <<phase, nr_conns>> \/ respawn \/ \E c \in Conns : connect(c)
  BY DEF MonitorStep, Tick, client_sends, _sweep_header_deadlines, _check_wedged, shutdown,
         clients
<1> QED
  BY <1>1, <1>2, <1>3, <1>4

LEMMA CountStep ==
  ASSUME SlotInv, [Next]_vars
  PROVE  Counted' /\ nr_conns' \in 0..WorkerConnections
<1>1. CASE UNCHANGED vars
  BY <1>1, SameSlots DEF vars, clients, SlotInv, TypeOK
<1> QED
  BY <1>1, MainCount, PoolCount, OtherCount DEF Next
-----------------------------------------------------------------------------
(* Whose hands a connection is in *)

\* A connection outside the queue and the pool moves to another such phase.
LEMMA OwnersElsewhere ==
  ASSUME TypeOK, Owners, UNCHANGED <<queue, serves>>, NEW c \in Conns,
         NEW p \in Phases \ (Served \cup {"queued"}), NEW n,
         phase[c] \notin Served \cup {"queued"}, Goes(c, p, n)
  PROVE  Owners'
<1>1. \A d \in Conns : /\ phase'[d] = "queued" <=> phase[d] = "queued"
                       /\ phase'[d] \in Served <=> phase[d] \in Served
  BY DEF Goes, TypeOK
<1> QED
  BY <1>1 DEF Owners, In, Once

LEMMA OwnersSame ==
  ASSUME Owners, UNCHANGED <<phase, queue, serves>>
  PROVE  Owners'
  BY DEF Owners, In, Once

\* A thread moves its connection on, and keeps it.
LEMMA OwnersServed ==
  ASSUME SlotInv, NEW t \in Threads, serves[t] # NoConn, NEW p \in Served, NEW n,
         Goes(serves[t], p, n), UNCHANGED <<queue, serves>>
  PROVE  Owners'
<1>1. serves[t] \in Conns /\ phase[serves[t]] \in Served
  BY ServedHasSlot
<1>2. \A d \in Conns : /\ phase'[d] = "queued" <=> phase[d] = "queued"
                       /\ phase'[d] \in Served <=> phase[d] \in Served
  BY <1>1 DEF Goes, SlotInv, TypeOK
<1> QED
  BY <1>2 DEF SlotInv, Owners, In, Once

\* A thread lets go of its connection.
LEMMA OwnersReleased ==
  ASSUME SlotInv, NEW t \in Threads, serves[t] # NoConn, NEW p \in {"out", "keep"}, NEW n,
         Goes(serves[t], p, n), serves' = [serves EXCEPT ![t] = NoConn], UNCHANGED queue
  PROVE  Owners'
<1> DEFINE c == serves[t]
<1>1. c \in Conns /\ phase[c] \in Served
  BY ServedHasSlot
<1>2. /\ \A d \in Conns \ {c} : phase'[d] = phase[d]
      /\ phase'[c] = p
  BY <1>1 DEF Goes, SlotInv, TypeOK
<1>3. /\ \A u \in Threads \ {t} : serves'[u] = serves[u]
      /\ serves'[t] = NoConn
  BY DEF SlotInv, TypeOK
<1>4. \A d \in Conns : phase'[d] = "queued" <=> In(queue', d)
  BY <1>1, <1>2 DEF SlotInv, Owners
<1>5. \A d \in Conns : phase'[d] \in Served <=> \E u \in Threads : serves'[u] = d
  <2>1. ASSUME NEW d \in Conns \ {c}
        PROVE  phase'[d] \in Served <=> \E u \in Threads : serves'[u] = d
    BY <1>2, <1>3, WorkerAssumption DEF SlotInv, Owners
  <2>2. ~ \E u \in Threads : serves'[u] = c
    BY <1>1, <1>3, WorkerAssumption DEF SlotInv, Owners
  <2> QED
    BY <1>1, <1>2, <2>1, <2>2
<1>6. \A u, v \in Threads : serves'[u] = serves'[v] /\ serves'[u] # NoConn => u = v
  BY <1>3 DEF SlotInv, Owners
<1>7. Once(queue')
  BY DEF SlotInv, Owners
<1> QED
  BY <1>4, <1>5, <1>6, <1>7 DEF Owners

LEMMA OwnersQueued ==
  ASSUME SlotInv, NEW c \in Conns, on_client_socket_readable(c)
  PROVE  Owners'
<1>1. phase[c] \in Waiting
  BY WorkerAssumption DEF on_client_socket_readable, SlotInv, EventsFresh
<1>2. ~In(queue, c) /\ Once(queue) /\ queue \in Seq(Conns)
  BY <1>1 DEF SlotInv, Owners, TypeOK
<1>3. queue' = Append(queue, c) /\ serves' = serves
  BY DEF on_client_socket_readable
<1>4. Once(queue') /\ \A d : In(queue', d) <=> In(queue, d) \/ d = c
  BY <1>2, <1>3, AppendOnce
<1>5. phase'[c] = "queued" /\ \A d \in Conns \ {c} : phase'[d] = phase[d]
  BY DEF on_client_socket_readable, Goes, SlotInv, TypeOK
<1>6. \A d \in Conns : phase'[d] = "queued" <=> In(queue', d)
  BY <1>4, <1>5 DEF SlotInv, Owners
<1>7. \A d \in Conns : phase'[d] \in Served <=> \E t \in Threads : serves'[t] = d
  BY <1>1, <1>3, <1>5 DEF SlotInv, Owners
<1> QED
  BY <1>3, <1>4, <1>6, <1>7 DEF SlotInv, Owners

LEMMA OwnersTaken ==
  ASSUME SlotInv, NEW t \in Threads, handle(t)
  PROVE  Owners'
<1> DEFINE c == Head(queue)
<1>1. queue # <<>> /\ queue \in Seq(Conns) /\ Once(queue)
  BY DEF handle, SlotInv, TypeOK, Owners
<1>2. c \in Conns /\ phase[c] = "queued"
  BY <1>1, QueueHead
<1>3. Once(queue') /\ \A d : In(queue', d) <=> In(queue, d) /\ d # c
  BY <1>1, TailOnce DEF handle
<1>4. phase'[c] = "headers" /\ \A d \in Conns \ {c} : phase'[d] = phase[d]
  BY <1>2 DEF handle, Goes, SlotInv, TypeOK
<1>5. serves'[t] = c /\ \A u \in Threads \ {t} : serves'[u] = serves[u]
  BY DEF handle, SlotInv, TypeOK
<1>6. \A u \in Threads : serves[u] # c
  BY <1>2 DEF SlotInv, Owners
<1>7. serves[t] = NoConn
  BY DEF handle
<1> HIDE DEF c
<1>8. \A d \in Conns : phase'[d] = "queued" <=> In(queue', d)
  BY <1>2, <1>3, <1>4 DEF SlotInv, Owners
<1>9. \A d \in Conns : phase'[d] \in Served <=> \E u \in Threads : serves'[u] = d
  <2>1. ASSUME NEW d \in Conns \ {c}
        PROVE  phase'[d] \in Served <=> \E u \in Threads : serves'[u] = d
    BY <1>4, <1>5, <1>7, WorkerAssumption DEF SlotInv, Owners
  <2> QED
    BY <1>4, <1>5, <2>1
<1>10. \A u, v \in Threads : serves'[u] = serves'[v] /\ serves'[u] # NoConn => u = v
  BY <1>5, <1>6 DEF SlotInv, Owners
<1> QED
  BY <1>3, <1>8, <1>9, <1>10 DEF Owners

LEMMA MainOwners ==
  ASSUME SlotInv, MainStep
  PROVE  Owners'
<1> USE DEF SlotInv
<1>1. CASE UNCHANGED <<phase, queue, serves>>
  BY <1>1, OwnersSame
<1>2. ASSUME NEW c \in Conns, accept(c)
      PROVE  Owners'
  BY <1>2, OwnersElsewhere DEF accept, pool
<1>3. ASSUME NEW c \in Expired("keep") \cup Expired("pending"), Release(c),
             UNCHANGED <<queue, serves>>
      PROVE  Owners'
  BY <1>3, OwnersElsewhere DEF Expired, Release
<1>4. \/ run_select \/ events_handled => UNCHANGED <<phase, queue, serves>>
  BY DEF run_select, events_handled, clients, pool
<1>5. murder_keepalived =>
          \/ UNCHANGED <<phase, queue, serves>>
          \/ /\ UNCHANGED <<queue, serves>>
             /\ \E c \in Expired("keep") \cup Expired("pending") : Release(c)
  BY DEF murder_keepalived, clients, pool
<1> QED
  BY <1>1, <1>2, <1>3, <1>4, <1>5, OwnersQueued DEF MainStep

LEMMA PoolOwners ==
  ASSUME SlotInv, NEW t \in Threads, PoolStep(t) \/ app_sticks(t)
  PROVE  Owners'
<1>1. CASE handle_request(t)
  BY <1>1, OwnersServed DEF handle_request, Serves
<1>2. ASSUME NEW result \in Returned, serves[t] # NoConn, handle_returns(t, result)
      PROVE  Owners'
  BY <1>2, OwnersServed DEF handle_returns
<1>3. CASE headers_cut(t) \/ body_cut(t) \/ app_returns(t)
  BY <1>2, <1>3 DEF headers_cut, body_cut, app_returns, Serves
<1>4. CASE read_body(t)
  BY <1>4, OwnersServed DEF read_body, Serves, pool
<1>5. CASE finish_request(t)
  BY <1>5, OwnersReleased DEF finish_request, Serves, Release
<1>6. CASE app_sticks(t)
  BY <1>6, OwnersSame DEF app_sticks, clients, SlotInv
<1> QED
  BY <1>1, <1>3, <1>4, <1>5, <1>6, OwnersTaken DEF PoolStep

LEMMA OtherOwners ==
  ASSUME SlotInv,
         MonitorStep \/ Tick \/ (\E c \in Conns : connect(c) \/ client_sends(c))
  PROVE  Owners'
<1>1. CASE UNCHANGED <<phase, queue, serves>>
  BY <1>1, OwnersSame DEF SlotInv
<1>2. CASE respawn
  <2>1. Len(<<>>) = 0
    OBVIOUS
  <2> QED
    BY <1>2, <2>1, WorkerAssumption DEF respawn, Owners, In, Once
<1>3. ASSUME NEW c \in Conns, connect(c)
      PROVE  Owners'
  BY <1>3, OwnersElsewhere DEF connect, pool, SlotInv
<1>4. \/ UNCHANGED <<phase, queue, serves>> \/ respawn \/ \E c \in Conns : connect(c)
  BY DEF MonitorStep, Tick, client_sends, _sweep_header_deadlines, _check_wedged, shutdown,
         clients, pool
<1> QED
  BY <1>1, <1>2, <1>3, <1>4

LEMMA OwnersStep ==
  ASSUME SlotInv, [Next]_vars
  PROVE  Owners'
<1>1. CASE UNCHANGED vars
  BY <1>1, OwnersSame DEF vars, clients, pool, SlotInv
<1> QED
  BY <1>1, MainOwners, PoolOwners, OtherOwners DEF Next
-----------------------------------------------------------------------------
(* The events of a pass *)

\* No connection leaves the poller and no slot is taken.
LEMMA EventsKept ==
  ASSUME SlotInv, UNCHANGED <<main, events>>, nr_conns' \in Nat, nr_conns' <= nr_conns,
         \A c \in Conns : phase[c] \in Waiting => phase'[c] \in Waiting
  PROVE  EventsFresh'
<1>1. \A c \in events : c # Listener => c \in Conns
  BY DEF SlotInv, TypeOK
<1>2. nr_conns \in Nat /\ WorkerConnections \in Nat
  BY WorkerAssumption DEF SlotInv, TypeOK
<1> QED
  BY <1>1, <1>2 DEF SlotInv, EventsFresh

LEMMA MainEvents ==
  ASSUME SlotInv, MainStep
  PROVE  EventsFresh'
<1> USE DEF SlotInv
<1>1. CASE run_select
  BY <1>1, WorkerAssumption DEF run_select, EventsFresh, clients, TypeOK
<1>2. CASE events_handled
  BY <1>2 DEF events_handled, EventsFresh
<1>3. CASE murder_keepalived
  <2>1. events = {} /\ events' = {} /\ main = "reap"
    BY <1>3 DEF murder_keepalived, EventsFresh
  <2> QED
    BY <2>1 DEF EventsFresh
<1>4. ASSUME NEW c \in Conns, accept(c)
      PROVE  EventsFresh'
  <2>1. \A d \in Conns : phase[d] \in Waiting => phase'[d] \in Waiting
    BY <1>4 DEF accept, Goes, TypeOK
  <2>2. events' = events \ {Listener} /\ main' = main
    BY <1>4 DEF accept
  <2> QED
    BY <2>1, <2>2 DEF EventsFresh, TypeOK
<1>5. ASSUME NEW c \in Conns, on_client_socket_readable(c)
      PROVE  EventsFresh'
  <2>1. \A d \in Conns \ {c} : phase'[d] = phase[d]
    BY <1>5 DEF on_client_socket_readable, Goes, TypeOK
  <2>2. events' = events \ {c} /\ main' = main /\ nr_conns' = nr_conns /\ main = "events"
    BY <1>5 DEF on_client_socket_readable
  <2> QED
    BY <2>1, <2>2 DEF EventsFresh, TypeOK
<1> QED
  BY <1>1, <1>2, <1>3, <1>4, <1>5 DEF MainStep

LEMMA PoolEvents ==
  ASSUME SlotInv, NEW t \in Threads, PoolStep(t) \/ app_sticks(t)
  PROVE  EventsFresh'
<1>1. UNCHANGED <<main, events>>
  BY DEF PoolStep, handle, handle_request, headers_cut, read_body, body_cut, app_returns,
         handle_returns, finish_request, app_sticks, loop
<1>2. nr_conns' = nr_conns \/ nr_conns' = nr_conns - 1
  BY DEF PoolStep, handle, handle_request, headers_cut, read_body, body_cut, app_returns,
         handle_returns, finish_request, app_sticks, clients, Release
<1>3. nr_conns' \in Nat /\ nr_conns' <= nr_conns
  <2>1. nr_conns' \in Nat /\ nr_conns \in Nat
    BY PoolCount, WorkerAssumption DEF SlotInv, TypeOK
  <2> QED
    BY <1>2, <2>1
<1>4. \A c \in Conns : phase[c] \in Waiting => phase'[c] \in Waiting
  <2>1. CASE handle(t)
    <3>1. Head(queue) \in Conns /\ phase[Head(queue)] = "queued"
      BY <2>1, QueueHead DEF handle
    <3> QED
      BY <2>1, <3>1 DEF handle, Goes, SlotInv, TypeOK
  <2>2. ASSUME serves[t] # NoConn, NEW p, NEW n, Goes(serves[t], p, n)
        PROVE  \A c \in Conns : phase[c] \in Waiting => phase'[c] \in Waiting
    BY <2>2, ServedHasSlot DEF Goes, SlotInv, TypeOK
  <2>3. CASE app_sticks(t)
    BY <2>3 DEF app_sticks, clients
  <2>4. CASE PoolStep(t) /\ ~handle(t)
    <3>1. serves[t] # NoConn /\ \E p, n : Goes(serves[t], p, n)
      BY <2>4 DEF PoolStep, handle_request, headers_cut, read_body, body_cut, app_returns,
                  handle_returns, finish_request, Release, Serves
    <3> QED
      BY <3>1, <2>2
  <2> QED
    BY <2>1, <2>3, <2>4
<1> QED
  BY <1>1, <1>3, <1>4, EventsKept

LEMMA OtherEvents ==
  ASSUME SlotInv,
         MonitorStep \/ Tick \/ (\E c \in Conns : connect(c) \/ client_sends(c))
  PROVE  EventsFresh'
<1>1. nr_conns \in Nat
  BY WorkerAssumption DEF SlotInv, TypeOK
<1>2. CASE UNCHANGED <<phase, nr_conns, main, events>>
  BY <1>1, <1>2, EventsKept
<1>3. CASE respawn
  BY <1>3 DEF respawn, EventsFresh
<1>4. ASSUME NEW c \in Conns, connect(c)
      PROVE  EventsFresh'
  <2>1. \A d \in Conns : phase[d] \in Waiting => phase'[d] \in Waiting
    BY <1>4 DEF connect, Goes, SlotInv, TypeOK
  <2> QED
    BY <1>1, <1>4, <2>1, EventsKept DEF connect, loop
<1>5. \/ UNCHANGED <<phase, nr_conns, main, events>>
      \/ respawn \/ \E c \in Conns : connect(c)
  BY DEF MonitorStep, Tick, client_sends, _sweep_header_deadlines, _check_wedged, shutdown,
         clients, loop
<1> QED
  BY <1>2, <1>3, <1>4, <1>5

LEMMA EventsStep ==
  ASSUME SlotInv, [Next]_vars
  PROVE  EventsFresh'
<1>1. CASE UNCHANGED vars
  <2>1. UNCHANGED <<phase, nr_conns, main, events>> /\ nr_conns \in Nat
    BY <1>1, WorkerAssumption DEF vars, clients, loop, SlotInv, TypeOK
  <2> QED
    BY <2>1, EventsKept
<1> QED
  BY <1>1, MainEvents, PoolEvents, OtherEvents DEF Next

-----------------------------------------------------------------------------
(* Types *)

\* A deadline is armed while the headers are read; the step moves no connection
\* whose thread stays armed.
LEMMA ArmedStep ==
  ASSUME SlotInv, armed' \subseteq armed,
         \A t \in armed' : serves'[t] = serves[t] /\ phase'[serves[t]] = phase[serves[t]]
  PROVE  armed' \subseteq {t \in Threads : Serves(t, "headers")'}
  BY DEF SlotInv, TypeOK, Serves

\* Nothing is armed for a connection that no thread reads the headers of.
LEMMA ArmedElsewhere ==
  ASSUME SlotInv, NEW c \in Conns, phase[c] # "headers", NEW p, NEW n, Goes(c, p, n),
         UNCHANGED <<serves, armed>>
  PROVE  armed' \subseteq {t \in Threads : Serves(t, "headers")'}
<1>1. \A t \in armed : serves[t] # c /\ serves[t] \in Conns
  BY WorkerAssumption DEF SlotInv, TypeOK, Serves
<1> QED
  BY <1>1, ArmedStep DEF Goes, SlotInv, TypeOK

\* A thread that moves its own connection on disarms its own deadline.
LEMMA ArmedServed ==
  ASSUME SlotInv, NEW t \in Threads, serves[t] # NoConn, NEW p, NEW n,
         Goes(serves[t], p, n), armed' = armed \ {t},
         \A u \in Threads \ {t} : serves'[u] = serves[u]
  PROVE  armed' \subseteq {u \in Threads : Serves(u, "headers")'}
<1>1. \A u \in armed' : u \in Threads \ {t} /\ serves[u] # NoConn /\ serves[u] # serves[t]
  BY DEF SlotInv, TypeOK, Serves, Owners
<1>2. \A u \in armed' : serves'[u] = serves[u] /\ phase'[serves[u]] = phase[serves[u]]
  BY <1>1 DEF Goes, SlotInv, TypeOK
<1> QED
  BY <1>2, ArmedStep
LEMMA MainArmed ==
  ASSUME SlotInv, MainStep
  PROVE  armed' \subseteq {t \in Threads : Serves(t, "headers")'}
<1>1. CASE UNCHANGED <<phase, serves, armed>>
  BY <1>1, ArmedStep
<1>2. ASSUME NEW c \in Conns, accept(c)
      PROVE  armed' \subseteq {t \in Threads : Serves(t, "headers")'}
  BY <1>2, ArmedElsewhere DEF accept, pool
<1>3. ASSUME NEW c \in Conns, on_client_socket_readable(c)
      PROVE  armed' \subseteq {t \in Threads : Serves(t, "headers")'}
  <2>1. phase[c] # "headers"
    BY <1>3, WorkerAssumption DEF on_client_socket_readable, SlotInv, EventsFresh
  <2> QED
    BY <1>3, <2>1, ArmedElsewhere DEF on_client_socket_readable
<1>4. ASSUME NEW c \in Expired("keep") \cup Expired("pending"), Release(c), UNCHANGED pool
      PROVE  armed' \subseteq {t \in Threads : Serves(t, "headers")'}
  BY <1>4, ArmedElsewhere DEF Expired, Release, pool
<1>5. run_select \/ events_handled => UNCHANGED <<phase, serves, armed>>
  BY DEF run_select, events_handled, clients, pool
<1>6. murder_keepalived =>
          \/ UNCHANGED <<phase, serves, armed>>
          \/ /\ UNCHANGED pool
             /\ \E c \in Expired("keep") \cup Expired("pending") : Release(c)
  BY DEF murder_keepalived, clients, pool
<1> QED
  BY <1>1, <1>2, <1>3, <1>4, <1>5, <1>6 DEF MainStep

LEMMA PoolArmed ==
  ASSUME SlotInv, NEW t \in Threads, PoolStep(t) \/ app_sticks(t)
  PROVE  armed' \subseteq {u \in Threads : Serves(u, "headers")'}
<1>1. CASE handle(t)
  <2> DEFINE c == Head(queue)
  <2>1. c \in Conns /\ phase[c] = "queued"
    BY <1>1, QueueHead DEF handle
  <2>2. /\ phase'[c] = "headers" /\ \A d \in Conns \ {c} : phase'[d] = phase[d]
        /\ serves'[t] = c /\ \A u \in Threads \ {t} : serves'[u] = serves[u]
        /\ armed' = armed \cup {t}
    BY <1>1, <2>1 DEF handle, Goes, SlotInv, TypeOK
  <2> HIDE DEF c
  <2>3. \A u \in armed : u \in Threads /\ u # t /\ serves[u] \in Conns \ {c}
    <3>1. \A u \in armed : Serves(u, "headers") /\ u \in Threads
      BY DEF SlotInv, TypeOK
    <3>2. serves[t] = NoConn
      BY <1>1 DEF handle
    <3> QED
      BY <2>1, <3>1, <3>2 DEF Serves, SlotInv, TypeOK
  <2>4. \A u \in armed : Serves(u, "headers")'
    BY <2>2, <2>3 DEF Serves, SlotInv, TypeOK
  <2>5. Serves(t, "headers")'
    BY <2>1, <2>2, WorkerAssumption DEF Serves
  <2> QED
    BY <2>2, <2>3, <2>4, <2>5
<1>2. CASE handle_request(t)
  BY <1>2, ArmedServed DEF handle_request, Serves
<1>3. ASSUME NEW result \in Returned, serves[t] # NoConn, handle_returns(t, result)
      PROVE  armed' \subseteq {u \in Threads : Serves(u, "headers")'}
  BY <1>3, ArmedServed DEF handle_returns
<1>4. CASE headers_cut(t) \/ body_cut(t) \/ app_returns(t)
  BY <1>3, <1>4 DEF headers_cut, body_cut, app_returns, Serves
<1>5. CASE read_body(t)
  <2>1. serves[t] \in Conns /\ phase[serves[t]] # "headers"
    BY <1>5, ServedHasSlot DEF read_body, Serves
  <2> QED
    BY <1>5, <2>1, ArmedElsewhere DEF read_body, pool
<1>6. CASE finish_request(t)
  <2>1. serves[t] # NoConn /\ phase[serves[t]] # "headers" /\ \E p, n : Goes(serves[t], p, n)
    BY <1>6 DEF finish_request, Serves, Release
  <2>2. t \notin armed
    BY <2>1 DEF SlotInv, TypeOK, Serves
  <2>3. armed' = armed \ {t} /\ \A u \in Threads \ {t} : serves'[u] = serves[u]
    BY <1>6, <2>2 DEF finish_request, SlotInv, TypeOK
  <2> QED
    BY <2>1, <2>3, ArmedServed
<1>7. CASE app_sticks(t)
  BY <1>7, ArmedStep DEF app_sticks, clients
<1> QED
  BY <1>1, <1>2, <1>4, <1>5, <1>6, <1>7 DEF PoolStep

LEMMA OtherArmed ==
  ASSUME SlotInv,
         MonitorStep \/ Tick \/ (\E c \in Conns : connect(c) \/ client_sends(c))
  PROVE  armed' \subseteq {t \in Threads : Serves(t, "headers")'}
<1>1. CASE UNCHANGED <<phase, serves>> /\ armed' \subseteq armed
  BY <1>1, ArmedStep
<1>2. CASE respawn
  BY <1>2 DEF respawn
<1>3. ASSUME NEW c \in Conns, connect(c)
      PROVE  armed' \subseteq {t \in Threads : Serves(t, "headers")'}
  BY <1>3, ArmedElsewhere DEF connect, pool
<1>4. \/ UNCHANGED <<phase, serves>> /\ armed' \subseteq armed
      \/ respawn \/ \E c \in Conns : connect(c)
  BY DEF MonitorStep, Tick, client_sends, _sweep_header_deadlines, _check_wedged, shutdown,
         clients, pool
<1> QED
  BY <1>1, <1>2, <1>3, <1>4

LEMMA GoesTypes ==
  ASSUME TypeOK, NEW c, NEW p \in Phases, NEW n \in Nat, Goes(c, p, n)
  PROVE  phase' \in [Conns -> Phases] /\ left' \in [Conns -> Nat]
  BY DEF Goes, TypeOK

\* What every step leaves well typed besides the count and the deadlines.
Rest ==
    /\ phase \in [Conns -> Phases]
    /\ sent \in [Conns -> {"nothing", "part", "whole", "eof"}]
    /\ left \in [Conns -> Nat]
    /\ queue \in Seq(Conns)
    /\ serves \in [Threads -> Conns \cup {NoConn}]
    /\ busy \in [Threads -> 0..(WedgeSeconds + 1)]
    /\ stuck \subseteq Threads
    /\ main \in {"select", "events", "reap"}
    /\ events \subseteq Conns \cup {Listener}
    /\ monitor \in {"sleep", "cut", "exit"} /\ late \subseteq Conns
    /\ buffered \subseteq Conns /\ quiet \in 0..(WedgeSeconds + 1)

LEMMA Timeouts ==
    /\ {KeepAlive, FirstByteTimeout, HeaderDeadline, PickupGrace, ClientTimeout} \subseteq Nat
    /\ WedgeSeconds \in Nat /\ WedgeSeconds + 1 \in Nat
  BY WorkerAssumption

LEMMA MainTypes ==
  ASSUME SlotInv, MainStep
  PROVE  Rest'
<1> USE DEF SlotInv
<1>1. CASE run_select
  BY <1>1 DEF run_select, Rest, TypeOK, clients, pool, sweep, history
<1>2. CASE events_handled
  BY <1>2 DEF events_handled, Rest, TypeOK, clients, pool, sweep, history
<1>3. ASSUME NEW c \in Conns, accept(c)
      PROVE  Rest'
  <2>1. phase' \in [Conns -> Phases] /\ left' \in [Conns -> Nat]
    BY <1>3, GoesTypes, Timeouts DEF accept
  <2> QED
    BY <1>3, <2>1 DEF accept, Rest, TypeOK, pool, sweep, history
<1>4. ASSUME NEW c \in Conns, on_client_socket_readable(c)
      PROVE  Rest'
  <2>1. phase' \in [Conns -> Phases] /\ left' \in [Conns -> Nat]
    BY <1>4, GoesTypes, Timeouts DEF on_client_socket_readable
  <2>2. queue' \in Seq(Conns)
    BY <1>4 DEF on_client_socket_readable, TypeOK
  <2> QED
    BY <1>4, <2>1, <2>2 DEF on_client_socket_readable, Rest, TypeOK, sweep, history
<1>5. CASE murder_keepalived
  <2>1. ASSUME NEW c, Release(c), UNCHANGED <<main, pool, events, sweep, history>>
        PROVE  Rest'
    BY <2>1, GoesTypes DEF Release, Rest, TypeOK, pool, sweep, history
  <2>2. CASE main' = "select" /\ UNCHANGED <<clients, pool, events, sweep, history>>
    BY <2>2 DEF Rest, TypeOK, clients, pool, sweep, history
  <2> QED
    BY <1>5, <2>1, <2>2 DEF murder_keepalived
<1> QED
  BY <1>1, <1>2, <1>3, <1>4, <1>5 DEF MainStep

LEMMA PoolTypes ==
  ASSUME SlotInv, NEW t \in Threads, PoolStep(t) \/ app_sticks(t)
  PROVE  Rest'
<1> USE DEF SlotInv
<1>1. CASE handle(t)
  <2>1. Head(queue) \in Conns /\ queue' \in Seq(Conns)
    BY <1>1, QueueHead, HeadTailProperties DEF handle, TypeOK
  <2>2. Later(left[Head(queue)], PickupGrace) \in Nat
    BY <2>1, Timeouts DEF Later, TypeOK
  <2>3. phase' \in [Conns -> Phases] /\ left' \in [Conns -> Nat]
    BY <1>1, <2>2, GoesTypes DEF handle
  <2>4. busy' \in [Threads -> 0..(WedgeSeconds + 1)]
    BY <1>1, Timeouts DEF handle, TypeOK
  <2> QED
    BY <1>1, <2>1, <2>3, <2>4 DEF handle, Rest, TypeOK, loop, sweep
<1>2. CASE handle_request(t)
  <2>1. phase' \in [Conns -> Phases] /\ left' \in [Conns -> Nat]
    BY <1>2, GoesTypes, Timeouts DEF handle_request
  <2> QED
    BY <1>2, <2>1 DEF handle_request, Rest, TypeOK, loop, sweep
<1>3. ASSUME NEW result \in Returned, handle_returns(t, result), UNCHANGED sent
      PROVE  Rest'
  <2>1. phase' \in [Conns -> Phases] /\ left' \in [Conns -> Nat]
    BY <1>3, GoesTypes DEF handle_returns
  <2>2. quiet' \in 0..(WedgeSeconds + 1)
    BY <1>3, Timeouts DEF handle_returns
  <2> QED
    BY <1>3, <2>1, <2>2 DEF handle_returns, Rest, TypeOK, loop, sweep
<1>4. CASE headers_cut(t) \/ body_cut(t) \/ app_returns(t)
  BY <1>3, <1>4 DEF headers_cut, body_cut, app_returns
<1>5. CASE read_body(t)
  <2>1. phase' \in [Conns -> Phases] /\ left' \in [Conns -> Nat]
    BY <1>5, GoesTypes DEF read_body
  <2> QED
    BY <1>5, <2>1 DEF read_body, Rest, TypeOK, pool, loop, sweep, history
<1>6. CASE finish_request(t)
  <2>1. phase' \in [Conns -> Phases] /\ left' \in [Conns -> Nat]
    BY <1>6, GoesTypes, Timeouts DEF finish_request, Release
  <2> QED
    BY <1>6, <2>1 DEF finish_request, Release, Rest, TypeOK, loop, sweep, history
<1>7. CASE app_sticks(t)
  BY <1>7 DEF app_sticks, Rest, TypeOK, clients, loop, sweep, history
<1> QED
  BY <1>1, <1>2, <1>4, <1>5, <1>6, <1>7 DEF PoolStep

LEMMA Aging ==
  ASSUME NEW n \in 0..(WedgeSeconds + 1)
  PROVE  Older(n) \in 0..(WedgeSeconds + 1)
  BY Timeouts DEF Older

LEMMA OtherTypes ==
  ASSUME SlotInv,
         MonitorStep \/ Tick \/ (\E c \in Conns : connect(c) \/ client_sends(c))
  PROVE  Rest'
<1> USE DEF SlotInv
<1>1. ASSUME NEW c \in Conns, connect(c)
      PROVE  Rest'
  <2>1. phase' \in [Conns -> Phases] /\ left' \in [Conns -> Nat]
    BY <1>1, GoesTypes DEF connect
  <2> QED
    BY <1>1, <2>1 DEF connect, Rest, TypeOK, pool, loop, sweep, history
<1>2. ASSUME NEW c \in Conns, client_sends(c)
      PROVE  Rest'
  BY <1>2 DEF client_sends, Rest, TypeOK, pool, loop, sweep, history
<1>3. CASE _sweep_header_deadlines
  <2>1. late' \subseteq Conns
    BY <1>3 DEF _sweep_header_deadlines, TypeOK, Serves
  <2> QED
    BY <1>3, <2>1 DEF _sweep_header_deadlines, Rest, TypeOK, clients, loop, history
<1>4. CASE _check_wedged
  BY <1>4 DEF _check_wedged, Rest, TypeOK, clients, pool, loop, history
<1>5. CASE respawn
  <2>1. busy' \in [Threads -> 0..(WedgeSeconds + 1)] /\ quiet' \in 0..(WedgeSeconds + 1)
    BY <1>5, Timeouts DEF respawn
  <2> QED
    BY <1>5, <2>1 DEF respawn, Rest, TypeOK
<1>6. ASSUME NEW c \in Conns, shutdown(c)
      PROVE  Rest'
  BY <1>6 DEF shutdown, Rest, TypeOK, pool, loop, history
<1>7. CASE Tick
  <2>1. left' \in [Conns -> Nat]
    BY <1>7 DEF Tick, TypeOK
  <2>2. busy' \in [Threads -> 0..(WedgeSeconds + 1)] /\ quiet' \in 0..(WedgeSeconds + 1)
    BY <1>7, Aging DEF Tick, TypeOK
  <2> QED
    BY <1>7, <2>1, <2>2 DEF Tick, Rest, TypeOK, loop, sweep
<1> QED
  BY <1>1, <1>2, <1>3, <1>4, <1>5, <1>6, <1>7 DEF MonitorStep

LEMMA TypeStep ==
  ASSUME SlotInv, [Next]_vars
  PROVE  TypeOK'
<1>1. nr_conns' \in 0..WorkerConnections
  BY CountStep
<1>2. CASE UNCHANGED vars
  BY <1>2 DEF vars, clients, pool, loop, sweep, history, TypeOK, SlotInv, Serves
<1>3. CASE Next
  <2>1. armed' \subseteq {t \in Threads : Serves(t, "headers")'}
    BY <1>3, MainArmed, PoolArmed, OtherArmed DEF Next
  <2>2. Rest'
    BY <1>3, MainTypes, PoolTypes, OtherTypes DEF Next
  <2> QED
    BY <1>1, <2>1, <2>2 DEF TypeOK, Rest
<1> QED
  BY <1>2, <1>3
LEMMA SlotInit == Init => SlotInv
<1> SUFFICES ASSUME Init PROVE SlotInv
  OBVIOUS
<1>1. Len(<<>>) = 0
  OBVIOUS
<1>2. TypeOK
  BY WorkerAssumption, Timeouts DEF Init, TypeOK
<1>3. Counted
  <2>1. Slots = {}
    BY DEF Init, Slots
  <2> QED
    BY <2>1, FS_EmptySet DEF Counted, Init
<1>4. Owners
  BY <1>1, WorkerAssumption DEF Init, Owners, In, Once
<1>5. EventsFresh
  BY DEF Init, EventsFresh
<1> QED
  BY <1>2, <1>3, <1>4, <1>5 DEF SlotInv

LEMMA SlotStep == SlotInv /\ [Next]_vars => SlotInv'
  BY TypeStep, CountStep, OwnersStep, EventsStep DEF SlotInv

LEMMA SlotInvariant == Spec => []SlotInv
  BY SlotInit, SlotStep, PTL DEF Spec

\* Every variable keeps its type; in particular the count of connections stays
\* between zero and worker_connections, and no deadline stays armed once the
\* headers are parsed.
THEOREM WorkerTypeCorrect == Spec => []TypeOK
<1>1. SlotInv => TypeOK
  BY DEF SlotInv
<1> QED
  BY <1>1, SlotInvariant, PTL

\* No slot is lost: the count is that of the connections the worker holds, and
\* each is where the main loop, the queue or a thread will take it from.
THEOREM SlotsAccounted == Spec => []Accounted
  BY AccountedParts, SlotInvariant, PTL

-----------------------------------------------------------------------------
(* Complete requests are not cut *)

\* A connection whose headers were there when a thread took it is under a
\* deadline that cannot pass before they are parsed.
Unhurried ==
    \A c \in buffered : phase[c] = "headers" /\ sent[c] = "whole" /\ left[c] # 0

\* A step that touches no connection whose headers are being read.
LEMMA UnhurriedKept ==
  ASSUME TypeOK, Unhurried, buffered' \subseteq buffered,
         \A c \in buffered' : /\ phase'[c] = phase[c]
                              /\ sent'[c] = sent[c] /\ left'[c] = left[c]
  PROVE  Unhurried'
  BY DEF Unhurried

LEMMA UnhurriedElsewhere ==
  ASSUME TypeOK, Unhurried, buffered' = buffered, NEW c \in Conns, phase[c] # "headers",
         NEW p, NEW n, Goes(c, p, n),
         \A d \in Conns \ {c} : sent'[d] = sent[d]
  PROVE  Unhurried'
<1>1. c \notin buffered
  BY DEF Unhurried
<1> QED
  BY <1>1, UnhurriedKept DEF Goes, TypeOK

LEMMA UnhurriedMain ==
  ASSUME SlotInv, Unhurried, MainStep
  PROVE  Unhurried'
<1> USE DEF SlotInv
<1>1. CASE UNCHANGED <<clients, buffered>>
  BY <1>1, UnhurriedKept DEF clients
<1>2. ASSUME NEW c \in Conns, accept(c)
      PROVE  Unhurried'
  BY <1>2, UnhurriedElsewhere DEF accept, history
<1>3. ASSUME NEW c \in Conns, on_client_socket_readable(c)
      PROVE  Unhurried'
  <2>1. phase[c] # "headers"
    BY <1>3, WorkerAssumption DEF on_client_socket_readable, EventsFresh
  <2> QED
    BY <1>3, <2>1, UnhurriedElsewhere DEF on_client_socket_readable, history
<1>4. ASSUME NEW c \in Expired("keep") \cup Expired("pending"), Release(c),
             UNCHANGED history
      PROVE  Unhurried'
  <2>1. \A d \in Conns \ {c} : sent'[d] = sent[d]
    BY <1>4 DEF Release, TypeOK
  <2> QED
    BY <1>4, <2>1, UnhurriedElsewhere DEF Expired, Release, history
<1>5. run_select \/ events_handled => UNCHANGED <<clients, buffered>>
  BY DEF run_select, events_handled, history
<1>6. murder_keepalived =>
          \/ UNCHANGED <<clients, buffered>>
          \/ /\ UNCHANGED history
             /\ \E c \in Expired("keep") \cup Expired("pending") : Release(c)
  BY DEF murder_keepalived, history
<1> QED
  BY <1>1, <1>2, <1>3, <1>4, <1>5, <1>6 DEF MainStep

LEMMA UnhurriedPool ==
  ASSUME SlotInv, Unhurried, NEW t \in Threads, PoolStep(t) \/ app_sticks(t)
  PROVE  Unhurried'
<1> USE DEF SlotInv
<1>1. CASE handle(t)
  <2> DEFINE c == Head(queue)
  <2>1. c \in Conns /\ phase[c] = "queued"
    BY <1>1, QueueHead DEF handle
  <2>2. c \notin buffered
    BY <2>1 DEF Unhurried
  <2>3. Later(left[c], PickupGrace) # 0
    BY <2>1, WorkerAssumption DEF Later, TypeOK
  <2>4. /\ phase'[c] = "headers" /\ left'[c] = Later(left[c], PickupGrace)
        /\ sent[c] = "whole" => sent'[c] = "whole"
        /\ buffered' = IF sent[c] = "whole" THEN buffered \cup {c} ELSE buffered
        /\ \A d \in Conns \ {c} :
               phase'[d] = phase[d] /\ sent'[d] = sent[d] /\ left'[d] = left[d]
    BY <1>1, <2>1 DEF handle, Goes, TypeOK
  <2> HIDE DEF c
  <2> QED
    BY <2>2, <2>3, <2>4 DEF Unhurried, TypeOK
<1>2. ASSUME serves[t] # NoConn, NEW p, NEW n, Goes(serves[t], p, n),
             buffered' = buffered \ {serves[t]},
             \A d \in Conns \ {serves[t]} : sent'[d] = sent[d]
      PROVE  Unhurried'
  BY <1>2, UnhurriedKept, ServedHasSlot DEF Goes, TypeOK
<1>3. CASE handle_request(t)
  BY <1>3, <1>2 DEF handle_request, Serves, TypeOK
<1>4. CASE headers_cut(t) \/ body_cut(t) \/ app_returns(t)
  <2>1. \E result \in Returned : handle_returns(t, result) /\ UNCHANGED sent /\ serves[t] # NoConn
    BY <1>4 DEF headers_cut, body_cut, app_returns, Serves
  <2> QED
    BY <2>1, <1>2 DEF handle_returns
<1>5. CASE read_body(t)
  <2>1. serves[t] \in Conns /\ phase[serves[t]] # "headers"
    BY <1>5, ServedHasSlot DEF read_body, Serves
  <2> QED
    BY <1>5, <2>1, UnhurriedElsewhere DEF read_body, history, TypeOK
<1>6. CASE finish_request(t)
  <2>1. serves[t] \in Conns /\ phase[serves[t]] # "headers"
    BY <1>6, ServedHasSlot DEF finish_request, Serves
  <2> QED
    BY <1>6, <2>1, UnhurriedElsewhere DEF finish_request, Release, history, TypeOK
<1>7. CASE app_sticks(t)
  BY <1>7, UnhurriedKept DEF app_sticks, clients, history
<1> QED
  BY <1>1, <1>3, <1>4, <1>5, <1>6, <1>7 DEF PoolStep

LEMMA UnhurriedOther ==
  ASSUME SlotInv, Unhurried,
         MonitorStep \/ Tick \/ (\E c \in Conns : connect(c) \/ client_sends(c))
  PROVE  Unhurried'
<1> USE DEF SlotInv
<1>1. CASE UNCHANGED <<clients, buffered>>
  BY <1>1, UnhurriedKept DEF clients
<1>2. ASSUME NEW c \in Conns, connect(c)
      PROVE  Unhurried'
  BY <1>2, UnhurriedElsewhere DEF connect, history
<1>3. ASSUME NEW c \in Conns, client_sends(c)
      PROVE  Unhurried'
  BY <1>3 DEF client_sends, history, Unhurried, TypeOK
<1>4. ASSUME NEW c \in Conns, shutdown(c)
      PROVE  Unhurried'
  BY <1>4 DEF shutdown, history, Unhurried, TypeOK
<1>5. CASE respawn
  BY <1>5 DEF respawn, Unhurried
<1>6. CASE Tick
  \* None is left to be parsed, for the parsers have caught up.
  <2>1. buffered = {}
    <3>1. \A c \in buffered : \E t \in Threads : serves[t] = c
      BY DEF Unhurried, Owners, TypeOK
    <3> QED
      BY <1>6, <3>1, WorkerAssumption DEF Tick, Prompt, Serves, Unhurried, TypeOK
  <2> QED
    BY <1>6, <2>1 DEF Tick, Unhurried
<1>7. _sweep_header_deadlines \/ _check_wedged => UNCHANGED <<clients, buffered>>
  BY DEF _sweep_header_deadlines, _check_wedged, history
<1> QED
  BY <1>1, <1>2, <1>3, <1>4, <1>5, <1>6, <1>7 DEF MonitorStep

LEMMA UnhurriedInvariant == Spec => [](SlotInv /\ Unhurried)
<1>1. Init => Unhurried
  BY DEF Init, Unhurried
<1>2. SlotInv /\ Unhurried /\ [Next]_vars => Unhurried'
  <2> SUFFICES ASSUME SlotInv, Unhurried, [Next]_vars
               PROVE  Unhurried'
    OBVIOUS
  <2>1. CASE UNCHANGED vars
    BY <2>1, UnhurriedKept DEF vars, clients, history, SlotInv
  <2> QED
    BY <2>1, UnhurriedMain, UnhurriedPool, UnhurriedOther DEF Next
<1> QED
  BY <1>1, <1>2, SlotInit, SlotStep, PTL DEF Spec

\* A request that was complete when a thread took its connection is not among
\* those the sweep collects, however long the connection waited in the queue.
THEOREM QueuedServed == Spec => QueuedNotCut
<1>1. SlotInv /\ Unhurried /\ [Next]_vars => [(late' \ late) \cap buffered = {}]_vars
  <2> SUFFICES ASSUME SlotInv, Unhurried, Next
               PROVE  (late' \ late) \cap buffered = {}
    OBVIOUS
  <2>1. CASE _sweep_header_deadlines
    BY <2>1 DEF _sweep_header_deadlines, Unhurried
  <2>2. CASE ~_sweep_header_deadlines
    <3>1. late' \subseteq late
      BY <2>2 DEF Next, MainStep, MonitorStep, PoolStep, connect, client_sends, run_select,
                  events_handled, murder_keepalived, accept, on_client_socket_readable,
                  handle, handle_request, headers_cut, read_body, body_cut, app_returns,
                  handle_returns, finish_request, app_sticks, _check_wedged, respawn,
                  shutdown, Tick, sweep
    <3> QED
      BY <3>1
  <2> QED
    BY <2>1, <2>2
<1> QED
  BY <1>1, UnhurriedInvariant, PTL DEF Spec, QueuedNotCut
-----------------------------------------------------------------------------
(* The watchdog *)

\* Of threads that are all busy, the one that finished with a connection last
\* has been in its request no longer than since then.
YoungestKnown == BusyThreads # Threads \/ \E t \in Threads : busy[t] <= quiet

LEMMA YoungestKept ==
  ASSUME SlotInv, YoungestKnown, UNCHANGED <<serves, busy, quiet>>,
         \A c \in Conns : phase'[c] \in InFlight => phase[c] \in InFlight
  PROVE  YoungestKnown'
<1>1. BusyThreads' \subseteq BusyThreads /\ BusyThreads \subseteq Threads
  BY DEF BusyThreads, SlotInv, TypeOK
<1> QED
  BY <1>1 DEF YoungestKnown

LEMMA YoungestGoes ==
  ASSUME SlotInv, YoungestKnown, UNCHANGED <<serves, busy, quiet>>, NEW c \in Conns, NEW p, NEW n,
         Goes(c, p, n), p \in InFlight => phase[c] \in InFlight
  PROVE  YoungestKnown'
<1>1. \A d \in Conns : phase'[d] \in InFlight => phase[d] \in InFlight
  BY DEF Goes, SlotInv, TypeOK
<1> QED
  BY <1>1, YoungestKept

LEMMA YoungestMain ==
  ASSUME SlotInv, YoungestKnown, MainStep
  PROVE  YoungestKnown'
<1>1. CASE UNCHANGED <<phase, serves, busy, quiet>>
  BY <1>1, YoungestKept
<1>2. ASSUME NEW c \in Conns, NEW p \in Phases \ InFlight, NEW n, Goes(c, p, n),
             UNCHANGED <<serves, busy, quiet>>
      PROVE  YoungestKnown'
  BY <1>2, YoungestGoes
<1>3. \/ UNCHANGED <<phase, serves, busy, quiet>>
      \/ /\ UNCHANGED <<serves, busy, quiet>>
         /\ \E c \in Conns : \E p \in Phases \ InFlight : \E n : Goes(c, p, n)
  BY DEF MainStep, run_select, events_handled, murder_keepalived, accept,
         on_client_socket_readable, Release, Expired, clients, pool, history
<1> QED
  BY <1>1, <1>2, <1>3

LEMMA YoungestPool ==
  ASSUME SlotInv, YoungestKnown, NEW t \in Threads, PoolStep(t) \/ app_sticks(t)
  PROVE  YoungestKnown'
<1>1. CASE handle(t)
  <2>1. busy'[t] = 0 /\ quiet' = quiet /\ quiet \in Nat
    BY <1>1, Timeouts DEF handle, SlotInv, TypeOK
  <2> QED
    BY <2>1 DEF YoungestKnown
<1>2. CASE handle_request(t) \/ read_body(t)
  <2>1. /\ serves[t] # NoConn /\ phase[serves[t]] \in InFlight
        /\ UNCHANGED <<serves, busy, quiet>>
        /\ \E p, n : Goes(serves[t], p, n)
    BY <1>2 DEF handle_request, read_body, Serves, pool, history
  <2> QED
    BY <2>1, ServedHasSlot, YoungestGoes
<1>3. CASE headers_cut(t) \/ body_cut(t) \/ app_returns(t)
  <2>1. /\ serves[t] # NoConn /\ serves' = serves
        /\ \E result \in Returned : Goes(serves[t], result, 0)
    BY <1>3 DEF headers_cut, body_cut, app_returns, handle_returns, Serves
  <2>2. phase'[serves[t]] \in Returned
    BY <2>1, ServedHasSlot DEF Goes, SlotInv, TypeOK
  <2>3. t \notin BusyThreads'
    BY <2>1, <2>2 DEF BusyThreads
  <2> QED
    BY <2>3 DEF YoungestKnown
<1>4. CASE finish_request(t)
  <2>1. serves'[t] = NoConn
    BY <1>4 DEF finish_request, SlotInv, TypeOK
  <2>2. t \notin BusyThreads'
    BY <2>1 DEF BusyThreads
  <2> QED
    BY <2>2 DEF YoungestKnown
<1>5. CASE app_sticks(t)
  BY <1>5, YoungestKept DEF app_sticks, clients, history
<1> QED
  BY <1>1, <1>2, <1>3, <1>4, <1>5 DEF PoolStep

LEMMA YoungestOther ==
  ASSUME SlotInv, YoungestKnown,
         MonitorStep \/ Tick \/ (\E c \in Conns : connect(c) \/ client_sends(c))
  PROVE  YoungestKnown'
<1>1. CASE UNCHANGED <<phase, serves, busy, quiet>>
  BY <1>1, YoungestKept
<1>2. ASSUME NEW c \in Conns, connect(c)
      PROVE  YoungestKnown'
  BY <1>2, YoungestGoes DEF connect, pool, history
<1>3. CASE respawn
  <2>1. BusyThreads' = {}
    BY <1>3 DEF respawn, BusyThreads
  <2> QED
    BY <2>1, WorkerAssumption DEF YoungestKnown
<1>4. CASE Tick
  <2>1. BusyThreads' = BusyThreads
    BY <1>4 DEF Tick, BusyThreads
  <2>2. ASSUME NEW t \in Threads, busy[t] <= quiet
        PROVE  busy'[t] <= quiet'
    <3>1. busy'[t] = Older(busy[t]) /\ quiet' = Older(quiet)
      BY <1>4 DEF Tick
    <3>2. busy[t] \in 0..(WedgeSeconds + 1) /\ quiet \in 0..(WedgeSeconds + 1)
      BY DEF SlotInv, TypeOK
    <3> QED
      BY <2>2, <3>1, <3>2, Timeouts DEF Older
  <2> QED
    BY <2>1, <2>2 DEF YoungestKnown
<1>5. \/ UNCHANGED <<phase, serves, busy, quiet>>
      \/ respawn \/ Tick \/ \E c \in Conns : connect(c)
  BY DEF MonitorStep, client_sends, _sweep_header_deadlines, _check_wedged, shutdown,
         clients, pool, history
<1> QED
  BY <1>1, <1>2, <1>3, <1>4, <1>5

LEMMA YoungestInvariant == Spec => [](SlotInv /\ YoungestKnown)
<1>1. Init => YoungestKnown
  BY WorkerAssumption DEF Init, YoungestKnown, BusyThreads
<1>2. SlotInv /\ YoungestKnown /\ [Next]_vars => YoungestKnown'
  <2> SUFFICES ASSUME SlotInv, YoungestKnown, [Next]_vars
               PROVE  YoungestKnown'
    OBVIOUS
  <2>1. CASE UNCHANGED vars
    BY <2>1, YoungestKept DEF vars, clients, pool, history
  <2> QED
    BY <2>1, YoungestMain, YoungestPool, YoungestOther DEF Next
<1> QED
  BY <1>1, <1>2, SlotInit, SlotStep, PTL DEF Spec

\* The watchdog's verdict means what its message says: no thread has finished
\* with anything for longer than WEDGE_SECONDS.
THEOREM WatchdogHonest == Spec => RecyclesOnlyStuck
<1>1. SlotInv /\ YoungestKnown /\ [Next]_vars
        => [monitor' = "exit" /\ monitor # "exit" => quiet > WedgeSeconds]_vars
  <2> SUFFICES ASSUME SlotInv, YoungestKnown, Next, monitor' = "exit", monitor # "exit"
               PROVE  quiet > WedgeSeconds
    OBVIOUS
  <2>1. _check_wedged
    BY DEF Next, MainStep, MonitorStep, PoolStep, connect, client_sends, run_select,
           events_handled, murder_keepalived, accept, on_client_socket_readable,
           handle, handle_request, headers_cut, read_body, body_cut, app_returns,
           handle_returns, finish_request, app_sticks, _sweep_header_deadlines, respawn,
           shutdown, Tick, sweep
  <2>2. BusyThreads = Threads /\ \A t \in Threads : busy[t] > WedgeSeconds
    BY <2>1 DEF _check_wedged
  <2>3. PICK t \in Threads : busy[t] <= quiet
    BY <2>2 DEF YoungestKnown
  <2>4. busy[t] \in Nat /\ quiet \in Nat
    BY Timeouts DEF SlotInv, TypeOK
  <2> QED
    BY <2>2, <2>3, <2>4, Timeouts
<1> QED
  BY <1>1, YoungestInvariant, PTL DEF Spec, RecyclesOnlyStuck

=============================================================================
