------------------------------ MODULE JniNode ------------------------------
(***************************************************************************)
(* The threads of the Android node: application threads (the UI and the    *)
(* coroutine that sends files) that call the JNI functions, and the        *)
(* receive and ticker threads that a JokerInstance starts and its          *)
(* destructor joins.  What the threads do to the protocol's state is kept  *)
(* to a minimum (Forwarding has it): here it matters which of them touches *)
(* what, and when.  A thread is *in* a structure from the step that enters *)
(* the window of that name to the step that leaves it.                     *)
(*                                                                         *)
(* g_mutex is held by an application thread through a whole call, so it is *)
(* a variable, as is pending_mutex_.  The other mutexes are left out:      *)
(* callback_mutex_ is only ever taken by the receive thread once the node  *)
(* is up, and peer_ip_mutex_ guards single accesses.  NoDataRace finds two *)
(* threads in one structure; what such a race does to it is not modelled.  *)
(***************************************************************************)
EXTENDS Naturals, FiniteSets

CONSTANTS
    App,            \* application threads
    MaxStarts,      \* bound on the nodes started
    MaxTimers       \* bound on the timers of one node

ASSUME JniAssumption ==
    /\ MaxStarts \in Nat
    /\ MaxTimers \in Nat
    /\ App \intersect {"rx", "ticker", "nobody"} = {}
    /\ IsFiniteSet(App)

Thread == App \union {"rx", "ticker"}

VARIABLES
    pc,             \* where each thread is
    alive,          \* g_node: there is a JokerInstance
    g_mutex,        \* who holds it
    pending_mutex,  \* who holds pending_mutex_
    running,        \* running_ of the adapter
    ticker_running, \* ticker_running_
    socket_fd,      \* socket_fd_; 0 for none
    open,           \* the sockets open in the kernel
    held_fd,        \* the descriptor each thread has read to send on
    timers,         \* how many entries are in timers_
    pending,        \* how many entries are in pending_
    starts          \* nodes started so far; names their sockets

vars == <<pc, alive, g_mutex, pending_mutex, running, ticker_running,
          socket_fd, open, held_fd, timers, pending, starts>>
node == <<running, ticker_running, socket_fd, open>>
work == <<timers, pending>>

Init ==
    /\ pc = [t \in Thread |-> IF t \in App THEN "idle" ELSE "none"]
    /\ alive = FALSE
    /\ g_mutex = "nobody"
    /\ pending_mutex = "nobody"
    /\ running = FALSE
    /\ ticker_running = FALSE
    /\ socket_fd = 0
    /\ open = {}
    /\ held_fd = [t \in Thread |-> 0]
    /\ timers = 0
    /\ pending = 0
    /\ starts = 0

Go(t, from, to) == pc[t] = from /\ pc' = [pc EXCEPT ![t] = to]

-----------------------------------------------------------------------------
(* The JNI functions.                                                      *)

Starting == {u \in App : pc[u] \in {"start", "open_socket"}}

Call(t) ==
    /\ \E op \in {"start", "stop", "send"} :
         /\ op = "start" => starts + Cardinality(Starting) < MaxStarts
         /\ Go(t, "idle", op)
    /\ UNCHANGED <<alive, g_mutex, pending_mutex, node, held_fd, work, starts>>

\* A call whose precondition does not hold takes the lock and returns.
ReturnAtOnce(t) ==
    /\ g_mutex = "nobody"
    /\ \/ alive /\ Go(t, "start", "idle")
       \/ ~ alive /\ (Go(t, "stop", "idle") \/ Go(t, "send", "idle"))
    /\ UNCHANGED <<alive, g_mutex, pending_mutex, node, held_fd, work, starts>>

EnterStart(t) ==
    /\ g_mutex = "nobody" /\ ~ alive
    /\ Go(t, "start", "open_socket")
    /\ g_mutex' = t
    /\ alive' = TRUE
    /\ UNCHANGED <<pending_mutex, node, held_fd, work, starts>>

\* UdpNicAdapter::Start
StartNic(t) ==
    /\ pc[t] = "open_socket"
    /\ pc' = [pc EXCEPT ![t] = "spawn_ticker", !["rx"] = "loop"]
    /\ starts' = starts + 1
    /\ socket_fd' = starts + 1
    /\ open' = open \union {starts + 1}
    /\ running' = TRUE
    /\ UNCHANGED <<alive, g_mutex, pending_mutex, ticker_running, held_fd, work>>

\* Its failures are logged; the node goes on without a socket.
StartNicFails(t) ==
    /\ Go(t, "open_socket", "spawn_ticker")
    /\ UNCHANGED <<alive, g_mutex, pending_mutex, node, held_fd, work, starts>>

SpawnTicker(t) ==
    /\ pc[t] = "spawn_ticker"
    /\ pc' = [pc EXCEPT ![t] = "idle", !["ticker"] = "sleep"]
    /\ ticker_running' = TRUE
    /\ g_mutex' = "nobody"
    /\ UNCHANGED <<alive, pending_mutex, running, socket_fd, open, held_fd, work, starts>>

\* Mutant of EnterStop: the ticker is not told to stop.
EnterStopQuietly(t) ==
    /\ g_mutex = "nobody" /\ alive
    /\ Go(t, "stop", "join_ticker")
    /\ g_mutex' = t
    /\ UNCHANGED <<alive, pending_mutex, node, held_fd, work, starts>>

\* ~JokerInstance, from here to FreeNode.
EnterStop(t) ==
    /\ g_mutex = "nobody" /\ alive
    /\ Go(t, "stop", "join_ticker")
    /\ g_mutex' = t
    /\ ticker_running' = FALSE
    /\ UNCHANGED <<alive, pending_mutex, running, socket_fd, open, held_fd, work, starts>>

\* Mutant of JoinTicker: the adapter is stopped first, the ticker not joined.
StopNicUnderTicker(t) ==
    /\ Go(t, "join_ticker", "stop_nic")
    /\ UNCHANGED <<alive, g_mutex, pending_mutex, node, held_fd, work, starts>>

JoinTicker(t) ==
    /\ pc["ticker"] = "done"
    /\ pc[t] = "join_ticker"
    /\ pc' = [pc EXCEPT ![t] = "stop_nic", !["ticker"] = "none"]
    /\ UNCHANGED <<alive, g_mutex, pending_mutex, node, held_fd, work, starts>>

\* UdpNicAdapter::Stop: of a running adapter, or of one that never started.
StopNic(t) ==
    /\ IF running THEN Go(t, "stop_nic", "join_rx") ELSE Go(t, "stop_nic", "free")
    /\ running' = FALSE
    /\ UNCHANGED <<alive, g_mutex, pending_mutex, ticker_running, socket_fd,
                   open, held_fd, work, starts>>

\* Mutant of JoinRx: the receive thread is left to itself.
DetachRx(t) ==
    /\ Go(t, "join_rx", "close_socket")
    /\ UNCHANGED <<alive, g_mutex, pending_mutex, node, held_fd, work, starts>>

JoinRx(t) ==
    /\ pc["rx"] = "done"
    /\ pc[t] = "join_rx"
    /\ pc' = [pc EXCEPT ![t] = "close_socket", !["rx"] = "none"]
    /\ UNCHANGED <<alive, g_mutex, pending_mutex, node, held_fd, work, starts>>

\* Mutant of CloseSocket: the descriptor is forgotten, not closed.
CloseSocketLeaking(t) ==
    /\ Go(t, "close_socket", "free")
    /\ socket_fd' = 0
    /\ UNCHANGED <<alive, g_mutex, pending_mutex, running, ticker_running,
                   open, held_fd, work, starts>>

CloseSocket(t) ==
    /\ Go(t, "close_socket", "free")
    /\ open' = open \ {socket_fd}
    /\ socket_fd' = 0
    /\ UNCHANGED <<alive, g_mutex, pending_mutex, running, ticker_running,
                   held_fd, work, starts>>

FreeNode(t) ==
    /\ Go(t, "free", "idle")
    /\ alive' = FALSE
    /\ timers' = 0
    /\ pending' = 0
    /\ g_mutex' = "nobody"
    /\ UNCHANGED <<pending_mutex, node, held_fd, starts>>

\* send_from_node: into the duplicate cache, then to the adapter.
EnterSend(t) ==
    /\ g_mutex = "nobody" /\ alive
    /\ Go(t, "send", "in_dedup")
    /\ g_mutex' = t
    /\ UNCHANGED <<alive, pending_mutex, node, held_fd, work, starts>>

LeaveDedup(t) ==
    /\ t \in App
    /\ Go(t, "in_dedup", "load_fd")
    /\ UNCHANGED <<alive, g_mutex, pending_mutex, node, held_fd, work, starts>>

\* SendUdpPacket, by an application thread or the ticker: the descriptor is
\* read, and used later.
Resume(t) == IF t \in App THEN "idle" ELSE "in_wheel"
Unlocked(t) == IF t \in App THEN "nobody" ELSE g_mutex

LoadFd(t) ==
    /\ IF socket_fd = 0
       THEN Go(t, "load_fd", Resume(t)) /\ g_mutex' = Unlocked(t)
       ELSE Go(t, "load_fd", "send_to") /\ UNCHANGED g_mutex
    /\ held_fd' = [held_fd EXCEPT ![t] = socket_fd]
    /\ UNCHANGED <<alive, pending_mutex, node, work, starts>>

SendTo(t) ==
    /\ Go(t, "send_to", Resume(t))
    /\ g_mutex' = Unlocked(t)
    /\ held_fd' = [held_fd EXCEPT ![t] = 0]
    /\ UNCHANGED <<alive, pending_mutex, node, work, starts>>

AppStep(t) ==
    \/ ReturnAtOnce(t)
    \/ EnterStart(t) \/ StartNic(t) \/ StartNicFails(t) \/ SpawnTicker(t)
    \/ EnterStop(t) \/ JoinTicker(t) \/ StopNic(t) \/ JoinRx(t)
    \/ CloseSocket(t) \/ FreeNode(t)
    \/ EnterSend(t) \/ LeaveDedup(t) \/ LoadFd(t) \/ SendTo(t)

-----------------------------------------------------------------------------
(* ReceiveLoop.                                                            *)

RxLoop ==
    /\ IF running THEN Go("rx", "loop", "recv") ELSE Go("rx", "loop", "done")
    /\ UNCHANGED <<alive, g_mutex, pending_mutex, node, held_fd, work, starts>>

\* recvfrom returns, with nothing, because the socket was shut down.
RxWoken ==
    /\ ~ running
    /\ Go("rx", "recv", "loop")
    /\ UNCHANGED <<alive, g_mutex, pending_mutex, node, held_fd, work, starts>>

\* recvfrom fails: the loop is left, the adapter still counts as running.
RxError ==
    /\ running
    /\ Go("rx", "recv", "done")
    /\ UNCHANGED <<alive, g_mutex, pending_mutex, node, held_fd, work, starts>>

\* A frame: its callback looks into the duplicate cache.
RxFrame ==
    /\ Go("rx", "recv", "in_dedup")
    /\ UNCHANGED <<alive, g_mutex, pending_mutex, node, held_fd, work, starts>>

\* Dropped, or delivered to the Java side, which only queues it.
RxFrameDone ==
    /\ Go("rx", "in_dedup", "loop")
    /\ UNCHANGED <<alive, g_mutex, pending_mutex, node, held_fd, work, starts>>

\* The adapter says of every frame that the node is its candidate, so none is
\* filed as overheard; and an id comes back only after a thousand others
\* (Forwarding has both), so each acceptance makes an entry of its own.
RxAccept ==
    /\ timers < MaxTimers
    /\ Go("rx", "in_dedup", "lock_pending")
    /\ UNCHANGED <<alive, g_mutex, pending_mutex, node, held_fd, work, starts>>

RxLockPending ==
    /\ pending_mutex = "nobody"
    /\ Go("rx", "lock_pending", "in_wheel")
    /\ pending_mutex' = "rx"
    /\ UNCHANGED <<alive, g_mutex, node, held_fd, work, starts>>

\* Mutant of RxSchedule: the lock only covers the call to Schedule.
RxScheduleUnlocking ==
    /\ Go("rx", "in_wheel", "in_pending")
    /\ timers' = timers + 1
    /\ pending_mutex' = "nobody"
    /\ UNCHANGED <<alive, g_mutex, node, held_fd, pending, starts>>

RxSchedule ==
    /\ Go("rx", "in_wheel", "in_pending")
    /\ timers' = timers + 1
    /\ UNCHANGED <<alive, g_mutex, pending_mutex, node, held_fd, pending, starts>>

RxEnterPending ==
    /\ Go("rx", "in_pending", "loop")
    /\ pending' = pending + 1
    /\ pending_mutex' = "nobody"
    /\ UNCHANGED <<alive, g_mutex, node, held_fd, timers, starts>>

Rx ==
    \/ RxLoop \/ RxWoken \/ RxError \/ RxFrame \/ RxFrameDone
    \/ RxAccept \/ RxLockPending \/ RxSchedule \/ RxEnterPending

-----------------------------------------------------------------------------
(* The ticker thread: Tick every 10 ms.                                    *)

TickerLoop ==
    /\ IF ticker_running THEN Go("ticker", "sleep", "in_wheel")
                         ELSE Go("ticker", "sleep", "done")
    /\ UNCHANGED <<alive, g_mutex, pending_mutex, node, held_fd, work, starts>>

\* Nothing in the heap is due.
TickEnds ==
    /\ Go("ticker", "in_wheel", "sleep")
    /\ UNCHANGED <<alive, g_mutex, pending_mutex, node, held_fd, work, starts>>

TickPops ==
    /\ timers > 0
    /\ Go("ticker", "in_wheel", "lock_pending")
    /\ timers' = timers - 1
    /\ UNCHANGED <<alive, g_mutex, pending_mutex, node, held_fd, pending, starts>>

CallbackLocks ==
    /\ pending_mutex = "nobody"
    /\ Go("ticker", "lock_pending", "in_pending")
    /\ pending_mutex' = "ticker"
    /\ UNCHANGED <<alive, g_mutex, node, held_fd, work, starts>>

\* Mutant of CallbackTakes: the entry is read and not erased.
CallbackPeeks ==
    /\ \/ pending > 0 /\ Go("ticker", "in_pending", "load_fd")
       \/ Go("ticker", "in_pending", "in_wheel")
    /\ pending_mutex' = "nobody"
    /\ UNCHANGED <<alive, g_mutex, node, held_fd, timers, pending, starts>>

\* The callback takes its entry, if there is one; then it forwards the frame,
\* or finds that its TTL has run out.
CallbackTakes ==
    /\ pending' = IF pending > 0 THEN pending - 1 ELSE 0
    /\ \/ pending > 0 /\ Go("ticker", "in_pending", "load_fd")
       \/ Go("ticker", "in_pending", "in_wheel")
    /\ pending_mutex' = "nobody"
    /\ UNCHANGED <<alive, g_mutex, node, held_fd, timers, starts>>

Ticker ==
    \/ TickerLoop \/ TickEnds \/ TickPops
    \/ CallbackLocks \/ CallbackTakes
    \/ LoadFd("ticker") \/ SendTo("ticker")

Next ==
    \/ \E t \in App : Call(t) \/ AppStep(t)
    \/ Rx \/ Ticker

\* Every thread runs when it can.  No frame need ever arrive.  The callback
\* is not kept from pending_mutex_ for ever by the receive thread, and a Tick
\* ends: it reads the clock once, so only finitely many timers are due in it.
Fairness ==
    /\ \A t \in App : WF_vars(AppStep(t))
    /\ WF_vars(Rx /\ ~ RxFrame /\ ~ RxError)
    /\ WF_vars(Ticker) /\ SF_vars(TickEnds) /\ SF_vars(CallbackLocks)

Spec == Init /\ [][Next]_vars /\ Fairness

-----------------------------------------------------------------------------
AppPlaces == {"idle", "start", "stop", "send", "open_socket", "spawn_ticker",
              "join_ticker", "stop_nic", "join_rx", "close_socket", "free",
              "in_dedup", "load_fd", "send_to"}

TypeOK ==
    /\ \A t \in App : pc[t] \in AppPlaces
    /\ pc["rx"] \in {"none", "loop", "recv", "in_dedup", "lock_pending",
                     "in_wheel", "in_pending", "done"}
    /\ pc["ticker"] \in {"none", "sleep", "in_wheel", "lock_pending",
                         "in_pending", "load_fd", "send_to", "done"}
    /\ g_mutex \in App \union {"nobody"}
    /\ pending_mutex \in {"rx", "ticker", "nobody"}
    /\ alive \in BOOLEAN /\ running \in BOOLEAN /\ ticker_running \in BOOLEAN
    /\ open \subseteq 1..MaxStarts /\ socket_fd \in 0..MaxStarts
    /\ held_fd \in [Thread -> 0..MaxStarts]
    /\ timers \in 0..MaxTimers /\ pending \in 0..(MaxTimers + 1)
    /\ starts \in 0..MaxStarts

\* The threads that are at a step which uses the node's memory.
UsesNode(t) ==
    IF t \in App THEN pc[t] \notin {"idle", "start", "stop", "send"}
                ELSE pc[t] \notin {"none", "done"}

(* No use after free: whatever calls overlap, no thread is inside a node   *)
(* that is not there, and the threads of one node are gone before the next *)
(* is built (joker_jni.cpp:169-177).                                       *)
NoUseAfterFree ==
    /\ \A t \in Thread : UsesNode(t) => alive
    /\ \A t \in App : pc[t] \in {"free", "open_socket"} =>
          pc["rx"] = "none" /\ pc["ticker"] = "none"

(* The descriptor that SendUdpPacket read before is still open when it is  *)
(* used, and is the node's: Stop cannot close it in between, nor can the   *)
(* number have gone to another socket (udp_nic_adapter.cpp:146-167).       *)
SendsOnOpenSocket ==
    \A t \in Thread : pc[t] = "send_to" => held_fd[t] \in open /\ held_fd[t] = socket_fd

(* Each entry of pending_ has its timer in the heap, or the ticker is on    *)
(* its way to take it: a timer that is popped while its entry is still      *)
(* being made finds the entry when it gets there, since the receive thread  *)
(* locks pending_mutex_ before it schedules (coordinator_timer.cpp:46-50).  *)
(* Otherwise the entry, and the frame in it, would stay for ever.           *)
EntryHasTimer ==
    pending <= timers + (IF pc["ticker"] \in {"lock_pending", "in_pending"} THEN 1 ELSE 0)

(* Sockets do not leak over starts and stops.                              *)
OneSocket == open = IF socket_fd = 0 THEN {} ELSE {socket_fd}

(* A stop that has begun comes to its end: neither join waits for ever,    *)
(* although the caller holds g_mutex and frames may keep coming.           *)
StopFinishes ==
    \A t \in App : pc[t] = "join_ticker" ~> pc[t] = "idle"

(* "no data races" (IMPLEMENTATION.md:1604): no two threads are at once in  *)
(* the duplicate cache, "Sharded mutex or lock-free bounded ring buffer",   *)
(* or in the heap of the timer wheel, "Timer wheel with its own lock, or    *)
(* owned exclusively by the event-loop thread" (ARCHITECTURE.md:706-707).   *)
NoDataRace ==
    \A place \in {"in_dedup", "in_wheel"} :
        Cardinality({t \in Thread : pc[t] = place}) <= 1
=============================================================================
