--------------------------- MODULE JniNodeProofs ---------------------------
(***************************************************************************)
(* Nothing of a node is used after it is freed, for any number of threads  *)
(* that start, stop and send, any number of nodes and of timers.  The      *)
(* argument is about phases: g_mutex lets one thread at a time be inside a *)
(* JNI function, and each place inside says which of the node's threads,   *)
(* its socket and its flag are still there.  The rest follows: what the    *)
(* descriptor is, that nobody holds an old one, and that a freed node has  *)
(* neither threads nor frames.                                             *)
(***************************************************************************)
EXTENDS JniNode, FiniteSetTheorems, TLAPS

Outside == {"idle", "start", "stop", "send"}
RxPlaces == {"none", "loop", "recv", "in_dedup", "lock_pending", "in_wheel",
             "in_pending", "done"}
TickerPlaces == {"none", "sleep", "in_wheel", "lock_pending", "in_pending",
                 "load_fd", "send_to", "done"}

Types ==
    /\ pc \in [Thread -> AppPlaces \union RxPlaces \union TickerPlaces]
    /\ \A t \in App : pc[t] \in AppPlaces
    /\ pc["rx"] \in RxPlaces /\ pc["ticker"] \in TickerPlaces
    /\ g_mutex \in App \union {"nobody"}
    /\ pending_mutex \in {"rx", "ticker", "nobody"}
    /\ alive \in BOOLEAN /\ running \in BOOLEAN /\ ticker_running \in BOOLEAN
    /\ socket_fd \in Nat /\ starts \in Nat
    /\ held_fd \in [Thread -> Nat]
    /\ timers \in Nat /\ pending \in Nat

\* Who is inside a JNI function holds g_mutex, and the node is there.
Locked ==
    \A t \in App : /\ pc[t] \notin Outside <=> g_mutex = t
                   /\ pc[t] \notin Outside => alive

\* What each place leaves of the node.
Phase ==
    \A t \in App :
        /\ pc[t] \in {"open_socket", "spawn_ticker", "stop_nic", "join_rx",
                      "close_socket", "free"} => pc["ticker"] = "none"
        /\ pc[t] \in {"open_socket", "close_socket", "free"} => pc["rx"] = "none"
        /\ pc[t] \in {"open_socket", "free"} => socket_fd = 0
        /\ pc[t] \in {"open_socket", "join_rx", "close_socket", "free"} => ~ running

\* Outside the end of a Stop, there is a socket and a receive thread if, and
\* only if, the adapter runs.
Adapter ==
    /\ running => socket_fd # 0
    /\ ~ running => \/ pc["rx"] = "none" /\ socket_fd = 0
                    \/ \E t \in App : pc[t] \in {"join_rx", "close_socket"}

Gone == ~ alive => pc["rx"] = "none" /\ pc["ticker"] = "none" /\ socket_fd = 0

Descriptors == OneSocket /\ SendsOnOpenSocket

Lifecycle == Types /\ Locked /\ Phase /\ Adapter /\ Gone /\ Descriptors

(* No application thread is one of the node's own.                         *)
LEMMA AppThreads ==
    /\ \A t \in App : t \notin {"rx", "ticker", "nobody"} /\ t \in Thread
    /\ "rx" \in Thread /\ "ticker" \in Thread
BY JniAssumption DEF Thread

(* The phases hold in every initial state.                                 *)
LEMMA LifecycleInitially == Init => Lifecycle
<1> SUFFICES ASSUME Init PROVE Lifecycle
  OBVIOUS
<1>1. /\ \A t \in App : pc[t] = "idle"
      /\ pc["rx"] = "none" /\ pc["ticker"] = "none"
      /\ pc \in [Thread -> AppPlaces \union RxPlaces \union TickerPlaces]
  BY AppThreads DEF Init, AppPlaces, RxPlaces
<1>2. Types
  BY <1>1 DEF Init, Types, AppPlaces, RxPlaces, TickerPlaces
<1>3. Locked /\ Phase /\ Adapter /\ Gone
  BY <1>1, AppThreads DEF Init, Locked, Phase, Adapter, Gone, Outside
<1>4. Descriptors
  BY <1>1 DEF Init, Descriptors, OneSocket, SendsOnOpenSocket, Thread
<1> QED
  BY <1>2, <1>3, <1>4 DEF Lifecycle

(* The calls themselves, start and send.                                   *)
LEMMA CallsKeep ==
    ASSUME Lifecycle, NEW t \in App,
           \/ Call(t) \/ ReturnAtOnce(t)
           \/ EnterStart(t) \/ StartNic(t) \/ StartNicFails(t) \/ SpawnTicker(t)
           \/ EnterSend(t) \/ LeaveDedup(t)
    PROVE  Lifecycle'
<1> USE AppThreads
    DEF Lifecycle, Types, Locked, Phase, Adapter, Gone, Descriptors, OneSocket,
        SendsOnOpenSocket, AppPlaces, RxPlaces, TickerPlaces, Outside, Go, node, work
<1>1. CASE Call(t)
  BY <1>1 DEF Call
<1>2. CASE ReturnAtOnce(t)
  BY <1>2 DEF ReturnAtOnce
<1>3. CASE EnterStart(t)
  BY <1>3 DEF EnterStart
<1>4. CASE StartNic(t)
  BY <1>4 DEF StartNic
<1>5. CASE StartNicFails(t)
  BY <1>5 DEF StartNicFails
<1>6. CASE SpawnTicker(t)
  BY <1>6 DEF SpawnTicker
<1>7. CASE EnterSend(t)
  BY <1>7 DEF EnterSend
<1>8. CASE LeaveDedup(t)
  BY <1>8 DEF LeaveDedup
<1> QED
  BY <1>1, <1>2, <1>3, <1>4, <1>5, <1>6, <1>7, <1>8

(* A stop, from telling the ticker to the memory.                          *)
LEMMA StopKeeps ==
    ASSUME Lifecycle, NEW t \in App,
           \/ EnterStop(t) \/ JoinTicker(t) \/ StopNic(t) \/ JoinRx(t)
           \/ CloseSocket(t) \/ FreeNode(t)
    PROVE  Lifecycle'
<1> USE AppThreads
    DEF Lifecycle, Types, Locked, Phase, Adapter, Gone, Descriptors, OneSocket,
        SendsOnOpenSocket, AppPlaces, RxPlaces, TickerPlaces, Outside, Go, node, work
<1>1. CASE EnterStop(t)
  <2>1. Types'
    <3>1. ticker_running' = FALSE
      BY <1>1, Zenon DEF EnterStop
    <3>2. ticker_running' \in BOOLEAN
      BY <3>1, Zenon
    <3> QED
      BY <1>1, <3>2 DEF EnterStop
  <2>2. Locked'
    BY <1>1 DEF EnterStop
  <2>3. Phase'
    BY <1>1 DEF EnterStop
  <2>4. Adapter'
    BY <1>1 DEF EnterStop
  <2>5. Gone'
    BY <1>1 DEF EnterStop
  <2>6. Descriptors'
    BY <1>1 DEF EnterStop, Thread
  <2> QED
    BY <2>1, <2>2, <2>3, <2>4, <2>5, <2>6
<1>2. CASE JoinTicker(t)
  BY <1>2 DEF JoinTicker
<1>3. CASE StopNic(t)
  <2>1. Types'
    <3>1. running' = FALSE
      BY <1>3, Zenon DEF StopNic
    <3>2. running' \in BOOLEAN
      BY <3>1, Zenon
    <3> QED
      BY <1>3, <3>2 DEF StopNic
  <2>2. Locked'
    BY <1>3 DEF StopNic
  <2>3. Phase'
    BY <1>3 DEF StopNic
  <2>4. Adapter'
    BY <1>3 DEF StopNic
  <2>5. Gone'
    BY <1>3 DEF StopNic
  <2>6. Descriptors'
    BY <1>3 DEF StopNic, Thread
  <2> QED
    BY <2>1, <2>2, <2>3, <2>4, <2>5, <2>6
<1>4. CASE JoinRx(t)
  BY <1>4 DEF JoinRx
<1>5. CASE CloseSocket(t)
  <2>1. Types'
    BY <1>5 DEF CloseSocket
  <2>2. Locked'
    BY <1>5 DEF CloseSocket
  <2>3. Phase'
    BY <1>5 DEF CloseSocket
  <2>4. Adapter'
    BY <1>5 DEF CloseSocket
  <2>5. Gone'
    BY <1>5 DEF CloseSocket
  <2>6. Descriptors'
    BY <1>5 DEF CloseSocket, Thread
  <2> QED
    BY <2>1, <2>2, <2>3, <2>4, <2>5, <2>6
<1>6. CASE FreeNode(t)
  BY <1>6 DEF FreeNode
<1> QED
  BY <1>1, <1>2, <1>3, <1>4, <1>5, <1>6

(* What the receive thread does inside a node keeps the phases: it comes   *)
(* and goes by itself, and whoever waits for it waits.                     *)
LEMMA RxKeeps ==
    ASSUME Lifecycle, Rx
    PROVE  Lifecycle'
<1> USE AppThreads
    DEF Lifecycle, Types, Locked, Phase, Adapter, Gone, Descriptors, OneSocket,
        SendsOnOpenSocket, AppPlaces, RxPlaces, TickerPlaces, Outside, Go, node, work
<1>1. CASE RxLoop
  BY <1>1 DEF RxLoop
<1>2. CASE RxWoken
  BY <1>2 DEF RxWoken
<1>3. CASE RxError
  BY <1>3 DEF RxError
<1>4. CASE RxFrame
  BY <1>4 DEF RxFrame
<1>5. CASE RxFrameDone
  BY <1>5 DEF RxFrameDone
<1>6. CASE RxAccept
  BY <1>6 DEF RxAccept
<1>7. CASE RxLockPending
  BY <1>7 DEF RxLockPending
<1>8. CASE RxSchedule
  BY <1>8 DEF RxSchedule
<1>9. CASE RxEnterPending
  BY <1>9 DEF RxEnterPending
<1> QED
  BY <1>1, <1>2, <1>3, <1>4, <1>5, <1>6, <1>7, <1>8, <1>9 DEF Rx

(* So does what the ticker does, but for sending.                          *)
LEMMA TickerKeeps ==
    ASSUME Lifecycle,
           TickerLoop \/ TickEnds \/ TickPops \/ CallbackLocks \/ CallbackTakes
    PROVE  Lifecycle'
<1> USE AppThreads
    DEF Lifecycle, Types, Locked, Phase, Adapter, Gone, Descriptors, OneSocket,
        SendsOnOpenSocket, AppPlaces, RxPlaces, TickerPlaces, Outside, Go, node, work
<1>1. CASE TickerLoop
  BY <1>1 DEF TickerLoop
<1>2. CASE TickEnds
  BY <1>2 DEF TickEnds
<1>3. CASE TickPops
  BY <1>3 DEF TickPops
<1>4. CASE CallbackLocks
  BY <1>4 DEF CallbackLocks
<1>5. CASE CallbackTakes
  BY <1>5 DEF CallbackTakes
<1> QED
  BY <1>1, <1>2, <1>3, <1>4, <1>5

(* A sender, of the application or the ticker, reads the descriptor and    *)
(* uses it while the node's socket stays as it is.                         *)
LEMMA SendingKeeps ==
    ASSUME Lifecycle, NEW t \in App \union {"ticker"}, LoadFd(t) \/ SendTo(t)
    PROVE  Lifecycle'
<1> USE AppThreads
    DEF Lifecycle, Types, Locked, Phase, Adapter, Gone, Descriptors, OneSocket,
        SendsOnOpenSocket, AppPlaces, RxPlaces, TickerPlaces, Outside, Go, node, work
<1>1. CASE LoadFd(t)
  BY <1>1 DEF LoadFd, Resume, Unlocked
<1>2. CASE SendTo(t)
  BY <1>2 DEF SendTo, Resume, Unlocked
<1> QED
  BY <1>1, <1>2

-----------------------------------------------------------------------------
(* The frames that wait: every entry of pending_ has its timer, counting   *)
(* the one whose timer is scheduled while the entry is being made.         *)

Promised == IF pc["rx"] = "in_pending" THEN pending + 1 ELSE pending

Frames ==
    /\ pending_mutex = "rx" <=> pc["rx"] \in {"in_wheel", "in_pending"}
    /\ pending_mutex = "ticker" <=> pc["ticker"] = "in_pending"
    /\ Promised <= timers + (IF pc["ticker"] \in {"lock_pending", "in_pending"}
                             THEN 1 ELSE 0)
    /\ timers <= MaxTimers
    /\ pc["rx"] \in {"lock_pending", "in_wheel"} => timers < MaxTimers

(* The application touches the frames when it frees the node and nowhere   *)
(* else; the threads it starts and joins are in none of these places.      *)
LEMMA AppKeepsFrames ==
    ASSUME Lifecycle, Frames, NEW t \in App, Call(t) \/ AppStep(t)
    PROVE  Frames'
<1> USE AppThreads, JniAssumption
    DEF Frames, Promised, Lifecycle, Types, Phase, Go, node, work
<1>0. CASE LoadFd(t) \/ SendTo(t)
  BY <1>0 DEF LoadFd, SendTo, Resume, Unlocked
<1>1. CASE Call(t)
  BY <1>1 DEF Call
<1>2. CASE ReturnAtOnce(t)
  BY <1>2 DEF ReturnAtOnce
<1>3. CASE EnterStart(t)
  BY <1>3 DEF EnterStart
<1>4. CASE StartNic(t)
  BY <1>4 DEF StartNic
<1>5. CASE StartNicFails(t)
  BY <1>5 DEF StartNicFails
<1>6. CASE SpawnTicker(t)
  BY <1>6 DEF SpawnTicker
<1>7. CASE EnterStop(t)
  BY <1>7 DEF EnterStop
<1>8. CASE JoinTicker(t)
  BY <1>8 DEF JoinTicker
<1>9. CASE StopNic(t)
  BY <1>9 DEF StopNic
<1>10. CASE JoinRx(t)
  BY <1>10 DEF JoinRx
<1>11. CASE CloseSocket(t)
  BY <1>11 DEF CloseSocket
<1>12. CASE FreeNode(t)
  BY <1>12 DEF FreeNode
<1>13. CASE EnterSend(t)
  BY <1>13 DEF EnterSend
<1>14. CASE LeaveDedup(t)
  BY <1>14 DEF LeaveDedup
<1> QED
  BY <1>0, <1>1, <1>2, <1>3, <1>4, <1>5, <1>6, <1>7, <1>8, <1>9, <1>10, <1>11, <1>12, <1>13, <1>14 DEF AppStep

(* The receive thread schedules the timer and makes the entry under one    *)
(* lock, so that no callback comes between the two.                        *)
LEMMA RxKeepsFrames ==
    ASSUME Lifecycle, Frames, Rx
    PROVE  Frames'
<1> USE AppThreads, JniAssumption
    DEF Frames, Promised, Lifecycle, Types, Phase, Go, node, work
<1>1. CASE RxLoop
  BY <1>1 DEF RxLoop
<1>2. CASE RxWoken
  BY <1>2 DEF RxWoken
<1>3. CASE RxError
  BY <1>3 DEF RxError
<1>4. CASE RxFrame
  BY <1>4 DEF RxFrame
<1>5. CASE RxFrameDone
  BY <1>5 DEF RxFrameDone
<1>6. CASE RxAccept
  BY <1>6 DEF RxAccept
<1>7. CASE RxLockPending
  BY <1>7 DEF RxLockPending
<1>8. CASE RxSchedule
  BY <1>8 DEF RxSchedule
<1>9. CASE RxEnterPending
  BY <1>9 DEF RxEnterPending
<1> QED
  BY <1>1, <1>2, <1>3, <1>4, <1>5, <1>6, <1>7, <1>8, <1>9 DEF Rx

(* The ticker takes a timer out of the heap and then its entry.            *)
LEMMA TickerKeepsFrames ==
    ASSUME Lifecycle, Frames, Ticker
    PROVE  Frames'
<1> USE AppThreads, JniAssumption
    DEF Frames, Promised, Lifecycle, Types, Phase, Go, node, work
<1>0. CASE LoadFd("ticker") \/ SendTo("ticker")
  BY <1>0 DEF LoadFd, SendTo, Resume, Unlocked
<1>1. CASE TickerLoop
  BY <1>1 DEF TickerLoop
<1>2. CASE TickEnds
  BY <1>2 DEF TickEnds
<1>3. CASE TickPops
  BY <1>3 DEF TickPops
<1>4. CASE CallbackLocks
  BY <1>4 DEF CallbackLocks
<1>5. CASE CallbackTakes
  BY <1>5 DEF CallbackTakes
<1> QED
  BY <1>0, <1>1, <1>2, <1>3, <1>4, <1>5 DEF Ticker


-----------------------------------------------------------------------------
(* The bounds: a node is only started while there is room for it and for   *)
(* those that are about to start.                                          *)

Budget ==
    /\ starts + Cardinality(Starting) <= MaxStarts
    /\ socket_fd <= starts
    /\ \A t \in Thread : held_fd[t] <= starts

(* How many are about to start changes with the place of one thread.       *)
LEMMA StartingChanges ==
    ASSUME Types, NEW t \in App, NEW to, pc' = [pc EXCEPT ![t] = to]
    PROVE  /\ to \in {"start", "open_socket"} => Starting' = Starting \union {t}
           /\ to \notin {"start", "open_socket"} => Starting' = Starting \ {t}
BY AppThreads DEF Types, Starting

(* Threads about to start are application threads, of which there are      *)
(* finitely many.                                                          *)
LEMMA StartingIsFinite ==
    ASSUME NEW t
    PROVE  /\ IsFiniteSet(Starting) /\ Cardinality(Starting) \in Nat
           /\ Cardinality(Starting \union {t}) \in Nat
           /\ Cardinality(Starting \ {t}) \in Nat
           /\ Cardinality(Starting \union {t}) <= Cardinality(Starting) + 1
           /\ Cardinality(Starting \ {t}) <= Cardinality(Starting)
           /\ t \in Starting => Cardinality(Starting \ {t}) = Cardinality(Starting) - 1
           /\ t \in Starting => Starting \union {t} = Starting
<1>1. IsFiniteSet(Starting)
  BY JniAssumption, FS_Subset DEF Starting
<1>2. IsFiniteSet(Starting \union {t}) /\ IsFiniteSet(Starting \ {t})
  BY <1>1, FS_AddElement, FS_RemoveElement
<1>3. /\ Cardinality(Starting) \in Nat
      /\ Cardinality(Starting \union {t}) \in Nat
      /\ Cardinality(Starting \ {t}) \in Nat
  BY <1>1, <1>2, FS_CardinalityType
<1>4. CASE t \in Starting
  <2>1. Starting \union {t} = Starting
    BY <1>4
  <2>2. Cardinality(Starting \ {t}) = Cardinality(Starting) - 1
    BY <1>1, <1>4, FS_RemoveElement
  <2>3. Cardinality(Starting \union {t}) = Cardinality(Starting)
    BY <2>1
  <2>4. /\ Cardinality(Starting \union {t}) <= Cardinality(Starting) + 1
        /\ Cardinality(Starting \ {t}) <= Cardinality(Starting)
    BY <1>3, <2>2, <2>3
  <2> QED
    BY <1>1, <1>3, <2>1, <2>2, <2>4, Zenon
<1>5. CASE t \notin Starting
  <2>1. Starting \ {t} = Starting
    BY <1>5
  <2>2. Cardinality(Starting \union {t}) = Cardinality(Starting) + 1
    BY <1>1, <1>5, FS_AddElement
  <2>3. Cardinality(Starting \ {t}) = Cardinality(Starting)
    BY <2>1
  <2>4. /\ Cardinality(Starting \union {t}) <= Cardinality(Starting) + 1
        /\ Cardinality(Starting \ {t}) <= Cardinality(Starting)
    BY <1>3, <2>2, <2>3
  <2> QED
    BY <1>1, <1>3, <1>5, <2>4, Zenon
<1> QED
  BY <1>4, <1>5

(* The node's own threads do not start nodes.                              *)
LEMMA ThreadsKeepBudget ==
    ASSUME Lifecycle, Budget, Rx \/ Ticker
    PROVE  Budget'
<1>1. Starting' = Starting /\ UNCHANGED <<starts, socket_fd>>
  <2>1. \A u \in App : pc'[u] = pc[u]
    BY AppThreads
    DEF Lifecycle, Types, Go, Rx, RxLoop, RxWoken, RxError, RxFrame, RxFrameDone,
        RxAccept, RxLockPending, RxSchedule, RxEnterPending, Ticker, TickerLoop,
        TickEnds, TickPops, CallbackLocks, CallbackTakes, LoadFd, SendTo
  <2>2. UNCHANGED <<starts, socket_fd>>
    BY DEF node, Rx, RxLoop, RxWoken, RxError, RxFrame, RxFrameDone, RxAccept,
        RxLockPending, RxSchedule, RxEnterPending, Ticker, TickerLoop, TickEnds,
        TickPops, CallbackLocks, CallbackTakes, LoadFd, SendTo
  <2> QED
    BY <2>1, <2>2 DEF Starting
<1>2. \/ held_fd' = held_fd
      \/ held_fd' = [held_fd EXCEPT !["ticker"] = socket_fd]
      \/ held_fd' = [held_fd EXCEPT !["ticker"] = 0]
  BY DEF Rx, RxLoop, RxWoken, RxError, RxFrame, RxFrameDone, RxAccept,
         RxLockPending, RxSchedule, RxEnterPending, Ticker, TickerLoop, TickEnds,
         TickPops, CallbackLocks, CallbackTakes, LoadFd, SendTo
<1> QED
  BY <1>1, <1>2, AppThreads DEF Budget, Lifecycle, Types

(* Of the application's steps, a call to start takes up room and StartNic   *)
(* uses it; no other does.                                                  *)
LEMMA AppKeepsBudget ==
    ASSUME Lifecycle, Budget, NEW t \in App, Call(t) \/ AppStep(t)
    PROVE  Budget'
<1> USE AppThreads DEF Go, node
<1>1. /\ IsFiniteSet(Starting) /\ Cardinality(Starting) \in Nat
      /\ Cardinality(Starting \union {t}) \in Nat
      /\ Cardinality(Starting \ {t}) \in Nat
      /\ Cardinality(Starting \union {t}) <= Cardinality(Starting) + 1
      /\ Cardinality(Starting \ {t}) <= Cardinality(Starting)
      /\ t \in Starting => Cardinality(Starting \ {t}) = Cardinality(Starting) - 1
      /\ t \in Starting => Starting \union {t} = Starting
  BY StartingIsFinite
<1>2. MaxStarts \in Nat /\ starts \in Nat /\ socket_fd \in Nat /\ held_fd \in [Thread -> Nat]
  BY JniAssumption DEF Lifecycle, Types
<1>3. CASE Call(t)
  <2>1. UNCHANGED <<starts, socket_fd, held_fd>>
    BY <1>3 DEF Call
  <2>2. PICK op \in {"start", "stop", "send"} :
            /\ op = "start" => starts + Cardinality(Starting) < MaxStarts
            /\ pc' = [pc EXCEPT ![t] = op]
    BY <1>3 DEF Call
  <2>3. Types
    BY DEF Lifecycle
  <2>4. CASE op = "start"
    <3>1. Starting' = Starting \union {t}
      BY <2>2, <2>3, <2>4, StartingChanges
    <3> QED
      BY <1>1, <1>2, <2>1, <2>2, <2>4, <3>1 DEF Budget
  <2>5. CASE op # "start"
    <3>1. Starting' = Starting \ {t}
      BY <2>2, <2>3, <2>5, StartingChanges
    <3> QED
      BY <1>1, <1>2, <2>1, <3>1 DEF Budget
  <2> QED
    BY <2>4, <2>5
<1>4. CASE EnterStart(t)
  <2>1. t \in Starting /\ Starting' = Starting \union {t}
    BY <1>4, StartingChanges DEF EnterStart, Lifecycle, Starting
  <2> QED
    BY <1>1, <1>2, <1>4, <2>1 DEF EnterStart, Budget
<1>5. CASE StartNic(t)
  <2>1. t \in Starting /\ Starting' = Starting \ {t}
    BY <1>5 DEF StartNic, Lifecycle, Types, Starting
  <2> QED
    BY <1>1, <1>2, <1>5, <2>1 DEF StartNic, Budget
<1>6. CASE \/ ReturnAtOnce(t) \/ StartNicFails(t) \/ EnterStop(t) \/ StopNic(t)
           \/ CloseSocket(t) \/ FreeNode(t) \/ EnterSend(t) \/ LeaveDedup(t)
           \/ LoadFd(t) \/ SendTo(t)
  <2>1. Starting' = Starting \ {t}
    <3>1. PICK to \in {"idle", "spawn_ticker", "join_ticker", "join_rx", "free",
                       "in_dedup", "load_fd", "send_to"} :
              pc' = [pc EXCEPT ![t] = to]
      BY <1>6
      DEF ReturnAtOnce, StartNicFails, EnterStop, StopNic, CloseSocket, FreeNode,
          EnterSend, LeaveDedup, LoadFd, SendTo, Resume
    <3> QED
      BY <3>1, StartingChanges DEF Lifecycle
  <2>2. starts' = starts /\ socket_fd' \in {socket_fd, 0}
    BY <1>6 DEF ReturnAtOnce, StartNicFails, EnterStop, StopNic, CloseSocket,
        FreeNode, EnterSend, LeaveDedup, LoadFd, SendTo
  <2>3. \/ held_fd' = held_fd
        \/ held_fd' = [held_fd EXCEPT ![t] = socket_fd]
        \/ held_fd' = [held_fd EXCEPT ![t] = 0]
    BY <1>6 DEF ReturnAtOnce, StartNicFails, EnterStop, StopNic, CloseSocket,
        FreeNode, EnterSend, LeaveDedup, LoadFd, SendTo
  <2> QED
    BY <1>1, <1>2, <2>1, <2>2, <2>3 DEF Budget
<1>7. CASE SpawnTicker(t) \/ JoinTicker(t) \/ JoinRx(t)
  <2>1. Starting' = Starting
    BY <1>7 DEF SpawnTicker, JoinTicker, JoinRx, Lifecycle, Types, Starting
  <2> QED
    BY <1>1, <1>2, <1>7, <2>1 DEF SpawnTicker, JoinTicker, JoinRx, Budget
<1> QED
  BY <1>3, <1>4, <1>5, <1>6, <1>7 DEF AppStep

-----------------------------------------------------------------------------
(* The theorems.                                                           *)

NodeInv == Lifecycle /\ Frames /\ Budget

(* Every behaviour keeps the strengthened invariant.                       *)
THEOREM NodeInvariance == Spec => []NodeInv
<1>1. Init => NodeInv
  <2> SUFFICES ASSUME Init PROVE NodeInv
    OBVIOUS
  <2>1. Frames
    BY AppThreads, JniAssumption DEF Init, Frames, Promised
  <2>2. Starting = {} /\ Cardinality({}) = 0
    BY AppThreads, FS_EmptySet DEF Init, Starting
  <2>3. Budget
    BY <2>2, JniAssumption DEF Init, Budget
  <2> QED
    BY <2>1, <2>3, LifecycleInitially DEF NodeInv
<1>2. NodeInv /\ [Next]_vars => NodeInv'
  <2> SUFFICES ASSUME NodeInv, [Next]_vars PROVE NodeInv'
    OBVIOUS
  <2>1. CASE UNCHANGED vars
    <3>1. Lifecycle'
      BY <2>1 DEF vars, node, work, NodeInv, Lifecycle, Types, Locked, Phase, Adapter,
                  Gone, Descriptors, OneSocket, SendsOnOpenSocket
    <3>2. Frames' /\ Budget'
      BY <2>1 DEF vars, node, work, NodeInv, Frames, Promised, Budget, Starting
    <3> QED
      BY <3>1, <3>2 DEF NodeInv
  <2>2. ASSUME NEW t \in App, Call(t) \/ AppStep(t)
        PROVE  NodeInv'
    <3>1. Lifecycle'
      BY <2>2, CallsKeep, StopKeeps, SendingKeeps DEF AppStep, NodeInv
    <3> QED
      BY <2>2, <3>1, AppKeepsFrames, AppKeepsBudget DEF NodeInv
  <2>3. CASE Rx
    BY <2>3, RxKeeps, RxKeepsFrames, ThreadsKeepBudget DEF NodeInv
  <2>4. CASE Ticker
    <3>1. Lifecycle'
      BY <2>4, TickerKeeps, SendingKeeps DEF Ticker, NodeInv
    <3> QED
      BY <2>4, <3>1, TickerKeepsFrames, ThreadsKeepBudget DEF NodeInv
  <2> QED
    BY <2>1, <2>2, <2>3, <2>4 DEF Next
<1> QED
  BY <1>1, <1>2, PTL DEF Spec

(* The type invariant, and with it that no more nodes, sockets and timers  *)
(* than the bounds allow come about.                                       *)
THEOREM NodeTypes == Spec => []TypeOK
<1>1. NodeInv => TypeOK
  <2> SUFFICES ASSUME NodeInv PROVE TypeOK
    OBVIOUS
  <2>1. starts \in 0..MaxStarts /\ socket_fd \in 0..MaxStarts
    <3>1. Cardinality(Starting) \in Nat
      BY StartingIsFinite
    <3> QED
      BY <3>1, JniAssumption DEF NodeInv, Budget, Lifecycle, Types
  <2>2. held_fd \in [Thread -> 0..MaxStarts]
    BY <2>1, JniAssumption DEF NodeInv, Budget, Lifecycle, Types
  <2>3. open \subseteq 1..MaxStarts
    BY <2>1, JniAssumption DEF NodeInv, Lifecycle, Descriptors, OneSocket
  <2>4. timers \in 0..MaxTimers /\ pending \in 0..(MaxTimers + 1)
    BY JniAssumption DEF NodeInv, Lifecycle, Types, Frames, Promised
  <2> QED
    BY <2>1, <2>2, <2>3, <2>4
    DEF NodeInv, Lifecycle, Types, TypeOK, RxPlaces, TickerPlaces
<1> QED
  BY <1>1, NodeInvariance, PTL

(* NoUseAfterFree, whatever calls overlap and however often the node comes *)
(* and goes.                                                               *)
THEOREM NothingUsedAfterFree == Spec => []NoUseAfterFree
<1>1. NodeInv => NoUseAfterFree
  BY AppThreads
  DEF NodeInv, Lifecycle, Types, Locked, Phase, Gone, Outside, NoUseAfterFree,
      UsesNode, Thread
<1> QED
  BY <1>1, NodeInvariance, PTL

(* SendsOnOpenSocket: no sender uses a descriptor that has been closed, or *)
(* whose number has gone to another socket.                                *)
THEOREM DescriptorsAreOpen == Spec => []SendsOnOpenSocket
<1>1. NodeInv => SendsOnOpenSocket
  BY DEF NodeInv, Lifecycle, Descriptors
<1> QED
  BY <1>1, NodeInvariance, PTL

(* OneSocket, over any number of starts that succeed, starts that fail and *)
(* stops.                                                                  *)
THEOREM NoSocketLeaks == Spec => []OneSocket
<1>1. NodeInv => OneSocket
  BY DEF NodeInv, Lifecycle, Descriptors
<1> QED
  BY <1>1, NodeInvariance, PTL

(* EntryHasTimer, for any number of timers.                                *)
THEOREM EntriesHaveTimers == Spec => []EntryHasTimer
<1>1. NodeInv => EntryHasTimer
  BY DEF NodeInv, Lifecycle, Types, Frames, Promised, EntryHasTimer
<1> QED
  BY <1>1, NodeInvariance, PTL
=============================================================================
