-------------------------- MODULE ForwardingProofs --------------------------
(***************************************************************************)
(* Forwarding, for every set of nodes, packets and frames, every capacity  *)
(* of the duplicate cache and every wait: its types are right, what a node *)
(* counts adds up, no pending frame is stranded, a packet is handled once  *)
(* at most between two evictions of its id and forwarded ahead of its time *)
(* no oftener than its id is evicted, and a node lives with packets as     *)
(* PacketLifecycle says.  The steps are those of a node with any frame at  *)
(* any time, so that the lemmas hold of it in a network as well.           *)
(***************************************************************************)
EXTENDS Forwarding, LruOpsProofs

(* A reception, send or callback counts its outcomes for its packet at its *)
(* node, evictions for the packets evicted there, and nothing else.        *)
LEMMA CountingFacts ==
    ASSUME count \in [Node -> [PacketId -> [Outcome -> Nat]]],
           NEW n \in Node, NEW p \in PacketId, NEW os, NEW gone
    PROVE  /\ Counting(n, p, os, gone) \in [Node -> [PacketId -> [Outcome -> Nat]]]
           /\ \A m \in Node, q \in PacketId, o \in Outcome :
                Counting(n, p, os, gone)[m][q][o] =
                    IF m = n /\ ((q = p /\ o \in os) \/ (q \in gone /\ o = "evicted"))
                    THEN count[m][q][o] + 1 ELSE count[m][q][o]
<1> DEFINE C == Counting(n, p, os, gone)
           row == [q \in PacketId |-> [o \in Outcome |->
                     IF (q = p /\ o \in os) \/ (q \in gone /\ o = "evicted")
                     THEN count[n][q][o] + 1 ELSE count[n][q][o]]]
<1>1. C = [count EXCEPT ![n] = row]
  BY DEF Counting
<1>2. row \in [PacketId -> [Outcome -> Nat]]
  OBVIOUS
<1>3. C \in [Node -> [PacketId -> [Outcome -> Nat]]]
  <2> HIDE DEF C, row
  <2> QED BY <1>1, <1>2
<1>4. ASSUME NEW m \in Node, NEW q \in PacketId, NEW o \in Outcome
      PROVE  C[m][q][o] =
               IF m = n /\ ((q = p /\ o \in os) \/ (q \in gone /\ o = "evicted"))
               THEN count[m][q][o] + 1 ELSE count[m][q][o]
  <2>1. C[m] = IF m = n THEN row ELSE count[m]
    <3> HIDE DEF C, row
    <3> QED BY <1>1
  <2> HIDE DEF C
  <2> QED BY <2>1
<1> QED BY <1>3, <1>4

\* The step counts, besides evictions perhaps, an insertion of p at n, if n's
\* cache does not hold p, and the outcomes os for it, and nothing else.
CountsInsertion(n, p, os) ==
    \A m \in Node, q \in PacketId :
        /\ count'[m][q]["inserted"] =
             count[m][q]["inserted"] + (IF m = n /\ q = p /\ p \notin Ids(dedup[n]) THEN 1 ELSE 0)
        /\ count'[m][q]["evicted"] >= count[m][q]["evicted"]
        /\ \A o \in Outcome \ {"inserted", "evicted"} :
             count'[m][q][o] = IF m = n /\ q = p /\ o \in os THEN count[m][q][o] + 1
                                                             ELSE count[m][q][o]

\* The step counts the outcomes os of p at n, and nothing else.
CountsOnly(n, p, os) ==
    \A m \in Node, q \in PacketId, x \in Outcome :
        count'[m][q][x] = IF m = n /\ q = p /\ x \in os THEN count[m][q][x] + 1
                                                        ELSE count[m][q][x]

(* What an insertion does to the cache and the counts.                     *)
LEMMA InsertCountingFacts ==
    ASSUME dedup \in [Node -> Seq(PacketId)],
           count \in [Node -> [PacketId -> [Outcome -> Nat]]],
           DedupShape, InsertionsAccounted,
           NEW n \in Node, NEW p \in PacketId,
           NEW os \in SUBSET (Outcome \ {"inserted", "evicted"}),
           InsertCounting(n, p, os)
    PROVE  /\ dedup' \in [Node -> Seq(PacketId)]
           /\ count' \in [Node -> [PacketId -> [Outcome -> Nat]]]
           /\ DedupShape'
           /\ InsertionsAccounted'
           /\ CountsInsertion(n, p, os)
<1> DEFINE s == dedup[n]
           gone == Evicted(s, p)
           fresh == p \notin Ids(s)
           outcomes == os \union (IF fresh THEN {"inserted"} ELSE {})
<1>1. s \in Seq(PacketId) /\ Distinct(s) /\ Len(s) <= Capacity
  BY DEF DedupShape
<1>2. /\ Insert(s, p) \in Seq(PacketId)
      /\ Distinct(Insert(s, p))
      /\ Len(Insert(s, p)) <= Capacity
      /\ Ids(Insert(s, p)) = (Ids(s) \union {p}) \ gone
  <2> HIDE DEF s
  <2> QED BY <1>1, InsertRemembers
<1>3. /\ dedup' = [dedup EXCEPT ![n] = Insert(s, p)]
      /\ count' = Counting(n, p, outcomes, gone)
  BY DEF InsertCounting, Contains
<1>4. /\ dedup' \in [Node -> Seq(PacketId)]
      /\ \A m \in Node : dedup'[m] = IF m = n THEN Insert(s, p) ELSE dedup[m]
  <2> HIDE DEF s, outcomes, gone
  <2> QED BY <1>2, <1>3
<1>5. DedupShape'
  BY <1>2, <1>4 DEF DedupShape
<1>6. /\ count' \in [Node -> [PacketId -> [Outcome -> Nat]]]
      /\ \A m \in Node, q \in PacketId, o \in Outcome :
           count'[m][q][o] =
             IF m = n /\ ((q = p /\ o \in outcomes) \/ (q \in gone /\ o = "evicted"))
             THEN count[m][q][o] + 1 ELSE count[m][q][o]
  <2> HIDE DEF gone, outcomes
  <2> QED BY <1>3, CountingFacts
<1>7. "inserted" \in Outcome /\ "evicted" \in Outcome
  BY DEF Outcome
\* What an outcome is counted as does not depend on how the set is written.
<1>o. /\ "inserted" \in outcomes <=> fresh
      /\ "evicted" \notin outcomes
      /\ \A o \in Outcome \ {"inserted", "evicted"} : o \in outcomes <=> o \in os
  OBVIOUS
<1>g. /\ \A q \in gone : q # p => q \in Ids(s)
      /\ ~ fresh => gone = {}
  <2>1. ASSUME Capacity = 0 PROVE fresh
    BY <1>1, <2>1, LenProperties DEF Ids
  <2> QED BY <2>1 DEF Evicted, Contains
<1>8. \A m \in Node, q \in PacketId :
         /\ count'[m][q]["inserted"] =
              count[m][q]["inserted"] + (IF m = n /\ q = p /\ fresh THEN 1 ELSE 0)
         /\ count'[m][q]["evicted"] =
              count[m][q]["evicted"] + (IF m = n /\ q \in gone THEN 1 ELSE 0)
         /\ \A o \in Outcome \ {"inserted", "evicted"} :
              count'[m][q][o] = IF m = n /\ q = p /\ o \in os THEN count[m][q][o] + 1
                                                              ELSE count[m][q][o]
  <2> HIDE DEF gone, outcomes, fresh
  <2> SUFFICES ASSUME NEW m \in Node, NEW q \in PacketId
               PROVE  /\ count'[m][q]["inserted"] =
                           count[m][q]["inserted"] + (IF m = n /\ q = p /\ fresh THEN 1 ELSE 0)
                      /\ count'[m][q]["evicted"] =
                           count[m][q]["evicted"] + (IF m = n /\ q \in gone THEN 1 ELSE 0)
                      /\ \A o \in Outcome \ {"inserted", "evicted"} :
                           count'[m][q][o] =
                             IF m = n /\ q = p /\ o \in os THEN count[m][q][o] + 1
                                                           ELSE count[m][q][o]
    OBVIOUS
  <2>0. count[m][q]["inserted"] \in Nat /\ count[m][q]["evicted"] \in Nat
    BY <1>7
  <2>4. \A o \in Outcome :
           count'[m][q][o] =
             IF m = n /\ ((q = p /\ o \in outcomes) \/ (q \in gone /\ o = "evicted"))
             THEN count[m][q][o] + 1 ELSE count[m][q][o]
    BY <1>6
  <2>1. count'[m][q]["inserted"] =
          IF m = n /\ q = p /\ fresh THEN count[m][q]["inserted"] + 1 ELSE count[m][q]["inserted"]
    BY <1>o, <1>7, <2>4, "inserted" # "evicted"
  <2>2. count'[m][q]["evicted"] =
          IF m = n /\ q \in gone THEN count[m][q]["evicted"] + 1 ELSE count[m][q]["evicted"]
    BY <1>o, <1>7, <2>4
  <2>3. ASSUME NEW o \in Outcome \ {"inserted", "evicted"}
        PROVE  count'[m][q][o] = IF m = n /\ q = p /\ o \in os THEN count[m][q][o] + 1
                                                               ELSE count[m][q][o]
    <3>1. o \in Outcome /\ o # "evicted" /\ (o \in outcomes <=> o \in os)
      BY <1>o
    <3> QED BY <2>4, <3>1
  <2> QED BY <2>0, <2>1, <2>2, <2>3
<1>9. InsertionsAccounted'
  <2> SUFFICES ASSUME NEW m \in Node, NEW q \in PacketId
               PROVE  count'[m][q]["inserted"] =
                        count'[m][q]["evicted"] + (IF q \in Ids(dedup'[m]) THEN 1 ELSE 0)
    BY DEF InsertionsAccounted, Contains
  <2>1. count[m][q]["inserted"] =
          count[m][q]["evicted"] + (IF q \in Ids(dedup[m]) THEN 1 ELSE 0)
    BY DEF InsertionsAccounted, Contains
  <2>2. count[m][q]["inserted"] \in Nat /\ count[m][q]["evicted"] \in Nat
    BY <1>7
  <2> HIDE DEF gone, outcomes
  <2>3. CASE m # n
    BY <1>4, <1>8, <2>1, <2>2, <2>3
  <2>4. CASE m = n /\ q = p
    <3>1. q \in Ids(dedup'[m]) <=> q \notin gone
      BY <1>2, <1>4, <2>4
    <3>2. /\ count'[m][q]["inserted"] = count[m][q]["inserted"] + (IF fresh THEN 1 ELSE 0)
          /\ count'[m][q]["evicted"] = count[m][q]["evicted"] + (IF q \in gone THEN 1 ELSE 0)
      BY <1>8, <2>4
    <3>3. q \in Ids(dedup[m]) <=> ~ fresh
      BY <2>4
    <3> HIDE DEF fresh
    <3> QED BY <1>g, <2>1, <2>2, <3>1, <3>2, <3>3
  <2>5. CASE m = n /\ q # p
    <3>1. q \in gone => q \in Ids(dedup[m])
      BY <1>g, <2>5
    <3>2. q \in Ids(dedup'[m]) <=> q \in Ids(dedup[m]) /\ q \notin gone
      BY <1>2, <1>4, <2>5
    <3>3. /\ count'[m][q]["inserted"] = count[m][q]["inserted"]
          /\ count'[m][q]["evicted"] = count[m][q]["evicted"] + (IF q \in gone THEN 1 ELSE 0)
      BY <1>8, <2>2, <2>5
    <3> HIDE DEF fresh
    <3> QED BY <2>1, <2>2, <3>1, <3>2, <3>3
  <2> QED BY <2>3, <2>4, <2>5
<1>10. CountsInsertion(n, p, os)
  <2>1. \A m \in Node, q \in PacketId : count'[m][q]["evicted"] >= count[m][q]["evicted"]
    <3> HIDE DEF gone, fresh
    <3>1. ASSUME NEW m \in Node, NEW q \in PacketId
          PROVE  /\ count[m][q]["evicted"] \in Nat
                 /\ count'[m][q]["evicted"] =
                      count[m][q]["evicted"] + (IF m = n /\ q \in gone THEN 1 ELSE 0)
      BY <1>7, <1>8
    <3>2. \A m \in Node, q \in PacketId :
             \E i \in Nat : /\ count[m][q]["evicted"] \in Nat
                          /\ count'[m][q]["evicted"] = count[m][q]["evicted"] + i
      BY <3>1
    <3>3. \A i, j \in Nat : i + j >= i
      OBVIOUS
    <3> QED BY <3>2, <3>3
  <2> QED BY <1>8, <2>1 DEF CountsInsertion
<1> QED BY <1>4, <1>5, <1>6, <1>9, <1>10

\* Whatever comes off the air.
AnyFrame == Header \union {Malformed}

\* A step of a node with any frame, at any time: what the proofs below are
\* about, so that they hold of a node on any medium.
NodeAction ==
    \/ \E n \in Node, f \in AnyFrame, is_candidate \in BOOLEAN :
          ReceiveFrame(n, f, is_candidate)
    \/ \E n \in Node, f \in AnyFrame, target \in Mac \union {Broadcast} :
          SendRemembering(n, f, target) \/ SendForgetting(n, f, target)
    \/ \E n \in Node : Ticker(n) \/ Transmit(n)
    \/ AdvanceClock

(* The steps of the open system, with its bounds, are among them.          *)
LEMMA NextIsNodeAction == [Next]_vars => [NodeAction]_vars
BY FrameAssumption DEF Next, NodeAction, AnyFrame

(* What is known of a frame that gets past validation.                     *)
LEMMA DataFrame ==
    ASSUME NEW f \in AnyFrame, IsData(f)
    PROVE  f \in Header /\ f.packet_id \in PacketId /\ f.ttl \in Nat
<1>1. f \in Header
  BY DEF AnyFrame, IsData
<1> QED BY <1>1 DEF Header

(* The ways a step of a node can go, for the proofs by cases below.    *)
LEMMA NodeActionCases ==
    ASSUME [NodeAction]_vars
    PROVE  \/ UNCHANGED vars
           \/ \E n \in Node, f \in AnyFrame : DeliverLucky(n, f)
           \/ \E n \in Node, f \in AnyFrame : Overhear(n, f)
           \/ \E n \in Node, f \in AnyFrame : AcceptAsCandidate(n, f)
           \/ \E n \in Node, f \in AnyFrame, target \in Mac \union {Broadcast} :
                 SendRemembering(n, f, target) \/ SendForgetting(n, f, target)
           \/ \E n \in Node : PopTimer(n)
           \/ \E n \in Node : TimerComesToNothing(n)
           \/ \E n \in Node : FireForward(n)
           \/ \E n \in Node : TransmitForward(n)
           \/ \E n \in Node : FireExpired(n)
           \/ \E n \in Node : Transmit(n)
           \/ AdvanceClock
BY DEF NodeAction, ReceiveFrame, Ticker, IgnoreFrame, DropDuplicate, DropTtl

-----------------------------------------------------------------------------
(* Types, the shape of the caches and the insertion accounts are kept by   *)
(* every step; they need each other and nothing else.                      *)
LEMMA TypeInit == Init => TypeOK /\ DedupShape /\ InsertionsAccounted
<1> SUFFICES ASSUME Init PROVE TypeOK /\ DedupShape /\ InsertionsAccounted
  OBVIOUS
<1>1. << >> \in Seq(PacketId) /\ << >> \in Seq(Outgoing) /\ Len(<< >>) = 0
  OBVIOUS
<1>2. TypeOK
  BY <1>1 DEF Init, TypeOK, NotPending, NoTimer, NoFrame
<1>3. Ids(<< >>) = {} /\ Distinct(<< >>)
  BY <1>1 DEF Ids, Distinct
<1>4. DedupShape
  BY <1>1, <1>3, CapacityAssumption DEF Init, DedupShape
<1>5. InsertionsAccounted
  BY <1>3 DEF Init, InsertionsAccounted, Contains, Outcome
<1> QED BY <1>2, <1>4, <1>5

(* Handing a well-formed frame to the NIC keeps the queues well-formed.    *)
LEMMA HandToNicType ==
    ASSUME tx \in [Node -> Seq(Outgoing)], NEW n \in Node,
           NEW f \in Header, f.ttl > 0, NEW target \in Mac \union {Broadcast}
    PROVE  HandToNic(n, f, target) \in [Node -> Seq(Outgoing)]
<1> DEFINE o == [frame |-> f, link_target |-> target]
<1>1. o \in Outgoing
  BY DEF Outgoing
<1>2. Append(tx[n], o) \in Seq(Outgoing)
  <2> HIDE DEF o
  <2> QED BY <1>1
<1> QED BY <1>2 DEF HandToNic

(* Every step of a node keeps the types, the shape of the caches and the   *)
(* insertion accounts.                                                     *)
LEMMA TypeStep ==
    ASSUME TypeOK, DedupShape, InsertionsAccounted, [NodeAction]_vars
    PROVE  TypeOK' /\ DedupShape' /\ InsertionsAccounted'
<1> USE DEF wheel, ticker
<1>1. CASE UNCHANGED vars
  BY <1>1 DEF vars, TypeOK, DedupShape, InsertionsAccounted
<1>2. ASSUME NEW n \in Node, NEW f \in AnyFrame, DeliverLucky(n, f)
      PROVE  TypeOK' /\ DedupShape' /\ InsertionsAccounted'
  <2>1. f.packet_id \in PacketId
    BY <1>2, DataFrame DEF DeliverLucky
  <2>2. {"delivered"} \in SUBSET (Outcome \ {"inserted", "evicted"})
    BY DEF Outcome
  <2>3. /\ dedup' \in [Node -> Seq(PacketId)]
        /\ count' \in [Node -> [PacketId -> [Outcome -> Nat]]]
        /\ DedupShape' /\ InsertionsAccounted'
    BY <1>2, <2>1, <2>2, InsertCountingFacts DEF TypeOK, DeliverLucky
  <2> QED BY <1>2, <2>3 DEF TypeOK, DeliverLucky
<1>3. ASSUME NEW n \in Node, NEW f \in AnyFrame, Overhear(n, f)
      PROVE  TypeOK' /\ DedupShape' /\ InsertionsAccounted'
  <2> DEFINE p == f.packet_id
  <2>1. p \in PacketId
    BY <1>3, DataFrame DEF Overhear, FreshTransit
  <2>2. {"suppressed"} \in SUBSET (Outcome \ {"inserted", "evicted"})
        /\ {} \in SUBSET (Outcome \ {"inserted", "evicted"})
    BY DEF Outcome
  <2>3. /\ dedup' \in [Node -> Seq(PacketId)]
        /\ count' \in [Node -> [PacketId -> [Outcome -> Nat]]]
        /\ DedupShape' /\ InsertionsAccounted'
    <3>1. CASE IsPending(n, p)
      BY <1>3, <2>1, <2>2, <3>1, InsertCountingFacts DEF TypeOK, Overhear, FreshTransit
    <3>2. CASE ~ IsPending(n, p)
      BY <1>3, <2>1, <2>2, <3>2, InsertCountingFacts DEF TypeOK, Overhear, FreshTransit
    <3> QED BY <3>1, <3>2
  <2>4. ASSUME NEW id
        PROVE  Cancelled(timers[n], id) \in SUBSET TimerEntry
    <3>1. ASSUME NEW t \in TimerEntry
          PROVE  [t EXCEPT !.cancelled = TRUE] \in TimerEntry
      BY DEF TimerEntry
    <3>2. timers[n] \subseteq TimerEntry
      BY DEF TypeOK
    <3> QED BY <3>1, <3>2 DEF Cancelled
  <2>5. timers' \in [Node -> SUBSET TimerEntry]
    BY <1>3, <2>4 DEF TypeOK, Overhear
  <2>6. pending' \in [Node -> [PacketId -> PendingForward \union {NotPending}]]
    BY <1>3, <2>1 DEF TypeOK, Overhear
  <2> QED BY <1>3, <2>3, <2>5, <2>6 DEF TypeOK, Overhear
<1>4. ASSUME NEW n \in Node, NEW f \in AnyFrame, AcceptAsCandidate(n, f)
      PROVE  TypeOK' /\ DedupShape' /\ InsertionsAccounted'
  <2> DEFINE p == f.packet_id
             delay == TWait * (LocalPriority(n, f) - 1)
             entry == [timer_id |-> next_id[n], frame |-> f]
  <2>1. p \in PacketId /\ f \in Header /\ f.ttl > 0 /\ IsData(f)
    BY <1>4, DataFrame DEF AcceptAsCandidate, FreshTransit
  <2>2. {"accepted", "replaced"} \in SUBSET (Outcome \ {"inserted", "evicted"})
    BY DEF Outcome
  <2>3. /\ dedup' \in [Node -> Seq(PacketId)]
        /\ count' \in [Node -> [PacketId -> [Outcome -> Nat]]]
        /\ DedupShape' /\ InsertionsAccounted'
    <3>1. CASE IsPending(n, p)
      <4>1. InsertCounting(n, p, {"accepted"} \union {"replaced"})
        BY <1>4, <3>1 DEF AcceptAsCandidate
      <4> QED BY <1>4, <2>1, <2>2, <4>1, InsertCountingFacts
              DEF TypeOK, AcceptAsCandidate, FreshTransit
    <3>2. CASE ~ IsPending(n, p)
      <4>1. InsertCounting(n, p, {"accepted"} \union {})
        BY <1>4, <3>2 DEF AcceptAsCandidate
      <4> QED BY <1>4, <2>1, <2>2, <4>1, InsertCountingFacts
              DEF TypeOK, AcceptAsCandidate, FreshTransit
    <3> QED BY <3>1, <3>2
  <2>4. delay \in Nat
    <3>1. LocalPriority(n, f) \in Nat /\ LocalPriority(n, f) >= 1
      <4>1. CASE n \in Ids(f.other_candidates)
        <5>1. Position(f.other_candidates, n) \in 1..Len(f.other_candidates)
          BY <4>1 DEF Ids, Position
        <5>2. Len(f.other_candidates) \in Nat
          BY <2>1 DEF Header
        <5> QED BY <4>1, <5>1, <5>2 DEF LocalPriority
      <4>2. CASE n \notin Ids(f.other_candidates)
        BY <4>2 DEF LocalPriority
      <4> QED BY <4>1, <4>2
    <3>2. LocalPriority(n, f) - 1 \in Nat
      BY <3>1
    <3> QED BY <3>2, ForwardingAssumption
  <2>5. Timer(next_id[n], now + delay, p) \in TimerEntry
    <3> HIDE DEF delay, p
    <3> QED BY <2>1, <2>4 DEF TypeOK, Timer, TimerEntry
  <2>6. timers' \in [Node -> SUBSET TimerEntry]
    <3>1. timers' = [timers EXCEPT ![n] = @ \union {Timer(next_id[n], now + delay, p)}]
      BY <1>4 DEF AcceptAsCandidate
    <3> HIDE DEF delay, p
    <3> QED BY <2>5, <3>1 DEF TypeOK
  <2>7. entry \in PendingForward
    BY <2>1 DEF TypeOK, PendingForward
  <2>8. pending' \in [Node -> [PacketId -> PendingForward \union {NotPending}]]
    <3>1. pending' = [pending EXCEPT ![n][p] = entry]
      BY <1>4 DEF AcceptAsCandidate
    <3> HIDE DEF entry, p
    <3> QED BY <2>1, <2>7, <3>1 DEF TypeOK
  <2> QED BY <1>4, <2>3, <2>6, <2>8 DEF TypeOK, AcceptAsCandidate
<1>5. ASSUME NEW n \in Node, NEW f \in AnyFrame, NEW target \in Mac \union {Broadcast},
             SendRemembering(n, f, target) \/ SendForgetting(n, f, target)
      PROVE  TypeOK' /\ DedupShape' /\ InsertionsAccounted'
  <2>1. /\ f \in Header /\ f.packet_id \in PacketId /\ f.ttl > 0
        /\ tx' = HandToNic(n, f, target)
    BY <1>5, DataFrame DEF SendRemembering, SendForgetting, MaySend
  <2>2. tx' \in [Node -> Seq(Outgoing)]
    BY <2>1, HandToNicType DEF TypeOK
  <2>3. CASE SendRemembering(n, f, target)
    <3>1. {} \in SUBSET (Outcome \ {"inserted", "evicted"})
      OBVIOUS
    <3>2. /\ dedup' \in [Node -> Seq(PacketId)]
          /\ count' \in [Node -> [PacketId -> [Outcome -> Nat]]]
          /\ DedupShape' /\ InsertionsAccounted'
      BY <2>1, <2>3, <3>1, InsertCountingFacts DEF TypeOK, SendRemembering
    <3> QED BY <2>2, <2>3, <3>2 DEF TypeOK, SendRemembering
  <2>4. CASE SendForgetting(n, f, target)
    BY <2>2, <2>4 DEF TypeOK, SendForgetting, DedupShape, InsertionsAccounted
  <2> QED BY <1>5, <2>3, <2>4
<1>6. ASSUME NEW n \in Node, PopTimer(n)
      PROVE  TypeOK' /\ DedupShape' /\ InsertionsAccounted'
  <2>1. timers' \in [Node -> SUBSET TimerEntry] /\ popped' \in [Node -> TimerEntry \union {NoTimer}]
    BY <1>6 DEF PopTimer, TypeOK, DueFront
  <2> QED BY <1>6, <2>1 DEF PopTimer, TypeOK, DedupShape, InsertionsAccounted
<1>7. ASSUME NEW n \in Node, TimerComesToNothing(n)
      PROVE  TypeOK' /\ DedupShape' /\ InsertionsAccounted'
  BY <1>7 DEF TimerComesToNothing, TypeOK, DedupShape, InsertionsAccounted
<1>8. ASSUME NEW n \in Node, TakePending(n)
      PROVE  /\ popped[n].job \in PacketId
             /\ pending[n][popped[n].job] \in PendingForward
             /\ pending' \in [Node -> [PacketId -> PendingForward \union {NotPending}]]
             /\ popped' \in [Node -> TimerEntry \union {NoTimer}]
  <2>1. popped[n].job \in PacketId
    BY <1>8 DEF TakePending, TypeOK, TimerEntry
  <2>2. pending[n][popped[n].job] \in PendingForward
    BY <1>8, <2>1 DEF TakePending, TypeOK, IsPending, NotPending
  <2>3. /\ pending' \in [Node -> [PacketId -> PendingForward \union {NotPending}]]
        /\ popped' \in [Node -> TimerEntry \union {NoTimer}]
    BY <1>8, <2>1 DEF TakePending, TypeOK
  <2> QED BY <2>1, <2>2, <2>3
<1>9. ASSUME NEW n \in Node, NEW os \in SUBSET (Outcome \ {"inserted", "evicted"}),
             NEW p \in PacketId, count' = Counting(n, p, os, {}), UNCHANGED dedup
      PROVE  /\ count' \in [Node -> [PacketId -> [Outcome -> Nat]]]
             /\ DedupShape' /\ InsertionsAccounted'
  <2> DEFINE gone == {}
  <2>1. /\ count' \in [Node -> [PacketId -> [Outcome -> Nat]]]
        /\ \A m \in Node, q \in PacketId, x \in Outcome :
             count'[m][q][x] = IF m = n /\ ((q = p /\ x \in os) \/ (q \in gone /\ x = "evicted"))
                               THEN count[m][q][x] + 1 ELSE count[m][q][x]
    <3>1. count' = Counting(n, p, os, gone)
      BY <1>9
    <3>2. count \in [Node -> [PacketId -> [Outcome -> Nat]]]
      BY DEF TypeOK
    <3> HIDE DEF gone
    <3> QED BY <3>1, <3>2, CountingFacts
  <2>2. "inserted" \in Outcome /\ "evicted" \in Outcome
    BY DEF Outcome
  <2>3. \A m \in Node, q \in PacketId :
           /\ count'[m][q]["inserted"] = count[m][q]["inserted"]
           /\ count'[m][q]["evicted"] = count[m][q]["evicted"]
    BY <2>1, <2>2
  <2>4. DedupShape'
    BY <1>9 DEF DedupShape
  <2>5. InsertionsAccounted'
    <3>1. dedup' = dedup
      BY <1>9
    <3> QED BY <2>3, <3>1 DEF InsertionsAccounted
  <2> QED BY <2>1, <2>4, <2>5
<1>10. ASSUME NEW n \in Node, FireForward(n)
       PROVE  TypeOK' /\ DedupShape' /\ InsertionsAccounted'
  <2> DEFINE p == popped[n].job
             f == pending[n][p].frame
             g == [f EXCEPT !.ttl = @ - 1]
  <2>1. TakePending(n)
    BY <1>10 DEF FireForward
  <2>2. /\ p \in PacketId
        /\ pending[n][p] \in PendingForward
        /\ pending' \in [Node -> [PacketId -> PendingForward \union {NotPending}]]
        /\ popped' \in [Node -> TimerEntry \union {NoTimer}]
    BY <2>1, <1>8
  <2>3. f \in Header /\ f.ttl > 1
    BY <1>10, <2>2 DEF FireForward, PendingForward
  <2>4. g \in Header /\ g.ttl > 0
    <3> HIDE DEF f
    <3> QED BY <2>3 DEF Header
  <2>5. in_hand' = [in_hand EXCEPT ![n] = g] /\ UNCHANGED tx
    BY <1>10 DEF FireForward
  <2>6. in_hand' \in [Node -> {h \in Header : h.ttl > 0} \union {NoFrame}]
    <3> HIDE DEF g
    <3> QED BY <2>4, <2>5 DEF TypeOK
  <2>7. PICK os \in SUBSET (Outcome \ {"inserted", "evicted"}) :
           count' = Counting(n, p, os, {})
    <3>1. /\ {"forwarded", "early"} \in SUBSET (Outcome \ {"inserted", "evicted"})
          /\ {"forwarded"} \in SUBSET (Outcome \ {"inserted", "evicted"})
      BY DEF Outcome
    <3>2. \/ count' = Counting(n, p, {"forwarded", "early"}, {})
          \/ count' = Counting(n, p, {"forwarded"}, {})
      BY <1>10 DEF FireForward
    <3> QED BY <3>1, <3>2
  <2>8. UNCHANGED <<dedup, timers, next_id, now>>
    BY <2>1 DEF TakePending
  <2>10. count' \in [Node -> [PacketId -> [Outcome -> Nat]]] /\ DedupShape' /\ InsertionsAccounted'
    <3> HIDE DEF p
    <3> QED BY <2>2, <2>7, <2>8, <1>9
  <2> QED BY <2>2, <2>5, <2>6, <2>8, <2>10 DEF TypeOK
<1>t. ASSUME NEW n \in Node, TransmitForward(n)
      PROVE  TypeOK' /\ DedupShape' /\ InsertionsAccounted'
  <2>1. in_hand[n] \in Header /\ in_hand[n].ttl > 0
    BY <1>t DEF TransmitForward, TypeOK
  <2>2. tx' \in [Node -> Seq(Outgoing)]
    BY <1>t, <2>1, HandToNicType DEF TransmitForward, TypeOK
  <2>3. in_hand' \in [Node -> {h \in Header : h.ttl > 0} \union {NoFrame}]
    BY <1>t DEF TransmitForward, TypeOK
  <2> QED BY <1>t, <2>2, <2>3 DEF TransmitForward, TypeOK, DedupShape, InsertionsAccounted
<1>11. ASSUME NEW n \in Node, FireExpired(n)
       PROVE  TypeOK' /\ DedupShape' /\ InsertionsAccounted'
  <2> DEFINE p == popped[n].job
  <2>1. TakePending(n) /\ UNCHANGED <<in_hand, tx>>
    BY <1>11 DEF FireExpired
  <2>2. /\ p \in PacketId
        /\ pending' \in [Node -> [PacketId -> PendingForward \union {NotPending}]]
        /\ popped' \in [Node -> TimerEntry \union {NoTimer}]
    BY <2>1, <1>8
  <2>3. count' = Counting(n, p, {"expired"}, {})
    BY <1>11 DEF FireExpired
  <2>4. UNCHANGED <<dedup, timers, next_id, now>>
    BY <2>1 DEF TakePending
  <2>5. {"expired"} \in SUBSET (Outcome \ {"inserted", "evicted"})
    BY DEF Outcome
  <2>6. count' \in [Node -> [PacketId -> [Outcome -> Nat]]] /\ DedupShape' /\ InsertionsAccounted'
    <3> HIDE DEF p
    <3> QED BY <2>2, <2>3, <2>4, <2>5, <1>9
  <2> QED BY <2>1, <2>2, <2>4, <2>6 DEF TypeOK
<1>12. ASSUME NEW n \in Node, Transmit(n)
       PROVE  TypeOK' /\ DedupShape' /\ InsertionsAccounted'
  <2>1. Tail(tx[n]) \in Seq(Outgoing)
    BY <1>12, HeadTailProperties DEF Transmit, TypeOK
  <2> QED BY <1>12, <2>1 DEF Transmit, TypeOK, DedupShape, InsertionsAccounted
<1>13. CASE AdvanceClock
  BY <1>13 DEF AdvanceClock, TypeOK, DedupShape, InsertionsAccounted
<1> QED BY NodeActionCases, <1>1, <1>2, <1>3, <1>4, <1>5, <1>6, <1>7, <1>10, <1>t, <1>11, <1>12, <1>13

-----------------------------------------------------------------------------
(* A callback counts outcomes of its packet and nothing else.              *)
LEMMA CountOnly ==
    ASSUME count \in [Node -> [PacketId -> [Outcome -> Nat]]],
           NEW n \in Node, NEW p \in PacketId, NEW os, count' = Counting(n, p, os, {})
    PROVE  CountsOnly(n, p, os)
<1> DEFINE gone == {}
<1>1. count' = Counting(n, p, os, gone)
  OBVIOUS
<1>2. \A x : x \notin gone
  OBVIOUS
<1> HIDE DEF gone
<1>3. \A m \in Node, q \in PacketId, x \in Outcome :
        count'[m][q][x] = IF m = n /\ ((q = p /\ x \in os) \/ (q \in gone /\ x = "evicted"))
                          THEN count[m][q][x] + 1 ELSE count[m][q][x]
  BY <1>1, CountingFacts
<1> QED BY <1>2, <1>3 DEF CountsOnly

(* The accounts of acceptances: an insertion covers each, and each is      *)
(* answered by one outcome or by what is pending.                          *)
LEMMA AccountsInit == Init => OutcomesInserted /\ AcceptanceAccounted
BY DEF Init, OutcomesInserted, AcceptanceAccounted, Outcome, IsPending, NotPending

(* Every step of a node keeps the accounts: what it counts for a packet    *)
(* adds up with what is pending.                                           *)
LEMMA AccountsStep ==
    ASSUME TypeOK, DedupShape, InsertionsAccounted, OutcomesInserted,
           AcceptanceAccounted, [NodeAction]_vars
    PROVE  OutcomesInserted' /\ AcceptanceAccounted'
<1> DEFINE Balanced(c, w) ==
             /\ c["accepted"] + c["delivered"] <= c["inserted"]
             /\ c["accepted"] = c["forwarded"] + c["expired"] + c["suppressed"]
                                + c["replaced"] + (IF w THEN 1 ELSE 0)
<1> USE DEF wheel, ticker
<1>a. ASSUME NEW m \in Node, NEW q \in PacketId
      PROVE  Balanced(count[m][q], pending[m][q].timer_id # 0)
  BY DEF OutcomesInserted, AcceptanceAccounted, IsPending
<1>b. ASSUME \A m \in Node, q \in PacketId : Balanced(count'[m][q], pending'[m][q].timer_id # 0)
      PROVE  OutcomesInserted' /\ AcceptanceAccounted'
  BY <1>b DEF OutcomesInserted, AcceptanceAccounted, IsPending
<1>c. ASSUME NEW m \in Node, NEW q \in PacketId
      PROVE  /\ count[m][q]["accepted"] \in Nat /\ count[m][q]["delivered"] \in Nat
             /\ count[m][q]["inserted"] \in Nat /\ count[m][q]["forwarded"] \in Nat
             /\ count[m][q]["expired"] \in Nat /\ count[m][q]["suppressed"] \in Nat
             /\ count[m][q]["replaced"] \in Nat
  BY DEF TypeOK, Outcome
<1>d. /\ "accepted" \in Outcome \ {"inserted", "evicted"}
      /\ "delivered" \in Outcome \ {"inserted", "evicted"}
      /\ "forwarded" \in Outcome \ {"inserted", "evicted"}
      /\ "expired" \in Outcome \ {"inserted", "evicted"}
      /\ "suppressed" \in Outcome \ {"inserted", "evicted"}
      /\ "replaced" \in Outcome \ {"inserted", "evicted"}
      /\ "inserted" \in Outcome
  BY DEF Outcome
<1>e. ASSUME UNCHANGED <<count, pending>>
      PROVE  OutcomesInserted' /\ AcceptanceAccounted'
  BY <1>e DEF OutcomesInserted, AcceptanceAccounted, IsPending
\* What an insertion with outcomes os does to each account.
<1>f. ASSUME NEW n \in Node, NEW p \in PacketId,
             NEW os \in SUBSET (Outcome \ {"inserted", "evicted"}),
             InsertCounting(n, p, os),
             NEW m \in Node, NEW q \in PacketId
      PROVE  /\ count'[m][q]["inserted"] =
                  count[m][q]["inserted"] + (IF m = n /\ q = p /\ p \notin Ids(dedup[n]) THEN 1 ELSE 0)
             /\ count'[m][q]["accepted"] = IF m = n /\ q = p /\ "accepted" \in os
                     THEN count[m][q]["accepted"] + 1 ELSE count[m][q]["accepted"]
             /\ count'[m][q]["delivered"] = IF m = n /\ q = p /\ "delivered" \in os
                     THEN count[m][q]["delivered"] + 1 ELSE count[m][q]["delivered"]
             /\ count'[m][q]["forwarded"] = IF m = n /\ q = p /\ "forwarded" \in os
                     THEN count[m][q]["forwarded"] + 1 ELSE count[m][q]["forwarded"]
             /\ count'[m][q]["expired"] = IF m = n /\ q = p /\ "expired" \in os
                     THEN count[m][q]["expired"] + 1 ELSE count[m][q]["expired"]
             /\ count'[m][q]["suppressed"] = IF m = n /\ q = p /\ "suppressed" \in os
                     THEN count[m][q]["suppressed"] + 1 ELSE count[m][q]["suppressed"]
             /\ count'[m][q]["replaced"] = IF m = n /\ q = p /\ "replaced" \in os
                     THEN count[m][q]["replaced"] + 1 ELSE count[m][q]["replaced"]
  <2>1. CountsInsertion(n, p, os)
    <3>1. /\ dedup \in [Node -> Seq(PacketId)]
          /\ count \in [Node -> [PacketId -> [Outcome -> Nat]]]
      BY DEF TypeOK
    <3> QED BY <1>f, <3>1, InsertCountingFacts, Zenon
  <2>2. /\ count'[m][q]["inserted"] =
             count[m][q]["inserted"] + (IF m = n /\ q = p /\ p \notin Ids(dedup[n]) THEN 1 ELSE 0)
        /\ \A o \in Outcome \ {"inserted", "evicted"} :
             count'[m][q][o] = IF m = n /\ q = p /\ o \in os THEN count[m][q][o] + 1
                                                             ELSE count[m][q][o]
    BY <2>1 DEF CountsInsertion
  <2> QED BY <1>d, <2>2
<1>1. CASE UNCHANGED vars
  BY <1>1, <1>e DEF vars
<1>2. ASSUME NEW n \in Node, NEW f \in AnyFrame, DeliverLucky(n, f)
      PROVE  OutcomesInserted' /\ AcceptanceAccounted'
  <2> DEFINE p == f.packet_id
             os == {"delivered"}
  <2>1. p \in PacketId /\ p \notin Ids(dedup[n]) /\ InsertCounting(n, p, os)
        /\ UNCHANGED pending
    BY <1>2, DataFrame DEF DeliverLucky, Contains
  <2>2. os \in SUBSET (Outcome \ {"inserted", "evicted"})
    BY <1>d
  <2>3. /\ "delivered" \in os /\ "accepted" \notin os /\ "forwarded" \notin os
        /\ "expired" \notin os /\ "suppressed" \notin os /\ "replaced" \notin os
    OBVIOUS
  <2> HIDE DEF p, os
  <2>4. ASSUME NEW m \in Node, NEW q \in PacketId
        PROVE  Balanced(count'[m][q], pending'[m][q].timer_id # 0)
    BY <1>a, <1>c, <1>f, <2>1, <2>2, <2>3
  <2> QED BY <1>b, <2>4
<1>3. ASSUME NEW n \in Node, NEW f \in AnyFrame, Overhear(n, f)
      PROVE  OutcomesInserted' /\ AcceptanceAccounted'
  <2> DEFINE p == f.packet_id
             os == IF IsPending(n, p) THEN {"suppressed"} ELSE {}
  <2>1. /\ p \in PacketId /\ InsertCounting(n, p, os)
        /\ pending' = [pending EXCEPT ![n][p] = NotPending]
    BY <1>3, DataFrame DEF Overhear, FreshTransit
  <2>2. os \in SUBSET (Outcome \ {"inserted", "evicted"})
    BY <1>d
  <2>3. /\ "suppressed" \in os <=> pending[n][p].timer_id # 0
        /\ "accepted" \notin os /\ "forwarded" \notin os
        /\ "expired" \notin os /\ "delivered" \notin os /\ "replaced" \notin os
    BY DEF IsPending
  <2> HIDE DEF p, os
  <2>5. \A m \in Node, q \in PacketId :
           pending'[m][q].timer_id = IF m = n /\ q = p THEN 0 ELSE pending[m][q].timer_id
    BY <2>1 DEF TypeOK, NotPending
  <2>4. ASSUME NEW m \in Node, NEW q \in PacketId
        PROVE  Balanced(count'[m][q], pending'[m][q].timer_id # 0)
    <3>1. CASE m = n /\ q = p
      BY <1>a, <1>c, <1>f, <2>1, <2>2, <2>3, <2>5, <3>1, SMTT(30)
    <3>2. CASE ~ (m = n /\ q = p)
      BY <1>a, <1>c, <1>f, <2>1, <2>2, <2>5, <3>2
    <3> QED BY <3>1, <3>2
  <2> QED BY <1>b, <2>4
<1>4. ASSUME NEW n \in Node, NEW f \in AnyFrame, AcceptAsCandidate(n, f)
      PROVE  OutcomesInserted' /\ AcceptanceAccounted'
  <2> DEFINE p == f.packet_id
             os == {"accepted"} \union (IF IsPending(n, p) THEN {"replaced"} ELSE {})
  <2>1. /\ p \in PacketId /\ p \notin Ids(dedup[n]) /\ InsertCounting(n, p, os)
        /\ pending' = [pending EXCEPT ![n][p] = [timer_id |-> next_id[n], frame |-> f]]
    BY <1>4, DataFrame DEF AcceptAsCandidate, FreshTransit, Contains
  <2>2. os \in SUBSET (Outcome \ {"inserted", "evicted"})
    BY <1>d
  <2>3. /\ "replaced" \in os <=> pending[n][p].timer_id # 0
        /\ "accepted" \in os /\ "forwarded" \notin os
        /\ "expired" \notin os /\ "delivered" \notin os /\ "suppressed" \notin os
    BY DEF IsPending
  <2>6. next_id[n] # 0
    BY DEF TypeOK
  <2> HIDE DEF p, os
  <2>5. \A m \in Node, q \in PacketId :
           pending'[m][q].timer_id = IF m = n /\ q = p THEN next_id[n] ELSE pending[m][q].timer_id
    BY <2>1 DEF TypeOK
  <2>4. ASSUME NEW m \in Node, NEW q \in PacketId
        PROVE  Balanced(count'[m][q], pending'[m][q].timer_id # 0)
    <3>1. CASE m = n /\ q = p
      BY <1>a, <1>c, <1>f, <2>1, <2>2, <2>3, <2>5, <2>6, <3>1, SMTT(30)
    <3>2. CASE ~ (m = n /\ q = p)
      BY <1>a, <1>c, <1>f, <2>1, <2>2, <2>5, <3>2
    <3> QED BY <3>1, <3>2
  <2> QED BY <1>b, <2>4
<1>5. ASSUME NEW n \in Node, NEW f \in AnyFrame, NEW target \in Mac \union {Broadcast},
             SendRemembering(n, f, target) \/ SendForgetting(n, f, target)
      PROVE  OutcomesInserted' /\ AcceptanceAccounted'
  <2>1. CASE SendForgetting(n, f, target)
    BY <2>1, <1>e DEF SendForgetting
  <2>2. CASE SendRemembering(n, f, target)
    <3> DEFINE p == f.packet_id
               os == {}
    <3>1. p \in PacketId /\ InsertCounting(n, p, os) /\ UNCHANGED pending
      BY <2>2, DataFrame DEF SendRemembering, MaySend
    <3>2. os \in SUBSET (Outcome \ {"inserted", "evicted"}) /\ \A o : o \notin os
      OBVIOUS
    <3> HIDE DEF p, os
    <3>3. ASSUME NEW m \in Node, NEW q \in PacketId
          PROVE  Balanced(count'[m][q], pending'[m][q].timer_id # 0)
      BY <1>a, <1>c, <1>f, <3>1, <3>2
    <3> QED BY <1>b, <3>3
  <2> QED BY <1>5, <2>1, <2>2
<1>6. ASSUME NEW n \in Node, NEW os \in {{"forwarded"}, {"forwarded", "early"}, {"expired"}},
             TakePending(n), count' = Counting(n, popped[n].job, os, {})
      PROVE  OutcomesInserted' /\ AcceptanceAccounted'
  <2> DEFINE p == popped[n].job
  <2>1. p \in PacketId /\ pending[n][p].timer_id # 0
    BY <1>6 DEF TakePending, TypeOK, TimerEntry, IsPending
  <2>2. pending' = [pending EXCEPT ![n][p] = NotPending] /\ count' = Counting(n, p, os, {})
    BY <1>6 DEF TakePending
  <2>3. /\ "inserted" \notin os /\ "accepted" \notin os /\ "delivered" \notin os
        /\ "suppressed" \notin os /\ "replaced" \notin os
        /\ "forwarded" \in os <=> "expired" \notin os
    OBVIOUS
  <2> HIDE DEF p
  <2>4. \A m \in Node, q \in PacketId :
           pending'[m][q].timer_id = IF m = n /\ q = p THEN 0 ELSE pending[m][q].timer_id
    BY <2>1, <2>2 DEF TypeOK, NotPending
  <2>5. CountsOnly(n, p, os)
    <3>1. count \in [Node -> [PacketId -> [Outcome -> Nat]]]
      BY DEF TypeOK
    <3> QED BY <2>1, <2>2, <3>1, CountOnly
  <2>6. ASSUME NEW m \in Node, NEW q \in PacketId
        PROVE  Balanced(count'[m][q], pending'[m][q].timer_id # 0)
    <3>1. /\ count'[m][q]["inserted"] = count[m][q]["inserted"]
          /\ count'[m][q]["accepted"] = count[m][q]["accepted"]
          /\ count'[m][q]["delivered"] = count[m][q]["delivered"]
          /\ count'[m][q]["suppressed"] = count[m][q]["suppressed"]
          /\ count'[m][q]["replaced"] = count[m][q]["replaced"]
          /\ count'[m][q]["forwarded"] = IF m = n /\ q = p /\ "forwarded" \in os
                     THEN count[m][q]["forwarded"] + 1 ELSE count[m][q]["forwarded"]
          /\ count'[m][q]["expired"] = IF m = n /\ q = p /\ "expired" \in os
                     THEN count[m][q]["expired"] + 1 ELSE count[m][q]["expired"]
      BY <1>d, <2>3, <2>5 DEF CountsOnly
    <3> HIDE DEF CountsOnly
    <3>2. CASE m = n /\ q = p
      BY <1>a, <1>c, <2>1, <2>3, <2>4, <3>1, <3>2
    <3>3. CASE ~ (m = n /\ q = p)
      BY <1>a, <1>c, <2>4, <3>1, <3>3
    <3> QED BY <3>2, <3>3
  <2> QED BY <1>b, <2>6
<1>7. ASSUME NEW n \in Node, FireForward(n)
      PROVE  OutcomesInserted' /\ AcceptanceAccounted'
  <2>1. PICK os \in {{"forwarded"}, {"forwarded", "early"}} :
           count' = Counting(n, popped[n].job, os, {})
    BY <1>7 DEF FireForward
  <2> QED BY <1>6, <1>7, <2>1 DEF FireForward
<1>8. ASSUME NEW n \in Node, FireExpired(n)
      PROVE  OutcomesInserted' /\ AcceptanceAccounted'
  BY <1>6, <1>8 DEF FireExpired
<1>9. ASSUME NEW n \in Node,
             PopTimer(n) \/ TimerComesToNothing(n) \/ TransmitForward(n) \/ Transmit(n)
      PROVE  OutcomesInserted' /\ AcceptanceAccounted'
  BY <1>9, <1>e DEF PopTimer, TimerComesToNothing, TransmitForward, Transmit
<1>10. CASE AdvanceClock
  BY <1>10, <1>e DEF AdvanceClock
<1> QED BY NodeActionCases, <1>1, <1>2, <1>3, <1>4, <1>5, <1>7, <1>8, <1>9, <1>10

-----------------------------------------------------------------------------
(* Timers: their ids stay distinct, and what is pending stays attended to. *)
\* The timer t attends to packet p at node n.
Attends(n, p, t) ==
    /\ t.id = pending[n][p].timer_id
    /\ t.job = p
    /\ ~ t.cancelled

\* The part of the timer invariant that concerns one node.
DistinctAt(n) ==
    /\ popped[n].id < next_id[n]
    /\ \A t \in timers[n] : t.id < next_id[n] /\ t.id # popped[n].id
    /\ \A t, u \in timers[n] : t.id = u.id => t = u

AttendedAt(n) ==
    \A p \in PacketId :
        IsPending(n, p) => \E t \in timers[n] \union {popped[n]} : Attends(n, p, t)

TimersAt(n) == DistinctAt(n) /\ AttendedAt(n)

(* The timer invariants of all nodes are those of each.                    *)
LEMMA TimersByNode == TimerIdsDistinct /\ PendingHasTimer <=> \A n \in Node : TimersAt(n)
BY DEF TimerIdsDistinct, PendingHasTimer, TimersAt, DistinctAt, AttendedAt, Attends

(* A node starts with no timers and nothing pending.                       *)
LEMMA TimersInit == Init => \A n \in Node : TimersAt(n)
BY DEF Init, TimersAt, DistinctAt, AttendedAt, IsPending, NotPending, NoTimer

\* What the timer invariant of a node depends on.
LEMMA TimersUnchanged ==
    ASSUME NEW m \in Node, TimersAt(m), timers'[m] = timers[m], next_id'[m] = next_id[m],
           popped'[m] = popped[m], pending'[m] = pending[m]
    PROVE  TimersAt(m)'
<1>1. DistinctAt(m)'
  BY DEF TimersAt, DistinctAt
<1>2. AttendedAt(m)'
  BY DEF TimersAt, AttendedAt, Attends, IsPending
<1> QED BY <1>1, <1>2 DEF TimersAt

\* us is ts but for marks on the timers called id.
OnlyMarks(ts, id, us) ==
    /\ \A u \in us : \E t \in ts :
          /\ u.id = t.id
          /\ u = IF t.id = id THEN [t EXCEPT !.cancelled = TRUE] ELSE t
    /\ \A t \in ts : t.id # id => t \in us

(* Cancelling leaves ids alone, and other timers altogether.               *)
LEMMA CancelledFacts ==
    ASSUME NEW ts \in SUBSET TimerEntry, NEW id
    PROVE  OnlyMarks(ts, id, Cancelled(ts, id))
<1>1. ASSUME NEW t \in TimerEntry
      PROVE  [t EXCEPT !.cancelled = TRUE].id = t.id
  BY DEF TimerEntry
<1> QED BY <1>1 DEF Cancelled, OnlyMarks

(* Every step of any node keeps the timer invariant of each node.          *)
LEMMA TimersStep ==
    ASSUME TypeOK, \A n \in Node : TimersAt(n), [NodeAction]_vars, NEW m \in Node
    PROVE  TimersAt(m)'
<1> USE DEF wheel, ticker
<1>a. DistinctAt(m) /\ AttendedAt(m)
  BY DEF TimersAt
<1>b. /\ timers[m] \in SUBSET TimerEntry
      /\ next_id[m] \in Nat \ {0}
      /\ popped[m] \in TimerEntry \union {NoTimer}
      /\ pending[m] \in [PacketId -> PendingForward \union {NotPending}]
  BY DEF TypeOK
<1>1. CASE UNCHANGED vars
  BY <1>1, TimersUnchanged DEF vars
<1>2. ASSUME NEW n \in Node, NEW f \in AnyFrame, DeliverLucky(n, f)
      PROVE  TimersAt(m)'
  BY <1>2, TimersUnchanged DEF DeliverLucky
<1>3. ASSUME NEW n \in Node, NEW f \in AnyFrame, Overhear(n, f)
      PROVE  TimersAt(m)'
  <2> DEFINE p == f.packet_id
             id == pending[n][p].timer_id
  <2>1. p \in PacketId
    BY <1>3, DataFrame DEF Overhear, FreshTransit
  <2>2. CASE m # n \/ ~ IsPending(n, p)
    <3>1. timers'[m] = timers[m] /\ next_id'[m] = next_id[m] /\ popped'[m] = popped[m]
      BY <1>3, <2>2 DEF TypeOK, Overhear
    <3>2. CASE m # n
      <4>1. pending'[m] = pending[m]
        BY <1>3, <3>2 DEF TypeOK, Overhear
      <4> QED BY <3>1, <4>1, TimersUnchanged
    <3>3. CASE m = n /\ ~ IsPending(n, p)
      <4>1. DistinctAt(m)'
        BY <1>a, <3>1 DEF DistinctAt
      <4>2. \A q \in PacketId : IsPending(m, q)' => q # p /\ pending'[m][q] = pending[m][q]
        BY <1>3, <2>1, <3>3 DEF TypeOK, Overhear, IsPending, NotPending
      <4>3. AttendedAt(m)'
        BY <1>a, <3>1, <4>2 DEF AttendedAt, Attends, IsPending
      <4> QED BY <4>1, <4>3 DEF TimersAt
    <3> QED BY <2>2, <3>2, <3>3
  <2>3. CASE m = n /\ IsPending(n, p)
    <3>1. /\ timers'[m] = Cancelled(timers[m], id)
          /\ next_id'[m] = next_id[m] /\ popped'[m] = popped[m]
      BY <1>3, <2>3 DEF TypeOK, Overhear
    <3>3. OnlyMarks(timers[m], id, timers'[m])
      <4> HIDE DEF id
      <4> QED BY <1>b, <3>1, CancelledFacts
    <3>4. DistinctAt(m)'
      <4> HIDE DEF id
      <4>1. /\ popped'[m].id < next_id'[m]
            /\ \A u \in timers'[m] : u.id < next_id'[m] /\ u.id # popped'[m].id
        BY <1>a, <3>1, <3>3 DEF DistinctAt, OnlyMarks
      <4>2. ASSUME NEW u \in timers'[m], NEW v \in timers'[m], u.id = v.id
            PROVE  u = v
        <5>1. PICK t \in timers[m] : /\ u.id = t.id
                                     /\ u = IF t.id = id THEN [t EXCEPT !.cancelled = TRUE] ELSE t
          BY <3>3 DEF OnlyMarks
        <5>2. PICK w \in timers[m] : /\ v.id = w.id
                                     /\ v = IF w.id = id THEN [w EXCEPT !.cancelled = TRUE] ELSE w
          BY <3>3 DEF OnlyMarks
        <5>3. t = w
          BY <1>a, <4>2, <5>1, <5>2 DEF DistinctAt
        <5> QED BY <5>1, <5>2, <5>3
      <4> QED BY <4>1, <4>2 DEF DistinctAt
    <3>5. AttendedAt(m)'
      <4> SUFFICES ASSUME NEW q \in PacketId, IsPending(m, q)'
                   PROVE  \E t \in timers'[m] \union {popped'[m]} : Attends(m, q, t)'
        BY DEF AttendedAt
      <4>1. q # p /\ pending'[m][q] = pending[m][q] /\ IsPending(m, q)
        BY <1>3, <2>1, <2>3 DEF TypeOK, Overhear, IsPending, NotPending
      <4>2. PICK t \in timers[m] \union {popped[m]} : Attends(m, q, t)
        BY <1>a, <4>1 DEF AttendedAt
      <4>3. PICK u \in timers[m] \union {popped[m]} : Attends(m, p, u)
        BY <1>a, <2>1, <2>3 DEF AttendedAt
      <4>4. t.id # id
        <5>1. t.id = u.id => t = u
          BY <1>a DEF DistinctAt
        <5> QED BY <2>3, <4>1, <4>2, <4>3, <5>1 DEF Attends
      <4>5. t \in timers'[m] \union {popped'[m]}
        <5> HIDE DEF id
        <5> QED BY <3>1, <3>3, <4>4 DEF OnlyMarks
      <4> QED BY <4>1, <4>2, <4>5 DEF Attends
    <3> QED BY <3>4, <3>5 DEF TimersAt
  <2> QED BY <2>2, <2>3
<1>4. ASSUME NEW n \in Node, NEW f \in AnyFrame, AcceptAsCandidate(n, f)
      PROVE  TimersAt(m)'
  <2> DEFINE p == f.packet_id
             delay == TWait * (LocalPriority(n, f) - 1)
             new == Timer(next_id[n], now + delay, p)
  <2>1. p \in PacketId
    BY <1>4, DataFrame DEF AcceptAsCandidate, FreshTransit
  <2>2. CASE m # n
    BY <1>4, <2>2, TimersUnchanged DEF TypeOK, AcceptAsCandidate
  <2>3. CASE m = n
    <3>1. new.id = next_id[m] /\ new.job = p /\ ~ new.cancelled
      BY <2>3 DEF Timer
    <3>2. /\ timers'[m] = timers[m] \union {new}
          /\ next_id'[m] = next_id[m] + 1
          /\ popped'[m] = popped[m]
          /\ pending' = [pending EXCEPT ![m][p] = [timer_id |-> next_id[m], frame |-> f]]
      BY <1>4, <2>3 DEF TypeOK, AcceptAsCandidate
    <3> HIDE DEF new, p
    <3>3. DistinctAt(m)'
      <4>1. popped[m].id \in Nat /\ \A t \in timers[m] : t.id \in Nat
        BY <1>b DEF TimerEntry, NoTimer
      <4> QED BY <1>a, <1>b, <3>1, <3>2, <4>1 DEF DistinctAt
    <3>4. AttendedAt(m)'
      <4> SUFFICES ASSUME NEW q \in PacketId, IsPending(m, q)'
                   PROVE  \E t \in timers'[m] \union {popped'[m]} : Attends(m, q, t)'
        BY DEF AttendedAt
      <4>1. CASE q = p
        <5>1. pending'[m][q].timer_id = next_id[m]
          BY <2>1, <3>2, <4>1 DEF TypeOK
        <5> QED BY <3>1, <3>2, <4>1, <5>1 DEF Attends
      <4>2. CASE q # p
        <5>1. pending'[m][q] = pending[m][q]
          BY <3>2, <4>2 DEF TypeOK
        <5> QED BY <1>a, <3>2, <5>1 DEF AttendedAt, Attends, IsPending
      <4> QED BY <4>1, <4>2
    <3> QED BY <3>3, <3>4 DEF TimersAt
  <2> QED BY <2>2, <2>3
<1>5. ASSUME NEW n \in Node, NEW f \in AnyFrame, NEW target \in Mac \union {Broadcast},
             SendRemembering(n, f, target) \/ SendForgetting(n, f, target)
      PROVE  TimersAt(m)'
  BY <1>5, TimersUnchanged DEF SendRemembering, SendForgetting
<1>6. ASSUME NEW n \in Node, PopTimer(n)
      PROVE  TimersAt(m)'
  <2>1. CASE m # n
    BY <1>6, <2>1, TimersUnchanged DEF TypeOK, PopTimer
  <2>2. CASE m = n
    <3>1. PICK t \in timers[m] : timers'[m] = timers[m] \ {t} /\ popped'[m] = t
      BY <1>6, <2>2 DEF TypeOK, PopTimer, DueFront
    <3>2. next_id'[m] = next_id[m] /\ pending'[m] = pending[m] /\ popped[m] = NoTimer
      BY <1>6, <2>2 DEF TypeOK, PopTimer
    <3>3. DistinctAt(m)'
      BY <1>a, <3>1, <3>2 DEF DistinctAt
    <3>4. AttendedAt(m)'
      <4>1. ASSUME NEW q \in PacketId, IsPending(m, q)
            PROVE  \E u \in timers[m] : Attends(m, q, u)
        BY <1>a, <3>2, <4>1 DEF AttendedAt, Attends, NoTimer, IsPending
      <4> QED BY <3>1, <3>2, <4>1 DEF AttendedAt, Attends, IsPending
    <3> QED BY <3>3, <3>4 DEF TimersAt
  <2> QED BY <2>1, <2>2
\* The ticker lets go of an entry after which nothing waits for that entry.
<1>7. ASSUME NEW n \in Node, popped' = [popped EXCEPT ![n] = NoTimer],
             UNCHANGED <<timers, next_id>>,
             \A q \in PacketId : IsPending(m, q)' =>
                 /\ pending'[m][q] = pending[m][q]
                 /\ m = n => ~ Attends(m, q, popped[m])
      PROVE  TimersAt(m)'
  <2>1. DistinctAt(m)'
    <3>1. \A t \in timers[m] : t.id # 0
      BY <1>b DEF TimerEntry
    <3> QED BY <1>7, <1>a, <1>b, <3>1 DEF DistinctAt, TypeOK, NoTimer
  <2>2. AttendedAt(m)'
    <3> SUFFICES ASSUME NEW q \in PacketId, IsPending(m, q)'
                 PROVE  \E t \in timers'[m] \union {popped'[m]} : Attends(m, q, t)'
      BY DEF AttendedAt
    <3>1. pending'[m][q] = pending[m][q] /\ IsPending(m, q)
      BY <1>7 DEF IsPending
    <3>2. PICK t \in timers[m] \union {popped[m]} : Attends(m, q, t)
      BY <1>a, <3>1 DEF AttendedAt
    <3>3. t \in timers'[m] \union {popped'[m]}
      BY <1>7, <3>2 DEF TypeOK
    <3> QED BY <3>1, <3>2, <3>3 DEF Attends
  <2> QED BY <2>1, <2>2 DEF TimersAt
<1>8. ASSUME NEW n \in Node, TimerComesToNothing(n)
      PROVE  TimersAt(m)'
  <2>1. \A q \in PacketId : IsPending(m, q)' =>
                 /\ pending'[m][q] = pending[m][q]
                 /\ m = n => ~ Attends(m, q, popped[m])
    BY <1>8 DEF TimerComesToNothing, Attends, IsPending
  <2> QED BY <1>7, <1>8, <2>1 DEF TimerComesToNothing
<1>9. ASSUME NEW n \in Node, TakePending(n)
      PROVE  TimersAt(m)'
  <2> DEFINE p == popped[n].job
  <2>1. p \in PacketId
    BY <1>9 DEF TakePending, TypeOK, TimerEntry
  <2>2. \A q \in PacketId : IsPending(m, q)' =>
                 /\ pending'[m][q] = pending[m][q]
                 /\ m = n => ~ Attends(m, q, popped[m])
    <3>1. pending' = [pending EXCEPT ![n][p] = NotPending]
      BY <1>9 DEF TakePending
    <3>2. ASSUME NEW q \in PacketId, IsPending(m, q)'
          PROVE  pending'[m][q] = pending[m][q] /\ (m = n => q # p)
      <4> HIDE DEF p
      <4> QED BY <2>1, <3>1, <3>2 DEF TypeOK, IsPending, NotPending
    <3> QED BY <3>2 DEF Attends
  <2> QED BY <1>7, <1>9, <2>2 DEF TakePending
<1>10. ASSUME NEW n \in Node, FireForward(n) \/ FireExpired(n)
       PROVE  TimersAt(m)'
  BY <1>9, <1>10 DEF FireForward, FireExpired
<1>11. ASSUME NEW n \in Node, TransmitForward(n) \/ Transmit(n)
       PROVE  TimersAt(m)'
  BY <1>11, TimersUnchanged DEF TransmitForward, Transmit
<1>12. CASE AdvanceClock
  BY <1>12, TimersUnchanged DEF AdvanceClock
<1> QED BY NodeActionCases, <1>1, <1>2, <1>3, <1>4, <1>5, <1>6, <1>8, <1>10, <1>11, <1>12

-----------------------------------------------------------------------------
(* The inductive invariant of a node.                                      *)
NodeInv == TypeOK /\ Bookkeeping /\ AcceptanceAccounted /\ PendingHasTimer

(* The initial state satisfies the invariant.                              *)
LEMMA NodeInvInit == Init => NodeInv
BY TypeInit, AccountsInit, TimersInit, TimersByNode DEF NodeInv, Bookkeeping

(* Every step of a node, with any frame at any time, keeps the invariant.  *)
LEMMA NodeInvStep == NodeInv /\ [NodeAction]_vars => NodeInv'
<1> SUFFICES ASSUME NodeInv, [NodeAction]_vars PROVE NodeInv'
  OBVIOUS
<1>0. /\ TypeOK /\ DedupShape /\ InsertionsAccounted /\ OutcomesInserted
      /\ AcceptanceAccounted /\ \A n \in Node : TimersAt(n)
  BY TimersByNode DEF NodeInv, Bookkeeping
<1>1. TypeOK' /\ DedupShape' /\ InsertionsAccounted'
  BY <1>0, TypeStep
<1>2. OutcomesInserted' /\ AcceptanceAccounted'
  BY <1>0, AccountsStep
<1>3. \A n \in Node : TimersAt(n)'
  BY <1>0, TimersStep
<1>4. TimerIdsDistinct' /\ PendingHasTimer'
  <2>1. (TimerIdsDistinct /\ PendingHasTimer <=> \A n \in Node : TimersAt(n))'
    BY TimersByNode, PTL
  <2> QED BY <1>3, <2>1
<1> QED BY <1>1, <1>2, <1>4 DEF NodeInv, Bookkeeping

(* Every reachable state satisfies the inductive invariant.                *)
THEOREM Invariance == Spec => []NodeInv
BY NodeInvInit, NodeInvStep, NextIsNodeAction, PTL DEF Spec

(* The state of a node keeps its types.                                    *)
THEOREM TypeCorrect == Spec => []TypeOK
<1>1. NodeInv => TypeOK
  BY DEF NodeInv
<1> QED BY <1>1, Invariance, PTL

(* No frame in pending_ is ever without a live timer.                      *)
THEOREM NoStrandedFrame == Spec => []PendingHasTimer
<1>1. NodeInv => PendingHasTimer
  BY DEF NodeInv
<1> QED BY <1>1, Invariance, PTL

(* Every acceptance is answered once, or is pending.                       *)
THEOREM EveryAcceptanceAccounted == Spec => []AcceptanceAccounted
<1>1. NodeInv => AcceptanceAccounted
  BY DEF NodeInv
<1> QED BY <1>1, Invariance, PTL

(* A node in the invariant has handled no packet twice since its id was   *)
(* last evicted.                                                           *)
LEMMA NodeInvHandlesOnce == NodeInv => HandledAtMostOnce
<1> SUFFICES ASSUME NodeInv, NEW n \in Node, NEW p \in PacketId
             PROVE  count[n][p]["delivered"] + count[n][p]["forwarded"]
                      + count[n][p]["expired"] <= 1 + count[n][p]["evicted"]
  BY DEF HandledAtMostOnce
<1> DEFINE c == count[n][p]
<1>1. /\ c["delivered"] \in Nat /\ c["forwarded"] \in Nat /\ c["expired"] \in Nat
      /\ c["evicted"] \in Nat /\ c["inserted"] \in Nat /\ c["accepted"] \in Nat
      /\ c["suppressed"] \in Nat /\ c["replaced"] \in Nat
  BY DEF NodeInv, TypeOK, Outcome
<1>2. c["inserted"] <= c["evicted"] + 1
  BY <1>1 DEF NodeInv, Bookkeeping, InsertionsAccounted
<1>3. c["accepted"] + c["delivered"] <= c["inserted"]
  BY DEF NodeInv, Bookkeeping, OutcomesInserted
<1>4. c["forwarded"] + c["expired"] <= c["accepted"]
  BY <1>1 DEF NodeInv, AcceptanceAccounted
<1> HIDE DEF c
<1>5. c["delivered"] + c["forwarded"] + c["expired"] <= 1 + c["evicted"]
  BY <1>1, <1>2, <1>3, <1>4
<1> QED BY <1>5 DEF c

(* A packet is delivered, forwarded or expired at a node once at most      *)
(* between two evictions of its id.                                        *)
THEOREM AtMostOnce == Spec => []HandledAtMostOnce
BY NodeInvHandlesOnce, Invariance, PTL

-----------------------------------------------------------------------------
(* A forward ahead of its time needs two timers for one packet, so two     *)
(* acceptances, so an eviction in between.  The account that says so for   *)
(* any capacity: every timer that can still fire for a packet, and every   *)
(* frame forwarded or expired, goes back to an acceptance of its own.      *)

\* The timers of p at n that can still fire.
Live(n, p) ==
    {t \in timers[n] \union {popped[n]} : t # NoTimer /\ t.job = p /\ ~ t.cancelled}

PoppedIsDue(n) == popped[n] # NoTimer => popped[n].expires_at <= now

LiveAccounted(n, p) ==
    /\ IsFiniteSet(Live(n, p))
    /\ Cardinality(Live(n, p)) + count[n][p]["forwarded"] + count[n][p]["expired"]
         <= count[n][p]["accepted"]

EarlyAccounted(n, p) ==
    /\ count[n][p]["early"] <= count[n][p]["forwarded"]
    /\ count[n][p]["early"] <= count[n][p]["evicted"]

EarlyInv ==
    /\ NodeInv
    /\ \A n \in Node : PoppedIsDue(n)
    /\ \A n \in Node, p \in PacketId : LiveAccounted(n, p) /\ EarlyAccounted(n, p)

(* A node starts without timers and with nothing counted.                  *)
LEMMA EarlyInit == Init => EarlyInv
<1> SUFFICES ASSUME Init PROVE EarlyInv
  OBVIOUS
<1>1. ASSUME NEW n \in Node, NEW p \in PacketId
      PROVE  Live(n, p) = {} /\ PoppedIsDue(n) /\ \A o \in Outcome : count[n][p][o] = 0
  BY DEF Init, Live, PoppedIsDue
<1>2. ASSUME NEW n \in Node, NEW p \in PacketId
      PROVE  LiveAccounted(n, p) /\ EarlyAccounted(n, p)
  BY <1>1, FS_EmptySet DEF LiveAccounted, EarlyAccounted, Outcome
<1>3. \A n \in Node : PoppedIsDue(n)
  BY DEF Init, PoppedIsDue
<1> QED BY <1>2, <1>3, NodeInvInit DEF EarlyInv

\* What a step may do to the timers and counts of packet q at m.
Quiet(m, q) ==
    /\ Live(m, q)' \subseteq Live(m, q)
    /\ count'[m][q]["accepted"] >= count[m][q]["accepted"]
    /\ count'[m][q]["evicted"] >= count[m][q]["evicted"]
    /\ \A o \in {"forwarded", "expired", "early"} : count'[m][q][o] = count[m][q][o]

Accepts(m, q) ==
    /\ \E t : Live(m, q)' \subseteq Live(m, q) \union {t}
    /\ count'[m][q]["accepted"] = count[m][q]["accepted"] + 1
    /\ count'[m][q]["evicted"] >= count[m][q]["evicted"]
    /\ \A o \in {"forwarded", "expired", "early"} : count'[m][q][o] = count[m][q][o]

Fires(m, q, t) ==
    /\ t \in Live(m, q)
    /\ Live(m, q)' \subseteq Live(m, q) \ {t}
    /\ \A o \in {"accepted", "evicted"} : count'[m][q][o] = count[m][q][o]

\* In time, or its TTL has run out.
FiresDue(m, q) ==
    /\ \E t : Fires(m, q, t)
    /\ count'[m][q]["early"] = count[m][q]["early"]
    /\ \/ /\ count'[m][q]["forwarded"] = count[m][q]["forwarded"] + 1
          /\ count'[m][q]["expired"] = count[m][q]["expired"]
       \/ /\ count'[m][q]["forwarded"] = count[m][q]["forwarded"]
          /\ count'[m][q]["expired"] = count[m][q]["expired"] + 1

FiresEarly(m, q) ==
    /\ \E t : Fires(m, q, t) /\ Live(m, q) \ {t} # {}
    /\ count'[m][q]["early"] = count[m][q]["early"] + 1
    /\ count'[m][q]["forwarded"] = count[m][q]["forwarded"] + 1
    /\ count'[m][q]["expired"] = count[m][q]["expired"]

(* Whichever of these a step does, the account of the packet stays right.  *)
LEMMA EarlyByStep ==
    ASSUME NodeInv, NodeInv', NEW m \in Node, NEW q \in PacketId,
           LiveAccounted(m, q), EarlyAccounted(m, q),
           Quiet(m, q) \/ Accepts(m, q) \/ FiresDue(m, q) \/ FiresEarly(m, q)
    PROVE  LiveAccounted(m, q)' /\ EarlyAccounted(m, q)'
<1> DEFINE c == count[m][q]
           d == count'[m][q]
           L == Live(m, q)
           M == Live(m, q)'
<1>1. /\ c["accepted"] \in Nat /\ c["evicted"] \in Nat /\ c["forwarded"] \in Nat
      /\ c["expired"] \in Nat /\ c["early"] \in Nat /\ c["inserted"] \in Nat
      /\ c["delivered"] \in Nat
      /\ d["accepted"] \in Nat /\ d["evicted"] \in Nat /\ d["forwarded"] \in Nat
      /\ d["expired"] \in Nat /\ d["early"] \in Nat
  <2>1. \A o \in Outcome : c[o] \in Nat /\ d[o] \in Nat
    BY DEF NodeInv, TypeOK
  <2> HIDE DEF c, d
  <2> QED BY <2>1 DEF Outcome
<1>2. IsFiniteSet(L) /\ Cardinality(L) + c["forwarded"] + c["expired"] <= c["accepted"]
  BY DEF LiveAccounted
<1>3. c["early"] <= c["forwarded"] /\ c["early"] <= c["evicted"]
  BY DEF EarlyAccounted
<1>4. Cardinality(L) \in Nat
  BY <1>2, FS_CardinalityType
<1>5. c["accepted"] <= c["evicted"] + 1
  <2>1. c["inserted"] <= c["evicted"] + 1
    BY <1>1 DEF NodeInv, Bookkeeping, InsertionsAccounted
  <2>2. c["accepted"] + c["delivered"] <= c["inserted"]
    BY DEF NodeInv, Bookkeeping, OutcomesInserted
  <2> HIDE DEF c
  <2> QED BY <1>1, <2>1, <2>2
<1>6. SUFFICES /\ IsFiniteSet(M)
               /\ Cardinality(M) + d["forwarded"] + d["expired"] <= d["accepted"]
               /\ d["early"] <= d["forwarded"] /\ d["early"] <= d["evicted"]
  BY DEF LiveAccounted, EarlyAccounted
<1>7. CASE Quiet(m, q)
  <2>1. M \subseteq L /\ d["accepted"] >= c["accepted"] /\ d["evicted"] >= c["evicted"]
        /\ d["forwarded"] = c["forwarded"] /\ d["expired"] = c["expired"]
        /\ d["early"] = c["early"]
    BY <1>7 DEF Quiet
  <2> HIDE DEF c, d, L, M
  <2>2. IsFiniteSet(M) /\ Cardinality(M) <= Cardinality(L) /\ Cardinality(M) \in Nat
    BY <1>2, <2>1, FS_Subset, FS_CardinalityType
  <2> QED BY <1>1, <1>2, <1>3, <1>4, <2>1, <2>2
<1>8. CASE Accepts(m, q)
  <2>1. PICK t : M \subseteq L \union {t}
    BY <1>8 DEF Accepts
  <2>2. d["accepted"] = c["accepted"] + 1 /\ d["evicted"] >= c["evicted"]
        /\ d["forwarded"] = c["forwarded"] /\ d["expired"] = c["expired"]
        /\ d["early"] = c["early"]
    BY <1>8 DEF Accepts
  <2> HIDE DEF c, d, L, M
  <2>3. IsFiniteSet(L \union {t}) /\ Cardinality(L \union {t}) <= Cardinality(L) + 1
        /\ Cardinality(L \union {t}) \in Nat
    <3>1. /\ IsFiniteSet(L \union {t})
          /\ Cardinality(L \union {t}) =
               IF t \in L THEN Cardinality(L) ELSE Cardinality(L) + 1
      BY <1>2, FS_AddElement
    <3> QED BY <1>4, <3>1
  <2>4. IsFiniteSet(M) /\ Cardinality(M) <= Cardinality(L \union {t}) /\ Cardinality(M) \in Nat
    BY <2>1, <2>3, FS_Subset, FS_CardinalityType
  <2> QED BY <1>1, <1>2, <1>3, <1>4, <2>2, <2>3, <2>4
\* What is left of a packet's timers when one of them has fired.
<1>9. ASSUME NEW t, Fires(m, q, t)
      PROVE  /\ IsFiniteSet(M) /\ Cardinality(M) \in Nat
             /\ Cardinality(M) <= Cardinality(L) - 1
             /\ L \ {t} # {} => Cardinality(L) >= 2
             /\ d["accepted"] = c["accepted"] /\ d["evicted"] = c["evicted"]
  <2>1. t \in L /\ M \subseteq L \ {t}
        /\ d["accepted"] = c["accepted"] /\ d["evicted"] = c["evicted"]
    BY <1>9 DEF Fires
  <2> HIDE DEF c, d, L, M
  <2>2. IsFiniteSet(L \ {t}) /\ Cardinality(L \ {t}) = Cardinality(L) - 1
        /\ Cardinality(L \ {t}) \in Nat
    BY <1>2, <2>1, FS_RemoveElement, FS_CardinalityType
  <2>3. IsFiniteSet(M) /\ Cardinality(M) <= Cardinality(L \ {t}) /\ Cardinality(M) \in Nat
    BY <2>1, <2>2, FS_Subset, FS_CardinalityType
  <2>4. L \ {t} # {} => Cardinality(L \ {t}) # 0
    BY <2>2, FS_EmptySet
  <2> QED BY <1>4, <2>1, <2>2, <2>3, <2>4
<1>10. CASE FiresDue(m, q)
  <2>1. PICK t : Fires(m, q, t)
    BY <1>10 DEF FiresDue
  <2>2. /\ d["early"] = c["early"]
        /\ \/ d["forwarded"] = c["forwarded"] + 1 /\ d["expired"] = c["expired"]
           \/ d["forwarded"] = c["forwarded"] /\ d["expired"] = c["expired"] + 1
    BY <1>10 DEF FiresDue
  <2> HIDE DEF c, d, L, M
  <2> QED BY <1>1, <1>2, <1>3, <1>4, <1>9, <2>1, <2>2
<1>11. CASE FiresEarly(m, q)
  <2>1. PICK t : Fires(m, q, t) /\ L \ {t} # {}
    BY <1>11 DEF FiresEarly
  <2>2. /\ d["early"] = c["early"] + 1
        /\ d["forwarded"] = c["forwarded"] + 1 /\ d["expired"] = c["expired"]
    BY <1>11 DEF FiresEarly
  <2> HIDE DEF c, d, L, M
  <2>3. /\ IsFiniteSet(M) /\ Cardinality(M) \in Nat
        /\ Cardinality(M) <= Cardinality(L) - 1
        /\ Cardinality(L) >= 2
        /\ d["accepted"] = c["accepted"] /\ d["evicted"] = c["evicted"]
    BY <1>9, <2>1
  <2>4. c["forwarded"] + 1 <= c["evicted"]
    BY <1>1, <1>2, <1>4, <1>5, <2>3
  <2> QED BY <1>1, <1>2, <1>3, <1>4, <2>2, <2>3, <2>4
<1> QED BY <1>7, <1>8, <1>10, <1>11

(* Every step of a node is one of these for every packet at every node.    *)
LEMMA StepForPacket ==
    ASSUME NodeInv, \A n \in Node : PoppedIsDue(n), [NodeAction]_vars,
           NEW m \in Node, NEW q \in PacketId
    PROVE  Quiet(m, q) \/ Accepts(m, q) \/ FiresDue(m, q) \/ FiresEarly(m, q)
<1> USE DEF wheel, ticker
<1>0. /\ dedup \in [Node -> Seq(PacketId)]
      /\ count \in [Node -> [PacketId -> [Outcome -> Nat]]]
      /\ timers \in [Node -> SUBSET TimerEntry]
      /\ popped \in [Node -> TimerEntry \union {NoTimer}]
      /\ DedupShape /\ InsertionsAccounted
  BY DEF NodeInv, TypeOK, Bookkeeping
<1>n. \A t \in TimerEntry : t # NoTimer
  BY DEF TimerEntry, NoTimer
<1>d. /\ "accepted" \in Outcome /\ "forwarded" \in Outcome /\ "expired" \in Outcome
      /\ "early" \in Outcome /\ "evicted" \in Outcome
  BY DEF Outcome
<1>c. /\ count[m][q]["accepted"] \in Nat /\ count[m][q]["evicted"] \in Nat
  BY <1>0, <1>d
\* An insertion, whatever goes with it.
<1>f. ASSUME NEW n \in Node, NEW p \in PacketId,
             NEW os \in SUBSET (Outcome \ {"inserted", "evicted"}),
             InsertCounting(n, p, os),
             "forwarded" \notin os, "expired" \notin os, "early" \notin os
      PROVE  /\ count'[m][q]["accepted"] = IF m = n /\ q = p /\ "accepted" \in os
                     THEN count[m][q]["accepted"] + 1 ELSE count[m][q]["accepted"]
             /\ count'[m][q]["evicted"] >= count[m][q]["evicted"]
             /\ \A o \in {"forwarded", "expired", "early"} : count'[m][q][o] = count[m][q][o]
  <2>1. CountsInsertion(n, p, os)
    BY <1>0, <1>f, InsertCountingFacts, Zenon
  <2>2. /\ count'[m][q]["evicted"] >= count[m][q]["evicted"]
        /\ \A o \in Outcome \ {"inserted", "evicted"} :
             count'[m][q][o] = IF m = n /\ q = p /\ o \in os THEN count[m][q][o] + 1
                                                             ELSE count[m][q][o]
    BY <2>1 DEF CountsInsertion
  <2> QED BY <1>d, <1>f, <2>2
<1>s. ASSUME UNCHANGED count, Live(m, q)' \subseteq Live(m, q)
      PROVE  Quiet(m, q)
  BY <1>c, <1>s DEF Quiet
<1>1. CASE UNCHANGED vars
  BY <1>1, <1>s DEF vars, Live
<1>2. ASSUME NEW n \in Node, NEW f \in AnyFrame, DeliverLucky(n, f)
      PROVE  Quiet(m, q)
  <2>1. f.packet_id \in PacketId /\ InsertCounting(n, f.packet_id, {"delivered"})
    BY <1>2, DataFrame DEF DeliverLucky
  <2>2. {"delivered"} \in SUBSET (Outcome \ {"inserted", "evicted"})
    BY DEF Outcome
  <2>3. Live(m, q)' = Live(m, q)
    BY <1>2 DEF DeliverLucky, Live
  <2> QED BY <1>c, <1>f, <2>1, <2>2, <2>3 DEF Quiet
<1>3. ASSUME NEW n \in Node, NEW f \in AnyFrame, Overhear(n, f)
      PROVE  Quiet(m, q)
  <2> DEFINE p == f.packet_id
             id == pending[n][p].timer_id
             os == IF IsPending(n, p) THEN {"suppressed"} ELSE {}
  <2>1. p \in PacketId /\ InsertCounting(n, p, os)
    BY <1>3, DataFrame DEF Overhear, FreshTransit
  <2>2. /\ os \in SUBSET (Outcome \ {"inserted", "evicted"})
        /\ "accepted" \notin os /\ "forwarded" \notin os /\ "expired" \notin os
        /\ "early" \notin os
    BY DEF Outcome
  <2>3. popped' = popped /\ (timers'[m] = timers[m] \/ timers'[m] = Cancelled(timers[m], id))
    BY <1>0, <1>3 DEF Overhear
  <2>4. Live(m, q)' \subseteq Live(m, q)
    <3>1. CASE timers'[m] = timers[m]
      BY <2>3, <3>1 DEF Live
    <3>2. CASE timers'[m] = Cancelled(timers[m], id)
      <4> HIDE DEF id
      <4>1. ASSUME NEW u \in timers'[m], ~ u.cancelled
            PROVE  u \in timers[m]
        <5>1. PICK t \in timers[m] :
                 u = IF t.id = id THEN [t EXCEPT !.cancelled = TRUE] ELSE t
          BY <3>2 DEF Cancelled
        <5>2. t \in TimerEntry
          BY <1>0
        <5>3. [t EXCEPT !.cancelled = TRUE].cancelled
          BY <5>2 DEF TimerEntry
        <5> QED BY <4>1, <5>1, <5>3
      <4> QED BY <2>3, <4>1 DEF Live
    <3> QED BY <2>3, <3>1, <3>2
  <2> HIDE DEF os, p, id
  <2> QED BY <1>c, <1>f, <2>1, <2>2, <2>4 DEF Quiet
<1>4. ASSUME NEW n \in Node, NEW f \in AnyFrame, AcceptAsCandidate(n, f)
      PROVE  Quiet(m, q) \/ Accepts(m, q)
  <2> DEFINE p == f.packet_id
             new == Timer(next_id[n], now + TWait * (LocalPriority(n, f) - 1), p)
             os == {"accepted"} \union (IF IsPending(n, p) THEN {"replaced"} ELSE {})
  <2>1. p \in PacketId /\ InsertCounting(n, p, os)
    BY <1>4, DataFrame DEF AcceptAsCandidate, FreshTransit
  <2>2. /\ os \in SUBSET (Outcome \ {"inserted", "evicted"})
        /\ "accepted" \in os /\ "forwarded" \notin os /\ "expired" \notin os
        /\ "early" \notin os
    BY DEF Outcome
  <2>3. /\ popped' = popped
        /\ timers' = [timers EXCEPT ![n] = @ \union {new}]
    BY <1>4 DEF AcceptAsCandidate
  <2>4. new.job = p
    BY DEF Timer
  <2> HIDE DEF os, new
  <2>5. CASE m = n /\ q = p
    <3>1. Live(m, q)' \subseteq Live(m, q) \union {new}
      BY <1>0, <2>3, <2>5 DEF Live
    <3> QED BY <1>f, <2>1, <2>2, <2>5, <3>1 DEF Accepts
  <2>6. CASE ~ (m = n /\ q = p)
    <3>1. Live(m, q)' \subseteq Live(m, q)
      BY <1>0, <2>3, <2>4, <2>6 DEF Live
    <3> HIDE DEF p
    <3> QED BY <1>c, <1>f, <2>1, <2>2, <2>6, <3>1 DEF Quiet
  <2> QED BY <2>5, <2>6
<1>5. ASSUME NEW n \in Node, NEW f \in AnyFrame, NEW target \in Mac \union {Broadcast},
             SendRemembering(n, f, target) \/ SendForgetting(n, f, target)
      PROVE  Quiet(m, q)
  <2>1. Live(m, q)' = Live(m, q)
    BY <1>5 DEF SendRemembering, SendForgetting, Live
  <2>2. CASE SendForgetting(n, f, target)
    BY <1>s, <2>1, <2>2 DEF SendForgetting
  <2>3. CASE SendRemembering(n, f, target)
    <3> DEFINE os == {}
    <3>1. f.packet_id \in PacketId /\ InsertCounting(n, f.packet_id, os)
      BY <2>3, DataFrame DEF SendRemembering, MaySend
    <3>2. os \in SUBSET (Outcome \ {"inserted", "evicted"}) /\ \A o : o \notin os
      OBVIOUS
    <3> HIDE DEF os
    <3> QED BY <1>c, <1>f, <2>1, <3>1, <3>2 DEF Quiet
  <2> QED BY <1>5, <2>2, <2>3
<1>6. ASSUME NEW n \in Node, PopTimer(n)
      PROVE  Quiet(m, q)
  <2>1. PICK t \in timers[n] : /\ timers' = [timers EXCEPT ![n] = @ \ {t}]
                               /\ popped' = [popped EXCEPT ![n] = t]
    BY <1>6 DEF PopTimer, DueFront
  <2>2. timers'[m] \union {popped'[m]} \subseteq timers[m] \union {popped[m]}
    BY <1>0, <2>1
  <2> QED BY <1>6, <1>s, <2>2 DEF PopTimer, Live
<1>7. ASSUME NEW n \in Node, TimerComesToNothing(n)
      PROVE  Quiet(m, q)
  <2>1. timers' = timers /\ popped'[m] \in {popped[m], NoTimer} /\ UNCHANGED count
    BY <1>0, <1>7 DEF TimerComesToNothing
  <2> QED BY <1>s, <2>1 DEF Live
\* The timer in the ticker's hands is used up, and what it was for is counted.
<1>8. ASSUME NEW n \in Node, TakePending(n),
             NEW os, count' = Counting(n, popped[n].job, os, {}), "evicted" \notin os,
             "accepted" \notin os
      PROVE  LET p == popped[n].job IN
             /\ p \in PacketId
             /\ m = n /\ q = p => Fires(m, q, popped[n])
             /\ ~ (m = n /\ q = p) => Quiet(m, q)
             /\ CountsOnly(n, p, os)
  <2> DEFINE p == popped[n].job
  <2>1. /\ popped[n] \in TimerEntry /\ ~ popped[n].cancelled /\ p \in PacketId
        /\ timers' = timers /\ popped' = [popped EXCEPT ![n] = NoTimer]
    BY <1>0, <1>8 DEF TakePending, TimerEntry
  <2>2. CountsOnly(n, p, os)
    BY <1>0, <1>8, <2>1, CountOnly
  <2>3. CASE m = n /\ q = p
    <3>1. popped[n] \in Live(m, q)
      BY <1>n, <2>1, <2>3 DEF Live
    <3>2. popped[n] \notin timers[n]
      BY DEF NodeInv, Bookkeeping, TimerIdsDistinct
    <3>3. Live(m, q)' \subseteq Live(m, q) \ {popped[n]}
      BY <1>0, <2>1, <2>3, <3>2 DEF Live
    <3>4. \A o \in {"accepted", "evicted"} : count'[m][q][o] = count[m][q][o]
      BY <1>8, <1>d, <2>2 DEF CountsOnly
    <3> QED BY <2>1, <2>2, <2>3, <3>1, <3>3, <3>4 DEF Fires
  <2>4. CASE ~ (m = n /\ q = p)
    <3>1. Live(m, q)' \subseteq Live(m, q)
      BY <1>0, <2>1 DEF Live
    <3>2. \A o \in Outcome : count'[m][q][o] = count[m][q][o]
      BY <2>2, <2>4 DEF CountsOnly
    <3>3. Quiet(m, q)
      BY <1>c, <1>d, <3>1, <3>2 DEF Quiet
    <3> QED BY <2>1, <2>2, <2>4, <3>3
  <2> QED BY <2>3, <2>4
<1>9. ASSUME NEW n \in Node, FireForward(n)
      PROVE  Quiet(m, q) \/ FiresDue(m, q) \/ FiresEarly(m, q)
  <2> DEFINE p == popped[n].job
             os == IF IsEarly(n, p) THEN {"forwarded", "early"} ELSE {"forwarded"}
  <2>1. TakePending(n) /\ count' = Counting(n, p, os, {})
    BY <1>9 DEF FireForward
  <2>2. /\ "evicted" \notin os /\ "accepted" \notin os /\ "expired" \notin os
        /\ "forwarded" \in os /\ ("early" \in os <=> IsEarly(n, p))
    OBVIOUS
  <2>3. /\ m = n /\ q = p => Fires(m, q, popped[n])
        /\ ~ (m = n /\ q = p) => Quiet(m, q)
        /\ CountsOnly(n, p, os)
        /\ p \in PacketId
    <3> HIDE DEF os
    <3> QED BY <1>8, <2>1, <2>2
  <2>4. CASE m = n /\ q = p
    <3>1. /\ count'[m][q]["forwarded"] = count[m][q]["forwarded"] + 1
          /\ count'[m][q]["expired"] = count[m][q]["expired"]
          /\ count'[m][q]["early"] = IF "early" \in os THEN count[m][q]["early"] + 1
                                                      ELSE count[m][q]["early"]
      <4> HIDE DEF os
      <4> QED BY <1>d, <2>2, <2>3, <2>4 DEF CountsOnly
    <3>2. CASE ~ IsEarly(n, p)
      BY <2>2, <2>3, <2>4, <3>1, <3>2 DEF FiresDue
    <3>3. CASE IsEarly(n, p)
      <4>1. PICK u \in timers[n] \union {popped[n]} :
               u.id = pending[n][p].timer_id /\ u.expires_at > now
        BY <3>3 DEF IsEarly
      <4>2. PICK t \in timers[n] \union {popped[n]} :
               t.id = pending[n][p].timer_id /\ t.job = p /\ ~ t.cancelled
        BY <2>1, <2>3 DEF TakePending, NodeInv, PendingHasTimer
      <4>3. t = u
        BY <4>1, <4>2 DEF NodeInv, Bookkeeping, TimerIdsDistinct
      <4>4. u # popped[n]
        <5>1. popped[n] \in TimerEntry /\ popped[n].expires_at <= now
          BY <1>0, <2>1 DEF TakePending, PoppedIsDue
        <5>2. popped[n].expires_at \in Nat /\ now \in Nat
          BY <5>1 DEF TimerEntry, NodeInv, TypeOK
        <5> QED BY <4>1, <5>1, <5>2
      <4>5. u \in Live(m, q) \ {popped[n]}
        BY <1>0, <1>n, <2>4, <4>1, <4>2, <4>3, <4>4 DEF Live
      <4> QED BY <2>2, <2>3, <2>4, <3>1, <3>3, <4>5 DEF FiresEarly
    <3> QED BY <3>2, <3>3
  <2> QED BY <2>3, <2>4
<1>10. ASSUME NEW n \in Node, FireExpired(n)
       PROVE  Quiet(m, q) \/ FiresDue(m, q)
  <2> DEFINE p == popped[n].job
             os == {"expired"}
  <2>1. TakePending(n) /\ count' = Counting(n, p, os, {})
    BY <1>10 DEF FireExpired
  <2>2. /\ "evicted" \notin os /\ "accepted" \notin os /\ "expired" \in os
        /\ "forwarded" \notin os /\ "early" \notin os
    OBVIOUS
  <2> HIDE DEF os
  <2>3. /\ m = n /\ q = p => Fires(m, q, popped[n])
        /\ ~ (m = n /\ q = p) => Quiet(m, q)
        /\ CountsOnly(n, p, os)
    BY <1>8, <2>1, <2>2
  <2>4. CASE m = n /\ q = p
    <3>1. /\ count'[m][q]["forwarded"] = count[m][q]["forwarded"]
          /\ count'[m][q]["expired"] = count[m][q]["expired"] + 1
          /\ count'[m][q]["early"] = count[m][q]["early"]
      BY <1>d, <2>2, <2>3, <2>4 DEF CountsOnly
    <3> QED BY <2>3, <2>4, <3>1 DEF FiresDue
  <2> QED BY <2>3, <2>4
<1>11. ASSUME NEW n \in Node, TransmitForward(n) \/ Transmit(n)
       PROVE  Quiet(m, q)
  BY <1>11, <1>s DEF TransmitForward, Transmit, Live
<1>12. CASE AdvanceClock
  BY <1>12, <1>s DEF AdvanceClock, Live
<1> QED BY NodeActionCases, <1>1, <1>2, <1>3, <1>4, <1>5, <1>6, <1>7, <1>9, <1>10, <1>11, <1>12

(* The ticker pops nothing that is not due, and time does not run back.    *)
LEMMA PoppedIsDueStep ==
    ASSUME TypeOK, [NodeAction]_vars, NEW m \in Node, PoppedIsDue(m)
    PROVE  PoppedIsDue(m)'
<1> USE DEF wheel, ticker
<1>1. ASSUME NEW n \in Node, PopTimer(n)
      PROVE  PoppedIsDue(m)'
  BY <1>1 DEF PopTimer, DueFront, PoppedIsDue, TypeOK
<1>2. CASE AdvanceClock
  <2>1. popped[m] # NoTimer => popped[m].expires_at \in Nat
    BY DEF TypeOK, TimerEntry
  <2> QED BY <1>2, <2>1 DEF AdvanceClock, PoppedIsDue, TypeOK
<1>3. ASSUME now' = now, popped'[m] = popped[m] \/ popped'[m] = NoTimer
      PROVE  PoppedIsDue(m)'
  BY <1>3 DEF PoppedIsDue
<1>4. ASSUME NEW n \in Node,
             TimerComesToNothing(n) \/ FireForward(n) \/ FireExpired(n)
      PROVE  PoppedIsDue(m)'
  BY <1>3, <1>4 DEF TimerComesToNothing, FireForward, FireExpired, TakePending, TypeOK
<1>5. ASSUME NEW n \in Node, TransmitForward(n) \/ Transmit(n)
      PROVE  PoppedIsDue(m)'
  BY <1>3, <1>5 DEF TransmitForward, Transmit
<1>6. ASSUME NEW n \in Node, NEW f \in AnyFrame,
             DeliverLucky(n, f) \/ Overhear(n, f) \/ AcceptAsCandidate(n, f)
      PROVE  PoppedIsDue(m)'
  BY <1>3, <1>6 DEF DeliverLucky, Overhear, AcceptAsCandidate
<1>7. ASSUME NEW n \in Node, NEW f \in AnyFrame, NEW target \in Mac \union {Broadcast},
             SendRemembering(n, f, target) \/ SendForgetting(n, f, target)
      PROVE  PoppedIsDue(m)'
  BY <1>3, <1>7 DEF SendRemembering, SendForgetting
<1>8. CASE UNCHANGED vars
  BY <1>3, <1>8 DEF vars
<1> QED BY NodeActionCases, <1>1, <1>2, <1>4, <1>5, <1>6, <1>7, <1>8

(* Every step of a node, with any frame at any time, keeps the account.    *)
LEMMA EarlyStep == EarlyInv /\ [NodeAction]_vars => EarlyInv'
<1> SUFFICES ASSUME EarlyInv, [NodeAction]_vars PROVE EarlyInv'
  OBVIOUS
<1>1. NodeInv /\ NodeInv' /\ \A n \in Node : PoppedIsDue(n)
  BY NodeInvStep DEF EarlyInv
<1>2. ASSUME NEW n \in Node PROVE PoppedIsDue(n)'
  BY <1>1, PoppedIsDueStep DEF NodeInv
<1>3. ASSUME NEW n \in Node, NEW p \in PacketId
      PROVE  LiveAccounted(n, p)' /\ EarlyAccounted(n, p)'
  <2>1. LiveAccounted(n, p) /\ EarlyAccounted(n, p)
    BY DEF EarlyInv
  <2>2. Quiet(n, p) \/ Accepts(n, p) \/ FiresDue(n, p) \/ FiresEarly(n, p)
    BY <1>1, StepForPacket
  <2> QED BY <1>1, <2>1, <2>2, EarlyByStep
<1> QED BY <1>1, <1>2, <1>3 DEF EarlyInv

(* A candidate forwards ahead of its time no oftener than its cache has    *)
(* given up the packet's id (coordinator_timer.cpp:24-30, 49-58), however  *)
(* small the cache is and whatever arrives.                                *)
THEOREM ForwardsEarlyOnlyIfForgotten == Spec => []EarlyOnlyIfForgotten
<1>1. EarlyInv => EarlyOnlyIfForgotten
  BY DEF EarlyInv, EarlyAccounted, EarlyOnlyIfForgotten
<1>2. Spec => []EarlyInv
  BY EarlyInit, EarlyStep, NextIsNodeAction, PTL DEF Spec
<1> QED BY <1>1, <1>2, PTL

-----------------------------------------------------------------------------
(* A node lives with packets as PacketLifecycle says: every step of a node *)
(* is one of its steps, or leaves what it sees as it was.                  *)

\* What PacketLifecycle sees of the nodes.
View == <<Known, Waiting, Handled>>

(* The first insertion of an id is a first sight of it, and a refresh is   *)
(* nothing.                                                                *)
LEMMA InsertIsNote ==
    ASSUME TypeOK, DedupShape, NEW n \in Node, NEW p \in PacketId,
           dedup' = [dedup EXCEPT ![n] = Insert(@, p)]
    PROVE  /\ p \notin Ids(dedup[n]) => Lifecycle!Note(n, p)
           /\ p \in Ids(dedup[n]) => Known' = Known
<1> DEFINE s == dedup[n]
<1>1. /\ dedup \in [Node -> Seq(PacketId)]
      /\ s \in Seq(PacketId) /\ Distinct(s) /\ Len(s) <= Capacity
      /\ Len(s) \in Nat /\ Capacity \in Nat
  BY LenProperties, CapacityAssumption DEF TypeOK, DedupShape
<1>2. Known[n] = Ids(s)
  BY DEF Known
<1>c. \A S : Lifecycle!Cardinality(S) = Cardinality(S)
  BY DEF Lifecycle!Cardinality, Cardinality
<1>3. Lifecycle!Cardinality(Ids(s)) = Len(s)
  <2> HIDE DEF s
  <2> QED BY <1>1, <1>c, DistinctCount
<1>4. Ids(Insert(s, p)) = (Ids(s) \union {p}) \ Evicted(s, p)
  <2> HIDE DEF s
  <2> QED BY <1>1, InsertRemembers
<1>5. Known' = [Known EXCEPT ![n] = (Ids(s) \union {p}) \ Evicted(s, p)]
  <2>1. \A m \in Node : dedup'[m] = IF m = n THEN Insert(s, p) ELSE dedup[m]
    BY <1>1
  <2>2. Known' = [m \in Node |-> Ids(dedup'[m])]
    BY DEF Known
  <2>3. Known = [m \in Node |-> Ids(dedup[m])]
    BY DEF Known
  <2> HIDE DEF s
  <2> QED BY <1>4, <2>1, <2>2, <2>3
<1>6. CASE p \in Ids(s)
  <2>1. Capacity # 0
    BY <1>1, <1>6 DEF Ids
  <2>2. Evicted(s, p) = {}
    BY <1>6, <2>1 DEF Evicted, Contains
  <2>3. (Ids(s) \union {p}) \ Evicted(s, p) = Ids(s)
    BY <1>6, <2>2
  <2>4. Known' = [Known EXCEPT ![n] = Ids(s)]
    BY <1>5, <2>3
  <2> QED BY <1>2, <1>6, <2>4 DEF Known
<1>7. CASE p \notin Ids(s)
  <2>1. CASE Capacity = 0
    <3>1. Evicted(s, p) = {p}
      BY <2>1 DEF Evicted
    <3>2. Lifecycle!Cardinality(Known[n]) >= Capacity
      BY <1>1, <1>2, <1>3, <2>1
    <3>3. Known' = [Known EXCEPT ![n] = (@ \union {p}) \ {p}]
      BY <1>2, <1>5, <3>1
    <3> QED BY <1>2, <1>7, <2>1, <3>2, <3>3 DEF Lifecycle!Note
  <2>2. CASE Capacity # 0 /\ Len(s) < Capacity
    <3>1. Evicted(s, p) = {}
      BY <1>1, <2>2 DEF Evicted
    <3>2. (Ids(s) \union {p}) \ Evicted(s, p) = Ids(s) \union {p}
      BY <3>1
    <3>3. Known' = [Known EXCEPT ![n] = @ \union {p}]
      BY <1>2, <1>5, <3>2
    <3>4. Lifecycle!Cardinality(Known[n]) < Capacity
      BY <1>2, <1>3, <2>2
    <3> QED BY <1>2, <1>7, <3>3, <3>4 DEF Lifecycle!Note
  <2>3. CASE Capacity # 0 /\ Len(s) >= Capacity
    <3>1. Head(s) = s[1] /\ 1 \in 1..Len(s)
      BY <1>1, <2>3, HeadTailProperties, EmptySeq
    <3>2. Head(s) \in Ids(s)
      BY <3>1 DEF Ids
    <3>3. Evicted(s, p) = {Head(s)}
      BY <1>7, <2>3, <3>2 DEF Evicted, Contains
    <3>4. Known' = [Known EXCEPT ![n] = (@ \union {p}) \ {Head(s)}]
      BY <1>2, <1>5, <3>3
    <3>5. Lifecycle!Cardinality(Known[n]) >= Capacity
      BY <1>2, <1>3, <2>3
    <3>6. Head(s) \in IF Capacity = 0 THEN {p} ELSE Known[n]
      BY <1>2, <2>3, <3>2
    <3> QED BY <1>2, <1>7, <3>4, <3>5, <3>6 DEF Lifecycle!Note
  <2> QED BY <1>1, <2>1, <2>2, <2>3
<1> QED BY <1>6, <1>7

\* The outcomes that handle a packet.
Handling == {"delivered", "forwarded", "expired"}

\* The step counts, of the outcomes that handle packets, those in os, for p at n.
CountsHandling(n, p, os) ==
    \A m \in Node, q \in PacketId, o \in Handling :
        count'[m][q][o] = IF m = n /\ q = p /\ o \in os THEN count[m][q][o] + 1
                                                        ELSE count[m][q][o]

(* The handlings of a packet at a node, before and after a step.           *)
LEMMA HandledByNode ==
    ASSUME count \in [Node -> [PacketId -> [Outcome -> Nat]]],
           NEW n \in Node, NEW p \in PacketId, NEW os, CountsHandling(n, p, os),
           NEW m \in Node, NEW q \in PacketId
    PROVE  /\ Handled[m][q] \in Nat
           /\ (m = n /\ q = p) /\ "delivered" \in os /\ "forwarded" \notin os /\ "expired" \notin os
                => Handled'[m][q] = Handled[m][q] + 1
           /\ (m = n /\ q = p) /\ "delivered" \notin os /\ "forwarded" \in os /\ "expired" \notin os
                => Handled'[m][q] = Handled[m][q] + 1
           /\ (m = n /\ q = p) /\ "delivered" \notin os /\ "forwarded" \notin os /\ "expired" \in os
                => Handled'[m][q] = Handled[m][q] + 1
           /\ ~ (m = n /\ q = p) \/ ("delivered" \notin os /\ "forwarded" \notin os /\ "expired" \notin os)
                => Handled'[m][q] = Handled[m][q]
<1> DEFINE c == count[m][q]
           d == count'[m][q]
<1>1. /\ Handled[m][q] = c["delivered"] + c["forwarded"] + c["expired"]
      /\ Handled'[m][q] = d["delivered"] + d["forwarded"] + d["expired"]
  BY DEF Handled
<1>2. c["delivered"] \in Nat /\ c["forwarded"] \in Nat /\ c["expired"] \in Nat
  BY DEF Outcome
<1>3. \A o \in Handling :
         d[o] = IF m = n /\ q = p /\ o \in os THEN c[o] + 1 ELSE c[o]
  BY DEF CountsHandling
<1>4. /\ d["delivered"] = IF m = n /\ q = p /\ "delivered" \in os THEN c["delivered"] + 1
                                                                 ELSE c["delivered"]
      /\ d["forwarded"] = IF m = n /\ q = p /\ "forwarded" \in os THEN c["forwarded"] + 1
                                                                 ELSE c["forwarded"]
      /\ d["expired"] = IF m = n /\ q = p /\ "expired" \in os THEN c["expired"] + 1
                                                             ELSE c["expired"]
  <2> HIDE DEF c, d
  <2> QED BY <1>3 DEF Handling
<1> HIDE DEF c, d
<1>5. /\ (m = n /\ q = p) /\ "delivered" \in os /\ "forwarded" \notin os /\ "expired" \notin os
            => d["delivered"] = c["delivered"] + 1 /\ d["forwarded"] = c["forwarded"]
               /\ d["expired"] = c["expired"]
      /\ (m = n /\ q = p) /\ "delivered" \notin os /\ "forwarded" \in os /\ "expired" \notin os
            => d["delivered"] = c["delivered"] /\ d["forwarded"] = c["forwarded"] + 1
               /\ d["expired"] = c["expired"]
      /\ (m = n /\ q = p) /\ "delivered" \notin os /\ "forwarded" \notin os /\ "expired" \in os
            => d["delivered"] = c["delivered"] /\ d["forwarded"] = c["forwarded"]
               /\ d["expired"] = c["expired"] + 1
      /\ ~ (m = n /\ q = p) \/ ("delivered" \notin os /\ "forwarded" \notin os /\ "expired" \notin os)
            => d["delivered"] = c["delivered"] /\ d["forwarded"] = c["forwarded"]
               /\ d["expired"] = c["expired"]
  BY <1>4
<1>a. \A x, y, z \in Nat : /\ (x + 1) + y + z = (x + y + z) + 1
                           /\ x + (y + 1) + z = (x + y + z) + 1
                           /\ x + y + (z + 1) = (x + y + z) + 1
  OBVIOUS
<1>6. Handled[m][q] \in Nat
  BY <1>1, <1>2
<1>7. ASSUME m = n, q = p, "delivered" \in os, "forwarded" \notin os, "expired" \notin os
      PROVE  Handled'[m][q] = Handled[m][q] + 1
  <2>1. /\ d["delivered"] = c["delivered"] + 1 /\ d["forwarded"] = c["forwarded"]
        /\ d["expired"] = c["expired"]
    BY <1>5, <1>7
  <2>2. Handled'[m][q] = (c["delivered"] + 1) + c["forwarded"] + c["expired"]
    BY <1>1, <2>1
  <2>3. (c["delivered"] + 1) + c["forwarded"] + c["expired"]
          = (c["delivered"] + c["forwarded"] + c["expired"]) + 1
    BY <1>2, <1>a
  <2> QED BY <1>1, <2>2, <2>3
<1>8. ASSUME m = n, q = p, "delivered" \notin os, "forwarded" \in os, "expired" \notin os
      PROVE  Handled'[m][q] = Handled[m][q] + 1
  <2>1. /\ d["delivered"] = c["delivered"] /\ d["forwarded"] = c["forwarded"] + 1
        /\ d["expired"] = c["expired"]
    BY <1>5, <1>8
  <2>2. Handled'[m][q] = c["delivered"] + (c["forwarded"] + 1) + c["expired"]
    BY <1>1, <2>1
  <2>3. c["delivered"] + (c["forwarded"] + 1) + c["expired"]
          = (c["delivered"] + c["forwarded"] + c["expired"]) + 1
    BY <1>2, <1>a
  <2> QED BY <1>1, <2>2, <2>3
<1>9. ASSUME m = n, q = p, "delivered" \notin os, "forwarded" \notin os, "expired" \in os
      PROVE  Handled'[m][q] = Handled[m][q] + 1
  <2>1. /\ d["delivered"] = c["delivered"] /\ d["forwarded"] = c["forwarded"]
        /\ d["expired"] = c["expired"] + 1
    BY <1>5, <1>9
  <2>2. Handled'[m][q] = c["delivered"] + c["forwarded"] + (c["expired"] + 1)
    BY <1>1, <2>1
  <2>3. c["delivered"] + c["forwarded"] + (c["expired"] + 1)
          = (c["delivered"] + c["forwarded"] + c["expired"]) + 1
    BY <1>2, <1>a
  <2> QED BY <1>1, <2>2, <2>3
<1>10. ASSUME ~ (m = n /\ q = p) \/ ("delivered" \notin os /\ "forwarded" \notin os /\ "expired" \notin os)
      PROVE  Handled'[m][q] = Handled[m][q]
  <2>1. /\ d["delivered"] = c["delivered"] /\ d["forwarded"] = c["forwarded"]
        /\ d["expired"] = c["expired"]
    BY <1>5, <1>10
  <2> QED BY <1>1, <1>2, <2>1
<1> QED BY <1>6, <1>7, <1>8, <1>9, <1>10, Zenon

(* A step that counts no handling leaves what is handled.                  *)
LEMMA HandledSame ==
    ASSUME count \in [Node -> [PacketId -> [Outcome -> Nat]]],
           NEW n \in Node, NEW p \in PacketId, NEW os, CountsHandling(n, p, os),
           "delivered" \notin os, "forwarded" \notin os, "expired" \notin os
    PROVE  Handled' = Handled
<1>1. /\ Handled = [m \in Node |-> [q \in PacketId |-> Handled[m][q]]]
      /\ Handled' = [m \in Node |-> [q \in PacketId |-> Handled'[m][q]]]
  BY DEF Handled
<1>2. ASSUME NEW m \in Node, NEW q \in PacketId
      PROVE  Handled'[m][q] = Handled[m][q]
  BY HandledByNode
<1> QED BY <1>1, <1>2

(* A step that counts one handling of a packet at a node adds it there.    *)
LEMMA HandledOne ==
    ASSUME count \in [Node -> [PacketId -> [Outcome -> Nat]]],
           NEW n \in Node, NEW p \in PacketId, NEW os, CountsHandling(n, p, os),
           \/ "delivered" \in os /\ "forwarded" \notin os /\ "expired" \notin os
           \/ "delivered" \notin os /\ "forwarded" \in os /\ "expired" \notin os
           \/ "delivered" \notin os /\ "forwarded" \notin os /\ "expired" \in os
    PROVE  Handled' = [Handled EXCEPT ![n][p] = @ + 1]
<1>1. /\ Handled = [m \in Node |-> [q \in PacketId |-> Handled[m][q]]]
      /\ Handled' = [m \in Node |-> [q \in PacketId |-> Handled'[m][q]]]
  BY DEF Handled
<1>2. ASSUME NEW m \in Node, NEW q \in PacketId
      PROVE  Handled'[m][q] = IF m = n /\ q = p THEN Handled[m][q] + 1 ELSE Handled[m][q]
  <2>1. CASE m = n /\ q = p
    BY <2>1, HandledByNode
  <2>2. CASE ~ (m = n /\ q = p)
    BY <2>2, HandledByNode
  <2> QED BY <2>1, <2>2
<1> QED BY <1>1, <1>2

(* Every step of a node, with any frame at any time, is a step of          *)
(* PacketLifecycle or leaves what it sees as it was.                       *)
LEMMA LifecycleStep == NodeInv /\ [NodeAction]_vars => [Lifecycle!Next]_View
<1> SUFFICES ASSUME NodeInv, [NodeAction]_vars PROVE [Lifecycle!Next]_View
  OBVIOUS
<1> USE DEF wheel, ticker
<1>0. /\ TypeOK /\ DedupShape /\ InsertionsAccounted
      /\ dedup \in [Node -> Seq(PacketId)]
      /\ count \in [Node -> [PacketId -> [Outcome -> Nat]]]
      /\ pending \in [Node -> [PacketId -> PendingForward \union {NotPending}]]
  BY DEF NodeInv, TypeOK, Bookkeeping
\* Nothing that is seen changes.
<1>s. ASSUME UNCHANGED <<dedup, pending, count>>
      PROVE  [Lifecycle!Next]_View
  BY <1>s DEF View, Known, Waiting, Handled, IsPending
\* What an insertion does, apart from what becomes pending.
<1>f. ASSUME NEW n \in Node, NEW p \in PacketId,
             NEW os \in SUBSET (Outcome \ {"inserted", "evicted"}),
             InsertCounting(n, p, os),
             "forwarded" \notin os, "expired" \notin os
      PROVE  /\ p \notin Ids(dedup[n]) => Lifecycle!Note(n, p)
             /\ p \in Ids(dedup[n]) => Known' = Known
             /\ "delivered" \in os => Lifecycle!Handle(n, p)
             /\ "delivered" \notin os => Handled' = Handled
  <2>1. CountsInsertion(n, p, os)
    BY <1>0, <1>f, InsertCountingFacts, Zenon
  <2>2. CountsHandling(n, p, os)
    <3>1. Handling \subseteq Outcome \ {"inserted", "evicted"}
      BY DEF Outcome, Handling
    <3> QED BY <2>1, <3>1 DEF CountsInsertion, CountsHandling
  <2>3. dedup' = [dedup EXCEPT ![n] = Insert(@, p)]
    BY <1>f DEF InsertCounting
  <2>4. "delivered" \in os => Handled' = [Handled EXCEPT ![n][p] = @ + 1]
    BY <1>0, <1>f, <2>2, HandledOne
  <2>5. "delivered" \notin os => Handled' = Handled
    BY <1>0, <1>f, <2>2, HandledSame
  <2> QED BY <1>0, <2>3, <2>4, <2>5, InsertIsNote DEF Lifecycle!Handle
<1>o. ASSUME NEW n \in Node, NEW f \in AnyFrame, FreshTransit(n, f) \/ DeliverLucky(n, f)
      PROVE  f.packet_id \in PacketId /\ f.packet_id \notin Ids(dedup[n])
  BY <1>o, DataFrame DEF FreshTransit, DeliverLucky, Contains
<1>1. CASE UNCHANGED vars
  BY <1>1, <1>s DEF vars
<1>2. ASSUME NEW n \in Node, NEW f \in AnyFrame, DeliverLucky(n, f)
      PROVE  [Lifecycle!Next]_View
  <2> DEFINE p == f.packet_id
             os == {"delivered"}
  <2>1. p \in PacketId /\ p \notin Ids(dedup[n]) /\ InsertCounting(n, p, os)
    BY <1>2, <1>o DEF DeliverLucky
  <2>2. /\ os \in SUBSET (Outcome \ {"inserted", "evicted"})
        /\ "delivered" \in os /\ "forwarded" \notin os /\ "expired" \notin os
    BY DEF Outcome
  <2>3. Waiting' = Waiting
    BY <1>2 DEF DeliverLucky, Waiting, IsPending
  <2> HIDE DEF p, os
  <2>4. Lifecycle!Deliver(n, p)
    BY <1>f, <2>1, <2>2, <2>3 DEF Lifecycle!Deliver
  <2> QED BY <2>1, <2>4 DEF Lifecycle!Next
<1>3. ASSUME NEW n \in Node, NEW f \in AnyFrame, Overhear(n, f)
      PROVE  [Lifecycle!Next]_View
  <2> DEFINE p == f.packet_id
             os == IF IsPending(n, p) THEN {"suppressed"} ELSE {}
  <2>1. p \in PacketId /\ p \notin Ids(dedup[n]) /\ InsertCounting(n, p, os)
        /\ pending' = [pending EXCEPT ![n][p] = NotPending]
    BY <1>3, <1>o DEF Overhear
  <2>2. /\ os \in SUBSET (Outcome \ {"inserted", "evicted"})
        /\ "delivered" \notin os /\ "forwarded" \notin os /\ "expired" \notin os
    BY DEF Outcome
  <2> HIDE DEF p, os
  <2>3. Waiting' = [Waiting EXCEPT ![n] = @ \ {p}]
    BY <1>0, <2>1 DEF Waiting, IsPending, NotPending
  <2>4. Lifecycle!Pass(n, p)
    BY <1>f, <2>1, <2>2, <2>3 DEF Lifecycle!Pass
  <2> QED BY <2>1, <2>4 DEF Lifecycle!Next
<1>4. ASSUME NEW n \in Node, NEW f \in AnyFrame, AcceptAsCandidate(n, f)
      PROVE  [Lifecycle!Next]_View
  <2> DEFINE p == f.packet_id
             os == {"accepted"} \union (IF IsPending(n, p) THEN {"replaced"} ELSE {})
  <2>1. p \in PacketId /\ p \notin Ids(dedup[n]) /\ InsertCounting(n, p, os)
        /\ pending' = [pending EXCEPT ![n][p] = [timer_id |-> next_id[n], frame |-> f]]
    BY <1>4, <1>o DEF AcceptAsCandidate
  <2>2. /\ os \in SUBSET (Outcome \ {"inserted", "evicted"})
        /\ "delivered" \notin os /\ "forwarded" \notin os /\ "expired" \notin os
    BY DEF Outcome
  <2>3. next_id[n] # 0
    BY <1>0 DEF TypeOK
  <2> HIDE DEF p, os
  <2>4. Waiting' = [Waiting EXCEPT ![n] = @ \union {p}]
    BY <1>0, <2>1, <2>3 DEF Waiting, IsPending
  <2>5. Lifecycle!TakeOn(n, p)
    BY <1>f, <2>1, <2>2, <2>4 DEF Lifecycle!TakeOn
  <2> QED BY <2>1, <2>5 DEF Lifecycle!Next
<1>5. ASSUME NEW n \in Node, NEW f \in AnyFrame, NEW target \in Mac \union {Broadcast},
             SendRemembering(n, f, target) \/ SendForgetting(n, f, target)
      PROVE  [Lifecycle!Next]_View
  <2>1. CASE SendForgetting(n, f, target)
    BY <2>1, <1>s DEF SendForgetting
  <2>2. CASE SendRemembering(n, f, target)
    <3> DEFINE p == f.packet_id
               os == {}
    <3>1. p \in PacketId /\ InsertCounting(n, p, os)
      BY <2>2, DataFrame DEF SendRemembering, MaySend
    <3>2. os \in SUBSET (Outcome \ {"inserted", "evicted"}) /\ \A o : o \notin os
      OBVIOUS
    <3>3. Waiting' = Waiting
      BY <2>2 DEF SendRemembering, Waiting, IsPending
    <3> HIDE DEF p, os
    <3>4. CASE p \in Ids(dedup[n])
      BY <1>f, <3>1, <3>2, <3>3, <3>4 DEF View
    <3>5. CASE p \notin Ids(dedup[n])
      <4>1. Lifecycle!Pass(n, p)
        BY <1>f, <3>1, <3>2, <3>3, <3>5 DEF Lifecycle!Pass
      <4> QED BY <3>1, <4>1 DEF Lifecycle!Next
    <3> QED BY <3>4, <3>5
  <2> QED BY <1>5, <2>1, <2>2
<1>6. ASSUME NEW n \in Node, TakePending(n),
             NEW os \in {{"forwarded"}, {"forwarded", "early"}, {"expired"}},
             count' = Counting(n, popped[n].job, os, {})
      PROVE  [Lifecycle!Next]_View
  <2> DEFINE p == popped[n].job
  <2>1. p \in PacketId /\ IsPending(n, p)
        /\ pending' = [pending EXCEPT ![n][p] = NotPending] /\ dedup' = dedup
    BY <1>6, <1>0 DEF TakePending, TypeOK, TimerEntry
  <2>2. CountsOnly(n, p, os)
    BY <1>0, <1>6, <2>1, CountOnly
  <2> HIDE DEF p
  <2>3. \/ "delivered" \notin os /\ "forwarded" \in os /\ "expired" \notin os
        \/ "delivered" \notin os /\ "forwarded" \notin os /\ "expired" \in os
    OBVIOUS
  <2>4. CountsHandling(n, p, os)
    <3>1. Handling \subseteq Outcome
      BY DEF Outcome, Handling
    <3> QED BY <2>2, <3>1 DEF CountsOnly, CountsHandling
  <2>5. Lifecycle!Handle(n, p)
    <3>1. Handled' = [Handled EXCEPT ![n][p] = @ + 1]
      BY <1>0, <2>1, <2>3, <2>4, HandledOne
    <3> QED BY <3>1 DEF Lifecycle!Handle
  <2>6. p \in Waiting[n] /\ Waiting' = [Waiting EXCEPT ![n] = @ \ {p}]
    BY <1>0, <2>1 DEF Waiting, IsPending, NotPending
  <2>7. Known' = Known
    BY <2>1 DEF Known
  <2>8. Lifecycle!Resolve(n, p)
    BY <2>5, <2>6, <2>7 DEF Lifecycle!Resolve
  <2> QED BY <2>1, <2>8 DEF Lifecycle!Next
<1>7. ASSUME NEW n \in Node, FireForward(n) \/ FireExpired(n)
      PROVE  [Lifecycle!Next]_View
  <2>1. PICK os \in {{"forwarded"}, {"forwarded", "early"}, {"expired"}} :
           count' = Counting(n, popped[n].job, os, {})
    BY <1>7 DEF FireForward, FireExpired
  <2> QED BY <1>6, <1>7, <2>1 DEF FireForward, FireExpired
<1>8. ASSUME NEW n \in Node,
             PopTimer(n) \/ TimerComesToNothing(n) \/ TransmitForward(n) \/ Transmit(n)
      PROVE  [Lifecycle!Next]_View
  BY <1>8, <1>s DEF PopTimer, TimerComesToNothing, TransmitForward, Transmit
<1>9. CASE AdvanceClock
  BY <1>9, <1>s DEF AdvanceClock
<1> QED BY NodeActionCases, <1>1, <1>2, <1>3, <1>4, <1>5, <1>7, <1>8, <1>9

(* A node that has heard nothing knows nothing.                            *)
LEMMA LifecycleInit == Init => Lifecycle!Init
<1> SUFFICES ASSUME Init PROVE Lifecycle!Init
  OBVIOUS
<1>1. Ids(<< >>) = {}
  BY DEF Ids
<1>2. Known = [n \in Node |-> {}]
  BY <1>1 DEF Init, Known
<1>3. Waiting = [n \in Node |-> {}]
  BY DEF Init, Waiting, IsPending, NotPending
<1>4. Handled = [n \in Node |-> [p \in PacketId |-> 0]]
  BY DEF Init, Handled, Outcome
<1> QED BY <1>2, <1>3, <1>4 DEF Lifecycle!Init

(* However copies come in and whichever timers fire, a node handles a      *)
(* packet at first sight, or at the end of a wait that began at first      *)
(* sight, and sees it for the first time again only after a full cache has *)
(* given up its id: for any capacity, the pipeline implements              *)
(* PacketLifecycle.                                                        *)
THEOREM PacketsLiveAsRemembered == Spec => LivesAsRemembered
<1>1. NodeInv /\ [Next]_vars => [Lifecycle!Next]_(Lifecycle!state)
  BY LifecycleStep, NextIsNodeAction DEF View, Lifecycle!state
<1> QED BY <1>1, LifecycleInit, Invariance, PTL DEF Spec, LivesAsRemembered, Lifecycle!Spec

=============================================================================
