------------------------- MODULE JokerNetworkProofs -------------------------
(***************************************************************************)
(* JokerNetwork, for every set of nodes and media, every set of packets    *)
(* applications send, and every capacity and wait: the TTL of a packet     *)
(* pays for every hop it makes; and what ForwardingProofs shows of a node  *)
(* with any frame on the air holds of every node of the network.           *)
(***************************************************************************)
EXTENDS JokerNetwork, ForwardingProofs

\* Within(from, k), over given links.
Reached(links, from, k) ==
    {m \in Node : \E route \in [0..k -> Node] :
        /\ route[0] = from /\ route[k] = m
        /\ \A i \in 1..k : \/ route[i] = route[i - 1]
                           \/ <<route[i - 1], route[i]>> \in links}

(* Within is Reached over the links of the medium.                         *)
LEMMA WithinIsReached ==
    ASSUME NEW n, NEW k \in Nat
    PROVE  Within(n, k) = Reached(medium.links, n, k)
<1>1. ASSUME NEW route \in [0..k -> Node], NEW i \in 1..k
      PROVE  route[i] \in Neighbours(route[i - 1]) \union {route[i - 1]}
               <=> \/ route[i] = route[i - 1]
                   \/ <<route[i - 1], route[i]>> \in medium.links
  <2>1. i \in 0..k
    OBVIOUS
  <2>2. route[i] \in Node
    BY <2>1
  <2> QED BY <2>2 DEF Neighbours
<1> QED BY <1>1 DEF Within, Reached

(* A node is where it is.                                                  *)
LEMMA ReachedHere ==
    ASSUME NEW links, NEW n \in Node
    PROVE  n \in Reached(links, n, 0)
<1> DEFINE route == [i \in 0..0 |-> n]
<1>1. route \in [0..0 -> Node] /\ route[0] = n
  OBVIOUS
<1>2. \A i \in 1..0 : FALSE
  OBVIOUS
<1> HIDE DEF route
<1> QED BY <1>1, <1>2 DEF Reached

(* One link leads one hop on.                                              *)
LEMMA ReachedNext ==
    ASSUME NEW links, NEW from, NEW k \in Nat,
           NEW m \in Reached(links, from, k), NEW n \in Node, <<m, n>> \in links
    PROVE  n \in Reached(links, from, k + 1)
<1>1. PICK route \in [0..k -> Node] :
        /\ route[0] = from /\ route[k] = m
        /\ \A i \in 1..k : \/ route[i] = route[i - 1]
                           \/ <<route[i - 1], route[i]>> \in links
  BY DEF Reached
<1> DEFINE longer == [i \in 0..(k + 1) |-> IF i = k + 1 THEN n ELSE route[i]]
<1>2. longer \in [0..(k + 1) -> Node]
  <2>1. ASSUME NEW i \in 0..(k + 1), i # k + 1 PROVE route[i] \in Node
    <3>1. i \in 0..k
      BY <2>1
    <3> QED BY <3>1
  <2> QED BY <2>1
<1>3. longer[0] = from /\ longer[k + 1] = n
  BY <1>1
<1>4. ASSUME NEW i \in 1..(k + 1)
      PROVE  longer[i] = longer[i - 1] \/ <<longer[i - 1], longer[i]>> \in links
  <2>1. CASE i = k + 1
    <3>1. longer[i] = n /\ longer[i - 1] = route[k]
      BY <2>1
    <3> QED BY <1>1, <3>1
  <2>2. CASE i # k + 1
    <3>1. i \in 1..k /\ i - 1 # k + 1 /\ i - 1 \in 0..(k + 1) /\ i \in 0..(k + 1)
      BY <2>2
    <3>2. longer[i] = route[i] /\ longer[i - 1] = route[i - 1]
      BY <2>2, <3>1
    <3> QED BY <1>1, <3>1, <3>2
  <2> QED BY <2>1, <2>2
<1> HIDE DEF longer
<1> QED BY <1>2, <1>3, <1>4 DEF Reached

-----------------------------------------------------------------------------
(* The steps of the network are steps of its nodes, with frames that are   *)
(* on the air.                                                             *)
MediumTypeOK ==
    /\ medium \in Media
    /\ air \in [Node \X Node -> SUBSET Outgoing]

(* Each step of the network is one of some node, or leaves the nodes       *)
(* alone.                                                                  *)
LEMMA NetNodeAction ==
    ASSUME MediumTypeOK, [NetNext]_netvars
    PROVE  [NodeAction]_vars
<1>1. CASE UNCHANGED netvars
  BY <1>1 DEF netvars, vars
<1>2. ASSUME NEW s \in Sendable, Originate(s)
      PROVE  NodeAction
  <2>1. s.from \in Node /\ s.frame \in AnyFrame /\ s.target \in Mac \union {Broadcast}
    BY NetworkAssumption, FrameAssumption DEF AnyFrame
  <2>2. \/ SendRemembering(s.from, s.frame, s.target)
        \/ SendForgetting(s.from, s.frame, s.target)
    BY <1>2 DEF Originate
  <2> QED BY <2>1, <2>2 DEF NodeAction
<1>3. ASSUME NEW n \in Node, Radio(n) \/ NodeStep(n)
      PROVE  NodeAction
  BY <1>3 DEF Radio, NodeStep, NodeAction
<1>4. ASSUME NEW l \in medium.links, NEW msg \in air[l], Deliver(l, msg)
      PROVE  NodeAction
  <2>1. l \in Node \X Node
    BY NetworkAssumption DEF MediumTypeOK
  <2>2. l[2] \in Node /\ msg.frame \in AnyFrame
    BY <2>1 DEF MediumTypeOK, Outgoing, AnyFrame
  <2>3. IsCandidate(l[2], msg) \in BOOLEAN
    BY DEF IsCandidate
  <2>4. ReceiveFrame(l[2], msg.frame, IsCandidate(l[2], msg))
    BY <1>4 DEF Deliver
  <2> QED BY <2>2, <2>3, <2>4 DEF NodeAction
<1>5. ASSUME NEW l \in medium.links, NEW msg \in air[l], Lose(l, msg)
      PROVE  UNCHANGED vars
  BY <1>5 DEF Lose
<1>6. CASE TimePasses
  BY <1>6 DEF TimePasses, NodeAction
<1> QED BY <1>1, <1>2, <1>3, <1>4, <1>5, <1>6 DEF NetNext, Arrive

(* The medium carries what the NICs were handed.                           *)
LEMMA MediumTypeStep ==
    ASSUME TypeOK, MediumTypeOK, [NetNext]_netvars
    PROVE  MediumTypeOK'
<1>1. CASE UNCHANGED netvars
  BY <1>1 DEF netvars, MediumTypeOK
<1>2. ASSUME NEW s \in Sendable, Originate(s)
      PROVE  MediumTypeOK'
  BY <1>2 DEF Originate, MediumTypeOK
<1>3. ASSUME NEW n \in Node, Radio(n)
      PROVE  MediumTypeOK'
  <2>1. Head(tx[n]) \in Outgoing
    <3>1. tx[n] \in Seq(Outgoing) /\ tx[n] # << >>
      BY <1>3 DEF TypeOK, Radio, Transmit
    <3> QED BY <3>1
  <2>2. air' = [l \in Node \X Node |->
                  IF l \in medium.links /\ l[1] = n THEN air[l] \union {Head(tx[n])} ELSE air[l]]
    BY <1>3 DEF Radio
  <2>3. air' \in [Node \X Node -> SUBSET Outgoing]
    BY <2>1, <2>2 DEF MediumTypeOK
  <2> QED BY <1>3, <2>3 DEF Radio, MediumTypeOK
<1>4. ASSUME NEW n \in Node, NodeStep(n)
      PROVE  MediumTypeOK'
  BY <1>4 DEF NodeStep, MediumTypeOK
<1>5. ASSUME NEW l \in medium.links, NEW msg \in air[l], Deliver(l, msg) \/ Lose(l, msg)
      PROVE  MediumTypeOK'
  BY <1>5 DEF Deliver, Lose, MediumTypeOK
<1>6. CASE TimePasses
  BY <1>6 DEF TimePasses, MediumTypeOK
<1> QED BY <1>1, <1>2, <1>3, <1>4, <1>5, <1>6 DEF NetNext, Arrive

-----------------------------------------------------------------------------
(* Every node of the network keeps the inductive invariant of a node.      *)
NetNodeInv == NodeInv /\ MediumTypeOK

(* The network starts with its nodes at their start and nothing on the     *)
(* air.                                                                    *)
LEMMA NetNodeInvInit == NetInit => NetNodeInv
BY NodeInvInit DEF NetInit, NetNodeInv, MediumTypeOK

(* Every step of the network keeps its nodes' invariant.                   *)
LEMMA NetNodeInvStep == NetNodeInv /\ [NetNext]_netvars => NetNodeInv'
<1> SUFFICES ASSUME NetNodeInv, [NetNext]_netvars PROVE NetNodeInv'
  OBVIOUS
<1>1. NodeInv /\ TypeOK /\ MediumTypeOK
  BY DEF NetNodeInv, NodeInv
<1>2. NodeInv'
  BY <1>1, NetNodeAction, NodeInvStep
<1>3. MediumTypeOK'
  BY <1>1, MediumTypeStep
<1> QED BY <1>2, <1>3 DEF NetNodeInv

(* The inductive invariant of a node holds of every node of the network.   *)
THEOREM NetInvariance == NetSpec => []NetNodeInv
BY NetNodeInvInit, NetNodeInvStep, PTL DEF NetSpec

(* In the network too a node handles a packet once at most between two     *)
(* evictions of its id, whatever the medium loses, repeats or reorders.    *)
THEOREM NetworkHandlesOnce == NetSpec => []HandledAtMostOnce
<1>1. NetNodeInv => HandledAtMostOnce
  BY NodeInvHandlesOnce DEF NetNodeInv
<1> QED BY <1>1, NetInvariance, PTL

(* In the network too no frame is stranded without a timer.                *)
THEOREM NetworkStrandsNoFrame == NetSpec => []PendingHasTimer
<1>1. NetNodeInv => PendingHasTimer
  BY DEF NetNodeInv, NodeInv
<1> QED BY <1>1, NetInvariance, PTL

-----------------------------------------------------------------------------
(* The journey of a packet.                                                *)
\* What application s sent, after hops hops.
Copy(s, f, hops) ==
    /\ s # NotSent
    /\ f = [s.frame EXCEPT !.ttl = f.ttl]
    /\ f.ttl \in 1..s.frame.ttl
    /\ hops = s.frame.ttl - f.ttl

\* f is a copy, sent on by n, which the hops it has paid for have reached.
SentBy(links, s, n, f) ==
    \E hops \in Nat : Copy(s, f, hops) /\ n \in Reached(links, s.from, hops)

\* f is a copy that n has received, one hop on from who sent it.
HeldBy(links, s, n, f) ==
    \E hops \in Nat : Copy(s, f, hops) /\ n \in Reached(links, s.from, hops + 1)

SentIsSendable ==
    /\ sent \in [PacketId -> {NotSent} \union Sendable]
    /\ \A p \in PacketId :
         sent[p] # NotSent => sent[p].frame \in Header /\ sent[p].frame.packet_id = p

OnTheAir ==
    \A l \in Node \X Node : \A msg \in air[l] :
        /\ l \in medium.links
        /\ SentBy(medium.links, sent[msg.frame.packet_id], l[1], msg.frame)

AtTheNic ==
    \A n \in Node : \A i \in 1..Len(tx[n]) :
        SentBy(medium.links, sent[tx[n][i].frame.packet_id], n, tx[n][i].frame)

InPending ==
    \A n \in Node, p \in PacketId :
        IsPending(n, p) =>
            /\ pending[n][p].frame.packet_id = p
            /\ HeldBy(medium.links, sent[p], n, pending[n][p].frame)

InHand ==
    \A n \in Node :
        in_hand[n] # NoFrame =>
            SentBy(medium.links, sent[in_hand[n].packet_id], n, in_hand[n])

JourneyInv ==
    NetNodeInv /\ SentIsSendable /\ OnTheAir /\ AtTheNic /\ InPending /\ InHand

(* At the start nothing has been sent.                                     *)
LEMMA JourneyInit == NetInit => JourneyInv
<1> SUFFICES ASSUME NetInit PROVE JourneyInv
  OBVIOUS
<1>1. NetNodeInv
  BY NetNodeInvInit
<1>2. SentIsSendable
  BY DEF NetInit, SentIsSendable
<1>3. OnTheAir /\ AtTheNic /\ InPending /\ InHand
  BY DEF NetInit, Init, OnTheAir, AtTheNic, InPending, InHand, IsPending, NotPending
<1> QED BY <1>1, <1>2, <1>3 DEF JourneyInv

(* A copy received over a link is held one hop on.                         *)
LEMMA ReceivedIsHeld ==
    ASSUME NEW links, NEW s, NEW f, NEW m, NEW n \in Node,
           SentBy(links, s, m, f), <<m, n>> \in links
    PROVE  HeldBy(links, s, n, f)
BY ReachedNext DEF SentBy, HeldBy

(* A held copy, forwarded with one less to live, has paid for its hop.     *)
LEMMA ForwardedIsSent ==
    ASSUME NEW links, NEW s, NEW n, NEW f \in Header, f.ttl > 1,
           s.frame \in Header, HeldBy(links, s, n, f)
    PROVE  SentBy(links, s, n, [f EXCEPT !.ttl = @ - 1])
<1> DEFINE g == [f EXCEPT !.ttl = @ - 1]
<1>1. PICK hops \in Nat : Copy(s, f, hops) /\ n \in Reached(links, s.from, hops + 1)
  BY DEF HeldBy
<1>2. f.ttl \in Nat /\ s.frame.ttl \in Nat
  BY DEF Header
<1>3. g.ttl = f.ttl - 1
  BY DEF Header
<1>4. g = [s.frame EXCEPT !.ttl = g.ttl]
  <2>1. f = [s.frame EXCEPT !.ttl = f.ttl]
    BY <1>1 DEF Copy
  <2> QED BY <1>3, <2>1 DEF Header
<1>5. g.ttl \in 1..s.frame.ttl /\ hops + 1 = s.frame.ttl - g.ttl
  BY <1>1, <1>2, <1>3 DEF Copy
<1> HIDE DEF g
<1>6. Copy(s, g, hops + 1)
  BY <1>1, <1>4, <1>5 DEF Copy
<1>7. SentBy(links, s, n, g)
  BY <1>1, <1>6 DEF SentBy
<1> QED BY <1>7 DEF g

(* What an application hands over has made no hop.                         *)
LEMMA OriginalIsSent ==
    ASSUME NEW links, NEW s, s # NotSent, s.from \in Node, s.frame \in Header, s.frame.ttl > 0
    PROVE  SentBy(links, s, s.from, s.frame)
<1>1. s.frame.ttl \in Nat /\ s.frame = [s.frame EXCEPT !.ttl = s.frame.ttl]
  BY DEF Header
<1>2. s.frame.ttl \in 1..s.frame.ttl /\ 0 = s.frame.ttl - s.frame.ttl
  BY <1>1
<1>3. Copy(s, s.frame, 0)
  BY <1>1, <1>2 DEF Copy
<1> QED BY <1>3, ReachedHere DEF SentBy

\* What was sent under an id stays what was sent under it.
SentKept == \A p \in PacketId : sent[p] # NotSent => sent'[p] = sent[p]

(* A NIC that keeps, transmits or is handed one copy more has copies.      *)
LEMMA NicKept ==
    ASSUME TypeOK, AtTheNic, SentKept, medium' = medium, NEW n \in Node,
           \/ tx'[n] = tx[n]
           \/ tx[n] # << >> /\ tx'[n] = Tail(tx[n])
           \/ \E h \in Outgoing :
                /\ tx'[n] = Append(tx[n], h)
                /\ SentBy(medium.links, sent'[h.frame.packet_id], n, h.frame)
    PROVE  \A i \in 1..Len(tx'[n]) :
              SentBy(medium'.links, sent'[tx'[n][i].frame.packet_id], n, tx'[n][i].frame)
<1>1. tx[n] \in Seq(Outgoing)
  BY DEF TypeOK
<1>2. ASSUME NEW i \in 1..Len(tx[n])
      PROVE  SentBy(medium.links, sent'[tx[n][i].frame.packet_id], n, tx[n][i].frame)
  <2>1. SentBy(medium.links, sent[tx[n][i].frame.packet_id], n, tx[n][i].frame)
    BY DEF AtTheNic
  <2>2. tx[n][i].frame.packet_id \in PacketId
    <3>1. tx[n][i] \in Outgoing
      BY <1>1
    <3> QED BY <3>1 DEF Outgoing, Header
  <2>3. sent[tx[n][i].frame.packet_id] # NotSent
    BY <2>1 DEF SentBy, Copy
  <2> QED BY <2>1, <2>2, <2>3 DEF SentKept
<1>3. CASE tx'[n] = tx[n]
  BY <1>2, <1>3
<1>4. CASE tx[n] # << >> /\ tx'[n] = Tail(tx[n])
  <2>1. ASSUME NEW i \in 1..Len(tx'[n])
        PROVE  i + 1 \in 1..Len(tx[n]) /\ tx'[n][i] = tx[n][i + 1]
    BY <1>1, <1>4
  <2> QED BY <1>2, <2>1
<1>5. ASSUME NEW h \in Outgoing, tx'[n] = Append(tx[n], h),
             SentBy(medium.links, sent'[h.frame.packet_id], n, h.frame)
      PROVE  \A i \in 1..Len(tx'[n]) :
                SentBy(medium'.links, sent'[tx'[n][i].frame.packet_id], n, tx'[n][i].frame)
  <2>1. ASSUME NEW i \in 1..Len(tx'[n])
        PROVE  \/ i \in 1..Len(tx[n]) /\ tx'[n][i] = tx[n][i]
               \/ tx'[n][i] = h
    BY <1>1, <1>5
  <2> QED BY <1>2, <1>5, <2>1
<1> QED BY <1>3, <1>4, <1>5

(* Nor does an entry of pending_ change under way.                         *)
LEMMA PendingKept ==
    ASSUME InPending, SentKept, medium' = medium, NEW n \in Node, NEW p \in PacketId,
           IsPending(n, p)',
           \/ pending'[n][p] = pending[n][p]
           \/ /\ pending'[n][p].frame.packet_id = p
              /\ HeldBy(medium.links, sent[p], n, pending'[n][p].frame)
    PROVE  /\ pending'[n][p].frame.packet_id = p
           /\ HeldBy(medium'.links, sent'[p], n, pending'[n][p].frame)
<1>1. /\ pending'[n][p].frame.packet_id = p
      /\ HeldBy(medium.links, sent[p], n, pending'[n][p].frame)
  <2>1. CASE pending'[n][p] = pending[n][p]
    <3>1. IsPending(n, p)
      BY <2>1 DEF IsPending
    <3> QED BY <2>1, <3>1 DEF InPending
  <2> QED BY <2>1
<1>2. sent[p] # NotSent
  BY <1>1 DEF HeldBy, Copy
<1>3. sent'[p] = sent[p]
  BY <1>2 DEF SentKept
<1> QED BY <1>1, <1>3

(* Nor does the frame a callback has taken.                                *)
LEMMA InHandKept ==
    ASSUME TypeOK, SentKept, medium' = medium, NEW n \in Node,
           in_hand[n] # NoFrame,
           SentBy(medium.links, sent[in_hand[n].packet_id], n, in_hand[n])
    PROVE  SentBy(medium'.links, sent'[in_hand[n].packet_id], n, in_hand[n])
<1>1. in_hand[n].packet_id \in PacketId
  BY DEF TypeOK, Header
<1>2. sent[in_hand[n].packet_id] # NotSent
  BY DEF SentBy, Copy
<1> QED BY <1>1, <1>2 DEF SentKept

(* A medium that carries what it carried, or what a NIC puts on it, too.   *)
LEMMA AirKept ==
    ASSUME TypeOK, MediumTypeOK, OnTheAir, AtTheNic, SentKept, medium' = medium,
           \A l \in Node \X Node :
               \/ air'[l] \subseteq air[l]
               \/ /\ l \in medium.links /\ tx[l[1]] # << >>
                  /\ air'[l] = air[l] \union {Head(tx[l[1]])}
    PROVE  OnTheAir'
<1> SUFFICES ASSUME NEW l \in Node \X Node, NEW msg \in air'[l]
             PROVE  /\ l \in medium.links
                    /\ SentBy(medium.links, sent'[msg.frame.packet_id], l[1], msg.frame)
  BY DEF OnTheAir
<1>1. /\ l \in medium.links
      /\ msg \in Outgoing
      /\ SentBy(medium.links, sent[msg.frame.packet_id], l[1], msg.frame)
  <2>1. CASE msg \in air[l]
    BY <2>1 DEF OnTheAir, MediumTypeOK
  <2>2. CASE msg \notin air[l]
    <3>1. l \in medium.links /\ tx[l[1]] # << >> /\ msg = Head(tx[l[1]])
      BY <2>2
    <3>2. l[1] \in Node /\ tx[l[1]] \in Seq(Outgoing)
      BY DEF TypeOK
    <3>3. 1 \in 1..Len(tx[l[1]]) /\ msg = tx[l[1]][1]
      BY <3>1, <3>2
    <3> QED BY <3>1, <3>2, <3>3 DEF AtTheNic
  <2> QED BY <2>1, <2>2
<1>2. msg.frame.packet_id \in PacketId
  BY <1>1 DEF Outgoing, Header
<1>3. sent[msg.frame.packet_id] # NotSent
  BY <1>1 DEF SentBy, Copy
<1> QED BY <1>1, <1>2, <1>3 DEF SentKept

(* An application sends a new packet, which has made no hop.               *)
LEMMA OriginateSends ==
    ASSUME TypeOK, SentIsSendable, NEW s \in Sendable, Originate(s)
    PROVE  /\ SentIsSendable' /\ SentKept
           /\ s.from \in Node /\ s.frame \in Header
           /\ tx' = HandToNic(s.from, s.frame, s.target)
           /\ SentBy(medium.links, sent'[s.frame.packet_id], s.from, s.frame)
<1>1. /\ s.from \in Node /\ s.frame \in AnyFrame /\ s.target \in Mac \union {Broadcast}
      /\ s # NotSent
  <2>1. s.from \in Node /\ s.frame \in AnyFrame /\ s.target \in Mac \union {Broadcast}
    BY NetworkAssumption, FrameAssumption DEF AnyFrame
  <2>2. s.from # Broadcast
    BY <2>1, ForwardingAssumption
  <2> QED BY <2>1, <2>2 DEF NotSent
<1>2. /\ MaySend(s.from, s.frame) /\ tx' = HandToNic(s.from, s.frame, s.target)
  BY DEF Originate, SendRemembering, SendForgetting
<1>3. s.frame \in Header /\ s.frame.packet_id \in PacketId /\ s.frame.ttl > 0
  BY <1>1, <1>2, DataFrame DEF MaySend
<1>4. /\ sent[s.frame.packet_id] = NotSent
      /\ sent' = [sent EXCEPT ![s.frame.packet_id] = s]
  BY DEF Originate
<1>5. SentIsSendable' /\ SentKept
  BY <1>1, <1>3, <1>4 DEF SentIsSendable, SentKept
<1>6. sent'[s.frame.packet_id] = s
  BY <1>3, <1>4 DEF SentIsSendable
<1> QED BY <1>1, <1>2, <1>3, <1>5, <1>6, OriginalIsSent

(* Every step of the network leaves copies of what was sent, where their   *)
(* TTL lets them be.                                                       *)
LEMMA JourneyStep == JourneyInv /\ [NetNext]_netvars => JourneyInv'
<1> SUFFICES ASSUME JourneyInv, [NetNext]_netvars PROVE JourneyInv'
  OBVIOUS
<1> USE DEF wheel, ticker
<1>0. /\ NetNodeInv /\ NodeInv /\ TypeOK /\ MediumTypeOK
      /\ SentIsSendable /\ OnTheAir /\ AtTheNic /\ InPending /\ InHand
  BY DEF JourneyInv, NetNodeInv, NodeInv
<1>a. NetNodeInv'
  BY <1>0, NetNodeInvStep
<1>b. ASSUME sent' = sent
      PROVE  SentIsSendable' /\ SentKept
  BY <1>0, <1>b DEF SentIsSendable, SentKept
<1>c. ASSUME SentKept, medium' = medium, pending' = pending
      PROVE  InPending'
  <2>1. \A n \in Node, p \in PacketId : IsPending(n, p)' =>
            /\ pending'[n][p].frame.packet_id = p
            /\ HeldBy(medium'.links, sent'[p], n, pending'[n][p].frame)
    BY <1>0, <1>c, PendingKept
  <2> QED BY <2>1 DEF InPending
<1>d. ASSUME SentKept, medium' = medium, tx' = tx
      PROVE  AtTheNic'
  <2>1. \A n \in Node : \A i \in 1..Len(tx'[n]) :
           SentBy(medium'.links, sent'[tx'[n][i].frame.packet_id], n, tx'[n][i].frame)
    BY <1>0, <1>d, NicKept
  <2> QED BY <2>1 DEF AtTheNic
<1>e. ASSUME SentKept, medium' = medium, \A l \in Node \X Node : air'[l] \subseteq air[l]
      PROVE  OnTheAir'
  BY <1>0, <1>e, AirKept
<1>i. ASSUME SentKept, medium' = medium, in_hand' = in_hand
      PROVE  InHand'
  BY <1>0, <1>i, InHandKept DEF InHand
\* One node is handed a copy to send.
<1>f. ASSUME SentKept, medium' = medium, NEW n \in Node, NEW f \in Header, f.ttl > 0,
             NEW target \in Mac \union {Broadcast},
             tx' = HandToNic(n, f, target),
             SentBy(medium.links, sent'[f.packet_id], n, f)
      PROVE  AtTheNic'
  <2> DEFINE h == [frame |-> f, link_target |-> target]
  <2>1. h \in Outgoing /\ h.frame = f
    BY <1>f DEF Outgoing
  <2>2. \A m \in Node : tx'[m] = IF m = n THEN Append(tx[n], h) ELSE tx[m]
    BY <1>0, <1>f DEF HandToNic, TypeOK
  <2> HIDE DEF h
  <2>3. ASSUME NEW m \in Node
        PROVE  \A i \in 1..Len(tx'[m]) :
                  SentBy(medium'.links, sent'[tx'[m][i].frame.packet_id], m, tx'[m][i].frame)
    <3>1. CASE m = n
      BY <1>0, <1>f, <2>1, <2>2, <3>1, NicKept
    <3>2. CASE m # n
      BY <1>0, <1>f, <2>2, <3>2, NicKept
    <3> QED BY <3>1, <3>2
  <2> QED BY <2>3 DEF AtTheNic
<1>1. CASE UNCHANGED netvars
  <2>1. SentIsSendable' /\ SentKept
    BY <1>1, <1>b DEF netvars
  <2> QED BY <1>1, <1>a, <1>c, <1>d, <1>e, <1>i, <2>1 DEF netvars, JourneyInv
<1>2. ASSUME NEW s \in Sendable, Originate(s)
      PROVE  JourneyInv'
  <2>1. /\ SentIsSendable' /\ SentKept
        /\ s.from \in Node /\ s.frame \in Header
        /\ tx' = HandToNic(s.from, s.frame, s.target)
        /\ SentBy(medium.links, sent'[s.frame.packet_id], s.from, s.frame)
    BY <1>0, <1>2, OriginateSends
  <2>2. s.frame.ttl > 0 /\ s.target \in Mac \union {Broadcast} /\ pending' = pending
        /\ in_hand' = in_hand
    BY <1>2, NetworkAssumption DEF Originate, SendRemembering, SendForgetting, MaySend
  <2>3. medium' = medium /\ air' = air
    BY <1>2 DEF Originate
  <2>4. AtTheNic'
    BY <1>f, <2>1, <2>2, <2>3
  <2> QED BY <1>a, <1>c, <1>e, <1>i, <2>1, <2>2, <2>3, <2>4 DEF JourneyInv
<1>3. ASSUME NEW n \in Node, Radio(n)
      PROVE  JourneyInv'
  <2>1. /\ SentIsSendable' /\ SentKept /\ medium' = medium /\ pending' = pending
        /\ in_hand' = in_hand /\ tx[n] # << >> /\ tx' = [tx EXCEPT ![n] = Tail(@)]
    BY <1>3, <1>b DEF Radio, Transmit
  <2>2. AtTheNic'
    <3>1. \A m \in Node : tx'[m] = IF m = n THEN Tail(tx[n]) ELSE tx[m]
      BY <1>0, <2>1 DEF TypeOK
    <3>2. \A m \in Node : \A i \in 1..Len(tx'[m]) :
             SentBy(medium'.links, sent'[tx'[m][i].frame.packet_id], m, tx'[m][i].frame)
      BY <1>0, <2>1, <3>1, NicKept
    <3> QED BY <3>2 DEF AtTheNic
  <2>3. OnTheAir'
    <3>1. \A l \in Node \X Node :
             air'[l] = IF l \in medium.links /\ l[1] = n THEN air[l] \union {Head(tx[n])}
                                                         ELSE air[l]
      BY <1>3 DEF Radio
    <3> QED BY <1>0, <2>1, <3>1, AirKept
  <2> QED BY <1>a, <1>c, <1>i, <2>1, <2>2, <2>3 DEF JourneyInv
\* What a step of a node alone does not touch.
<1>g. ASSUME UNCHANGED <<medium, air, sent>>, AtTheNic', InPending', InHand'
      PROVE  JourneyInv'
  <2>1. SentIsSendable' /\ SentKept
    BY <1>b, <1>g
  <2> QED BY <1>a, <1>e, <1>g, <2>1 DEF JourneyInv
<1>h. ASSUME SentKept, medium' = medium, sent' = sent, NEW n \in Node, TakePending(n)
      PROVE  InPending'
  <2>1. popped[n].job \in PacketId
    BY <1>0, <1>h DEF TakePending, TypeOK, TimerEntry
  <2>2. \A m \in Node, p \in PacketId : IsPending(m, p)' => pending'[m][p] = pending[m][p]
    BY <1>0, <1>h, <2>1 DEF TakePending, TypeOK, IsPending, NotPending
  <2>3. \A m \in Node, p \in PacketId : IsPending(m, p)' =>
            /\ pending'[m][p].frame.packet_id = p
            /\ HeldBy(medium'.links, sent'[p], m, pending'[m][p].frame)
    BY <1>0, <1>h, <2>2, PendingKept
  <2> QED BY <2>3 DEF InPending
<1>4. ASSUME NEW n \in Node, NodeStep(n)
      PROVE  JourneyInv'
  <2>1. SentKept /\ UNCHANGED <<medium, air, sent>>
    BY <1>4, <1>b DEF NodeStep
  <2>2. CASE PopTimer(n) \/ TimerComesToNothing(n)
    BY <1>c, <1>d, <1>g, <1>i, <2>1, <2>2 DEF PopTimer, TimerComesToNothing
  <2>3. CASE FireExpired(n)
    BY <1>d, <1>g, <1>h, <1>i, <2>1, <2>3 DEF FireExpired
  <2>4. CASE FireForward(n)
    <3> DEFINE p == popped[n].job
               f == pending[n][p].frame
               g == [f EXCEPT !.ttl = @ - 1]
    <3>1. /\ TakePending(n) /\ IsPending(n, p) /\ f.ttl > 1
          /\ in_hand' = [in_hand EXCEPT ![n] = g] /\ tx' = tx
      BY <2>4 DEF FireForward, TakePending
    <3>2. p \in PacketId /\ f \in Header
      BY <1>0, <3>1 DEF TakePending, TypeOK, TimerEntry, PendingForward, IsPending, NotPending
    <3>3. f.packet_id = p /\ HeldBy(medium.links, sent[p], n, f)
      BY <1>0, <3>1, <3>2 DEF InPending
    <3>4. sent[p].frame \in Header
      BY <1>0, <3>2, <3>3 DEF SentIsSendable, HeldBy, Copy
    <3> HIDE DEF f, p
    <3>5. g.packet_id = p
      BY <3>2, <3>3 DEF Header
    <3>6. SentBy(medium.links, sent'[g.packet_id], n, g)
      BY <2>1, <3>1, <3>2, <3>3, <3>4, <3>5, ForwardedIsSent
    <3> HIDE DEF g
    <3>7. \A m \in Node : in_hand'[m] = IF m = n THEN g ELSE in_hand[m]
      BY <1>0, <3>1 DEF TypeOK
    <3>8. InHand'
      <4> SUFFICES ASSUME NEW m \in Node, in_hand'[m] # NoFrame
                   PROVE  SentBy(medium'.links, sent'[in_hand'[m].packet_id], m, in_hand'[m])
        BY DEF InHand
      <4>1. CASE m = n
        BY <2>1, <3>6, <3>7, <4>1
      <4>2. CASE m # n
        <5>1. in_hand'[m] = in_hand[m]
          BY <3>7, <4>2
        <5> QED BY <1>0, <2>1, <5>1, InHandKept DEF InHand
      <4> QED BY <4>1, <4>2
    <3> QED BY <1>d, <1>g, <1>h, <2>1, <3>1, <3>8
  <2>5. CASE TransmitForward(n)
    <3> DEFINE f == in_hand[n]
    <3>1. f # NoFrame /\ tx' = HandToNic(n, f, Broadcast) /\ pending' = pending
          /\ in_hand' = [in_hand EXCEPT ![n] = NoFrame]
      BY <2>5 DEF TransmitForward
    <3>2. f \in Header /\ f.ttl > 0
      BY <1>0, <3>1 DEF TypeOK
    <3>3. SentBy(medium.links, sent'[f.packet_id], n, f)
      BY <1>0, <2>1, <3>1 DEF InHand
    <3>4. \A m \in Node : in_hand'[m] # NoFrame => in_hand'[m] = in_hand[m]
      BY <1>0, <3>1 DEF TypeOK
    <3> HIDE DEF f
    <3>5. AtTheNic'
      BY <1>f, <2>1, <3>1, <3>2, <3>3
    <3>6. InHand'
      BY <1>0, <2>1, <3>4, InHandKept DEF InHand
    <3> QED BY <1>c, <1>g, <2>1, <3>1, <3>5, <3>6
  <2> QED BY <1>4, <2>2, <2>3, <2>4, <2>5 DEF NodeStep, Ticker
<1>5. ASSUME NEW l \in medium.links, NEW msg \in air[l], Deliver(l, msg)
      PROVE  JourneyInv'
  <2> DEFINE n == l[2]
             f == msg.frame
             p == f.packet_id
  <2>1. /\ SentIsSendable' /\ SentKept /\ medium' = medium /\ sent' = sent
        /\ ReceiveFrame(n, f, IsCandidate(n, msg))
    BY <1>5, <1>b DEF Deliver
  <2>2. l \in Node \X Node /\ l = <<l[1], n>>
    BY <1>0, NetworkAssumption DEF MediumTypeOK
  <2>3. /\ n \in Node /\ f \in Header /\ p \in PacketId
        /\ SentBy(medium.links, sent[p], l[1], f)
    BY <1>0, <2>2 DEF MediumTypeOK, Outgoing, Header, OnTheAir
  <2>4. HeldBy(medium.links, sent[p], n, f)
    BY <2>2, <2>3, ReceivedIsHeld
  <2>5. OnTheAir'
    <3>1. \A k \in Node \X Node : air'[k] \subseteq air[k]
      BY <1>0, <1>5 DEF Deliver, MediumTypeOK
    <3> QED BY <1>e, <2>1, <3>1
  <2> HIDE DEF n, f
  <2>6. tx' = tx /\ in_hand' = in_hand
    BY <2>1 DEF ReceiveFrame, IgnoreFrame, DropDuplicate, DeliverLucky, DropTtl, Overhear,
                AcceptAsCandidate, vars
  <2>7. AtTheNic'
    BY <1>d, <2>1, <2>6
  <2>i. InHand'
    BY <1>i, <2>1, <2>6
  <2>8. \/ pending' = pending
        \/ pending' = [pending EXCEPT ![n][p] = NotPending]
        \/ pending' = [pending EXCEPT ![n][p] = [timer_id |-> next_id[n], frame |-> f]]
    BY <2>1 DEF ReceiveFrame, IgnoreFrame, DropDuplicate, DeliverLucky, DropTtl, Overhear,
                AcceptAsCandidate, vars
  <2>9. InPending'
    <3> SUFFICES ASSUME NEW m \in Node, NEW q \in PacketId, IsPending(m, q)'
                 PROVE  /\ pending'[m][q].frame.packet_id = q
                        /\ HeldBy(medium'.links, sent'[q], m, pending'[m][q].frame)
      BY DEF InPending
    <3>1. \/ pending'[m][q] = pending[m][q]
          \/ m = n /\ q = p /\ pending'[m][q].frame = f
      <4> HIDE DEF p
      <4> QED BY <1>0, <2>3, <2>8 DEF TypeOK, IsPending, NotPending
    <3> QED BY <1>0, <2>1, <2>4, <3>1, PendingKept
  <2> QED BY <1>a, <2>1, <2>5, <2>7, <2>i, <2>9 DEF JourneyInv
<1>6. ASSUME NEW l \in medium.links, NEW msg \in air[l], Lose(l, msg)
      PROVE  JourneyInv'
  <2>1. /\ SentIsSendable' /\ SentKept /\ medium' = medium /\ tx' = tx /\ pending' = pending
        /\ in_hand' = in_hand
    BY <1>6, <1>b DEF Lose, vars
  <2>2. \A k \in Node \X Node : air'[k] \subseteq air[k]
    BY <1>0, <1>6 DEF Lose, MediumTypeOK
  <2> QED BY <1>a, <1>c, <1>d, <1>e, <1>i, <2>1, <2>2 DEF JourneyInv
<1>7. CASE TimePasses
  <2>1. SentKept /\ UNCHANGED <<medium, air, sent>> /\ tx' = tx /\ pending' = pending
        /\ in_hand' = in_hand
    BY <1>7, <1>b DEF TimePasses, AdvanceClock
  <2> QED BY <1>c, <1>d, <1>g, <1>i, <2>1
<1> QED BY <1>1, <1>2, <1>3, <1>4, <1>5, <1>6, <1>7 DEF NetNext, Arrive

(* What is on the air, at a NIC or pending is a copy of what was sent.     *)
THEOREM JourneyInvariance == NetSpec => []JourneyInv
BY JourneyInit, JourneyStep, PTL DEF NetSpec

(* No packet gets farther than its TTL allows.                             *)
THEOREM TtlPays == NetSpec => []TtlPaysForHops
<1>1. ASSUME JourneyInv PROVE TtlPaysForHops
  <2> SUFFICES ASSUME NEW l \in medium.links, NEW msg \in air[l]
               PROVE  LET f == msg.frame
                          s == sent[f.packet_id]
                      IN /\ s # NotSent
                         /\ f = [s.frame EXCEPT !.ttl = f.ttl]
                         /\ f.ttl \in 1..s.frame.ttl
                         /\ l[1] \in Within(s.from, s.frame.ttl - f.ttl)
    BY DEF TtlPaysForHops
  <2> DEFINE f == msg.frame
             s == sent[f.packet_id]
  <2>1. l \in Node \X Node
    BY <1>1, NetworkAssumption DEF JourneyInv, NetNodeInv, MediumTypeOK
  <2>2. SentBy(medium.links, s, l[1], f)
    BY <1>1, <2>1 DEF JourneyInv, OnTheAir
  <2> HIDE DEF f, s
  <2>3. PICK hops \in Nat : Copy(s, f, hops) /\ l[1] \in Reached(medium.links, s.from, hops)
    BY <2>2 DEF SentBy
  <2>4. l[1] \in Within(s.from, s.frame.ttl - f.ttl)
    BY <2>3, WithinIsReached DEF Copy
  <2> QED BY <2>3, <2>4 DEF Copy, f, s
<1> QED BY <1>1, JourneyInvariance, PTL

-----------------------------------------------------------------------------
(* What holds of a node with any frames at any time holds in the network.  *)
NetEarlyInv == EarlyInv /\ MediumTypeOK

(* In the network too a candidate forwards ahead of its time no oftener    *)
(* than its cache has given up the packet's id: the frames that are really *)
(* on the air cannot do what no frame can.                                 *)
THEOREM NetworkForwardsEarlyOnlyIfForgotten == NetSpec => []EarlyOnlyIfForgotten
<1>1. NetInit => NetEarlyInv
  BY EarlyInit DEF NetInit, NetEarlyInv, MediumTypeOK
<1>2. NetEarlyInv /\ [NetNext]_netvars => NetEarlyInv'
  <2> SUFFICES ASSUME NetEarlyInv, [NetNext]_netvars PROVE NetEarlyInv'
    OBVIOUS
  <2>1. EarlyInv /\ TypeOK /\ MediumTypeOK
    BY DEF NetEarlyInv, EarlyInv, NodeInv
  <2>2. EarlyInv'
    BY <2>1, NetNodeAction, EarlyStep
  <2> QED BY <2>1, <2>2, MediumTypeStep DEF NetEarlyInv
<1>3. NetEarlyInv => EarlyOnlyIfForgotten
  BY DEF NetEarlyInv, EarlyInv, EarlyAccounted, EarlyOnlyIfForgotten
<1> QED BY <1>1, <1>2, <1>3, PTL DEF NetSpec

(* The network's nodes implement PacketLifecycle: a packet is handled at   *)
(* first sight, or after a wait that began at first sight, whatever the    *)
(* medium repeats, and first sight comes again only when a full cache has  *)
(* given up the id.                                                        *)
THEOREM NetworkPacketsLiveAsRemembered == NetSpec => LivesAsRemembered
<1>1. NetNodeInv /\ [NetNext]_netvars => [Lifecycle!Next]_(Lifecycle!state)
  BY NetNodeAction, LifecycleStep DEF NetNodeInv, View, Lifecycle!state
<1>2. NetInit => Lifecycle!Init
  BY LifecycleInit DEF NetInit
<1> QED BY <1>1, <1>2, NetInvariance, PTL DEF NetSpec, LivesAsRemembered, Lifecycle!Spec
=============================================================================
