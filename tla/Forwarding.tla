----------------------------- MODULE Forwarding -----------------------------
(***************************************************************************)
(* A JOKER node with timer-based coordination: process_received_frame, the *)
(* TimerCoordinator it hands data packets to, the coordinator's entries in *)
(* the timer wheel, and the node's own sends.  The radio is open here: any *)
(* frame of the set Frame may arrive at any node at any time, with either  *)
(* value of is_candidate.  JokerNetwork closes the system.                 *)
(*                                                                         *)
(* Two threads work on a node.  A reception is one step: what it does to   *)
(* the dedup cache is seen by no other thread that this module lets touch  *)
(* the same id, and what it does to the wheel and to pending_ happens      *)
(* under pending_mutex_.  The ticker's work is three steps, because the    *)
(* callback takes the pending frame under that mutex, and neither popping  *)
(* an entry off the heap nor handing the frame to the NIC is under it: an  *)
(* overheard forward or a send may come in between.                        *)
(***************************************************************************)
EXTENDS Integers, Sequences, FiniteSets, LruOps, WheelOps

CONSTANTS
    Node,               \* nodes, each named by its MAC address
    Mac,                \* all MAC addresses in use; Node among them
    Broadcast,          \* the broadcast address (or zero: equally invalid)
    Frame,              \* the frames that may be on the air
    CandidateCount,     \* config.candidate_count
    TWait,              \* config.twait_ms
    MaxInserts,         \* bound: insertions of one id into one node's cache
    SendHorizon,        \* bound: the time after which nothing arrives or is sent
    MaxTx               \* bound: applications send while the NIC has fewer waiting

ASSUME ForwardingAssumption ==
    /\ Node \subseteq Mac
    /\ Broadcast \notin Mac
    /\ CandidateCount \in Nat
    /\ TWait \in Nat
    /\ MaxInserts \in Nat
    /\ SendHorizon \in Nat
    /\ MaxTx \in Nat

\* What deserialize_header makes of the bytes: nothing, or a header.  The
\* payload is carried along unchanged and is left out.
Malformed == [type |-> "malformed"]
Header == [type : {"unicast", "ack", "forwarding"},
           ttl : Nat,
           packet_id : PacketId,
           final_destination : Mac \union {Broadcast},
           other_candidates : Seq(Mac)]

ASSUME FrameAssumption == Frame \subseteq Header \union {Malformed}

VARIABLES
    dedup,      \* DedupCache: ids in recency order
    pending,    \* TimerCoordinator::pending_
    timers,     \* timers_ of the node's wheel
    next_id,    \* next_id_ of the node's wheel
    popped,     \* the entry the ticker holds between pop and callback
    in_hand,    \* frame_to_send: taken by the callback, not yet transmitted
    tx,         \* TransmittedFrames: handed to the NIC, not yet on the air
    now,        \* steady_clock
    count       \* ghost: how often each outcome befell a packet at a node

vars == <<dedup, pending, timers, next_id, popped, in_hand, tx, now, count>>
ticker == <<popped, in_hand>>
wheel == <<timers, next_id, popped, in_hand>>

NotPending == [timer_id |-> 0]
NoTimer    == [id |-> 0]
NoFrame    == [type |-> "none"]

\* Ghost: what has become of each packet at each node, counted.  The names
\* are those of the steps below; delivered, accepted and forwarded are also
\* the counters packets_delivered_lucky_or_direct, candidate_packets_received
\* and timer_forwards of Metrics, split by packet; early are those of the
\* forwarded whose own timer was still running.
Outcome == {"inserted", "evicted", "accepted", "delivered",
            "forwarded", "early", "expired", "suppressed", "replaced"}

Init ==
    /\ dedup = [n \in Node |-> << >>]
    /\ pending = [n \in Node |-> [p \in PacketId |-> NotPending]]
    /\ timers = [n \in Node |-> {}]
    /\ next_id = [n \in Node |-> 1]
    /\ popped = [n \in Node |-> NoTimer]
    /\ in_hand = [n \in Node |-> NoFrame]
    /\ tx = [n \in Node |-> << >>]
    /\ now = 0
    /\ count = [n \in Node |-> [p \in PacketId |-> [o \in Outcome |-> 0]]]

IsPending(n, p) == pending[n][p].timer_id # 0

\* count after the outcomes os of packet p at n, and after n forgot some ids.
Counting(n, p, os, gone) ==
    [count EXCEPT ![n] =
        [q \in PacketId |->
            [o \in Outcome |->
                IF \/ q = p /\ o \in os
                   \/ q \in gone /\ o = "evicted"
                THEN @[q][o] + 1 ELSE @[q][o]]]]

\* dedup.Insert of p, with the outcomes it goes with.  An id that is there
\* already is refreshed, which counts as nothing.
InsertCounting(n, p, os) ==
    LET new == IF Contains(dedup[n], p) THEN {} ELSE {"inserted"} IN
    /\ new = {} \/ count[n][p]["inserted"] < MaxInserts
    /\ dedup' = [dedup EXCEPT ![n] = Insert(@, p)]
    /\ count' = Counting(n, p, os \union new, Evicted(dedup[n], p))

-----------------------------------------------------------------------------
(* process_received_frame, one action per way through it.                  *)

ValidateHeader(f) ==
    /\ f.final_destination # Broadcast
    /\ 1 + Len(f.other_candidates) <= CandidateCount
    /\ Distinct(f.other_candidates)

\* Steps 1 and 2, and the dispatch of step 3: what remains is a data packet.
IsData(f) ==
    /\ f # Malformed
    /\ ValidateHeader(f)
    /\ f.type = "unicast"

\* Malformed and invalid frames are dropped.  Acks and Forwarding messages
\* are dispatched before the duplicate check; in timer mode both are no-ops.
IgnoreFrame(n, f) == ~ IsData(f) /\ UNCHANGED vars

DropDuplicate(n, f) ==
    /\ IsData(f)
    /\ Contains(dedup[n], f.packet_id)
    /\ f.final_destination = n \/ f.ttl > 0
    /\ UNCHANGED vars

\* Mutant of DeliverLucky: the duplicate check is left out.
DeliverAgain(n, f) ==
    /\ IsData(f)
    /\ f.final_destination = n
    /\ InsertCounting(n, f.packet_id, {"delivered"})
    /\ UNCHANGED <<pending, wheel, tx, now>>

DeliverLucky(n, f) ==
    /\ IsData(f)
    /\ f.final_destination = n
    /\ ~ Contains(dedup[n], f.packet_id)
    /\ InsertCounting(n, f.packet_id, {"delivered"})
    /\ UNCHANGED <<pending, wheel, tx, now>>

DropTtl(n, f) ==
    /\ IsData(f)
    /\ f.final_destination # n
    /\ f.ttl = 0
    /\ UNCHANGED vars

\* Mutant of FreshTransit: the duplicate check is left out.
AnyTransit(n, f) ==
    /\ IsData(f)
    /\ f.final_destination # n
    /\ f.ttl > 0

\* A data packet for somebody else that this node has not seen: from here
\* on it has, whatever becomes of it.
FreshTransit(n, f) ==
    /\ IsData(f)
    /\ f.final_destination # n
    /\ f.ttl > 0
    /\ ~ Contains(dedup[n], f.packet_id)

\* Mutant of Overhear: the timer is cancelled but the entry is not erased.
OverhearKeepingEntry(n, f) ==
    LET p == f.packet_id IN
    /\ FreshTransit(n, f)
    /\ InsertCounting(n, p, {})
    /\ timers' = IF IsPending(n, p)
                 THEN [timers EXCEPT ![n] = Cancelled(@, pending[n][p].timer_id)]
                 ELSE timers
    /\ UNCHANGED <<pending, next_id, ticker, tx, now>>

\* Not a candidate: HandleOverheardForward cancels a timer waiting for p.
Overhear(n, f) ==
    LET p == f.packet_id IN
    /\ FreshTransit(n, f)
    /\ InsertCounting(n, p, IF IsPending(n, p) THEN {"suppressed"} ELSE {})
    /\ timers' = IF IsPending(n, p)
                 THEN [timers EXCEPT ![n] = Cancelled(@, pending[n][p].timer_id)]
                 ELSE timers
    /\ pending' = [pending EXCEPT ![n][p] = NotPending]
    /\ UNCHANGED <<next_id, ticker, tx, now>>

\* 1 for the primary candidate, 2 + i for other_candidates[i].
LocalPriority(n, f) ==
    IF n \in Ids(f.other_candidates)
    THEN 1 + Position(f.other_candidates, n)
    ELSE 1

\* OnCandidateReceivedDataPacket and start_forward_timer: an entry already
\* pending for the same id is overwritten and its timer is left in the wheel.
AcceptAsCandidate(n, f) ==
    LET p     == f.packet_id
        delay == TWait * (LocalPriority(n, f) - 1)
    IN
    /\ FreshTransit(n, f)
    /\ InsertCounting(n, p, {"accepted"} \union
                         IF IsPending(n, p) THEN {"replaced"} ELSE {})
    /\ timers' = [timers EXCEPT ![n] = @ \union {Timer(next_id[n], now + delay, p)}]
    /\ pending' = [pending EXCEPT ![n][p] = [timer_id |-> next_id[n], frame |-> f]]
    /\ next_id' = [next_id EXCEPT ![n] = @ + 1]
    /\ UNCHANGED <<ticker, tx, now>>

ReceiveFrame(n, f, is_candidate) ==
    \/ IgnoreFrame(n, f)
    \/ DropDuplicate(n, f)
    \/ DeliverLucky(n, f)
    \/ DropTtl(n, f)
    \/ ~ is_candidate /\ Overhear(n, f)
    \/ is_candidate /\ AcceptAsCandidate(n, f)

-----------------------------------------------------------------------------
(* The ticker thread.                                                      *)

\* Mutant of PopTimer: a timer is due only after its expiry has passed.
PopTimerLate(n) ==
    /\ popped[n] = NoTimer /\ in_hand[n] = NoFrame
    /\ \E t \in {u \in DueFront(timers[n], now) : u.expires_at < now} :
         /\ timers' = [timers EXCEPT ![n] = @ \ {t}]
         /\ popped' = [popped EXCEPT ![n] = t]
    /\ UNCHANGED <<dedup, pending, next_id, in_hand, tx, now, count>>

\* Mutant of PopTimer: the front is popped whether it is due or not.
PopTimerEarly(n) ==
    /\ popped[n] = NoTimer /\ in_hand[n] = NoFrame
    /\ \E t \in timers[n] :
         /\ timers' = [timers EXCEPT ![n] = @ \ {t}]
         /\ popped' = [popped EXCEPT ![n] = t]
    /\ UNCHANGED <<dedup, pending, next_id, in_hand, tx, now, count>>

PopTimer(n) ==
    /\ popped[n] = NoTimer /\ in_hand[n] = NoFrame
    /\ \E t \in DueFront(timers[n], now) :
         /\ timers' = [timers EXCEPT ![n] = @ \ {t}]
         /\ popped' = [popped EXCEPT ![n] = t]
    /\ UNCHANGED <<dedup, pending, next_id, in_hand, tx, now, count>>

\* The entry was cancelled in the heap, or its callback finds nothing
\* pending for its packet any more.
TimerComesToNothing(n) ==
    /\ popped[n] # NoTimer
    /\ popped[n].cancelled \/ ~ IsPending(n, popped[n].job)
    /\ popped' = [popped EXCEPT ![n] = NoTimer]
    /\ UNCHANGED <<dedup, pending, timers, next_id, in_hand, tx, now, count>>

HandToNic(n, f, target) ==
    [tx EXCEPT ![n] = Append(@, [frame |-> f, link_target |-> target])]

\* Mutant of TakePending: the frame is taken but the entry stays.
TakeWithoutErasing(n) ==
    /\ popped[n] # NoTimer
    /\ ~ popped[n].cancelled
    /\ IsPending(n, popped[n].job)
    /\ popped' = [popped EXCEPT ![n] = NoTimer]
    /\ UNCHANGED <<dedup, pending, timers, next_id, now>>

\* The callback takes whatever frame is pending for its packet id.
TakePending(n) ==
    /\ popped[n] # NoTimer
    /\ ~ popped[n].cancelled
    /\ IsPending(n, popped[n].job)
    /\ pending' = [pending EXCEPT ![n][popped[n].job] = NotPending]
    /\ popped' = [popped EXCEPT ![n] = NoTimer]
    /\ UNCHANGED <<dedup, timers, next_id, now>>

\* The pending frame has a timer of its own, which is still running: the
\* callback is that of an earlier acceptance of the same packet.
IsEarly(n, p) ==
    \E t \in timers[n] \union {popped[n]} :
        t.id = pending[n][p].timer_id /\ t.expires_at > now

\* Mutant of FireForward: a frame with one hop left is forwarded with none.
ForwardLastHop(n) ==
    LET p == popped[n].job
        f == pending[n][p].frame
    IN
    /\ TakePending(n)
    /\ f.ttl > 0
    /\ in_hand' = [in_hand EXCEPT ![n] = [f EXCEPT !.ttl = @ - 1]]
    /\ count' = Counting(n, p, {"forwarded"}, {})
    /\ UNCHANGED tx

\* Mutant of FireForward: the TTL is not paid.
ForwardSameTtl(n) ==
    LET p == popped[n].job
        f == pending[n][p].frame
    IN
    /\ TakePending(n)
    /\ f.ttl > 1
    /\ in_hand' = [in_hand EXCEPT ![n] = f]
    /\ count' = Counting(n, p, {"forwarded"}, {})
    /\ UNCHANGED tx

\* Mutant of FireForward: a frame is given up one hop early.
ForwardWithTwoLeft(n) ==
    LET p == popped[n].job
        f == pending[n][p].frame
    IN
    /\ TakePending(n)
    /\ f.ttl > 1
    /\ in_hand' = IF f.ttl > 2 THEN [in_hand EXCEPT ![n] = [f EXCEPT !.ttl = @ - 1]] ELSE in_hand
    /\ count' = Counting(n, p, {"forwarded"}, {})
    /\ UNCHANGED tx

FireForward(n) ==
    LET p == popped[n].job
        f == pending[n][p].frame
    IN
    /\ TakePending(n)
    /\ f.ttl > 1
    /\ in_hand' = [in_hand EXCEPT ![n] = [f EXCEPT !.ttl = @ - 1]]
    /\ count' = Counting(n, p, IF IsEarly(n, p) THEN {"forwarded", "early"}
                               ELSE {"forwarded"}, {})
    /\ UNCHANGED tx

\* After that the callback transmits, with pending_mutex_ released.
TransmitForward(n) ==
    /\ in_hand[n] # NoFrame
    /\ tx' = HandToNic(n, in_hand[n], Broadcast)
    /\ in_hand' = [in_hand EXCEPT ![n] = NoFrame]
    /\ UNCHANGED <<dedup, pending, timers, next_id, popped, now, count>>

FireExpired(n) ==
    LET p == popped[n].job IN
    /\ TakePending(n)
    /\ pending[n][p].frame.ttl <= 1
    /\ count' = Counting(n, p, {"expired"}, {})
    /\ UNCHANGED <<in_hand, tx>>

-----------------------------------------------------------------------------
(* The sending application, the NIC and time.                              *)

\* What an application may hand over: a well-formed data packet with hops to
\* go, for another node.
MaySend(n, f) == IsData(f) /\ f.ttl > 0 /\ f.final_destination # n

\* send_from_node: the sender remembers its own packet, be its id new to it or
\* not, so that an echo of it is never processed.
SendRemembering(n, f, target) ==
    /\ MaySend(n, f)
    /\ InsertCounting(n, f.packet_id, {})
    /\ tx' = HandToNic(n, f, target)
    /\ UNCHANGED <<pending, wheel, now>>

\* main of the CLI: the sender does not.
SendForgetting(n, f, target) ==
    /\ MaySend(n, f)
    /\ tx' = HandToNic(n, f, target)
    /\ UNCHANGED <<dedup, pending, wheel, now, count>>

\* The NIC takes the frames in the order they were handed to it.
Transmit(n) ==
    /\ tx[n] # << >>
    /\ tx' = [tx EXCEPT ![n] = Tail(@)]
    /\ UNCHANGED <<dedup, pending, wheel, now, count>>

\* Nothing but a timer looks at the clock, so it stands still when no timer
\* waits for a later time.
AdvanceClock ==
    /\ \E n \in Node : \E t \in timers[n] : t.expires_at > now
    /\ now' = now + 1
    /\ UNCHANGED <<dedup, pending, wheel, tx, count>>

Ticker(n) ==
    \/ PopTimer(n) \/ TimerComesToNothing(n)
    \/ FireForward(n) \/ TransmitForward(n) \/ FireExpired(n)

Next ==
    \/ \E n \in Node, f \in Frame, is_candidate \in BOOLEAN :
          now <= SendHorizon /\ ReceiveFrame(n, f, is_candidate)
    \/ \E n \in Node, f \in Frame, target \in Mac \union {Broadcast} :
          /\ now <= SendHorizon
          /\ Len(tx[n]) < MaxTx
          /\ SendRemembering(n, f, target) \/ SendForgetting(n, f, target)
    \/ \E n \in Node : Ticker(n) \/ Transmit(n)
    \/ AdvanceClock

\* Each node's ticker thread and NIC keep running, and time goes on.
Fairness ==
    /\ \A n \in Node : WF_vars(Ticker(n)) /\ WF_vars(Transmit(n))
    /\ WF_vars(AdvanceClock)

Spec == Init /\ [][Next]_vars

FairSpec == Spec /\ Fairness

-----------------------------------------------------------------------------
PendingForward ==
    [timer_id : Nat \ {0}, frame : {f \in Header : f.ttl > 0}]

Outgoing ==
    [frame : {f \in Header : f.ttl > 0}, link_target : Mac \union {Broadcast}]

TimerEntry == [id : Nat \ {0}, expires_at : Nat, cancelled : BOOLEAN, job : PacketId]

TypeOK ==
    /\ dedup \in [Node -> Seq(PacketId)]
    /\ pending \in [Node -> [PacketId -> PendingForward \union {NotPending}]]
    /\ timers \in [Node -> SUBSET TimerEntry]
    /\ next_id \in [Node -> Nat \ {0}]
    /\ popped \in [Node -> TimerEntry \union {NoTimer}]
    /\ in_hand \in [Node -> {f \in Header : f.ttl > 0} \union {NoFrame}]
    /\ tx \in [Node -> Seq(Outgoing)]
    /\ now \in Nat
    /\ count \in [Node -> [PacketId -> [Outcome -> Nat]]]

(* Duplicate suppression, seen from outside: between two evictions of a    *)
(* packet's id from a node's cache, the node delivers, forwards or lets    *)
(* expire that packet once at most, whatever arrives and whenever its      *)
(* timers fire.                                                            *)
HandledAtMostOnce ==
    \A n \in Node, p \in PacketId :
        LET c == count[n][p] IN
        c["delivered"] + c["forwarded"] + c["expired"] <= 1 + c["evicted"]

(* No acceptance is lost and none is answered twice: each time the node    *)
(* took on a packet as a candidate it has since forwarded it, let its TTL  *)
(* run out, been overtaken by an overheard forward or by a newer copy, or  *)
(* has it pending still.                                                   *)
AcceptanceAccounted ==
    \A n \in Node, p \in PacketId :
        LET c == count[n][p] IN
        c["accepted"] = c["forwarded"] + c["expired"] + c["suppressed"]
                        + c["replaced"] + (IF IsPending(n, p) THEN 1 ELSE 0)

(* No frame is stranded in pending_: the timer an entry names is in the    *)
(* wheel, or in the ticker's hands, not cancelled, and is for this packet. *)
PendingHasTimer ==
    \A n \in Node, p \in PacketId :
        IsPending(n, p) =>
            \E t \in timers[n] \union {popped[n]} :
                /\ t.id = pending[n][p].timer_id
                /\ t.job = p
                /\ ~ t.cancelled

(* What the three invariants above rest on.  The cache never repeats an id *)
(* nor outgrows its capacity; an id is in it for each insertion not yet    *)
(* followed by its eviction; nothing is accepted or delivered without an   *)
(* insertion; and no two timers of a node, the popped one included, share  *)
(* an id, so that Cancel hits the timer it means.                          *)
DedupShape ==
    \A n \in Node : Distinct(dedup[n]) /\ Len(dedup[n]) <= Capacity

InsertionsAccounted ==
    \A n \in Node, p \in PacketId :
        count[n][p]["inserted"] =
            count[n][p]["evicted"] + (IF Contains(dedup[n], p) THEN 1 ELSE 0)

OutcomesInserted ==
    \A n \in Node, p \in PacketId :
        count[n][p]["accepted"] + count[n][p]["delivered"] <= count[n][p]["inserted"]

TimerIdsDistinct ==
    \A n \in Node :
        /\ popped[n].id < next_id[n]
        /\ \A t \in timers[n] : t.id < next_id[n] /\ t.id # popped[n].id
        /\ \A t, u \in timers[n] : t.id = u.id => t = u

Bookkeeping ==
    DedupShape /\ InsertionsAccounted /\ OutcomesInserted /\ TimerIdsDistinct

(* A candidate waits twait * (priority - 1) before it forwards             *)
(* (coordinator_timer.cpp:24-26): it forwards ahead of its time only when  *)
(* the timer of an earlier acceptance is left over, and no oftener than    *)
(* its cache has given up the packet's id.                                 *)
EarlyOnlyIfForgotten ==
    \A n \in Node, p \in PacketId : count[n][p]["early"] <= count[n][p]["evicted"]

(* Whatever is pending is resolved: the ticker comes round to it.          *)
PendingIsResolved ==
    \A n \in Node, p \in PacketId : IsPending(n, p) ~> ~ IsPending(n, p)

\* What PacketLifecycle sees of the nodes.
Known   == [n \in Node |-> Ids(dedup[n])]
Waiting == [n \in Node |-> {p \in PacketId : IsPending(n, p)}]
Handled ==
    [n \in Node |-> [p \in PacketId |->
        count[n][p]["delivered"] + count[n][p]["forwarded"] + count[n][p]["expired"]]]

(* What befalls a packet at a node follows from what the node remembers:   *)
(* however copies come in, and whichever timers fire, a packet is handled  *)
(* at first sight, or after a wait that began at first sight, and first    *)
(* sight comes again only when a full cache has given up the id            *)
(* (forwarding.cpp:60-79).                                                 *)
Lifecycle == INSTANCE PacketLifecycle WITH known <- Known, waiting <- Waiting,
                                           handled <- Handled
LivesAsRemembered == Lifecycle!Spec
ImplementsLifecycle == Lifecycle!FairSpec
=============================================================================
