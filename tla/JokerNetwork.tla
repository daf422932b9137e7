---------------------------- MODULE JokerNetwork ----------------------------
(***************************************************************************)
(* JOKER nodes on a shared medium.  Each node runs Forwarding; what one    *)
(* hands to its NIC goes out to every node in range, and each copy is lost *)
(* or arrives on its own: late, out of order, or again.  The sender of a   *)
(* packet is an application, which may name a link-layer target (the       *)
(* primary candidate) and list the others in the header.                   *)
(***************************************************************************)
EXTENDS Forwarding

CONSTANTS
    Media,              \* the media to check, as [links, reliable]: who hears
                        \* whom, and whether every copy arrives
    Sendable            \* what applications send: [from, frame, target, remember]

ASSUME NetworkAssumption ==
    /\ \A m \in Media : m.links \subseteq Node \X Node /\ m.reliable \in BOOLEAN
    /\ \A s \in Sendable : /\ s.from \in Node
                           /\ s.frame \in Frame
                           /\ s.target \in Mac \union {Broadcast}

VARIABLES
    medium,     \* the medium the nodes are on
    air,        \* per link, the copies under way
    sent        \* packet id -> what was sent under it, or NotSent

netvars == <<dedup, pending, timers, next_id, popped, in_hand, tx, now, count,
             medium, air, sent>>

NotSent == [from |-> Broadcast]

NetInit ==
    /\ Init
    /\ medium \in Media
    /\ air = [l \in Node \X Node |-> {}]
    /\ sent = [p \in PacketId |-> NotSent]

\* An application sends under a new packet id.  The JNI application and one
\* of the integration tests remember the packet; the CLI and the other tests
\* do not.
Originate(s) ==
    /\ sent[s.frame.packet_id] = NotSent
    /\ sent' = [sent EXCEPT ![s.frame.packet_id] = s]
    /\ UNCHANGED <<medium, air>>
    /\ IF s.remember
       THEN SendRemembering(s.from, s.frame, s.target)
       ELSE SendForgetting(s.from, s.frame, s.target)

\* The frame reaches the medium of every node in range of the sender.
Radio(n) ==
    /\ Transmit(n)
    /\ air' = [l \in Node \X Node |->
                  IF l \in medium.links /\ l[1] = n THEN air[l] \union {Head(tx[n])} ELSE air[l]]
    /\ UNCHANGED <<medium, sent>>

\* MockNetwork::DispatchFrame and the AF_PACKET adapter: a candidate is whom
\* the link-layer header names, or everyone when that is broadcast.
IsCandidate(m, msg) == msg.link_target \in {m, Broadcast}

Deliver(l, msg) ==
    /\ msg \in air[l]
    /\ ReceiveFrame(l[2], msg.frame, IsCandidate(l[2], msg))
    /\ \/ air' = [air EXCEPT ![l] = @ \ {msg}]
       \/ UNCHANGED air                             \* duplicated on the way
    /\ UNCHANGED <<medium, sent>>

Lose(l, msg) ==
    /\ ~ medium.reliable
    /\ msg \in air[l]
    /\ air' = [air EXCEPT ![l] = @ \ {msg}]
    /\ UNCHANGED <<vars, medium, sent>>

NodeStep(n) == Ticker(n) /\ UNCHANGED <<medium, air, sent>>

TimePasses == AdvanceClock /\ UNCHANGED <<medium, air, sent>>

Arrive(l) == \E msg \in air[l] : Deliver(l, msg)

NetNext ==
    \/ \E s \in Sendable : Originate(s)
    \/ \E n \in Node : Radio(n) \/ NodeStep(n)
    \/ \E l \in medium.links : Arrive(l) \/ \E msg \in air[l] : Lose(l, msg)
    \/ TimePasses

\* A reliable medium empties each link in the end.
Empties(l) == medium.reliable /\ Arrive(l) /\ air' # air

\* Tickers and NICs keep running and time goes on.  Of a medium that is not
\* reliable nothing is assumed: a copy may be lost, or stay under way for ever.
NetFairness ==
    /\ \A n \in Node : WF_netvars(NodeStep(n)) /\ WF_netvars(Radio(n))
    /\ WF_netvars(TimePasses)
    /\ \A l \in UNION {m.links : m \in Media} : WF_netvars(Empties(l))

NetSpec == NetInit /\ [][NetNext]_netvars
FairNetSpec == NetSpec /\ NetFairness
-----------------------------------------------------------------------------
Neighbours(n) == {m \in Node : <<n, m>> \in medium.links}

\* The nodes a packet of node n can have got to in k hops: a route leads
\* there, along a link or staying where it is at every hop.
Within(n, k) ==
    {m \in Node : \E route \in [0..k -> Node] :
        /\ route[0] = n /\ route[k] = m
        /\ \A i \in 1..k : route[i] \in Neighbours(route[i - 1]) \union {route[i - 1]}}

(* The TTL pays for every hop: whatever is lost, duplicated or reordered,  *)
(* a copy on the air is a packet that was sent, changed in nothing but its *)
(* TTL, and its sender is no farther from the origin than the TTL already  *)
(* spent.  So no packet gets farther than its TTL allows, no copy is on    *)
(* the air with TTL 0 (ARCHITECTURE.md:771).                               *)
TtlPaysForHops ==
    \A l \in medium.links : \A msg \in air[l] :
        LET f == msg.frame
            s == sent[f.packet_id]
        IN /\ s # NotSent
           /\ f = [s.frame EXCEPT !.ttl = f.ttl]
           /\ f.ttl \in 1..s.frame.ttl
           /\ l[1] \in Within(s.from, s.frame.ttl - f.ttl)

(* On a medium that delivers, a broadcast packet reaches a destination its *)
(* TTL spans, and its last hop may use the last of the TTL.                *)
ReachesDestination ==
    \A p \in PacketId :
        (/\ medium.reliable
         /\ sent[p] # NotSent
         /\ sent[p].target = Broadcast
         /\ sent[p].frame.final_destination
               \in Within(sent[p].from, sent[p].frame.ttl))
        ~> (\E n \in Node : count[n][p]["delivered"] > 0)

(* "If forwarding of this packet_id heard from another candidate: suppress *)
(* own forwarding" (ARCHITECTURE.md:561-562): a copy that some relay has   *)
(* sent on, arriving at a node that still waits, ends the wait.            *)
OverheardForwardSuppresses ==
    [][\A l \in medium.links : \A msg \in air[l] :
          LET p == msg.frame.packet_id IN
          /\ Deliver(l, msg)
          /\ l[1] # sent[p].from
          /\ IsPending(l[2], p)
          => ~ IsPending(l[2], p)']_netvars

(* "Any candidate that successfully receives a packet may forward it"      *)
(* (ARCHITECTURE.md:30): a candidate the header lists, having received the *)
(* sender's frame, forwards it in the end if the primary has not.          *)
BackupForwards ==
    \A p \in PacketId : \A m \in Node :
        (/\ sent[p] # NotSent
         /\ m \in Ids(sent[p].frame.other_candidates)
         /\ count[m][p]["inserted"] > 0)
        ~> (\E n \in Node : count[n][p]["forwarded"] + count[n][p]["delivered"] > 0)
=============================================================================
