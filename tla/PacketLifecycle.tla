--------------------------- MODULE PacketLifecycle ---------------------------
(***************************************************************************)
(* What a node promises about packets.  It knows the ids of at most        *)
(* Capacity of them.  A packet whose id it does not know it takes note of, *)
(* and handles it, keeps it waiting, or is done with it; a wait ends with  *)
(* the packet handled, or overtaken by another copy.  There are no timers, *)
(* no frames and no order of ids here.  Forwarding implements this.        *)
(***************************************************************************)
EXTENDS Naturals, FiniteSets

CONSTANTS Node, PacketId, Capacity

VARIABLES
    known,      \* the ids the node remembers
    waiting,    \* packets it has taken on and not handled
    handled     \* how often it has delivered, forwarded or given up a packet

state == <<known, waiting, handled>>

Init ==
    /\ known = [n \in Node |-> {}]
    /\ waiting = [n \in Node |-> {}]
    /\ handled = [n \in Node |-> [p \in PacketId |-> 0]]

\* First sight of p.  A full memory gives up one id for it, which is p when it
\* holds nothing.
Note(n, p) ==
    /\ p \notin known[n]
    /\ \/ /\ Cardinality(known[n]) < Capacity
          /\ known' = [known EXCEPT ![n] = @ \union {p}]
       \/ /\ Cardinality(known[n]) >= Capacity
          /\ \E q \in IF Capacity = 0 THEN {p} ELSE known[n] :
               known' = [known EXCEPT ![n] = (@ \union {p}) \ {q}]

Handle(n, p) == handled' = [handled EXCEPT ![n][p] = @ + 1]

\* The packet is for the node.
Deliver(n, p) == Note(n, p) /\ Handle(n, p) /\ UNCHANGED waiting

\* It will send the packet on, later.
TakeOn(n, p) ==
    /\ Note(n, p)
    /\ waiting' = [waiting EXCEPT ![n] = @ \union {p}]
    /\ UNCHANGED handled

\* It is its own packet, or it need not send it on: another does.
Pass(n, p) ==
    /\ Note(n, p)
    /\ \/ waiting' = [waiting EXCEPT ![n] = @ \ {p}]
       \/ UNCHANGED waiting
    /\ UNCHANGED handled

\* The wait is over: the packet goes on, or its TTL does not let it.
Resolve(n, p) ==
    /\ p \in waiting[n]
    /\ waiting' = [waiting EXCEPT ![n] = @ \ {p}]
    /\ Handle(n, p)
    /\ UNCHANGED known

Next ==
    \E n \in Node, p \in PacketId :
        Deliver(n, p) \/ TakeOn(n, p) \/ Pass(n, p) \/ Resolve(n, p)

Spec == Init /\ [][Next]_state

\* No wait lasts for ever.
FairSpec == Spec /\ \A n \in Node, p \in PacketId : WF_state(Resolve(n, p))
=============================================================================
