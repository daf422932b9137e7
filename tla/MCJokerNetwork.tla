--------------------------- MODULE MCJokerNetwork ---------------------------
(***************************************************************************)
(* Four nodes: the triangle A, B, C of the repository's TimerFlow test,    *)
(* with the destination D behind B and C; and a chain of the four, whose   *)
(* links lose nothing.                                                     *)
(***************************************************************************)
EXTENDS JokerNetwork

CONSTANTS macA, macB, macC, macD, Ttl

MCNode == {macA, macB, macC, macD}

Both(L) == L \union {<<l[2], l[1]>> : l \in L}

Triangle == Both({<<macA, macB>>, <<macA, macC>>, <<macB, macC>>, <<macB, macD>>, <<macC, macD>>})
Chain == Both({<<macA, macB>>, <<macB, macC>>, <<macC, macD>>})

LossyTriangle == {[links |-> Triangle, reliable |-> FALSE]}
TriangleOrChain == LossyTriangle \union {[links |-> Chain, reliable |-> TRUE]}

Data(p, others) ==
    [type |-> "unicast", ttl |-> Ttl, packet_id |-> p,
     final_destination |-> macD, other_candidates |-> others]

Packet(p, others, target, remember) ==
    [from |-> macA, frame |-> Data(p, others), target |-> target, remember |-> remember]

\* To the primary candidate B with C as its backup, as the tests send.
ToCandidates == {Packet(p, <<macC>>, macB, r) : p \in PacketId, r \in BOOLEAN}

\* To whoever hears it, as the applications send.
ToAll == {Packet(p, << >>, Broadcast, r) : p \in PacketId, r \in BOOLEAN}

\* To whoever hears it, with a candidate list in the header.
ToAllRanked == {Packet(p, <<macC>>, Broadcast, TRUE) : p \in PacketId}

ToEveryone == ToCandidates \union ToAll \union ToAllRanked

MCFrame == {Data(p, others) : p \in PacketId, others \in {<< >>, <<macC>>}}
=============================================================================
