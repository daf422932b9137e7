---------------------------- MODULE MCForwarding ----------------------------
(***************************************************************************)
(* One node, n1, in the open.  Of packet p1 there is a frame n1 is the     *)
(* secondary candidate of, one that is about to die, a dead one, one for   *)
(* the node itself, two invalid ones and an ack; of p2, whose id takes the *)
(* place of p1's in a cache of one, the first and one for the node; and    *)
(* there is a malformed frame.                                             *)
(***************************************************************************)
EXTENDS Forwarding

CONSTANTS n1, n2, p1, p2

MCNode == {n1}
MCMac == {n1, n2}
MCPacketId == {p1, p2}

Data(p, ttl, dest, others) ==
    [type |-> "unicast", ttl |-> ttl, packet_id |-> p,
     final_destination |-> dest, other_candidates |-> others]

MCFrame ==
    {Malformed}
    \union UNION {{Data(p, 2, n2, <<n1>>), Data(p, 0, n1, << >>)} : p \in PacketId}
    \union {Data(p1, 1, n2, <<n2>>), Data(p1, 0, n2, << >>),
            Data(p1, 2, n2, <<n2, n1>>), Data(p1, 2, Broadcast, << >>),
            [Data(p1, 1, n2, << >>) EXCEPT !.type = "ack"]}
=============================================================================
