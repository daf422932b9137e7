------------------------------ MODULE UdpPeer ------------------------------
(***************************************************************************)
(* Whom a UdpNicAdapter sends to, and whom it hears.  A frame, unicast or  *)
(* broadcast, goes to the peer if there is one and to the whole subnet     *)
(* otherwise; the peer is set by the application or is whoever is heard    *)
(* first.  The subnet delivers a broadcast to its sender's socket as well. *)
(* A node is bound to its own address, by which it knows its own frames,   *)
(* or to 0.0.0.0: the command line always, a phone in developer mode or    *)
(* when it has not found its address.  Datagrams are lost, repeated and    *)
(* delayed: one on the air can be received at any time, or never.          *)
(*                                                                         *)
(* SetPeerIpForMac has no caller, so peer_ips_ is empty and a unicast is   *)
(* sent like a broadcast.                                                  *)
(***************************************************************************)
CONSTANTS
    Nodes,          \* a node stands for its address and its virtual MAC
    Bindings        \* to what nodes bind: "own", "any"

VARIABLES
    bind,           \* node -> what it is bound to; "none" if it is stopped
    peer,           \* node -> peer_ip_
    datagrams,      \* those sent
    heard           \* ghost: node -> the senders of what it handed up

peerVars == <<bind, peer, datagrams, heard>>

None   == "none"
Subnet == "subnet"      \* broadcast_ip_

PeerInit ==
    /\ bind = [n \in Nodes |-> None]
    /\ peer = [n \in Nodes |-> None]
    /\ datagrams = {}
    /\ heard = [n \in Nodes |-> {}]

StartNode(n) ==
    /\ bind[n] = None
    /\ \E b \in Bindings : bind' = [bind EXCEPT ![n] = b]
    /\ UNCHANGED <<peer, datagrams, heard>>

\* The adapter goes with the node, and its peer with the adapter.
StopNode(n) ==
    /\ bind[n] # None
    /\ bind' = [bind EXCEPT ![n] = None]
    /\ peer' = [peer EXCEPT ![n] = None]
    /\ UNCHANGED <<datagrams, heard>>

\* A client of a group is told its owner's address.
SetPeerIp(n, owner) ==
    /\ bind[n] # None /\ owner # n
    /\ peer' = [peer EXCEPT ![n] = owner]
    /\ UNCHANGED <<bind, datagrams, heard>>

Target(n) == IF peer[n] = None THEN Subnet ELSE peer[n]

SendUdpPacket(n) ==
    /\ bind[n] # None
    /\ datagrams' = datagrams \union {[from |-> n, to |-> Target(n)]}
    /\ UNCHANGED <<bind, peer, heard>>

IsOwn(n, datagram) == bind[n] = "own" /\ datagram.from = n

HandUp(n, datagram) ==
    /\ ~ IsOwn(n, datagram)
    /\ heard' = [heard EXCEPT ![n] = @ \union {datagram.from}]

Capture(n, datagram) ==
    peer' = IF peer[n] = None /\ ~ IsOwn(n, datagram)
            THEN [peer EXCEPT ![n] = datagram.from] ELSE peer

ReceiveDatagram(n, datagram) ==
    /\ bind[n] # None
    /\ datagram \in datagrams /\ datagram.to \in {n, Subnet}
    /\ HandUp(n, datagram)
    /\ Capture(n, datagram)
    /\ UNCHANGED <<bind, datagrams>>

PeerNext ==
    \E n \in Nodes :
        \/ StartNode(n) \/ StopNode(n) \/ SendUdpPacket(n)
        \/ \E owner \in Nodes : SetPeerIp(n, owner)
        \/ \E datagram \in datagrams : ReceiveDatagram(n, datagram)

PeerSpec == PeerInit /\ [][PeerNext]_peerVars

-----------------------------------------------------------------------------
(* "Drop packets originated by ourselves (loopback from broadcast)"        *)
(* (udp_nic_adapter.cpp:199): through broadcasts that come back, restarts  *)
(* and captures, no node takes itself for another, neither handing up its  *)
(* own frames nor becoming its own peer, to which all it sends would go.   *)
HearsOthersOnly == \A n \in Nodes : n \notin heard[n] /\ peer[n] # n
=============================================================================
