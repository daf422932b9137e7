-------------------------- MODULE AckCoordination --------------------------
(***************************************************************************)
(* AckCoordinator: a node that has transmitted a packet waits for the      *)
(* first of its candidates to acknowledge it, until a deadline.  An ack    *)
(* says which packet it is about and who sent it, not whom it is for nor   *)
(* which transmission it answers: it goes to the zero address, and every   *)
(* node whose adapter hears it hands it to HandleAck.  Acks may be lost,   *)
(* come late and come twice: one on the air can be received at any time.   *)
(*                                                                         *)
(* The election stays inside the sender: HandleAck builds the Forwarding   *)
(* message but does not send it, and HandleForwardingMessage is empty.     *)
(* Only tests call AddPending and ProcessTimeouts; here a sender calls     *)
(* them as IMPLEMENTATION.md:1055 has it, and may transmit again.  The     *)
(* class does not tell it whether to: an election erases the entry just as *)
(* a timeout does, and returns nothing.                                    *)
(***************************************************************************)
EXTENDS Naturals, Sequences

CONSTANTS
    Senders, Candidates, Packets,
    RetryLimit      \* bound on the transmissions of a packet by a sender

VARIABLES
    pending,        \* sender -> the packets in its pending_
    late,           \* sender -> those of them whose deadline has passed
    tries,          \* sender -> packet -> transmissions
    frames,         \* DATA frames and acks on the air
    seen,           \* candidate -> packets in its duplicate cache
    elected         \* ghost: sender -> packet -> the nodes ever put into
                    \* first_ack_sender, one after the other

ackVars == <<pending, late, tries, frames, seen, elected>>

Data(p)   == [type |-> "data", packet_id |-> p]
Ack(p, c) == [type |-> "ack", packet_id |-> p, final_destination |-> c]

AckInit ==
    /\ pending = [s \in Senders |-> {}]
    /\ late = [s \in Senders |-> {}]
    /\ tries = [s \in Senders |-> [p \in Packets |-> 0]]
    /\ frames = {}
    /\ seen = [c \in Candidates |-> {}]
    /\ elected = [s \in Senders |-> [p \in Packets |-> <<>>]]

\* The sender transmits a packet, for the first time or again; the entry it
\* writes replaces one that is there, with nobody elected and a new deadline.
AddPending(s, p) ==
    /\ tries[s][p] < RetryLimit
    /\ tries' = [tries EXCEPT ![s][p] = @ + 1]
    /\ pending' = [pending EXCEPT ![s] = @ \union {p}]
    /\ late' = [late EXCEPT ![s] = @ \ {p}]
    /\ frames' = frames \union {Data(p)}
    /\ UNCHANGED <<seen, elected>>

DeadlinePasses(s, p) ==
    /\ p \in pending[s] \ late[s]
    /\ late' = [late EXCEPT ![s] = @ \union {p}]
    /\ UNCHANGED <<pending, tries, frames, seen, elected>>

ProcessTimeouts(s) ==
    /\ pending' = [pending EXCEPT ![s] = @ \ late[s]]
    /\ late' = [late EXCEPT ![s] = {}]
    /\ UNCHANGED <<tries, frames, seen, elected>>

\* process_received_frame at a candidate: a packet it has not seen is given
\* to the coordinator, whoever sent it and whichever transmission it is of.
OnCandidateReceivedDataPacket(c, p) ==
    /\ Data(p) \in frames
    /\ p \notin seen[c]
    /\ seen' = [seen EXCEPT ![c] = @ \union {p}]
    /\ frames' = frames \union {Ack(p, c)}
    /\ UNCHANGED <<pending, late, tries, elected>>

\* Mutant of Elect: the entry stays, and takes every ack for the first.
ElectAgain(s, p, c) ==
    /\ elected' = [elected EXCEPT ![s][p] = Append(@, c)]
    /\ UNCHANGED <<pending, late>>

\* first_ack_sender is set and the entry erased.
Elect(s, p, c) ==
    /\ elected' = [elected EXCEPT ![s][p] = Append(@, c)]
    /\ pending' = [pending EXCEPT ![s] = @ \ {p}]
    /\ late' = [late EXCEPT ![s] = @ \ {p}]

\* An ack of a packet that is not pending changes nothing; one that comes
\* after the deadline and before the sweep still counts.
HandleAck(s, ack) ==
    /\ ack \in frames /\ ack.type = "ack"
    /\ ack.packet_id \in pending[s]
    /\ Elect(s, ack.packet_id, ack.final_destination)
    /\ UNCHANGED <<tries, frames, seen>>

AckNext ==
    \/ \E s \in Senders :
         \/ ProcessTimeouts(s)
         \/ \E p \in Packets : AddPending(s, p) \/ DeadlinePasses(s, p)
         \/ \E message \in frames : HandleAck(s, message)
    \/ \E c \in Candidates, p \in Packets : OnCandidateReceivedDataPacket(c, p)

AckSpec == AckInit /\ [][AckNext]_ackVars

-----------------------------------------------------------------------------
(* A transmission elects one candidate at most, and the one it elects has  *)
(* the packet: whichever acks come late or twice or were meant for another *)
(* sender, a sender has never elected more often than it has transmitted   *)
(* (the entry an ack has resolved must be gone before the next ack comes,  *)
(* coordinator_ack.cpp:35-51).                                             *)
OneElectionPerTransmission ==
    \A s \in Senders, p \in Packets :
        /\ Len(elected[s][p]) <= tries[s][p]
        /\ \A i \in DOMAIN elected[s][p] : p \in seen[elected[s][p][i]]

(* A packet gets one forwarder: "ACK-based coordination produces exactly   *)
(* one forwarder, selected by first-ACK-received" (ARCHITECTURE.md:799).   *)
OneForwarder ==
    \A s \in Senders, p \in Packets :
        \A i, j \in DOMAIN elected[s][p] : elected[s][p][i] = elected[s][p][j]
=============================================================================
