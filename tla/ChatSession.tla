---------------------------- MODULE ChatSession ----------------------------
(***************************************************************************)
(* The Android application on two phones, the group owner and its client,  *)
(* that send each other chat messages: what makes a packet's id, what each *)
(* phone remembers and forgets over restarts of the node and of the        *)
(* process, and what the user gets to see.  A phone keeps its role.        *)
(*                                                                         *)
(* The receive callback is two steps: it looks the id up in the duplicate  *)
(* cache, and afterwards calls process_received_frame, which looks again.  *)
(* A send of the user may come in between.                                 *)
(***************************************************************************)
EXTENDS Naturals, Sequences, FiniteSets, LruOps
LOCAL INSTANCE Functions

CONSTANTS
    Text,           \* what users type
    Ttl,            \* hdr.ttl of send_from_node
    MaxSeq,         \* bound on the sends of one process
    MaxSent,        \* bound on the sends of both phones
    MaxAir,         \* bound: nothing is sent while so many frames are under way
    MaxRuns,        \* bound on the processes of the phones, taken together
    MaxLives,       \* bound on the nodes they start
    MaxForgotten    \* bound: a node that has given up so many ids hears no more

Device == {"GO", "CLI"}

\* A message is what a user meant by one send: told apart, here, from the
\* same text sent at another time.
Message == [from : Device, run : 1..MaxRuns, life : 1..MaxLives, text : Text, seq : 1..MaxSeq]

\* joker_packet_id: the CRC-32 of the text and the counter.  Two different
\* inputs are taken to have different checksums.
JokerPacketId(text, seq) == <<text, seq>>

ASSUME ChatAssumption ==
    /\ Ttl \in Nat \ {0} /\ MaxSeq \in Nat /\ MaxRuns \in Nat \ {0, 1} /\ MaxLives \in Nat
    /\ MaxSent \in Nat /\ MaxAir \in Nat /\ MaxForgotten \in Nat
    /\ PacketId = {JokerPacketId(t, s) : t \in Text, s \in 1..MaxSeq}

VARIABLES
    g_seq_counter,  \* of the phone's process
    run,            \* how many processes the phone has had
    life,           \* how many nodes it has started
    up,             \* g_node: there is a node
    dedup,          \* the node's duplicate cache
    forgotten,      \* ghost: how often it has given up an id for another
    waiting,        \* frames it has accepted as a candidate and will forward
    looked,         \* the frame in its receive callback, and whether it was fresh
    air,            \* frames under way
    sent,           \* ghost: all messages sent
    arrived,        \* ghost: messages for this phone that this node received
    shown           \* how often this node has passed a message to the UI

vars == <<g_seq_counter, run, life, up, dedup, forgotten, waiting, looked, air, sent,
          arrived, shown>>
process == <<g_seq_counter, run>>
node == <<life, up>>
memory == <<dedup, forgotten>>

Nothing == [fresh |-> FALSE]
Never   == [p \in PacketId |-> 0]

Init ==
    /\ g_seq_counter = [d \in Device |-> 1]
    /\ run = [d \in Device |-> 1]
    /\ life = [d \in Device |-> 0]
    /\ up = [d \in Device |-> FALSE]
    /\ dedup = [d \in Device |-> << >>]
    /\ forgotten = [d \in Device |-> Never]
    /\ waiting = [d \in Device |-> {}]
    /\ looked = [d \in Device |-> Nothing]
    /\ air = {}
    /\ sent = {}
    /\ arrived = [d \in Device |-> {}]
    /\ shown = [d \in Device |-> [m \in Message |-> 0]]

-----------------------------------------------------------------------------
Total(f) == f["GO"] + f["CLI"]

\* startJokerProtocol: an empty cache, no timers.
StartNode(d) ==
    /\ ~ up[d] /\ Total(life) < MaxLives
    /\ up' = [up EXCEPT ![d] = TRUE]
    /\ life' = [life EXCEPT ![d] = @ + 1]
    /\ UNCHANGED <<process, memory, waiting, looked, air, sent, arrived, shown>>

\* The node goes, with all that it remembers.
EndNode(d) ==
    /\ up' = [up EXCEPT ![d] = FALSE]
    /\ dedup' = [dedup EXCEPT ![d] = << >>]
    /\ forgotten' = [forgotten EXCEPT ![d] = Never]
    /\ waiting' = [waiting EXCEPT ![d] = {}]
    /\ looked' = [looked EXCEPT ![d] = Nothing]
    /\ arrived' = [arrived EXCEPT ![d] = {}]
    /\ shown' = [shown EXCEPT ![d] = [m \in Message |-> 0]]

\* stopJokerProtocol: waits for the receive callback that is under way.
StopNode(d) ==
    /\ up[d] /\ looked[d] = Nothing
    /\ EndNode(d)
    /\ UNCHANGED <<process, life, air, sent>>

\* The system ends the process, wherever it is; g_seq_counter starts again.
KillProcess(d) ==
    /\ Total(run) < MaxRuns
    /\ run' = [run EXCEPT ![d] = @ + 1]
    /\ g_seq_counter' = [g_seq_counter EXCEPT ![d] = 1]
    /\ EndNode(d)
    /\ UNCHANGED <<life, air, sent>>

-----------------------------------------------------------------------------
\* DedupCache::Insert, and what it costs.
Remember(d, p) ==
    /\ dedup' = [dedup EXCEPT ![d] = Insert(@, p)]
    /\ forgotten' = [forgotten EXCEPT ![d] =
         [q \in PacketId |-> IF q \in Evicted(dedup[d], p) THEN @[q] + 1 ELSE @[q]]]

Peer(d) == IF d = "GO" THEN "CLI" ELSE "GO"

Outgoing(d, text) ==
    [packet_id |-> JokerPacketId(text, g_seq_counter[d]), ttl |-> Ttl,
     final_destination |-> Peer(d),
     message |-> [from |-> d, run |-> run[d], life |-> life[d],
                  text |-> text, seq |-> g_seq_counter[d]]]

MaySend(d) ==
    /\ up[d]
    /\ g_seq_counter[d] <= MaxSeq /\ Cardinality(sent) < MaxSent /\ Cardinality(air) < MaxAir

\* Mutant of SendChat: the sender does not remember its own packet.
SendChatForgetting(d, text) ==
    LET f == Outgoing(d, text) IN
    /\ MaySend(d)
    /\ g_seq_counter' = [g_seq_counter EXCEPT ![d] = @ + 1]
    /\ air' = air \union {f}
    /\ sent' = sent \union {f.message}
    /\ UNCHANGED <<run, node, memory, waiting, looked, arrived, shown>>

\* send_from_node.  Without a node it does nothing, not even count.
SendChat(d, text) ==
    LET f == Outgoing(d, text) IN
    /\ MaySend(d)
    /\ g_seq_counter' = [g_seq_counter EXCEPT ![d] = @ + 1]
    /\ Remember(d, f.packet_id)
    /\ air' = air \union {f}
    /\ sent' = sent \union {f.message}
    /\ UNCHANGED <<run, node, waiting, looked, arrived, shown>>

\* A frame comes in, the other phone's or an echo of one's own; it stays, as
\* the medium may deliver it again, until it gets lost.
Look(d, f) ==
    /\ up[d] /\ looked[d] = Nothing
    /\ f \in air /\ FoldFunction(+, 0, forgotten[d]) < MaxForgotten
    /\ looked' = [looked EXCEPT ![d] =
                     [frame |-> f, fresh |-> ~ Contains(dedup[d], f.packet_id)]]
    /\ UNCHANGED <<process, node, memory, waiting, air, sent, arrived, shown>>

Lose(f) ==
    /\ f \in air
    /\ air' = air \ {f}
    /\ UNCHANGED <<process, node, memory, waiting, looked, sent, arrived, shown>>

\* process_received_frame on what is now in the cache: a phone receives what
\* is for it, and takes on the rest as a candidate.
Processed(d, f) ==
    IF Contains(dedup[d], f.packet_id)
    THEN UNCHANGED <<memory, waiting>>
    ELSE /\ Remember(d, f.packet_id)
         /\ waiting' = IF f.final_destination = d THEN waiting
                       ELSE [waiting EXCEPT ![d] = @ \union {f}]

\* Mutant of ToUi: it goes by what the cache says when the frame has been
\* processed, not before.
ToUiAfterwards(d, l) ==
    l.frame.final_destination = d /\ ~ Contains(dedup'[d], l.frame.packet_id)

\* Mutant of ToUi: every frame for this phone goes to the UI.
ToUiAlways(d, l) == l.frame.final_destination = d

\* The frame was fresh when the callback looked, and is for this phone.
ToUi(d, l) == l.frame.final_destination = d /\ l.fresh

Process(d) ==
    LET l == looked[d] IN
    /\ l # Nothing
    /\ Processed(d, l.frame)
    /\ shown' = IF ToUi(d, l) THEN [shown EXCEPT ![d][l.frame.message] = @ + 1] ELSE shown
    /\ arrived' = IF l.frame.final_destination = d
                  THEN [arrived EXCEPT ![d] = @ \union {l.frame.message}]
                  ELSE arrived
    /\ looked' = [looked EXCEPT ![d] = Nothing]
    /\ UNCHANGED <<process, node, air, sent>>

\* The timer of an accepted frame, whose delay is 0: there are no other
\* candidates in the header.
ForwardTimer(d, f) ==
    /\ up[d] /\ f \in waiting[d]
    /\ waiting' = [waiting EXCEPT ![d] = @ \ {f}]
    /\ air' = IF f.ttl > 1 THEN air \union {[f EXCEPT !.ttl = @ - 1]} ELSE air
    /\ UNCHANGED <<process, node, memory, looked, sent, arrived, shown>>

Next ==
    \/ \E d \in Device :
         \/ StartNode(d) \/ StopNode(d) \/ KillProcess(d)
         \/ \E text \in Text : SendChat(d, text)
         \/ \E f \in air : Look(d, f)
         \/ Process(d)
         \/ \E f \in waiting[d] : ForwardTimer(d, f)
    \/ \E f \in air : Lose(f)

Spec == Init /\ [][Next]_vars

-----------------------------------------------------------------------------
IdOf(m) == JokerPacketId(m.text, m.seq)

(* A user sees a message once, and once more at most each time the node    *)
(* has forgotten its id: however often copies of it come in, and whatever  *)
(* the user sends between the callback's look into the duplicate cache and *)
(* process_received_frame (joker_jni.cpp:131-153).                         *)
ShownOnce ==
    \A d \in Device, m \in Message : shown[d][m] <= 1 + forgotten[d][IdOf(m)]

(* What arrives is shown, if its id is its own: no frame is taken for a    *)
(* duplicate but for one whose id was used twice, even if the id has gone  *)
(* from the cache between the two looks.                                   *)
ShownUnlessIdShared ==
    \A d \in Device : \A m \in arrived[d] :
        (\A other \in sent : IdOf(other) = IdOf(m) => other = m) => shown[d][m] > 0

(* "so if echoed or relayed, we never re-process it" (joker_jni.cpp:249):  *)
(* a node forwards what it has sent itself only if it has forgotten that.  *)
(* Across a restart it may, as its cache is then empty.                    *)
OwnNotForwarded ==
    \A d \in Device : \A f \in waiting[d] :
        f.message.from = d =>
            f.message.life < life[d] \/ forgotten[d][f.packet_id] > 0

(* "Compute CRC32 packet ID over payload + monotonic counter to guarantee  *)
(* uniqueness" (joker_jni.cpp:234): what arrives is shown.                 *)
ArrivedIsShown ==
    \A d \in Device : \A m \in arrived[d] : shown[d][m] > 0
=============================================================================
