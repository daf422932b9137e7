--------------------------- MODULE ActivityProofs ---------------------------
(***************************************************************************)
(* What the user of the Android activity sees: the chat over two phones,   *)
(* and the files received in it.                                           *)
(***************************************************************************)
EXTENDS ChatSession, LruOpsProofs, FileTransfer

-----------------------------------------------------------------------------
(***************************************************************************)
(* What a user sees of a chat and what a phone relays of it, for any       *)
(* texts, capacity, bounds and interleaving.  Both go by the duplicate     *)
(* cache, so each account has to say what an id that the cache has given   *)
(* up may cause: one more showing, one more acceptance.                    *)
(***************************************************************************)

\* Frames as the two phones make them.
Made ==
    {f \in [packet_id : PacketId, ttl : Nat, final_destination : Device, message : Message] :
        /\ f.packet_id = IdOf(f.message)
        /\ f.final_destination = Peer(f.message.from)}

LookedAt == [frame : Made, fresh : BOOLEAN]

(* What the variables range over; a cache holds no id twice.               *)
ChatTypes ==
    /\ g_seq_counter \in [Device -> Nat \ {0}]
    /\ run \in [Device -> Nat \ {0}] /\ Total(run) <= MaxRuns
    /\ life \in [Device -> Nat] /\ Total(life) <= MaxLives
    /\ up \in [Device -> BOOLEAN]
    /\ \A d \in Device : up[d] => life[d] # 0
    /\ dedup \in [Device -> Seq(PacketId)]
    /\ \A d \in Device : Distinct(dedup[d]) /\ Len(dedup[d]) <= Capacity
    /\ forgotten \in [Device -> [PacketId -> Nat]]
    /\ waiting \in [Device -> SUBSET Made]
    /\ looked \in [Device -> LookedAt \union {Nothing}]
    /\ air \subseteq Made
    /\ sent \subseteq Message
    /\ arrived \in [Device -> SUBSET Message]
    /\ shown \in [Device -> [Message -> Nat]]

(* A phone without a node has nothing to process or to forward.            *)
DownIsIdle == \A d \in Device : ~ up[d] => waiting[d] = {} /\ looked[d] = Nothing

(* A frame carries a message that was sent, and while the sender's node    *)
(* lives the sender remembers the id, or has given it up.                  *)
Genuine(f) ==
    LET m == f.message IN
    /\ m \in sent
    /\ m.life <= life[m.from]
    /\ up[m.from] /\ m.life = life[m.from] =>
         f.packet_id \in Ids(dedup[m.from]) \/ forgotten[m.from][f.packet_id] > 0

FramesGenuine ==
    /\ \A f \in air : Genuine(f)
    /\ \A d \in Device : \A f \in waiting[d] : Genuine(f)
    /\ \A d \in Device : looked[d] # Nothing => Genuine(looked[d].frame)

(* The id is the phone's own, or that of a message its user has seen.      *)
Accounted(d, p) == \E m \in sent : IdOf(m) = p /\ (m.from = d \/ shown[d][m] > 0)

(* A message whose id is not in the cache, or was not when the callback    *)
(* looked, has been shown only as often as the id has been given up; and   *)
(* one that the callback found there is accounted for.                     *)
LookHolds ==
    \A d \in Device :
        /\ \A m \in Message :
             IdOf(m) \notin Ids(dedup[d]) => shown[d][m] <= forgotten[d][IdOf(m)]
        /\ looked[d] # Nothing =>
             LET f == looked[d].frame IN
             /\ looked[d].fresh => shown[d][f.message] <= forgotten[d][f.packet_id]
             /\ ~ looked[d].fresh => Accounted(d, f.packet_id)

(* Every id in the cache is there for a message: one's own, or one shown.  *)
RememberedFor ==
    \A d \in Device : \A p \in Ids(dedup[d]) : Accounted(d, p)

ChatInv ==
    /\ ChatTypes /\ DownIsIdle /\ FramesGenuine /\ LookHolds /\ RememberedFor
    /\ (\A d \in Device : arrived[d] \subseteq sent)
    /\ ShownOnce /\ ShownUnlessIdShared /\ OwnNotForwarded

(* An empty sequence holds nothing.                                        *)
LEMMA NothingInEmpty ==
    Ids(<< >>) = {} /\ Distinct(<< >>) /\ << >> \in Seq(PacketId) /\ Len(<< >>) <= Capacity
BY EmptySeq, CapacityAssumption DEF Ids, Distinct

(* What a frame carries.                                                   *)
LEMMA MadeFacts ==
    /\ \A f \in Made : /\ f.packet_id \in PacketId /\ f.packet_id = IdOf(f.message)
                      /\ f.message \in Message /\ f.message.from \in Device
                      /\ f.message.life \in Nat
    /\ \A l \in LookedAt : l.frame \in Made
BY ChatAssumption DEF Made, Message, LookedAt

(* An id of a message is one of the ids in use.                            *)
LEMMA IdsOfMessages == \A m \in Message : IdOf(m) \in PacketId
BY ChatAssumption DEF Message, IdOf

(* The looked-at frame of a phone is well made.                            *)
LEMMA LookedIsMade ==
    ASSUME ChatTypes, NEW d \in Device, looked[d] # Nothing
    PROVE  looked[d] \in LookedAt /\ looked[d].frame \in Made
BY MadeFacts DEF ChatTypes

(* Remembering an id: it is in the cache afterwards or counted as given    *)
(* up, and so is every id that was there.                                  *)
LEMMA RememberFacts ==
    ASSUME ChatTypes, NEW d \in Device, NEW p \in PacketId, Remember(d, p)
    PROVE  /\ dedup' \in [Device -> Seq(PacketId)]
           /\ \A e \in Device : Distinct(dedup'[e]) /\ Len(dedup'[e]) <= Capacity
           /\ forgotten' \in [Device -> [PacketId -> Nat]]
           /\ \A e \in Device \ {d} : dedup'[e] = dedup[e] /\ forgotten'[e] = forgotten[e]
           /\ Ids(dedup'[d]) \subseteq Ids(dedup[d]) \union {p}
           /\ \A e \in Device, q \in PacketId : forgotten[e][q] <= forgotten'[e][q]
           /\ \A q \in PacketId : q \in Ids(dedup[d]) \union {p} =>
                q \in Ids(dedup'[d]) \/ forgotten'[d][q] = forgotten[d][q] + 1
<1> DEFINE s == dedup[d]
           gone == Evicted(s, p)
           lost == [q \in PacketId |-> IF q \in gone THEN forgotten[d][q] + 1 ELSE forgotten[d][q]]
<1>1. s \in Seq(PacketId) /\ Distinct(s) /\ Len(s) <= Capacity
  BY DEF ChatTypes
<1>2. /\ Insert(s, p) \in Seq(PacketId) /\ Distinct(Insert(s, p))
      /\ Len(Insert(s, p)) <= Capacity
      /\ Ids(Insert(s, p)) = (Ids(s) \union {p}) \ gone
  <2> HIDE DEF s
  <2> QED BY <1>1, InsertRemembers
<1>3. /\ dedup' = [dedup EXCEPT ![d] = Insert(s, p)]
      /\ forgotten' = [forgotten EXCEPT ![d] = lost]
  BY DEF Remember
<1>4. forgotten[d] \in [PacketId -> Nat]
  BY DEF ChatTypes
<1>5. lost \in [PacketId -> Nat]
      /\ \A q \in PacketId : lost[q] = IF q \in gone THEN forgotten[d][q] + 1 ELSE forgotten[d][q]
  BY <1>4
<1>6. dedup'[d] = Insert(s, p) /\ forgotten'[d] = lost
  BY <1>3 DEF ChatTypes
<1> HIDE DEF lost, gone, s
<1>7. \A e \in Device \ {d} : dedup'[e] = dedup[e] /\ forgotten'[e] = forgotten[e]
  BY <1>3 DEF ChatTypes
<1>8. dedup' \in [Device -> Seq(PacketId)] /\ forgotten' \in [Device -> [PacketId -> Nat]]
  BY <1>2, <1>3, <1>5 DEF ChatTypes
<1>9. \A e \in Device : Distinct(dedup'[e]) /\ Len(dedup'[e]) <= Capacity
  BY <1>2, <1>6, <1>7 DEF ChatTypes
<1>10. \A e \in Device, q \in PacketId : forgotten[e][q] <= forgotten'[e][q]
  <2>1. \A q \in PacketId : forgotten[d][q] <= lost[q]
    BY <1>4, <1>5
  <2>2. \A e \in Device, q \in PacketId : forgotten[e][q] \in Nat
    BY DEF ChatTypes
  <2> QED BY <1>6, <1>7, <2>1, <2>2
<1>11. \A q \in PacketId : q \in Ids(s) \union {p} =>
         q \in Ids(dedup'[d]) \/ forgotten'[d][q] = forgotten[d][q] + 1
  BY <1>2, <1>5, <1>6
<1> QED
  BY <1>2, <1>6, <1>7, <1>8, <1>9, <1>10, <1>11 DEF s

(* Before a node is started nothing is under way, looked at or shown.      *)
LEMMA ChatInvInit == Init => ChatInv
<1> SUFFICES ASSUME Init PROVE ChatInv
  OBVIOUS
<1>1. ChatTypes
  <2>1. Total(run) <= MaxRuns /\ Total(life) <= MaxLives
    BY ChatAssumption DEF Init, Total, Device
  <2> QED BY <2>1, NothingInEmpty DEF Init, ChatTypes, Never
<1>2. DownIsIdle /\ FramesGenuine /\ RememberedFor
  BY NothingInEmpty DEF Init, DownIsIdle, FramesGenuine, RememberedFor
<1>3. LookHolds /\ ShownOnce /\ ShownUnlessIdShared /\ OwnNotForwarded
  BY IdsOfMessages DEF Init, LookHolds, ShownOnce, ShownUnlessIdShared, OwnNotForwarded, Never
<1> QED
  BY <1>1, <1>2, <1>3 DEF ChatInv, Init

(* A new life of the node: what is under way is of earlier ones.           *)
LEMMA StartNodeKeeps ==
    ASSUME ChatInv, NEW d \in Device, StartNode(d)
    PROVE  ChatInv'
<1> USE DEF ChatInv
<1>0. /\ UNCHANGED <<g_seq_counter, run, dedup, forgotten, waiting, looked, air, sent,
                     arrived, shown>>
      /\ life' = [life EXCEPT ![d] = @ + 1] /\ up' = [up EXCEPT ![d] = TRUE]
  BY DEF StartNode, process, memory
<1>1. ChatTypes'
  <2>1. Total(life') <= MaxLives
    BY <1>0, ChatAssumption DEF ChatTypes, StartNode, Total, Device
  <2>2. \A e \in Device : up'[e] => life'[e] # 0
    BY <1>0 DEF ChatTypes
  <2> QED BY <1>0, <2>1, <2>2 DEF ChatTypes
<1>2. DownIsIdle'
  BY <1>0 DEF ChatTypes, DownIsIdle
<1>3. ASSUME NEW f \in Made, Genuine(f)
      PROVE  Genuine(f)' /\ (f.message.from = d => f.message.life < life'[d])
  <2>1. f.message.from \in Device /\ f.message.life \in Nat
    BY MadeFacts
  <2>2. life'[d] = life[d] + 1 /\ \A e \in Device \ {d} : life'[e] = life[e] /\ up'[e] = up[e]
    BY <1>0 DEF ChatTypes
  <2>3. life[d] \in Nat /\ life[f.message.from] \in Nat
    BY <2>1 DEF ChatTypes
  <2> QED
    BY <1>0, <1>3, <2>1, <2>2, <2>3 DEF Genuine
<1>4. FramesGenuine'
  BY <1>0, <1>3 DEF ChatTypes, FramesGenuine, LookedAt
<1>5. OwnNotForwarded'
  <2> SUFFICES ASSUME NEW e \in Device, NEW f \in waiting'[e], f.message.from = e
               PROVE  f.message.life < life'[e] \/ forgotten'[e][f.packet_id] > 0
    BY DEF OwnNotForwarded
  <2>1. f \in Made /\ Genuine(f) /\ f \in waiting[e]
    BY <1>0 DEF ChatTypes, FramesGenuine
  <2> QED BY <1>0, <1>3, <2>1 DEF OwnNotForwarded, ChatTypes
<1> QED
  BY <1>0, <1>1, <1>2, <1>4, <1>5
     DEF LookHolds, Accounted, RememberedFor, ShownOnce, ShownUnlessIdShared

(* A node that goes takes with it all that the phone remembered.           *)
LEMMA EndNodeKeeps ==
    ASSUME ChatInv, NEW d \in Device, EndNode(d), UNCHANGED <<life, air, sent>>,
           g_seq_counter' \in [Device -> Nat \ {0}],
           run' \in [Device -> Nat \ {0}] /\ Total(run') <= MaxRuns
    PROVE  ChatInv'
<1> USE DEF ChatInv
<1>1. /\ dedup'[d] = << >> /\ waiting'[d] = {} /\ looked'[d] = Nothing
      /\ forgotten'[d] = Never
      /\ shown'[d] = [m \in Message |-> 0] /\ arrived'[d] = {} /\ up'[d] = FALSE
      /\ \A e \in Device \ {d} :
           /\ dedup'[e] = dedup[e] /\ waiting'[e] = waiting[e] /\ looked'[e] = looked[e]
           /\ forgotten'[e] = forgotten[e]
           /\ shown'[e] = shown[e] /\ arrived'[e] = arrived[e] /\ up'[e] = up[e]
  BY DEF ChatTypes, EndNode
<1>2. ChatTypes'
  <2>1. \A e \in Device : Distinct(dedup'[e]) /\ Len(dedup'[e]) <= Capacity
    BY NothingInEmpty, <1>1 DEF ChatTypes
  <2>2. dedup' \in [Device -> Seq(PacketId)]
    BY NothingInEmpty DEF ChatTypes, EndNode
  <2>3. shown' \in [Device -> [Message -> Nat]] /\ forgotten' \in [Device -> [PacketId -> Nat]]
    BY DEF ChatTypes, EndNode, Never
  <2>4. /\ waiting' \in [Device -> SUBSET Made] /\ arrived' \in [Device -> SUBSET Message]
        /\ looked' \in [Device -> LookedAt \union {Nothing}] /\ up' \in [Device -> BOOLEAN]
    BY DEF ChatTypes, EndNode
  <2>5. \A e \in Device : up'[e] => life'[e] # 0
    BY <1>1 DEF ChatTypes
  <2> QED
    BY <2>1, <2>2, <2>3, <2>4, <2>5 DEF ChatTypes, Total
<1>3. DownIsIdle'
  BY <1>1 DEF DownIsIdle
<1>4. ASSUME NEW f \in Made, Genuine(f)
      PROVE  Genuine(f)'
  BY <1>1, <1>4 DEF ChatTypes, Made, Message, Genuine
<1>5. FramesGenuine'
  BY <1>1, <1>4 DEF ChatTypes, FramesGenuine, LookedAt
<1>c. /\ \A q \in PacketId : forgotten'[d][q] = 0
      /\ \A m \in Message : shown'[d][m] = 0
  BY <1>1 DEF Never
<1>a. \A e \in Device \ {d} : \A q : Accounted(e, q)' <=> Accounted(e, q)
  BY <1>1 DEF Accounted
<1>6. LookHolds'
  <2>1. ASSUME NEW e \in Device, NEW m \in Message, IdOf(m) \notin Ids(dedup'[e])
        PROVE  shown'[e][m] <= forgotten'[e][IdOf(m)]
    <3>1. CASE e = d
      BY <1>c, <3>1, IdsOfMessages
    <3>2. CASE e # d
      BY <1>1, <2>1, <3>2 DEF LookHolds
    <3> QED BY <3>1, <3>2
  <2>2. ASSUME NEW e \in Device, looked'[e] # Nothing
        PROVE  /\ looked'[e].fresh =>
                    shown'[e][looked'[e].frame.message] <= forgotten'[e][looked'[e].frame.packet_id]
               /\ ~ looked'[e].fresh => Accounted(e, looked[e].frame.packet_id)'
    <3>1. e # d /\ looked'[e] = looked[e] /\ shown'[e] = shown[e] /\ forgotten'[e] = forgotten[e]
      BY <1>1, <2>2
    <3>2. /\ looked[e].fresh =>
               shown[e][looked[e].frame.message] <= forgotten[e][looked[e].frame.packet_id]
          /\ ~ looked[e].fresh => Accounted(e, looked[e].frame.packet_id)
      BY <2>2, <3>1 DEF LookHolds
    <3> HIDE DEF ChatInv
    <3>3. ~ looked[e].fresh => Accounted(e, looked[e].frame.packet_id)'
      BY <1>1, <3>1, <3>2 DEF Accounted
    <3> QED BY <3>1, <3>2, <3>3
  <2> HIDE DEF ChatInv
  <2> QED BY <2>1, <2>2 DEF LookHolds
<1>r. RememberedFor'
  BY <1>1, <1>a, NothingInEmpty DEF RememberedFor
<1>7. ShownOnce' /\ ShownUnlessIdShared' /\ OwnNotForwarded'
  <2>1. ShownOnce'
    <3> SUFFICES ASSUME NEW e \in Device, NEW m \in Message
                 PROVE  shown'[e][m] <= 1 + forgotten'[e][IdOf(m)]
      BY DEF ShownOnce
    <3>1. CASE e = d
      BY <1>c, <3>1, IdsOfMessages
    <3>2. CASE e # d
      BY <1>1, <3>2 DEF ShownOnce
    <3> QED BY <3>1, <3>2
  <2>2. ShownUnlessIdShared'
    BY <1>1 DEF ShownUnlessIdShared
  <2>3. OwnNotForwarded'
    BY <1>1 DEF OwnNotForwarded
  <2> QED BY <2>1, <2>2, <2>3
<1>8. \A e \in Device : arrived'[e] \subseteq sent'
  BY <1>1
<1> QED
  BY <1>2, <1>3, <1>5, <1>6, <1>7, <1>8, <1>r

(* Stopping a node empties what it holds, in whatever step of the callback *)
(* it is.                                                                  *)
LEMMA StopKeeps ==
    ASSUME ChatInv, NEW d \in Device, StopNode(d) \/ KillProcess(d)
    PROVE  ChatInv'
<1>1. EndNode(d) /\ UNCHANGED <<life, air, sent>>
  BY DEF StopNode, KillProcess
<1>2. g_seq_counter' \in [Device -> Nat \ {0}]
  <2>1. g_seq_counter \in [Device -> Nat \ {0}]
    BY DEF ChatInv, ChatTypes
  <2>2. g_seq_counter' = g_seq_counter \/ g_seq_counter' = [g_seq_counter EXCEPT ![d] = 1]
    BY DEF StopNode, KillProcess, process
  <2> QED BY <2>1, <2>2
<1>3. run' \in [Device -> Nat \ {0}] /\ Total(run') <= MaxRuns
  <2>1. CASE StopNode(d)
    BY <2>1 DEF ChatInv, ChatTypes, StopNode, process
  <2>2. CASE KillProcess(d)
    BY <2>2, ChatAssumption DEF ChatInv, ChatTypes, KillProcess, Total, Device
  <2> QED BY <2>1, <2>2
<1> QED
  BY <1>1, <1>2, <1>3, EndNodeKeeps

(* The sender remembers what it sends, and nothing else changes at it.     *)
LEMMA SendChatKeeps ==
    ASSUME ChatInv, NEW d \in Device, NEW text \in Text, SendChat(d, text)
    PROVE  ChatInv'
<1> USE DEF ChatInv
<1>f. PICK f : f = Outgoing(d, text)
  OBVIOUS
<1>1. /\ f.message \in Message /\ f.message.from = d
      /\ f.message.life = life[d]
      /\ f.packet_id = IdOf(f.message) /\ f.packet_id \in PacketId
      /\ f \in Made
  <2>1. g_seq_counter[d] \in 1..MaxSeq
    BY ChatAssumption DEF ChatTypes, SendChat, MaySend
  <2>2. run[d] \in 1..MaxRuns /\ life[d] \in 1..MaxLives
    <3>1. /\ run["GO"] \in Nat /\ run["CLI"] \in Nat /\ run["GO"] + run["CLI"] <= MaxRuns
          /\ life["GO"] \in Nat /\ life["CLI"] \in Nat /\ life["GO"] + life["CLI"] <= MaxLives
          /\ run[d] # 0 /\ life[d] # 0
      BY DEF ChatTypes, SendChat, MaySend, Total, Device
    <3>2. d = "GO" \/ d = "CLI"
      BY DEF Device
    <3> HIDE DEF ChatInv
    <3> QED BY <3>1, <3>2, ChatAssumption
  <2>3. f.message \in Message /\ f.message.from = d /\ f.message.life = life[d]
    BY <1>f, <2>1, <2>2 DEF Outgoing, Message
  <2>4. f.packet_id = IdOf(f.message) /\ f.packet_id \in PacketId
    BY <1>f, <2>1, ChatAssumption DEF Outgoing, IdOf
  <2>5. f \in Made
    BY <1>f, <2>3, <2>4, ChatAssumption DEF Outgoing, Made, Peer, Device
  <2> QED BY <2>3, <2>4, <2>5
<1>2. /\ Remember(d, f.packet_id)
      /\ air' = air \union {f} /\ sent' = sent \union {f.message}
      /\ g_seq_counter' = [g_seq_counter EXCEPT ![d] = @ + 1]
      /\ up[d]
      /\ UNCHANGED <<run, life, up, waiting, looked, arrived, shown>>
  BY <1>f DEF SendChat, MaySend, node
<1>p. PICK p \in PacketId : p = f.packet_id
  BY <1>1
<1>3. /\ dedup' \in [Device -> Seq(PacketId)]
      /\ \A e \in Device : Distinct(dedup'[e]) /\ Len(dedup'[e]) <= Capacity
      /\ forgotten' \in [Device -> [PacketId -> Nat]]
      /\ \A e \in Device \ {d} : dedup'[e] = dedup[e] /\ forgotten'[e] = forgotten[e]
      /\ Ids(dedup'[d]) \subseteq Ids(dedup[d]) \union {p}
      /\ \A e \in Device, q \in PacketId : forgotten[e][q] <= forgotten'[e][q]
      /\ \A q \in PacketId : q \in Ids(dedup[d]) \union {p} =>
           q \in Ids(dedup'[d]) \/ forgotten'[d][q] = forgotten[d][q] + 1
  BY <1>2, <1>p, RememberFacts
<1>4. \A e \in Device, q \in PacketId : /\ forgotten[e][q] \in Nat /\ forgotten'[e][q] \in Nat
                                        /\ forgotten[e][q] <= forgotten'[e][q]
  BY <1>3 DEF ChatTypes
<1>5. ChatTypes'
  <2>1. /\ g_seq_counter' \in [Device -> Nat \ {0}]
        /\ air' \subseteq Made /\ sent' \subseteq Message
    BY <1>1, <1>2 DEF ChatTypes
  <2>2. /\ run' = run /\ life' = life /\ up' = up /\ waiting' = waiting /\ looked' = looked
        /\ arrived' = arrived /\ shown' = shown
    BY <1>2
  <2> QED BY <1>3, <2>1, <2>2 DEF ChatTypes, Total
<1>6. DownIsIdle'
  BY <1>2 DEF DownIsIdle
<1>g. \A e \in Device, q \in PacketId :
        q \in Ids(dedup[e]) \/ forgotten[e][q] > 0
          => q \in Ids(dedup'[e]) \/ forgotten'[e][q] > 0
  <2> TAKE e \in Device, q \in PacketId
  <2> HIDE DEF ChatInv
  <2>1. forgotten[e][q] > 0 => forgotten'[e][q] > 0
    BY <1>4
  <2>2. q \in Ids(dedup[e]) => q \in Ids(dedup'[e]) \/ forgotten'[e][q] = forgotten[e][q] + 1
    BY <1>3
  <2> QED BY <1>4, <2>1, <2>2
<1>7. ASSUME NEW g \in Made, Genuine(g)
      PROVE  Genuine(g)'
  <2>1. g.packet_id \in PacketId /\ g.message.from \in Device
    BY MadeFacts
  <2>2. ASSUME up'[g.message.from], g.message.life = life'[g.message.from]
        PROVE  \/ g.packet_id \in Ids(dedup'[g.message.from])
               \/ forgotten'[g.message.from][g.packet_id] > 0
    <3>1. \/ g.packet_id \in Ids(dedup[g.message.from])
          \/ forgotten[g.message.from][g.packet_id] > 0
      BY <1>2, <1>7, <2>2 DEF Genuine
    <3> QED BY <1>g, <2>1, <3>1
  <2> QED BY <1>2, <1>7, <2>2 DEF Genuine
<1>8. Genuine(f)'
  <2>1. life'[d] = life[d] /\ life[d] \in Nat
    BY <1>2 DEF ChatTypes
  <2>2. f.packet_id \in Ids(dedup'[d]) \/ forgotten'[d][f.packet_id] > 0
    <3>1. p \in Ids(dedup'[d]) \/ forgotten'[d][p] = forgotten[d][p] + 1
      BY <1>3
    <3> HIDE DEF ChatInv
    <3> QED BY <1>4, <1>p, <3>1
  <2> QED
    BY <1>1, <1>2, <2>1, <2>2 DEF Genuine
<1>9. FramesGenuine'
  BY <1>2, <1>7, <1>8, LookedIsMade DEF ChatTypes, FramesGenuine
<1>10. \A e \in Device : \A q : Accounted(e, q) => Accounted(e, q)'
  BY <1>2 DEF Accounted
<1>11. LookHolds'
  <2>1. ASSUME NEW e \in Device, NEW m \in Message, IdOf(m) \notin Ids(dedup'[e])
        PROVE  shown'[e][m] <= forgotten'[e][IdOf(m)]
    <3>1. IdOf(m) \in PacketId /\ shown[e][m] \in Nat
      BY IdsOfMessages DEF ChatTypes
    <3>2. CASE IdOf(m) \notin Ids(dedup[e])
      BY <1>2, <1>4, <3>1, <3>2 DEF LookHolds
    <3>3. CASE IdOf(m) \in Ids(dedup[e])
      <4>1. e = d /\ forgotten'[e][IdOf(m)] = forgotten[e][IdOf(m)] + 1
        BY <1>3, <2>1, <3>1, <3>3
      <4> QED BY <1>2, <1>4, <3>1, <4>1 DEF ShownOnce
    <3> QED BY <3>2, <3>3
  <2>2. ASSUME NEW e \in Device, looked[e] # Nothing
        PROVE  LET g == looked[e].frame IN
               /\ looked[e].fresh => shown'[e][g.message] <= forgotten'[e][g.packet_id]
               /\ ~ looked[e].fresh => Accounted(e, g.packet_id)'
    <3> DEFINE g == looked[e].frame
    <3>1. g \in Made /\ g.packet_id \in PacketId /\ g.message \in Message
      BY <2>2, LookedIsMade, MadeFacts
    <3>2. shown[e][g.message] \in Nat
      BY <3>1 DEF ChatTypes
    <3> QED BY <1>2, <1>4, <1>10, <2>2, <3>1, <3>2 DEF LookHolds
  <2> QED BY <1>2, <2>1, <2>2 DEF LookHolds
<1>12. RememberedFor'
  <2> SUFFICES ASSUME NEW e \in Device, NEW q \in Ids(dedup'[e])
               PROVE  Accounted(e, q)'
    BY DEF RememberedFor
  <2>1. CASE q \in Ids(dedup[e])
    BY <1>10, <2>1 DEF RememberedFor
  <2>2. CASE q \notin Ids(dedup[e])
    <3>1. e = d /\ q = p
      BY <1>3, <2>2
    <3> QED BY <1>1, <1>2, <1>p, <3>1 DEF Accounted
  <2> QED BY <2>1, <2>2
<1>13. ShownOnce'
  <2> SUFFICES ASSUME NEW e \in Device, NEW m \in Message
               PROVE  shown'[e][m] <= 1 + forgotten'[e][IdOf(m)]
    BY DEF ShownOnce
  <2>1. IdOf(m) \in PacketId /\ shown[e][m] \in Nat
    BY IdsOfMessages DEF ChatTypes
  <2> QED BY <1>2, <1>4, <2>1 DEF ShownOnce
<1>14. OwnNotForwarded'
  <2> SUFFICES ASSUME NEW e \in Device, NEW g \in waiting[e], g.message.from = e,
                      ~ (g.message.life < life[e])
               PROVE  forgotten'[e][g.packet_id] > 0
    BY <1>2 DEF OwnNotForwarded
  <2>1. g.packet_id \in PacketId
    BY MadeFacts DEF ChatTypes
  <2> QED BY <1>4, <2>1 DEF OwnNotForwarded
<1>15. ShownUnlessIdShared' /\ \A e \in Device : arrived'[e] \subseteq sent'
  BY <1>2 DEF ShownUnlessIdShared
<1> QED
  BY <1>5, <1>6, <1>9, <1>11, <1>12, <1>13, <1>14, <1>15

(* A frame comes into the callback.                                        *)
LEMMA LookKeeps ==
    ASSUME ChatInv, NEW d \in Device, NEW f \in air, Look(d, f)
    PROVE  ChatInv'
<1> USE DEF ChatInv
<1> DEFINE l == [frame |-> f, fresh |-> ~ Contains(dedup[d], f.packet_id)]
<1>1. /\ looked' = [looked EXCEPT ![d] = l]
      /\ up[d]
      /\ UNCHANGED <<g_seq_counter, run, life, up, dedup, forgotten, waiting, air, sent,
                     arrived, shown>>
  BY DEF Look, process, node, memory
<1>2. l \in LookedAt /\ l.frame = f /\ l.fresh = (f.packet_id \notin Ids(dedup[d]))
  BY DEF ChatTypes, LookedAt, Contains
<1>3. f \in Made /\ f.packet_id = IdOf(f.message) /\ f.message \in Message /\ Genuine(f)
  BY MadeFacts DEF ChatTypes, FramesGenuine
<1> HIDE DEF l
<1>4. looked'[d] = l /\ \A e \in Device \ {d} : looked'[e] = looked[e]
  BY <1>1 DEF ChatTypes
<1>5. ChatTypes'
  BY <1>1, <1>2 DEF ChatTypes, Total
<1>6. DownIsIdle'
  BY <1>1, <1>4 DEF DownIsIdle
<1>7. \A g \in Made : Genuine(g)' <=> Genuine(g)
  BY <1>1 DEF Genuine
<1>8. FramesGenuine'
  BY <1>1, <1>2, <1>3, <1>4, <1>7 DEF ChatTypes, FramesGenuine, LookedAt
<1>9. LookHolds'
  <2>1. \A e \in Device : \A q : Accounted(e, q)' <=> Accounted(e, q)
    BY <1>1 DEF Accounted
  <2>2. /\ l.fresh => shown[d][f.message] <= forgotten[d][f.packet_id]
        /\ ~ l.fresh => Accounted(d, f.packet_id)
    BY <1>2, <1>3 DEF LookHolds, RememberedFor
  <2> QED BY <1>1, <1>2, <1>4, <2>1, <2>2 DEF LookHolds
<1>10. RememberedFor'
  BY <1>1 DEF RememberedFor, Accounted
<1>11. ShownOnce' /\ ShownUnlessIdShared' /\ OwnNotForwarded'
  BY <1>1 DEF ShownOnce, ShownUnlessIdShared, OwnNotForwarded
<1> QED
  BY <1>1, <1>5, <1>6, <1>8, <1>9, <1>10, <1>11

(* The callback goes on with what it saw, whatever the cache says by now:  *)
(* a message that is shown had been shown only as often as its id was      *)
(* given up, and one that is not shown was in the cache for a reason.      *)
LEMMA ProcessKeeps ==
    ASSUME ChatInv, NEW d \in Device, Process(d)
    PROVE  ChatInv'
<1> USE DEF ChatInv
<1> DEFINE l == looked[d]
<1>f. PICK f : f = l.frame
  OBVIOUS
<1> DEFINE m == f.message
           p == f.packet_id
<1>1. /\ l # Nothing /\ f \in Made /\ p \in PacketId /\ m \in Message /\ p = IdOf(m)
      /\ l.fresh \in BOOLEAN
      /\ f.final_destination # d => m.from = d
      /\ f.final_destination = d => m.from # d
      /\ Genuine(f) /\ m \in sent
      /\ up[d]
  <2>1. l # Nothing /\ l \in LookedAt
    BY DEF ChatTypes, Process
  <2>2. f \in Made /\ l.fresh \in BOOLEAN
    BY <1>f, <2>1 DEF LookedAt
  <2>3. Genuine(f) /\ m \in sent
    BY <1>f, <2>1 DEF FramesGenuine, Genuine
  <2>4. up[d]
    BY <2>1 DEF DownIsIdle, ChatTypes
  <2> HIDE DEF l
  <2> QED BY <2>1, <2>2, <2>3, <2>4 DEF Made, Message, Peer, Device
<1>2. /\ l.fresh => shown[d][m] <= forgotten[d][p]
      /\ ~ l.fresh => Accounted(d, p)
  BY <1>1, <1>f DEF LookHolds
<1>3. /\ looked' = [looked EXCEPT ![d] = Nothing]
      /\ shown' = IF f.final_destination = d /\ l.fresh
                  THEN [shown EXCEPT ![d][m] = @ + 1] ELSE shown
      /\ arrived' = IF f.final_destination = d
                    THEN [arrived EXCEPT ![d] = @ \union {m}] ELSE arrived
      /\ UNCHANGED <<g_seq_counter, run, life, up, air, sent>>
      /\ Processed(d, f)
  BY <1>f DEF Process, ToUi, process, node
<1>4. /\ dedup' \in [Device -> Seq(PacketId)]
      /\ \A e \in Device : Distinct(dedup'[e]) /\ Len(dedup'[e]) <= Capacity
      /\ forgotten' \in [Device -> [PacketId -> Nat]]
      /\ \A e \in Device \ {d} : dedup'[e] = dedup[e] /\ forgotten'[e] = forgotten[e]
      /\ Ids(dedup'[d]) \subseteq Ids(dedup[d]) \union {p}
      /\ \A e \in Device, q \in PacketId : forgotten[e][q] <= forgotten'[e][q]
      /\ \A q \in PacketId : q \in Ids(dedup[d]) \union {p} =>
           q \in Ids(dedup'[d]) \/ forgotten'[d][q] = forgotten[d][q] + 1
  <2>1. CASE Contains(dedup[d], p)
    <3>1. dedup' = dedup /\ forgotten' = forgotten /\ p \in Ids(dedup[d])
      BY <1>3, <2>1 DEF Processed, Contains, memory
    <3>2. \A e \in Device, q \in PacketId : forgotten[e][q] \in Nat
      BY DEF ChatTypes
    <3> HIDE DEF p
    <3> QED BY <3>1, <3>2 DEF ChatTypes
  <2>2. CASE ~ Contains(dedup[d], p)
    <3>1. Remember(d, p)
      BY <1>3, <2>2 DEF Processed
    <3> HIDE DEF p
    <3> QED BY <1>1, <3>1, RememberFacts
  <2> QED BY <2>1, <2>2
<1>5. /\ waiting' \in [Device -> SUBSET Made]
      /\ \A e \in Device \ {d} : waiting'[e] = waiting[e]
      /\ waiting'[d] \subseteq waiting[d] \union {f}
      /\ f \in waiting'[d] => \/ f \in waiting[d]
                              \/ p \notin Ids(dedup[d])
  <2>1. \/ waiting' = waiting
        \/ /\ p \notin Ids(dedup[d])
           /\ waiting' = [waiting EXCEPT ![d] = @ \union {f}]
    <3>1. CASE Contains(dedup[d], p)
      BY <1>3, <3>1 DEF Processed
    <3>2. CASE ~ Contains(dedup[d], p)
      <4>1. waiting' = IF f.final_destination = d THEN waiting
                       ELSE [waiting EXCEPT ![d] = @ \union {f}]
        BY <1>3, <3>2 DEF Processed
      <4> QED BY <3>2, <4>1 DEF Contains
    <3> QED BY <3>1, <3>2
  <2>2. waiting \in [Device -> SUBSET Made] /\ f \in Made
    BY <1>1 DEF ChatTypes
  <2> HIDE DEF p
  <2> QED BY <2>1, <2>2
<1>6. /\ \A e \in Device \ {d} : arrived'[e] = arrived[e]
      /\ arrived' \in [Device -> SUBSET Message]
      /\ arrived'[d] \subseteq arrived[d] \union {m}
      /\ m \in arrived'[d] => m \in arrived[d] \/ f.final_destination = d
  BY <1>1, <1>3 DEF ChatTypes
<1>7. /\ shown' \in [Device -> [Message -> Nat]]
      /\ \A e \in Device, o \in Message :
           /\ shown[e][o] <= shown'[e][o]
           /\ ~ (e = d /\ o = m) => shown'[e][o] = shown[e][o]
      /\ f.final_destination = d /\ l.fresh => shown'[d][m] = shown[d][m] + 1
      /\ ~ (f.final_destination = d /\ l.fresh) => shown'[d][m] = shown[d][m]
  <2>1. shown \in [Device -> [Message -> Nat]] /\ m \in Message
    BY <1>1 DEF ChatTypes
  <2> HIDE DEF m, l
  <2>2. CASE f.final_destination = d /\ l.fresh
    <3>1. shown' = [shown EXCEPT ![d] = [shown[d] EXCEPT ![m] = @ + 1]]
      BY <1>3, <2>2
    <3> QED BY <2>1, <2>2, <3>1
  <2>3. CASE ~ (f.final_destination = d /\ l.fresh)
    <3>1. shown' = shown
      BY <1>3, <2>3
    <3> QED BY <2>1, <2>3, <3>1
  <2> QED BY <2>2, <2>3
<1>8. looked'[d] = Nothing /\ \A e \in Device \ {d} : looked'[e] = looked[e]
  BY <1>3 DEF ChatTypes
<1> HIDE DEF p, m, l
<1>n. \A e \in Device, q \in PacketId : /\ forgotten[e][q] \in Nat /\ forgotten'[e][q] \in Nat
                                        /\ forgotten[e][q] <= forgotten'[e][q]
  BY <1>4 DEF ChatTypes
<1>s. \A e \in Device, o \in Message : /\ shown[e][o] \in Nat /\ shown'[e][o] \in Nat
                                       /\ IdOf(o) \in PacketId
  BY <1>7, IdsOfMessages DEF ChatTypes
<1>g. \A e \in Device, q \in PacketId :
        q \in Ids(dedup[e]) \/ forgotten[e][q] > 0
          => q \in Ids(dedup'[e]) \/ forgotten'[e][q] > 0
  <2> TAKE e \in Device, q \in PacketId
  <2> HIDE DEF ChatInv
  <2>1. forgotten[e][q] > 0 => forgotten'[e][q] > 0
    BY <1>n
  <2>2. q \in Ids(dedup[e]) => q \in Ids(dedup'[e]) \/ forgotten'[e][q] = forgotten[e][q] + 1
    BY <1>4
  <2> QED BY <1>n, <2>1, <2>2
<1>9. ChatTypes'
  BY <1>3, <1>4, <1>5, <1>6, <1>7 DEF ChatTypes, Total
<1>10. DownIsIdle'
  BY <1>1, <1>3, <1>5, <1>8 DEF DownIsIdle
<1>11. ASSUME NEW g \in Made, Genuine(g)
       PROVE  Genuine(g)'
  <2>1. g.packet_id \in PacketId /\ g.message.from \in Device
    BY MadeFacts
  <2>2. ASSUME up'[g.message.from], g.message.life = life'[g.message.from]
        PROVE  \/ g.packet_id \in Ids(dedup'[g.message.from])
               \/ forgotten'[g.message.from][g.packet_id] > 0
    <3>1. \/ g.packet_id \in Ids(dedup[g.message.from])
          \/ forgotten[g.message.from][g.packet_id] > 0
      BY <1>3, <1>11, <2>2 DEF Genuine
    <3> QED BY <1>g, <2>1, <3>1
  <2> QED BY <1>3, <1>11, <2>2 DEF Genuine
<1>12. FramesGenuine'
  <2>1. \A g \in air' : Genuine(g)'
    BY <1>3, <1>11 DEF ChatTypes, FramesGenuine
  <2>2. ASSUME NEW e \in Device, NEW g \in waiting'[e]
        PROVE  Genuine(g)'
    <3>1. g \in waiting[e] \/ g = f
      BY <1>5
    <3>2. g \in Made /\ Genuine(g)
      BY <1>1, <3>1 DEF ChatTypes, FramesGenuine
    <3> QED BY <1>11, <3>2
  <2>3. ASSUME NEW e \in Device, looked'[e] # Nothing
        PROVE  Genuine(looked[e].frame)'
    <3>1. looked'[e] = looked[e] /\ looked[e] # Nothing
      BY <1>8, <2>3
    <3>2. Genuine(looked[e].frame) /\ looked[e].frame \in Made
      BY <3>1, LookedIsMade DEF FramesGenuine
    <3>3. PICK g \in Made : g = looked[e].frame /\ Genuine(g)
      BY <3>2
    <3>4. Genuine(g)' /\ g = looked'[e].frame
      BY <1>11, <3>1, <3>3
    <3> QED BY <3>4 DEF Genuine
  <2> QED
    BY <2>1, <2>2, <2>3 DEF FramesGenuine
<1>13. ASSUME NEW e \in Device, NEW q, Accounted(e, q)
       PROVE  Accounted(e, q)'
  <2>1. PICK o \in sent : IdOf(o) = q /\ (o.from = e \/ shown[e][o] > 0)
    BY <1>13 DEF Accounted
  <2>2. o \in Message
    BY DEF ChatTypes
  <2>3. shown[e][o] > 0 => shown'[e][o] > 0
    BY <1>7, <1>s, <2>2
  <2> QED BY <1>3, <2>1, <2>3 DEF Accounted
<1>14. Accounted(d, p)'
  <2>1. CASE l.fresh
    <3>1. m.from = d \/ shown'[d][m] > 0
      BY <1>1, <1>7, <1>s, <2>1
    <3> QED BY <1>1, <1>3, <3>1 DEF Accounted
  <2>2. CASE ~ l.fresh
    BY <1>2, <1>13, <2>2
  <2> QED BY <2>1, <2>2
<1>15. LookHolds'
  <2>1. ASSUME NEW e \in Device, NEW o \in Message, IdOf(o) \notin Ids(dedup'[e])
        PROVE  shown'[e][o] <= forgotten'[e][IdOf(o)]
    <3>1. CASE e = d /\ o = m
      <4>1. forgotten'[d][p] = forgotten[d][p] + 1
        BY <1>1, <1>4, <2>1, <3>1
      <4>2. shown[d][m] <= 1 + forgotten[d][p]
        BY <1>1 DEF ShownOnce
      <4>3. l.fresh => shown[d][m] <= forgotten[d][p]
        BY <1>2
      <4> QED BY <1>1, <1>7, <1>s, <1>n, <3>1, <4>1, <4>2, <4>3
    <3>2. CASE ~ (e = d /\ o = m)
      <4>1. shown'[e][o] = shown[e][o]
        BY <1>7, <3>2
      <4>2. CASE IdOf(o) \notin Ids(dedup[e])
        <5>1. shown[e][o] <= forgotten[e][IdOf(o)]
          BY <4>2 DEF LookHolds
        <5> QED BY <1>n, <1>s, <4>1, <5>1
      <4>3. CASE IdOf(o) \in Ids(dedup[e])
        <5>1. e = d /\ forgotten'[e][IdOf(o)] = forgotten[e][IdOf(o)] + 1
          BY <1>4, <1>s, <2>1, <4>3
        <5>2. shown[e][o] <= 1 + forgotten[e][IdOf(o)]
          BY DEF ShownOnce
        <5> QED BY <1>n, <1>s, <4>1, <5>1, <5>2
      <4> QED BY <4>2, <4>3
    <3> QED BY <3>1, <3>2
  <2>2. ASSUME NEW e \in Device, looked'[e] # Nothing
        PROVE  /\ looked'[e].fresh =>
                    shown'[e][looked'[e].frame.message] <= forgotten'[e][looked'[e].frame.packet_id]
               /\ ~ looked'[e].fresh => Accounted(e, looked[e].frame.packet_id)'
    <3>1. e # d /\ looked'[e] = looked[e]
      BY <1>8, <2>2
    <3>2. PICK g \in Made : g = looked[e].frame
      BY <2>2, <3>1, LookedIsMade
    <3>3. shown'[e][g.message] = shown[e][g.message] /\ forgotten'[e] = forgotten[e]
      BY <1>4, <1>7, <3>1, MadeFacts
    <3>4. /\ looked[e].fresh => shown[e][g.message] <= forgotten[e][g.packet_id]
          /\ ~ looked[e].fresh => Accounted(e, g.packet_id)
      BY <2>2, <3>1, <3>2 DEF LookHolds
    <3>5. ~ looked[e].fresh => Accounted(e, g.packet_id)'
      BY <1>13, <3>4
    <3> HIDE DEF ChatInv
    <3>6. Accounted(e, g.packet_id)' <=> Accounted(e, looked[e].frame.packet_id)'
      BY <3>1, <3>2 DEF Accounted
    <3> QED BY <3>1, <3>2, <3>3, <3>4, <3>5, <3>6
  <2> HIDE DEF ChatInv
  <2> QED BY <2>1, <2>2 DEF LookHolds
<1>16. RememberedFor'
  <2> SUFFICES ASSUME NEW e \in Device, NEW q \in Ids(dedup'[e])
               PROVE  Accounted(e, q)'
    BY DEF RememberedFor
  <2>1. CASE q \in Ids(dedup[e])
    BY <1>13, <2>1 DEF RememberedFor
  <2>2. CASE q \notin Ids(dedup[e])
    <3>1. e = d /\ q = p
      BY <1>4, <2>2
    <3> QED BY <1>14, <3>1
  <2> QED BY <2>1, <2>2
<1>17. ShownUnlessIdShared'
  <2> SUFFICES ASSUME NEW e \in Device, NEW o \in arrived'[e],
                      \A other \in sent : IdOf(other) = IdOf(o) => other = o
               PROVE  shown'[e][o] > 0
    BY <1>3 DEF ShownUnlessIdShared
  <2>0. o \in Message
    BY <1>6
  <2>1. CASE o \in arrived[e]
    BY <1>7, <1>s, <2>0, <2>1 DEF ShownUnlessIdShared
  <2>2. CASE o \notin arrived[e]
    <3>1. e = d /\ o = m /\ f.final_destination = d
      BY <1>6, <2>2
    <3>2. CASE l.fresh
      BY <1>7, <1>s, <2>0, <3>1, <3>2
    <3>3. CASE ~ l.fresh
      <4>1. PICK r \in sent : IdOf(r) = p /\ (r.from = d \/ shown[d][r] > 0)
        BY <1>2, <3>3 DEF Accounted
      <4>2. r = m
        BY <1>1, <3>1, <4>1
      <4> QED BY <1>1, <1>7, <1>s, <2>0, <3>1, <4>1, <4>2
    <3> QED BY <3>2, <3>3
  <2> QED BY <2>1, <2>2
<1>18. OwnNotForwarded'
  <2> SUFFICES ASSUME NEW e \in Device, NEW g \in waiting'[e], g.message.from = e,
                      ~ (g.message.life < life'[e])
               PROVE  forgotten'[e][g.packet_id] > 0
    BY DEF OwnNotForwarded
  <2>0. g \in Made /\ g.packet_id \in PacketId
    BY <1>5, MadeFacts
  <2>1. CASE g \in waiting[e]
    <3>1. forgotten[e][g.packet_id] > 0
      BY <1>3, <2>1 DEF OwnNotForwarded
    <3> QED BY <1>n, <2>0, <3>1
  <2>2. CASE g \notin waiting[e]
    <3>1. e = d /\ g = f /\ p \notin Ids(dedup[d])
      BY <1>5, <2>2
    <3>2. m.life <= life[d] /\ ~ (m.life < life[d])
      BY <1>1, <1>3, <3>1 DEF Genuine, m
    <3>3. m.life = life[d]
      BY <1>1, <3>2, MadeFacts DEF m, ChatTypes
    <3>4. forgotten[d][p] > 0
      BY <1>1, <3>1, <3>3 DEF Genuine, m, p
    <3> QED BY <1>1, <1>n, <3>1, <3>4 DEF p
  <2> QED BY <2>1, <2>2
<1>19. ShownOnce'
  <2> SUFFICES ASSUME NEW e \in Device, NEW o \in Message
               PROVE  shown'[e][o] <= 1 + forgotten'[e][IdOf(o)]
    BY DEF ShownOnce
  <2>1. shown[e][o] <= 1 + forgotten[e][IdOf(o)]
    BY DEF ShownOnce
  <2>2. CASE e = d /\ o = m
    BY <1>1, <1>2, <1>7, <1>n, <1>s, <2>1, <2>2
  <2>3. CASE ~ (e = d /\ o = m)
    BY <1>7, <1>n, <1>s, <2>1, <2>3
  <2> QED BY <2>2, <2>3
<1>20. \A e \in Device : arrived'[e] \subseteq sent'
  BY <1>1, <1>3, <1>6
<1> QED
  BY <1>9, <1>10, <1>12, <1>15, <1>16, <1>17, <1>18, <1>19, <1>20

(* A forwarded frame is the accepted one but for its ttl.                  *)
LEMMA ForwardKeeps ==
    ASSUME ChatInv, NEW d \in Device, NEW f \in waiting[d], ForwardTimer(d, f)
    PROVE  ChatInv'
<1> USE DEF ChatInv
<1> DEFINE g == [f EXCEPT !.ttl = @ - 1]
<1>1. /\ waiting' = [waiting EXCEPT ![d] = @ \ {f}]
      /\ air' = air \/ (f.ttl > 1 /\ air' = air \union {g})
      /\ UNCHANGED <<g_seq_counter, run, life, up, dedup, forgotten, looked, sent, arrived,
                     shown>>
  BY DEF ForwardTimer, process, node, memory
<1>2. f \in Made /\ Genuine(f)
  BY DEF ChatTypes, FramesGenuine
<1>3. f.ttl > 1 => g \in Made
  BY <1>2 DEF Made
<1>4. Genuine(g)
  BY <1>2 DEF Made, Genuine
<1> HIDE DEF g
<1>5. ChatTypes'
  BY <1>1, <1>3 DEF ChatTypes, Total
<1>6. \A h \in Made : Genuine(h)' <=> Genuine(h)
  BY <1>1 DEF Genuine
<1>7. \A e \in Device : waiting'[e] \subseteq waiting[e]
  BY <1>1 DEF ChatTypes
<1>8. FramesGenuine'
  BY <1>1, <1>3, <1>4, <1>6, <1>7 DEF ChatTypes, FramesGenuine, LookedAt
<1>9. DownIsIdle' /\ LookHolds' /\ RememberedFor'
  <2>1. DownIsIdle'
    BY <1>1, <1>7 DEF DownIsIdle
  <2>2. UNCHANGED <<dedup, forgotten, looked, shown, sent>> /\ LookHolds /\ RememberedFor
    BY <1>1
  <2> HIDE DEF ChatInv
  <2>3. LookHolds' /\ RememberedFor'
    BY <2>2 DEF LookHolds, RememberedFor, Accounted
  <2> QED BY <2>1, <2>3
<1>10. ShownOnce' /\ ShownUnlessIdShared' /\ OwnNotForwarded'
  BY <1>1, <1>7 DEF ShownOnce, ShownUnlessIdShared, OwnNotForwarded
<1> QED
  BY <1>1, <1>5, <1>8, <1>9, <1>10

(* A frame the radio loses is one frame less under way.                    *)
LEMMA LoseKeeps ==
    ASSUME ChatInv, NEW f \in air, Lose(f)
    PROVE  ChatInv'
<1> USE DEF ChatInv
<1>1. air' \subseteq air
      /\ UNCHANGED <<g_seq_counter, run, life, up, dedup, forgotten, waiting, looked, sent,
                     arrived, shown>>
  BY DEF Lose, process, node, memory
<1>2. ChatTypes' /\ DownIsIdle' /\ FramesGenuine' /\ LookHolds' /\ RememberedFor'
  BY <1>1 DEF ChatTypes, Total, DownIsIdle, FramesGenuine, Genuine, LookHolds, RememberedFor,
              Accounted
<1> QED
  BY <1>1, <1>2 DEF ShownOnce, ShownUnlessIdShared, OwnNotForwarded

(* Each action of either phone, and each loss, keeps the invariant.        *)
LEMMA ChatInvStep == ChatInv /\ [Next]_vars => ChatInv'
<1> SUFFICES ASSUME ChatInv, [Next]_vars PROVE ChatInv'
  OBVIOUS
<1>1. ASSUME NEW d \in Device, StartNode(d) \/ StopNode(d) \/ KillProcess(d)
      PROVE  ChatInv'
  BY <1>1, StartNodeKeeps, StopKeeps
<1>2. ASSUME NEW d \in Device, NEW text \in Text, SendChat(d, text)
      PROVE  ChatInv'
  BY <1>2, SendChatKeeps
<1>3. ASSUME NEW d \in Device, NEW f \in air, Look(d, f)
      PROVE  ChatInv'
  BY <1>3, LookKeeps
<1>4. ASSUME NEW d \in Device, Process(d)
      PROVE  ChatInv'
  BY <1>4, ProcessKeeps
<1>5. ASSUME NEW d \in Device, NEW f \in waiting[d], ForwardTimer(d, f)
      PROVE  ChatInv'
  BY <1>5, ForwardKeeps
<1>6. ASSUME NEW f \in air, Lose(f)
      PROVE  ChatInv'
  BY <1>6, LoseKeeps
<1>7. CASE UNCHANGED vars
  <2>1. UNCHANGED <<g_seq_counter, run, life, up, dedup, forgotten, waiting, looked, air,
                    sent, arrived, shown>>
    BY <1>7 DEF vars
  <2>2. ChatTypes' /\ DownIsIdle' /\ FramesGenuine' /\ LookHolds' /\ RememberedFor'
    BY <2>1 DEF ChatInv, ChatTypes, Total, DownIsIdle, FramesGenuine, Genuine, LookHolds,
                RememberedFor, Accounted
  <2> QED
    BY <2>1, <2>2 DEF ChatInv, ShownOnce, ShownUnlessIdShared, OwnNotForwarded
<1> QED
  BY <1>1, <1>2, <1>3, <1>4, <1>5, <1>6, <1>7 DEF Next

(* Every behaviour of the two phones keeps the invariant.                  *)
LEMMA ChatInvariance == Spec => []ChatInv
BY ChatInvInit, ChatInvStep, PTL DEF Spec

(* A user sees a message once in a life of the node, and once more at most *)
(* for each time its id was given up: for any texts, ids, capacity and     *)
(* bounds, however many copies come in and whatever is sent between the    *)
(* look into the cache and process_received_frame.                         *)
THEOREM MessagesShownOnce == Spec => []ShownOnce
BY ChatInvariance, PTL DEF ChatInv

(* A message that arrives and shares its id with no other one is shown,    *)
(* whatever the cache has given up meanwhile: no frame is dropped as a     *)
(* duplicate but for a use of its id.                                      *)
THEOREM UniqueMessagesShown == Spec => []ShownUnlessIdShared
BY ChatInvariance, PTL DEF ChatInv

(* A node forwards what it has sent in this life only if it has given the  *)
(* id up, as send_from_node remembers it before the frame leaves           *)
(* (joker_jni.cpp:249).                                                    *)
THEOREM OwnMessagesNotForwarded == Spec => []OwnNotForwarded
BY ChatInvariance, PTL DEF ChatInv

-----------------------------------------------------------------------------
(***************************************************************************)
(* File transfers. The messages of a transfer are under way in the order   *)
(* of their places, so that a chunk comes after META and before DONE       *)
(* unless something is disturbed; what is stored lies in its place.        *)
(***************************************************************************)

Meta == [type : {"FT_META"}, transfer : Theirs, name : FileNames]
Chunk == [type : {"FT_CHUNK"}, transfer : Theirs, index : Nat \ {0}]
Done == [type : {"FT_DONE"}, transfer : Theirs]
FileMessage == Meta \union Chunk \union Done

\* The place of a message in its transfer.
Place(m) ==
    IF m.type = "FT_META" THEN 0
    ELSE IF m.type = "FT_CHUNK" THEN m.index
    ELSE TotalChunks[m.transfer] + 1

\* What may have been put together of a transfer.
Filling(t) ==
    {c \in [1..TotalChunks[t] -> (Theirs \X Nat) \union {Gap}] :
        \A i \in 1..TotalChunks[t] : c[i] = <<t, i>> \/ c[i] = Gap}

(* What the variables range over.                                          *)
FileTypes ==
    /\ sending_step \in [Theirs \union Mine -> Nat]
    /\ to_show \in [Theirs \union Mine -> BOOLEAN]
    /\ messages \in Seq(FileMessage)
    /\ DOMAIN incoming \subseteq Theirs
    /\ incoming = [t \in DOMAIN incoming |-> incoming[t]]
    /\ \A t \in DOMAIN incoming : incoming[t] \in [name : FileNames, chunks : Filling(t)]
    /\ disturbed \in BOOLEAN

(* What is under way has been sent; messages of one transfer are under way *)
(* in their order; the node knows only of those.                           *)
Window ==
    /\ \A k \in 1..Len(messages) : Place(messages[k]) < sending_step[messages[k].transfer]
    /\ \A j, k \in 1..Len(messages) :
         j < k /\ messages[j].transfer = messages[k].transfer
           => Place(messages[j]) < Place(messages[k])
    /\ known \subseteq {messages[k] : k \in 1..Len(messages)}

Pending(t, place) ==
    \E k \in 1..Len(messages) :
        messages[k].transfer = t /\ Place(messages[k]) = place /\ messages[k] \notin known

Got(t, i) == t \in DOMAIN incoming => incoming[t].chunks[i] = <<t, i>>

(* As long as nothing is disturbed: a chunk that was sent is yet to come,  *)
(* or has been stored if its transfer goes on; and if META is yet to come, *)
(* so are all the chunks.                                                  *)
InOrderSoFar ==
    ~ disturbed =>
        \A t \in Theirs : \A i \in 1..TotalChunks[t] :
            i < sending_step[t] =>
                /\ Pending(t, i) \/ Got(t, i)
                /\ Pending(t, 0) => Pending(t, i)

(* Only what this phone sends is shown as being sent, and its coroutine    *)
(* ends with DONE.                                                         *)
SendsMine ==
    /\ active.sending => active.transfer \in Mine
    /\ \A t \in Theirs \union Mine :
         /\ to_show[t] => t \in Mine
         /\ sending_step[t] <= TotalChunks[t] + 2

FilesInv ==
    /\ FileTypes /\ Window /\ InOrderSoFar /\ SendsMine
    /\ FilesAreWhatWasSent /\ BannerIsOfATransfer

(* The fields of a message, and its place.                                 *)
LEMMA MessageFields ==
    ASSUME NEW m \in FileMessage
    PROVE  /\ m.transfer \in Theirs
           /\ Place(m) \in Nat
           /\ m.type = "FT_META" => m.name \in FileNames /\ Place(m) = 0
           /\ m.type = "FT_CHUNK" => m.index \in Nat \ {0} /\ Place(m) = m.index
           /\ m.type = "FT_DONE" => Place(m) = TotalChunks[m.transfer] + 1
<1>1. m.transfer \in Theirs /\ TotalChunks[m.transfer] \in Nat
  BY FilesAssumption DEF FileMessage, Meta, Chunk, Done
<1>2. CASE m \in Meta
  BY <1>1, <1>2 DEF Meta, Place
<1>3. CASE m \in Chunk
  BY <1>1, <1>3 DEF Chunk, Place
<1>4. CASE m \in Done
  BY <1>1, <1>4 DEF Done, Place
<1> QED
  BY <1>2, <1>3, <1>4 DEF FileMessage

(* Before the first transfer nothing is under way, received or shown.      *)
LEMMA FilesInvInit == FilesInit => FilesInv
<1> SUFFICES ASSUME FilesInit PROVE FilesInv
  OBVIOUS
<1>1. FileTypes
  <2>1. << >> \in Seq(FileMessage)
    BY EmptySeq
  <2>2. DOMAIN << >> = {} /\ << >> = [t \in DOMAIN << >> |-> << >>[t]]
    OBVIOUS
  <2>3. /\ sending_step \in [Theirs \union Mine -> Nat]
        /\ to_show \in [Theirs \union Mine -> BOOLEAN]
    BY DEF FilesInit
  <2> QED
    BY <2>1, <2>2, <2>3 DEF FilesInit, FileTypes
<1>2. Window /\ InOrderSoFar
  BY DEF FilesInit, Window, InOrderSoFar
<1>3. SendsMine
  <2>1. active.sending = FALSE
    BY DEF FilesInit, NoTransfer
  <2>2. ASSUME NEW t \in Theirs \union Mine
        PROVE  (to_show[t] => t \in Mine) /\ sending_step[t] <= TotalChunks[t] + 2
    <3>1. TotalChunks[t] \in Nat
      BY FilesAssumption
    <3>2. sending_step[t] = 0
      BY DEF FilesInit
    <3>3. sending_step[t] <= TotalChunks[t] + 2
      BY <3>1, <3>2
    <3>4. to_show[t] => t \in Mine
      BY DEF FilesInit
    <3> QED BY <3>3, <3>4
  <2> QED BY <2>1, <2>2 DEF SendsMine
<1>4. FilesAreWhatWasSent /\ BannerIsOfATransfer
  BY DEF FilesInit, FilesAreWhatWasSent, BannerIsOfATransfer
<1> QED
  BY <1>1, <1>2, <1>3, <1>4 DEF FilesInv

(* The messages under way move up by o places, o being 1 if the first of   *)
(* them has become too old, and the new one is last.                       *)
LEMMA UnderWayAdds ==
    ASSUME messages \in Seq(FileMessage), NEW m \in FileMessage, UnderWay(m)
    PROVE  /\ messages' \in Seq(FileMessage)
           /\ \E o \in {0, 1} :
                /\ Len(messages') = Len(messages) + 1 - o
                /\ \A k \in 1..Len(messages') :
                     \/ k + o \in 1..Len(messages) /\ messages'[k] = messages[k + o]
                     \/ k + o = Len(messages) + 1 /\ messages'[k] = m
                /\ known' \subseteq known
                /\ o = 0 => known' = known
                /\ o = 1 => \E old \in FileMessage :
                     /\ known' = known \ {old}
                     /\ IF Len(messages) = 0 THEN old = m ELSE old = messages[1]
                     /\ ~ disturbed' => old \in known
                /\ ~ disturbed' => ~ disturbed
<1> DEFINE all == Append(messages, m)
           n == Len(messages)
<1>1. /\ all \in Seq(FileMessage) /\ n \in Nat /\ Len(all) = n + 1
      /\ \A k \in 1..n : all[k] = messages[k]
      /\ all[n + 1] = m
  BY AppendProperties, LenProperties
<1>2. all # << >>
  BY <1>1, EmptySeq
<1>3. /\ Head(all) = all[1]
      /\ Tail(all) \in Seq(FileMessage)
      /\ Len(Tail(all)) = n
      /\ \A k \in 1..n : Tail(all)[k] = all[k + 1]
  <2> HIDE DEF all
  <2> QED BY <1>1, <1>2, HeadTailProperties
<1>4. /\ messages' = IF Len(all) > MaxLag THEN Tail(all) ELSE all
      /\ known' = IF Len(all) > MaxLag THEN known \ {Head(all)} ELSE known
      /\ disturbed' = (disturbed \/ (Len(all) > MaxLag /\ Head(all) \notin known))
  BY DEF UnderWay
<1> HIDE DEF all, n
<1>5. CASE Len(all) > MaxLag
  <2>1. /\ Len(messages') = n + 1 - 1
        /\ \A k \in 1..n : \/ k + 1 \in 1..n /\ messages'[k] = messages[k + 1]
                           \/ k + 1 = n + 1 /\ messages'[k] = m
    BY <1>1, <1>3, <1>4, <1>5
  <2>2. /\ Head(all) \in FileMessage
        /\ IF n = 0 THEN Head(all) = m ELSE Head(all) = messages[1]
    BY <1>1, <1>3, ElementOfSeq
  <2>3. known' = known \ {Head(all)} /\ (~ disturbed' => ~ disturbed /\ Head(all) \in known)
    BY <1>4, <1>5
  <2>4. messages' \in Seq(FileMessage) /\ Len(messages') = n
    BY <1>3, <1>4, <1>5
  <2> QED BY <1>1, <2>1, <2>2, <2>3, <2>4 DEF n
<1>6. CASE ~ (Len(all) > MaxLag)
  <2>1. messages' = all /\ known' = known /\ (~ disturbed' => ~ disturbed)
    BY <1>4, <1>6
  <2>2. /\ Len(messages') = n + 1 - 0
        /\ \A k \in 1..Len(messages') :
             \/ k + 0 \in 1..n /\ messages'[k] = messages[k + 0]
             \/ k + 0 = n + 1 /\ messages'[k] = m
    BY <1>1, <2>1
  <2> QED BY <1>1, <2>1, <2>2 DEF n
<1> QED
  BY <1>5, <1>6

(* Sending the next message of a transfer keeps the window in order, and   *)
(* makes the message pending.                                              *)
LEMMA SendKeepsWindow ==
    ASSUME FilesInv, NEW t \in Theirs, NEW m \in FileMessage, m.transfer = t,
           Place(m) = sending_step[t], SendChatMessage(t, m)
    PROVE  /\ messages' \in Seq(FileMessage)
           /\ Window'
           /\ ~ disturbed' => /\ ~ disturbed
                              /\ Pending(t, Place(m))'
                              /\ \A u \in Theirs, i \in Nat : Pending(u, i) => Pending(u, i)'
                              /\ \A u \in Theirs, i \in Nat :
                                   Pending(u, i)' /\ ~ Pending(u, i) => u = t /\ i = Place(m)
<1> USE DEF FilesInv
<1> DEFINE n == Len(messages)
<1>1. /\ messages \in Seq(FileMessage) /\ n \in Nat
      /\ \A k \in 1..n : /\ messages[k] \in FileMessage /\ messages[k].transfer \in Theirs
                         /\ Place(messages[k]) \in Nat
      /\ sending_step \in [Theirs \union Mine -> Nat]
  BY ElementOfSeq, LenProperties, MessageFields DEF FileTypes
<1>2. UnderWay(m) /\ sending_step' = [sending_step EXCEPT ![t] = @ + 1]
  BY DEF SendChatMessage
<1>3. PICK o \in {0, 1} :
        /\ Len(messages') = n + 1 - o
        /\ \A k \in 1..Len(messages') :
             \/ k + o \in 1..n /\ messages'[k] = messages[k + o]
             \/ k + o = n + 1 /\ messages'[k] = m
        /\ known' \subseteq known
        /\ o = 0 => known' = known
        /\ o = 1 => \E old \in FileMessage :
                      /\ known' = known \ {old}
                      /\ IF n = 0 THEN old = m ELSE old = messages[1]
                      /\ ~ disturbed' => old \in known
        /\ ~ disturbed' => ~ disturbed
  BY <1>1, <1>2, UnderWayAdds
<1>4. messages' \in Seq(FileMessage)
  BY <1>1, <1>2, UnderWayAdds
<1>5. \A k \in 1..n : messages[k] # m
  BY <1>1 DEF Window
<1>6. m \notin known
  BY <1>5 DEF Window
<1> HIDE DEF n
<1>7. Window'
  <2>1. \A k \in 1..Len(messages') : Place(messages'[k]) < sending_step'[messages'[k].transfer]
    <3>1. Place(m) < sending_step'[t]
      BY <1>1, <1>2
    <3>2. ASSUME NEW k \in 1..n
          PROVE  Place(messages[k]) < sending_step'[messages[k].transfer]
      <4>1. Place(messages[k]) < sending_step[messages[k].transfer]
        BY DEF Window, n
      <4>2. CASE messages[k].transfer = t
        BY <1>1, <1>2, <4>1, <4>2
      <4>3. CASE messages[k].transfer # t
        BY <1>1, <1>2, <4>1, <4>3
      <4> QED BY <4>2, <4>3
    <3> QED BY <1>3, <3>1, <3>2
  <2>2. ASSUME NEW j \in 1..Len(messages'), NEW k \in 1..Len(messages'), j < k,
               messages'[j].transfer = messages'[k].transfer
        PROVE  Place(messages'[j]) < Place(messages'[k])
    <3>1. j + o \in 1..n /\ messages'[j] = messages[j + o]
      BY <1>1, <1>3, <2>2
    <3>2. CASE k + o \in 1..n /\ messages'[k] = messages[k + o]
      <4>1. j + o < k + o
        BY <1>1, <2>2
      <4> QED BY <2>2, <3>1, <3>2, <4>1 DEF Window, n
    <3>3. CASE k + o = n + 1 /\ messages'[k] = m
      BY <2>2, <3>1, <3>3 DEF Window, n
    <3> QED BY <1>3, <3>2, <3>3
  <2>3. ASSUME NEW x \in known'
        PROVE  \E k \in 1..Len(messages') : messages'[k] = x
    <3>1. PICK k \in 1..n : messages[k] = x
      BY <1>3 DEF Window, n
    <3>2. o = 1 => k # 1
      BY <1>3, <3>1
    <3>3. k - o \in 1..Len(messages') /\ (k - o) + o = k
      BY <1>1, <1>3, <3>2
    <3>4. messages'[k - o] = messages[k]
      BY <1>1, <1>3, <3>1, <3>3
    <3> QED BY <3>1, <3>3, <3>4
  <2> QED BY <2>1, <2>2, <2>3 DEF Window
<1>8. ASSUME ~ disturbed'
      PROVE  /\ Pending(t, Place(m))'
             /\ \A u \in Theirs, i \in Nat : Pending(u, i) => Pending(u, i)'
             /\ \A u \in Theirs, i \in Nat :
                  Pending(u, i)' /\ ~ Pending(u, i) => u = t /\ i = Place(m)
  <2>1. \A x : x \in known' => x \in known
    BY <1>3
  <2>2. o = 1 => n # 0 /\ messages[1] \in known
    BY <1>3, <1>6, <1>8
  <2>3. n + 1 - o \in 1..Len(messages') /\ messages'[n + 1 - o] = m
    BY <1>1, <1>3, <2>2
  <2>4. Pending(t, Place(m))'
    BY <1>6, <2>1, <2>3 DEF Pending
  <2>5. ASSUME NEW u \in Theirs, NEW i \in Nat, Pending(u, i)
        PROVE  Pending(u, i)'
    <3>1. PICK k \in 1..n : /\ messages[k].transfer = u /\ Place(messages[k]) = i
                            /\ messages[k] \notin known
      BY <2>5 DEF Pending, n
    <3>2. o = 1 => k # 1
      BY <2>2, <3>1
    <3>3. k - o \in 1..Len(messages') /\ (k - o) + o = k /\ k # n + 1
      BY <1>1, <1>3, <3>2
    <3>4. messages'[k - o] = messages[k]
      BY <1>3, <3>3
    <3> QED BY <2>1, <3>1, <3>3, <3>4 DEF Pending
  <2>6. ASSUME NEW u \in Theirs, NEW i \in Nat, Pending(u, i)', ~ Pending(u, i)
        PROVE  u = t /\ i = Place(m)
    <3>1. PICK k \in 1..Len(messages') : /\ messages'[k].transfer = u
                                         /\ Place(messages'[k]) = i
                                         /\ messages'[k] \notin known'
      BY <2>6 DEF Pending
    <3>2. CASE messages'[k] = m
      BY <3>1, <3>2
    <3>3. CASE k + o \in 1..n /\ messages'[k] = messages[k + o]
      <4>1. messages[k + o] \in known
        BY <2>6, <3>1, <3>3 DEF Pending, n
      <4>2. o = 1 /\ messages[k + o] = messages[1]
        BY <1>3, <2>2, <3>1, <3>3, <4>1
      <4>3. k + o # 1 /\ 1 \in 1..n /\ 1 < k + o
        BY <1>1, <1>3, <3>3, <4>2
      <4>4. Place(messages[1]) < Place(messages[k + o])
        BY <3>3, <4>2, <4>3 DEF Window, n
      <4> QED BY <1>1, <3>3, <4>2, <4>4
    <3> QED BY <1>3, <3>2, <3>3
  <2> QED BY <2>4, <2>5, <2>6
<1> QED
  BY <1>3, <1>4, <1>7, <1>8

(* What a send leaves alone, with what the banner then shows.              *)
LEMMA SendKeeps ==
    ASSUME FilesInv, NEW t \in Theirs, SendMeta(t) \/ SendChunk(t) \/ SendDone(t)
    PROVE  FilesInv'
<1> USE DEF FilesInv
<1>0. t \notin Mine /\ TotalChunks[t] \in Nat /\ sending_step[t] \in Nat
  BY FilesAssumption DEF FileTypes
<1>1. PICK m \in FileMessage : /\ m.transfer = t /\ Place(m) = sending_step[t]
                               /\ SendChatMessage(t, m)
  <2>1. CASE SendMeta(t)
    <3>1. PICK name \in FileNames :
            SendChatMessage(t, [type |-> "FT_META", transfer |-> t, name |-> name])
      BY <2>1 DEF SendMeta
    <3>2. /\ [type |-> "FT_META", transfer |-> t, name |-> name] \in FileMessage
          /\ Place([type |-> "FT_META", transfer |-> t, name |-> name]) = sending_step[t]
      BY <2>1 DEF SendMeta, FileMessage, Meta, Place
    <3> QED BY <3>1, <3>2
  <2>2. CASE SendChunk(t)
    <3>1. SendChatMessage(t, [type |-> "FT_CHUNK", transfer |-> t, index |-> sending_step[t]])
      BY <2>2 DEF SendChunk
    <3>2. /\ [type |-> "FT_CHUNK", transfer |-> t, index |-> sending_step[t]] \in FileMessage
          /\ Place([type |-> "FT_CHUNK", transfer |-> t, index |-> sending_step[t]])
               = sending_step[t]
      BY <1>0, <2>2 DEF SendChunk, FileMessage, Chunk, Place
    <3> QED BY <3>1, <3>2
  <2>3. CASE SendDone(t)
    <3>1. SendChatMessage(t, [type |-> "FT_DONE", transfer |-> t])
      BY <2>3 DEF SendDone
    <3>2. /\ [type |-> "FT_DONE", transfer |-> t] \in FileMessage
          /\ Place([type |-> "FT_DONE", transfer |-> t]) = sending_step[t]
      BY <2>3 DEF SendDone, FileMessage, Done, Place
    <3> QED BY <3>1, <3>2
  <2> QED BY <2>1, <2>2, <2>3
<1>2. /\ sending_step' = [sending_step EXCEPT ![t] = @ + 1] /\ UnderWay(m)
      /\ UNCHANGED <<incoming, active, files, items>>
      /\ to_show' = to_show \/ to_show' = [to_show EXCEPT ![t] = FALSE]
      /\ sending_step[t] <= TotalChunks[t] + 1
  <2>1. /\ sending_step' = [sending_step EXCEPT ![t] = @ + 1] /\ UnderWay(m)
        /\ UNCHANGED <<incoming, active, files, items>>
    BY <1>0, <1>1 DEF SendChatMessage
  <2>2. to_show' = to_show \/ to_show' = [to_show EXCEPT ![t] = FALSE]
    <3>1. (t \in Mine) = FALSE
      BY <1>0
    <3>2. to_show' = to_show \/ to_show' = [to_show EXCEPT ![t] = t \in Mine]
      BY DEF SendMeta, SendChunk, SendDone
    <3> QED BY <3>1, <3>2
  <2>3. sending_step[t] <= TotalChunks[t] + 1
    <3>1. CASE SendMeta(t)
      BY <1>0, <3>1 DEF SendMeta
    <3>2. CASE SendChunk(t)
      <4>1. sending_step[t] \in 1..TotalChunks[t]
        BY <3>2 DEF SendChunk
      <4> QED BY <1>0, <4>1
    <3>3. CASE SendDone(t)
      <4>1. sending_step[t] = TotalChunks[t] + 1
        BY <3>3 DEF SendDone
      <4> QED BY <1>0, <4>1
    <3> QED BY <3>1, <3>2, <3>3
  <2> QED BY <2>1, <2>2, <2>3
<1>3. /\ messages' \in Seq(FileMessage)
      /\ Window'
      /\ ~ disturbed' =>
           /\ ~ disturbed
           /\ Pending(t, Place(m))'
           /\ \A u \in Theirs, i \in Nat : Pending(u, i) => Pending(u, i)'
           /\ \A u \in Theirs, i \in Nat :
                Pending(u, i)' /\ ~ Pending(u, i) => u = t /\ i = Place(m)
  BY <1>1, SendKeepsWindow
<1>4. disturbed' \in BOOLEAN /\ (disturbed => disturbed')
  BY <1>2 DEF FileTypes, UnderWay
<1>5. FileTypes'
  <2>1. to_show' \in [Theirs \union Mine -> BOOLEAN]
    BY <1>2 DEF FileTypes
  <2>2. sending_step' \in [Theirs \union Mine -> Nat]
    BY <1>2 DEF FileTypes
  <2> QED BY <1>2, <1>3, <1>4, <2>1, <2>2 DEF FileTypes
<1>6. InOrderSoFar'
  <2> SUFFICES ASSUME ~ disturbed', NEW u \in Theirs, NEW i \in 1..TotalChunks[u],
                      i < sending_step'[u]
               PROVE  /\ Pending(u, i)' \/ Got(u, i)'
                      /\ Pending(u, 0)' => Pending(u, i)'
    BY DEF InOrderSoFar
  <2>0. i \in Nat \ {0} /\ 0 \in Nat
    BY FilesAssumption
  <2>1. CASE u = t /\ i = Place(m)
    BY <1>3, <2>1
  <2>2. CASE ~ (u = t /\ i = Place(m))
    <3>1. i < sending_step[u]
      BY <1>0, <1>1, <1>2, <2>0, <2>2 DEF FileTypes
    <3>2. Pending(u, i) \/ Got(u, i)
      BY <1>3, <3>1 DEF InOrderSoFar
    <3>3. Pending(u, 0)' => Pending(u, 0)
      BY <1>0, <1>1, <1>3, <2>0, <3>1
    <3>4. Got(u, i)' <=> Got(u, i)
      BY <1>2 DEF Got
    <3> QED BY <1>3, <2>0, <3>1, <3>2, <3>3, <3>4 DEF InOrderSoFar
  <2> QED BY <2>1, <2>2
<1>7. FilesAreWhatWasSent'
  BY <1>2, <1>4 DEF FilesAreWhatWasSent
<1>8. SendsMine' /\ BannerIsOfATransfer'
  <2>1. \A u \in (Theirs \union Mine) \ {t} :
          to_show'[u] = to_show[u] /\ sending_step'[u] = sending_step[u]
    BY <1>2 DEF FileTypes
  <2>2. sending_step'[t] <= TotalChunks[t] + 2 /\ (to_show'[t] => to_show[t])
    BY <1>0, <1>2 DEF FileTypes
  <2> QED BY <1>0, <1>2, <2>1, <2>2 DEF BannerIsOfATransfer, SendsMine
<1> QED
  BY <1>3, <1>5, <1>6, <1>7, <1>8

(* What this phone sends is not for itself, and changes nothing but the    *)
(* banner: before META, after a chunk and after DONE.                      *)
LEMMA SendMineKeeps ==
    ASSUME FilesInv, NEW t \in Mine, SendMeta(t) \/ SendChunk(t) \/ SendDone(t)
    PROVE  FilesInv'
<1> USE DEF FilesInv
<1>0. t \notin Theirs /\ TotalChunks[t] \in Nat /\ sending_step[t] \in Nat
  BY FilesAssumption DEF FileTypes
<1>1. /\ sending_step' = [sending_step EXCEPT ![t] = @ + 1]
      /\ UNCHANGED <<messages, known, disturbed, incoming, active, files, items>>
  BY <1>0 DEF SendMeta, SendChunk, SendDone, SendChatMessage
<1>2. /\ to_show' = to_show \/ to_show' = [to_show EXCEPT ![t] = TRUE]
      /\ sending_step[t] <= TotalChunks[t] + 1
      /\ sending_step[t] = TotalChunks[t] + 1 => to_show' = [to_show EXCEPT ![t] = TRUE]
  <2>1. CASE SendMeta(t)
    BY <1>0, <2>1 DEF SendMeta
  <2>2. CASE SendChunk(t)
    <3>1. to_show' = [to_show EXCEPT ![t] = TRUE] /\ sending_step[t] \in 1..TotalChunks[t]
      BY <2>2 DEF SendChunk
    <3> HIDE DEF FilesInv
    <3> QED BY <1>0, <3>1
  <2>3. CASE SendDone(t)
    <3>1. to_show' = [to_show EXCEPT ![t] = TRUE] /\ sending_step[t] = TotalChunks[t] + 1
      BY <2>3 DEF SendDone
    <3> HIDE DEF FilesInv
    <3> QED BY <1>0, <3>1
  <2> QED BY <2>1, <2>2, <2>3
<1>3. \A u \in (Theirs \union Mine) \ {t} :
        to_show'[u] = to_show[u] /\ sending_step'[u] = sending_step[u]
  BY <1>1, <1>2 DEF FileTypes
<1>4. FileTypes'
  <2>1. to_show' \in [Theirs \union Mine -> BOOLEAN]
    BY <1>2 DEF FileTypes
  <2>2. sending_step' \in [Theirs \union Mine -> Nat]
    BY <1>1 DEF FileTypes
  <2> QED BY <1>1, <2>1, <2>2 DEF FileTypes
<1>5. \A k \in 1..Len(messages) : messages[k].transfer \in Theirs
  BY ElementOfSeq, MessageFields DEF FileTypes
<1>6. Window'
  BY <1>0, <1>1, <1>3, <1>5 DEF Window
<1>7. InOrderSoFar'
  BY <1>0, <1>1, <1>3 DEF InOrderSoFar, Pending, Got
<1>8. FilesAreWhatWasSent'
  BY <1>1 DEF FilesAreWhatWasSent
<1>9. SendsMine' /\ BannerIsOfATransfer'
  <2>1. /\ sending_step'[t] <= TotalChunks[t] + 2
        /\ sending_step'[t] <= TotalChunks[t] + 1 \/ to_show'[t]
    BY <1>0, <1>1, <1>2 DEF FileTypes
  <2> QED BY <1>1, <1>3, <2>1 DEF BannerIsOfATransfer, SendsMine
<1> QED
  BY <1>4, <1>6, <1>7, <1>8, <1>9

(* The coroutine sets the banner, or takes it away once DONE is sent.      *)
LEMMA ShowKeeps ==
    ASSUME FilesInv, NEW t \in Theirs \union Mine, ShowTransfer(t)
    PROVE  FilesInv'
<1> USE DEF FilesInv
<1>0. t \in Mine /\ TotalChunks[t] \in Nat /\ sending_step[t] \in Nat
  BY FilesAssumption DEF FileTypes, ShowTransfer, SendsMine
<1>1. /\ to_show' = [to_show EXCEPT ![t] = FALSE]
      /\ UNCHANGED <<sending_step, messages, known, incoming, files, items, disturbed>>
      /\ \/ active' = NoTransfer
         \/ /\ active' = [transfer |-> t, sending |-> TRUE]
            /\ sending_step[t] # TotalChunks[t] + 2
  BY DEF ShowTransfer
<1>2. FileTypes' /\ Window' /\ InOrderSoFar' /\ FilesAreWhatWasSent'
  BY <1>1 DEF FileTypes, Window, InOrderSoFar, Pending, Got, FilesAreWhatWasSent
<1>3. SendsMine'
  BY <1>0, <1>1 DEF SendsMine, FileTypes, NoTransfer
<1>4. BannerIsOfATransfer'
  BY <1>0, <1>1 DEF BannerIsOfATransfer, SendsMine, FileTypes, NoTransfer
<1> QED
  BY <1>2, <1>3, <1>4

(* A message comes in.  If nothing is disturbed by that, no message of its *)
(* transfer that was sent before it is still to come.                      *)
LEMMA ArrivalKeeps ==
    ASSUME FilesInv, NEW k \in 1..Len(messages), NEW type, Arrives(k, type)
    PROVE  /\ messages[k] \in FileMessage /\ messages[k].type = type
           /\ UNCHANGED <<sending_step, to_show, messages>>
           /\ Window'
           /\ disturbed' \in BOOLEAN /\ (disturbed => disturbed')
           /\ Place(messages[k]) < sending_step[messages[k].transfer]
           /\ \A u, i : Pending(u, i)' => Pending(u, i)
           /\ \A u, i : /\ Pending(u, i)
                        /\ ~ (u = messages[k].transfer /\ i = Place(messages[k]))
                        => Pending(u, i)'
           /\ ~ disturbed' =>
                \A i \in Nat : i < Place(messages[k]) => ~ Pending(messages[k].transfer, i)
<1> USE DEF FilesInv
<1>1. /\ messages \in Seq(FileMessage) /\ Len(messages) \in Nat
      /\ \A j \in 1..Len(messages) : messages[j] \in FileMessage /\ Place(messages[j]) \in Nat
  BY ElementOfSeq, LenProperties, MessageFields DEF FileTypes
<1>2. /\ messages[k] \notin known /\ messages[k].type = type
      /\ known' = known \union {messages[k]}
      /\ disturbed' = (disturbed \/ \E j \in 1..(k - 1) : messages[j] \notin known)
      /\ UNCHANGED <<sending_step, to_show, messages>>
  BY DEF Arrives
<1>3. Window'
  BY <1>2 DEF Window
<1>4. disturbed' \in BOOLEAN /\ (disturbed => disturbed')
  BY <1>2 DEF FileTypes
<1>5. \A u, i : Pending(u, i)' => Pending(u, i)
  BY <1>2 DEF Pending
<1>6. \A u, i : /\ Pending(u, i)
                /\ ~ (u = messages[k].transfer /\ i = Place(messages[k]))
                => Pending(u, i)'
  BY <1>2 DEF Pending
<1>7. ASSUME ~ disturbed', NEW i \in Nat, i < Place(messages[k]),
             Pending(messages[k].transfer, i)
      PROVE  FALSE
  <2>1. PICK j \in 1..Len(messages) : /\ messages[j].transfer = messages[k].transfer
                                      /\ Place(messages[j]) = i
                                      /\ messages[j] \notin known
    BY <1>7 DEF Pending
  <2>2. ~ (k < j) /\ j # k
    BY <1>1, <1>7, <2>1 DEF Window
  <2>3. j \in 1..(k - 1)
    BY <1>1, <2>2
  <2> QED BY <1>2, <1>7, <2>1, <2>3
<1> QED
  BY <1>1, <1>2, <1>3, <1>4, <1>5, <1>6, <1>7 DEF Window

(* META comes before the chunks, unless something is disturbed.            *)
LEMMA ReceiveMetaKeeps ==
    ASSUME FilesInv, NEW k \in DOMAIN messages, ReceiveMeta(k)
    PROVE  FilesInv'
<1> USE DEF FilesInv
<1>0. k \in 1..Len(messages) /\ Arrives(k, "FT_META")
  BY LenProperties DEF ReceiveMeta, FileTypes
<1> DEFINE m == messages[k]
<1>t. PICK t : t = m.transfer
  OBVIOUS
<1>1. /\ m \in FileMessage /\ m.type = "FT_META"
      /\ UNCHANGED <<sending_step, to_show, messages>>
      /\ Window'
      /\ disturbed' \in BOOLEAN /\ (disturbed => disturbed')
      /\ Place(m) < sending_step[m.transfer]
      /\ \A u, i : Pending(u, i)' => Pending(u, i)
      /\ \A u, i : Pending(u, i) /\ ~ (u = m.transfer /\ i = Place(m)) => Pending(u, i)'
  BY <1>0, ArrivalKeeps
<1>2. t \in Theirs /\ m.name \in FileNames /\ Place(m) = 0 /\ TotalChunks[t] \in Nat
  BY <1>t, <1>1, MessageFields, FilesAssumption
<1>3. Pending(t, 0)
  BY <1>0, <1>2, <1>t DEF Arrives, Pending
<1>4. /\ incoming' = With(incoming, t, [name |-> m.name, chunks |-> NoChunks(t)])
      /\ active' = [transfer |-> t, sending |-> FALSE]
      /\ UNCHANGED <<files, items>>
  BY <1>t DEF ReceiveMeta
<1>5. NoChunks(t) \in Filling(t)
  BY DEF NoChunks, Filling
<1>6. /\ DOMAIN incoming' = DOMAIN incoming \union {t}
      /\ incoming'[t] = [name |-> m.name, chunks |-> NoChunks(t)]
      /\ \A u \in DOMAIN incoming \ {t} : incoming'[u] = incoming[u]
      /\ incoming' = [u \in DOMAIN incoming' |-> incoming'[u]]
  BY <1>4 DEF With
<1> HIDE DEF m
<1>7. FileTypes'
  <2>1. incoming'[t] \in [name : FileNames, chunks : Filling(t)]
    BY <1>2, <1>5, <1>6
  <2> QED BY <1>1, <1>2, <1>6, <2>1 DEF FileTypes
<1>8. InOrderSoFar'
  <2> SUFFICES ASSUME ~ disturbed', NEW u \in Theirs, NEW i \in 1..TotalChunks[u],
                      i < sending_step[u]
               PROVE  /\ Pending(u, i)' \/ Got(u, i)'
                      /\ Pending(u, 0)' => Pending(u, i)'
    BY <1>1 DEF InOrderSoFar
  <2>1. i \in Nat \ {0} /\ i # Place(m)
    BY <1>2, FilesAssumption
  <2>2. Pending(u, i) => Pending(u, i)'
    BY <1>1, <2>1
  <2>3. CASE u = t
    BY <1>1, <1>3, <2>2, <2>3 DEF InOrderSoFar
  <2>4. CASE u # t
    <3>1. Got(u, i) => Got(u, i)'
      BY <1>6, <2>4 DEF Got
    <3> QED BY <1>1, <2>2, <3>1 DEF InOrderSoFar
  <2> QED BY <2>3, <2>4
<1>9. SendsMine' /\ FilesAreWhatWasSent'
  BY <1>1, <1>4 DEF SendsMine, FilesAreWhatWasSent
<1>10. BannerIsOfATransfer'
  BY <1>4, <1>6 DEF BannerIsOfATransfer
<1> QED
  BY <1>1, <1>7, <1>8, <1>9, <1>10

(* A chunk is stored in its place, unless its transfer does not go on.     *)
LEMMA ReceiveChunkKeeps ==
    ASSUME FilesInv, NEW k \in DOMAIN messages, ReceiveChunk(k)
    PROVE  FilesInv'
<1> USE DEF FilesInv
<1>0. k \in 1..Len(messages) /\ Arrives(k, "FT_CHUNK")
  BY LenProperties DEF ReceiveChunk, FileTypes
<1> DEFINE m == messages[k]
<1>t. PICK t, n : t = m.transfer /\ n = m.index
  OBVIOUS
<1>1. /\ m \in FileMessage /\ m.type = "FT_CHUNK"
      /\ UNCHANGED <<sending_step, to_show, messages>>
      /\ Window'
      /\ disturbed' \in BOOLEAN /\ (disturbed => disturbed')
      /\ \A u, i : Pending(u, i)' => Pending(u, i)
      /\ \A u, i : Pending(u, i) /\ ~ (u = m.transfer /\ i = Place(m)) => Pending(u, i)'
      /\ ~ disturbed' => \A i \in Nat : i < Place(m) => ~ Pending(m.transfer, i)
  BY <1>0, ArrivalKeeps
<1>2. t \in Theirs /\ n \in Nat \ {0} /\ Place(m) = n /\ TotalChunks[t] \in Nat
  BY <1>t, <1>1, MessageFields, FilesAssumption
<1>3. /\ UNCHANGED <<files, items>>
      /\ \/ /\ t \in DOMAIN incoming
            /\ incoming' = [incoming EXCEPT ![t].chunks[n] = <<t, n>>]
            /\ active' = [transfer |-> t, sending |-> FALSE]
         \/ t \notin DOMAIN incoming /\ UNCHANGED <<incoming, active>>
  BY <1>t DEF ReceiveChunk, StoreChunk
<1>4. /\ DOMAIN incoming' = DOMAIN incoming
      /\ incoming' = [u \in DOMAIN incoming' |-> incoming'[u]]
      /\ \A u \in DOMAIN incoming \ {t} : incoming'[u] = incoming[u]
      /\ t \in DOMAIN incoming =>
           /\ incoming'[t] \in [name : FileNames, chunks : Filling(t)]
           /\ n \in 1..TotalChunks[t] => incoming'[t].chunks[n] = <<t, n>>
           /\ \A i \in 1..TotalChunks[t] : i # n =>
                incoming'[t].chunks[i] = incoming[t].chunks[i]
  <2>1. CASE t \notin DOMAIN incoming
    BY <1>3, <2>1 DEF FileTypes
  <2>2. CASE t \in DOMAIN incoming
    <3>1. incoming' = [incoming EXCEPT ![t] =
                         [incoming[t] EXCEPT !.chunks =
                            [incoming[t].chunks EXCEPT ![n] = <<t, n>>]]]
      BY <1>3, <2>2, Zenon
    <3>2. incoming[t] \in [name : FileNames, chunks : Filling(t)]
      BY <2>2 DEF FileTypes
    <3> DEFINE c == [incoming[t].chunks EXCEPT ![n] = <<t, n>>]
    <3>3. incoming[t].chunks \in Filling(t)
      BY <3>2
    <3>4. /\ c \in Filling(t)
          /\ n \in 1..TotalChunks[t] => c[n] = <<t, n>>
          /\ \A i \in 1..TotalChunks[t] : i # n => c[i] = incoming[t].chunks[i]
      BY <1>2, <3>3 DEF Filling
    <3>5. /\ DOMAIN incoming' = DOMAIN incoming
          /\ incoming' = [u \in DOMAIN incoming' |-> incoming'[u]]
          /\ \A u \in DOMAIN incoming \ {t} : incoming'[u] = incoming[u]
          /\ incoming'[t] = [incoming[t] EXCEPT !.chunks = c]
      BY <2>2, <3>1 DEF FileTypes
    <3>6. /\ incoming'[t] \in [name : FileNames, chunks : Filling(t)]
          /\ incoming'[t].chunks = c
      <4> HIDE DEF c
      <4> QED BY <3>2, <3>4, <3>5
    <3> HIDE DEF c
    <3> QED BY <2>2, <3>4, <3>5, <3>6
  <2> QED BY <2>1, <2>2
<1> HIDE DEF m
<1>5. FileTypes'
  BY <1>1, <1>4 DEF FileTypes
<1>6. InOrderSoFar'
  <2> SUFFICES ASSUME ~ disturbed', NEW u \in Theirs, NEW i \in 1..TotalChunks[u],
                      i < sending_step[u]
               PROVE  /\ Pending(u, i)' \/ Got(u, i)'
                      /\ Pending(u, 0)' => Pending(u, i)'
    BY <1>1 DEF InOrderSoFar
  <2>1. CASE u = t /\ i = n
    <3>1. ~ Pending(t, 0)
      BY <1>1, <1>2, <1>t
    <3> QED BY <1>1, <1>4, <2>1, <3>1 DEF Got
  <2>2. CASE ~ (u = t /\ i = n)
    <3>1. Pending(u, i) => Pending(u, i)'
      BY <1>1, <1>2, <1>t, <2>2
    <3>2. Got(u, i) => Got(u, i)'
      BY <1>4, <2>2 DEF Got
    <3> QED BY <1>1, <3>1, <3>2 DEF InOrderSoFar
  <2> QED BY <2>1, <2>2
<1>7. SendsMine' /\ FilesAreWhatWasSent'
  BY <1>1, <1>3 DEF SendsMine, FilesAreWhatWasSent
<1>8. BannerIsOfATransfer'
  BY <1>1, <1>3, <1>4 DEF BannerIsOfATransfer
<1> QED
  BY <1>1, <1>5, <1>6, <1>7, <1>8

(* DONE comes last, unless something is disturbed.                         *)
LEMMA ReceiveDoneKeeps ==
    ASSUME FilesInv, NEW k \in DOMAIN messages, ReceiveDone(k)
    PROVE  FilesInv'
<1> USE DEF FilesInv
<1>0. k \in 1..Len(messages) /\ Arrives(k, "FT_DONE")
  BY LenProperties DEF ReceiveDone, FileTypes
<1> DEFINE m == messages[k]
<1>t. PICK t : t = m.transfer
  OBVIOUS
<1>1. /\ m \in FileMessage /\ m.type = "FT_DONE"
      /\ UNCHANGED <<sending_step, to_show, messages>>
      /\ Window'
      /\ disturbed' \in BOOLEAN /\ (disturbed => disturbed')
      /\ Place(m) < sending_step[m.transfer]
      /\ \A u, i : Pending(u, i)' => Pending(u, i)
      /\ \A u, i : Pending(u, i) /\ ~ (u = m.transfer /\ i = Place(m)) => Pending(u, i)'
      /\ ~ disturbed' => \A i \in Nat : i < Place(m) => ~ Pending(m.transfer, i)
  BY <1>0, ArrivalKeeps
<1>2. t \in Theirs /\ TotalChunks[t] \in Nat /\ Place(m) = TotalChunks[t] + 1
      /\ sending_step[t] \in Nat
  BY <1>t, <1>1, MessageFields, FilesAssumption DEF FileTypes
<1>3. /\ active' = NoTransfer /\ incoming' = Without(incoming, t)
      /\ \/ /\ t \in DOMAIN incoming
            /\ files' = With(files, incoming[t].name, incoming[t].chunks)
            /\ items' = items \union {[transfer |-> t, name |-> incoming[t].name]}
         \/ t \notin DOMAIN incoming /\ UNCHANGED <<files, items>>
  BY <1>t DEF ReceiveDone
<1>4. /\ DOMAIN incoming' = DOMAIN incoming \ {t}
      /\ \A u \in DOMAIN incoming' : incoming'[u] = incoming[u]
      /\ incoming' = [u \in DOMAIN incoming' |-> incoming'[u]]
  BY <1>3 DEF Without
<1> HIDE DEF m
<1>5. FileTypes'
  BY <1>1, <1>4 DEF FileTypes
<1>6. InOrderSoFar'
  <2> SUFFICES ASSUME ~ disturbed', NEW u \in Theirs, NEW i \in 1..TotalChunks[u],
                      i < sending_step[u]
               PROVE  /\ Pending(u, i)' \/ Got(u, i)'
                      /\ Pending(u, 0)' => Pending(u, i)'
    BY <1>1 DEF InOrderSoFar
  <2>1. ~ (u = t /\ i = Place(m))
    BY <1>2
  <2>2. Pending(u, i) => Pending(u, i)'
    BY <1>1, <1>t, <2>1
  <2>3. Got(u, i) => Got(u, i)'
    BY <1>4 DEF Got
  <2> QED BY <1>1, <2>2, <2>3 DEF InOrderSoFar
<1>7. ASSUME t \in DOMAIN incoming, NEW i \in 1..TotalChunks[t]
      PROVE  \/ incoming[t].chunks[i] = <<t, i>>
             \/ incoming[t].chunks[i] = Gap /\ disturbed'
  <2>1. incoming[t].chunks[i] = <<t, i>> \/ incoming[t].chunks[i] = Gap
    BY <1>7 DEF FileTypes, Filling
  <2>2. CASE ~ disturbed'
    <3>1. i \in Nat /\ i < Place(m) /\ i < sending_step[t]
      BY <1>1, <1>2, <1>t
    <3>2. ~ Pending(t, i)
      BY <1>1, <1>t, <2>2, <3>1
    <3> QED BY <1>1, <1>2, <1>7, <2>2, <3>1, <3>2 DEF InOrderSoFar, Got
  <2> QED BY <1>1, <2>1, <2>2
<1>8. FilesAreWhatWasSent'
  <2>1. CASE t \notin DOMAIN incoming
    BY <1>1, <1>3, <2>1 DEF FilesAreWhatWasSent
  <2>2. CASE t \in DOMAIN incoming
    <3>0. PICK name, chunks : name = incoming[t].name /\ chunks = incoming[t].chunks
      OBVIOUS
    <3>1. DOMAIN chunks = 1..TotalChunks[t]
      BY <2>2, <3>0 DEF FileTypes, Filling
    <3>2. files' = With(files, name, chunks)
          /\ items' = items \union {[transfer |-> t, name |-> name]}
      BY <1>3, <2>2, <3>0
    <3>3. /\ DOMAIN files' = DOMAIN files \union {name} /\ files'[name] = chunks
          /\ \A x \in DOMAIN files \ {name} : files'[x] = files[x]
      BY <3>2 DEF With
    <3>4. ASSUME NEW x \in DOMAIN files'
          PROVE  \E item \in items' :
                   /\ item.name = x
                   /\ DOMAIN files'[x] = 1..TotalChunks[item.transfer]
                   /\ \A i \in DOMAIN files'[x] :
                        \/ files'[x][i] = <<item.transfer, i>>
                        \/ files'[x][i] = Gap /\ disturbed'
      <4>1. CASE x = name
        <5> DEFINE item == [transfer |-> t, name |-> name]
        <5>1. item \in items' /\ item.name = x /\ item.transfer = t
          BY <3>2, <4>1
        <5>2. ASSUME NEW i \in DOMAIN files'[x]
              PROVE  \/ files'[x][i] = <<t, i>>
                     \/ files'[x][i] = Gap /\ disturbed'
          BY <1>7, <2>2, <3>0, <3>1, <3>3, <4>1, <5>2
        <5> HIDE DEF item
        <5> QED BY <3>1, <3>3, <4>1, <5>1, <5>2
      <4>2. CASE x # name
        <5>1. x \in DOMAIN files /\ files'[x] = files[x]
          BY <3>3, <3>4, <4>2
        <5> QED BY <1>1, <3>2, <5>1 DEF FilesAreWhatWasSent
      <4> QED BY <4>1, <4>2
    <3> QED BY <3>4 DEF FilesAreWhatWasSent
  <2> QED BY <2>1, <2>2
<1>9. SendsMine' /\ BannerIsOfATransfer'
  BY <1>1, <1>3 DEF SendsMine, BannerIsOfATransfer, NoTransfer
<1> QED
  BY <1>1, <1>5, <1>6, <1>8, <1>9

(* Each message sent, delayed, lost or received keeps the invariant.       *)
LEMMA FilesInvStep == FilesInv /\ [FilesNext]_fileVars => FilesInv'
<1> SUFFICES ASSUME FilesInv, [FilesNext]_fileVars PROVE FilesInv'
  OBVIOUS
<1>1. ASSUME NEW t \in Theirs, SendMeta(t) \/ SendChunk(t) \/ SendDone(t)
      PROVE  FilesInv'
  BY <1>1, SendKeeps
<1>2. ASSUME NEW t \in Mine, SendMeta(t) \/ SendChunk(t) \/ SendDone(t)
      PROVE  FilesInv'
  BY <1>2, SendMineKeeps
<1>8. ASSUME NEW t \in Theirs \union Mine, ShowTransfer(t)
      PROVE  FilesInv'
  BY <1>8, ShowKeeps
<1>3. ASSUME NEW k \in DOMAIN messages, ReceiveMeta(k)
      PROVE  FilesInv'
  BY <1>3, ReceiveMetaKeeps
<1>4. ASSUME NEW k \in DOMAIN messages, ReceiveChunk(k)
      PROVE  FilesInv'
  BY <1>4, ReceiveChunkKeeps
<1>5. ASSUME NEW k \in DOMAIN messages, ReceiveDone(k)
      PROVE  FilesInv'
  BY <1>5, ReceiveDoneKeeps
<1>6. CASE RestartNode
  BY <1>6 DEF RestartNode, FilesInv, FileTypes, Window, InOrderSoFar, SendsMine,
     FilesAreWhatWasSent, BannerIsOfATransfer
<1>7. CASE UNCHANGED fileVars
  BY <1>7 DEF fileVars, FilesInv, FileTypes, Window, InOrderSoFar, Pending, Got, SendsMine,
     FilesAreWhatWasSent, BannerIsOfATransfer
<1> QED
  BY <1>1, <1>2, <1>3, <1>4, <1>5, <1>6, <1>7, <1>8 DEF FilesNext

(* Whatever is sent and in whatever order within the lag it arrives, the   *)
(* invariant of the transfers holds.                                       *)
LEMMA FilesInvariance == FilesSpec => []FilesInv
BY FilesInvInit, FilesInvStep, PTL DEF FilesSpec

(* What is stored under a name is one transfer's that the chat has an item *)
(* of, chunk by chunk; a gap needs a loss, an overtaking or a restart.     *)
(* For any transfers, sizes and lag.                                       *)
THEOREM ReceivedAsSent == FilesSpec => []FilesAreWhatWasSent
BY FilesInvariance, PTL DEF FilesInv

(* The banner never shows a transfer that has ended, whichever of the      *)
(* sending coroutines and the receive thread wrote it last.                *)
THEOREM BannerShowsATransfer == FilesSpec => []BannerIsOfATransfer
BY FilesInvariance, PTL DEF FilesInv
=============================================================================
