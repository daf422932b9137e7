-------------------------- MODULE WiFiDirectProofs --------------------------
(***************************************************************************)
(* An attempt to connect is only ever ended by its own time-out, and once  *)
(* everything has arrived the screen tells the truth about the connection. *)
(***************************************************************************)
EXTENDS WiFiDirect, TLAPS

(* At the start no attempt runs and no runnable is posted.                 *)
LEMMA TimeoutInit == WiFiInit => TimeoutIsOfThisAttempt
BY DEF WiFiInit, TimeoutIsOfThisAttempt

(* Releasing the lock removes whatever is posted.                          *)
LEMMA UnlockKeeps == Unlock => TimeoutIsOfThisAttempt'
BY DEF Unlock, TimeoutIsOfThisAttempt

(* The property does not look beyond the lock and its runnables.           *)
LEMMA LockUnchanged == TimeoutIsOfThisAttempt /\ UNCHANGED lock => TimeoutIsOfThisAttempt'
BY DEF lock, TimeoutIsOfThisAttempt

(* Every answer either leaves the lock alone or releases it.               *)
LEMMA ReplyKeeps == TimeoutIsOfThisAttempt /\ TakeReply => TimeoutIsOfThisAttempt'
<1> SUFFICES ASSUME TimeoutIsOfThisAttempt, TakeReply PROVE TimeoutIsOfThisAttempt'
  OBVIOUS
<1> DEFINE r == Head(replies)
<1>1. CASE ConnectFailed
  BY <1>1, UnlockKeeps DEF ConnectFailed
<1>2. CASE GroupRemoved
  BY <1>2, LockUnchanged DEF GroupRemoved
<1>3. CASE DiscoveryFailed(r.isRetry, r.busy)
  BY <1>3, LockUnchanged DEF DiscoveryFailed
<1>4. CASE PeersListed(r.some)
  BY <1>4, LockUnchanged DEF PeersListed
<1>5. CASE InfoArrived(r.link, r.failed)
  <2>1. UNCHANGED lock \/ Unlock
    BY <1>5 DEF InfoArrived, lock
  <2> QED
    BY <2>1, UnlockKeeps, LockUnchanged
<1> QED
  BY <1>1, <1>2, <1>3, <1>4, <1>5 DEF TakeReply

(* Every step keeps the posted runnable that of the attempt in progress.   *)
LEMMA TimeoutStep == TimeoutIsOfThisAttempt /\ [WiFiNext]_wifiVars => TimeoutIsOfThisAttempt'
<1> SUFFICES ASSUME TimeoutIsOfThisAttempt, [WiFiNext]_wifiVars PROVE TimeoutIsOfThisAttempt'
  OBVIOUS
<1>1. CASE DiscoverPeers \/ RetryDiscovery
  BY <1>1, LockUnchanged DEF DiscoverPeers, RetryDiscovery, StartDiscovery
<1>2. CASE ConnectToPeer
  <2>1. timeouts = {}
    BY <1>2 DEF ConnectToPeer, TimeoutIsOfThisAttempt
  <2>2. isConnecting' /\ timeouts' = {attempt'}
    BY <1>2, <2>1 DEF ConnectToPeer, ArmTimeout
  <2> QED
    BY <2>2 DEF TimeoutIsOfThisAttempt
<1>3. ASSUME NEW a \in timeouts, ConnectTimeout(a) PROVE TimeoutIsOfThisAttempt'
  <2>1. isConnecting /\ timeouts = {attempt} /\ a = attempt
    BY <1>3 DEF TimeoutIsOfThisAttempt
  <2>2. isConnecting' = FALSE /\ timeouts' = {}
    BY <1>3, <2>1 DEF ConnectTimeout
  <2> QED
    BY <2>2 DEF TimeoutIsOfThisAttempt
<1>4. CASE StartProtocol \/ StopByIntent
  BY <1>4, LockUnchanged DEF StartProtocol, StopByIntent
<1>5. CASE StopProtocol
  BY <1>5, UnlockKeeps DEF StopProtocol, Disconnect
<1>6. CASE TakeReply
  BY <1>6, ReplyKeeps
<1>7. CASE OnReceive \/ Spontaneous \/ ScanEnds
  BY <1>7, LockUnchanged DEF OnReceive, Spontaneous, ScanEnds
<1>8. CASE UNCHANGED wifiVars
  BY <1>8, LockUnchanged DEF wifiVars
<1> QED
  BY <1>1, <1>2, <1>3, <1>4, <1>5, <1>6, <1>7, <1>8 DEF WiFiNext

(* The time-out posted is that of the attempt in progress, and there is    *)
(* none without an attempt, for any bounds: no attempt is cut short by an  *)
(* earlier one's, none is left without (WiFiDirectManager.kt:36-44).       *)
THEOREM OwnTimeoutOnly == WiFiSpec => []TimeoutIsOfThisAttempt
<1> QED
  BY TimeoutInit, TimeoutStep, PTL DEF WiFiSpec

-----------------------------------------------------------------------------
(* What is shown of the connection is true in the end: whatever the screen *)
(* or an answer under way claims of a group, if the service has it         *)
(* otherwise then something that comes later puts it right.                *)
Link == {"idle", "negotiating"} \union Group

Answer ==
    {[to |-> "connect"], [to |-> "removeGroup"]}
    \union [to : {"discoverPeers"}, isRetry : BOOLEAN, busy : BOOLEAN]
    \union [to : {"requestPeers"}, some : BOOLEAN]
    \union [to : {"requestConnectionInfo"}, link : Link, failed : BOOLEAN]

Intent ==
    [action : {"CONNECTION_CHANGED"}, failed : BOOLEAN]
    \union [action : {"DISCOVERY_STARTED", "DISCOVERY_STOPPED", "PEERS_CHANGED"}]

ManagerTypes ==
    /\ isConnecting \in BOOLEAN
    /\ role \in {"none"} \union Group
    /\ link \in Link
    /\ scanning \in BOOLEAN
    /\ replies \in Seq(Answer)
    /\ events \in Seq(Intent)

\* What Show makes of a link.
Shown(l) == IF l \in Group THEN l ELSE "none"

\* A change of the connection has yet to be heard of.
Told == \E k \in 1..Len(events) : events[k].action = "CONNECTION_CHANGED"

\* An answer that clears the screen, or tells what link l is.
Mends(r, l) ==
    \/ r.to \in {"connect", "removeGroup"}
    \/ r.to = "requestConnectionInfo" /\ Shown(r.link) = Shown(l)

MendedAfter(i) == Told \/ \E j \in (i + 1)..Len(replies) : Mends(replies[j], link)

\* A claim of a group, when the link is l.
Untrue(claim, l) == claim \in Group /\ claim # l

TrueInTheEnd ==
    /\ Untrue(role, link) => isConnecting \/ MendedAfter(0)
    /\ \A i \in 1..Len(replies) :
         replies[i].to = "requestConnectionInfo" /\ Untrue(replies[i].link, link)
           => MendedAfter(i)

ManagerInv == ManagerTypes /\ TrueInTheEnd

(* At the start nothing is claimed and nothing under way.                  *)
LEMMA ManagerInit == WiFiInit => ManagerInv
<1> SUFFICES ASSUME WiFiInit PROVE ManagerInv
  OBVIOUS
<1>1. ManagerTypes
  <2>1. << >> \in Seq(Answer) /\ << >> \in Seq(Intent)
    OBVIOUS
  <2>2. "idle" \in Link
    BY DEF Link
  <2>3. replies = << >> /\ events = << >> /\ link = "idle" /\ role = "none"
    BY DEF WiFiInit
  <2>4. isConnecting \in BOOLEAN /\ scanning \in BOOLEAN
    BY DEF WiFiInit
  <2> QED BY <2>1, <2>2, <2>3, <2>4 DEF ManagerTypes
<1>2. ~ Untrue(role, link)
  BY DEF WiFiInit, Untrue, Group
<1>3. Len(replies) = 0
  BY DEF WiFiInit
<1> QED BY <1>1, <1>2, <1>3 DEF ManagerInv, TrueInTheEnd

(* What is shown of a link.                                                *)
LEMMA SameShown ==
    ASSUME NEW l \in Link, NEW m \in Link, Shown(l) = Shown(m), NEW r
    PROVE  /\ (r \in Group /\ r # l) <=> (r \in Group /\ r # m)
           /\ \A a : Mends(a, l) <=> Mends(a, m)
BY DEF Shown, Mends, Group, Link

(* With everything arrived and no attempt running nothing can put the      *)
(* screen right any more, so it is right.                                  *)
LEMMA ManagerShowsTruth == ManagerInv => ConnectedIsTrue
<1> SUFFICES ASSUME ManagerInv, Quiet, ~ isConnecting, role # "none" PROVE role = link
  BY DEF ConnectedIsTrue
<1>1. ~ MendedAfter(0)
  BY DEF Quiet, MendedAfter, Told
<1> QED BY <1>1 DEF ManagerInv, ManagerTypes, TrueInTheEnd, Untrue

(* A step that at most adds an answer, shows nothing new of the connection *)
(* and tells of every change of the link keeps what is claimed mended.     *)
LEMMA OneAnswerMore ==
    ASSUME ManagerTypes, ManagerTypes', TrueInTheEnd, NEW r,
           replies' = replies \/ replies' = Append(replies, r),
           \/ Told'
           \/ /\ Shown(link') = Shown(link)
              /\ Told => replies' = Append(replies, r) /\ Mends(r, link'),
           \/ role' = "none"
           \/ /\ role' = role
              /\ isConnecting => \/ isConnecting'
                                 \/ replies' = Append(replies, r) /\ Mends(r, link'),
           r.to = "requestConnectionInfo" => r.link = link'
    PROVE  TrueInTheEnd'
<1>0. /\ replies \in Seq(Answer) /\ replies' \in Seq(Answer)
      /\ link \in Link /\ link' \in Link
  BY DEF ManagerTypes
<1>1. CASE Told'
  <2>1. \A i : MendedAfter(i)'
    BY <1>1 DEF MendedAfter
  <2> QED BY <2>1 DEF TrueInTheEnd
<1>2. CASE ~ Told'
  <2>1. /\ Shown(link') = Shown(link)
        /\ Told => replies' = Append(replies, r) /\ Mends(r, link')
    BY <1>2
  <2>2. \A claim : Untrue(claim, link') <=> Untrue(claim, link)
    BY <1>0, <2>1, SameShown DEF Untrue
  <2>3. \A i \in 1..Len(replies) :
           i \in 1..Len(replies') /\ replies'[i] = replies[i]
    BY <1>0
  <2>4. replies' = Append(replies, r) =>
           /\ Len(replies') = Len(replies) + 1
           /\ replies'[Len(replies) + 1] = r
    BY <1>0
  <2>5. ASSUME replies' = Append(replies, r), Mends(r, link'), NEW i \in 0..Len(replies)
        PROVE  MendedAfter(i)'
    <3>1. Len(replies) + 1 \in (i + 1)..Len(replies')
      BY <1>0, <2>4, <2>5
    <3> QED BY <2>4, <2>5, <3>1 DEF MendedAfter
  <2>6. ASSUME NEW i \in 0..Len(replies), MendedAfter(i)
        PROVE  MendedAfter(i)'
    <3>1. CASE Told
      BY <2>1, <2>5, <3>1
    <3>2. CASE ~ Told
      <4>1. PICK j \in (i + 1)..Len(replies) : Mends(replies[j], link)
        BY <2>6, <3>2 DEF MendedAfter
      <4>2. j \in 1..Len(replies)
        BY <1>0, <4>1
      <4>3. Mends(replies'[j], link')
        BY <1>0, <2>1, <2>3, <4>1, <4>2, SameShown
      <4>4. j \in (i + 1)..Len(replies')
        BY <1>0, <2>3, <4>1, <4>2
      <4> QED BY <4>3, <4>4 DEF MendedAfter
    <3> QED BY <3>1, <3>2
  <2>7. Untrue(role', link') => isConnecting' \/ MendedAfter(0)'
    <3> SUFFICES ASSUME Untrue(role', link'), ~ isConnecting'
                 PROVE  MendedAfter(0)'
      OBVIOUS
    <3>0. 0 \in 0..Len(replies)
      BY <1>0
    <3>1. role' = role /\ Untrue(role, link)
      BY <2>2 DEF Untrue, Group
    <3>2. CASE isConnecting
      BY <2>5, <3>0, <3>1, <3>2 DEF Untrue, Group
    <3>3. CASE ~ isConnecting
      BY <2>6, <3>0, <3>1, <3>3 DEF TrueInTheEnd
    <3> QED BY <3>2, <3>3
  <2>8. ASSUME NEW i \in 1..Len(replies'),
               replies'[i].to = "requestConnectionInfo", Untrue(replies'[i].link, link')
        PROVE  MendedAfter(i)'
    <3>1. CASE i \in 1..Len(replies)
      <4>1. replies[i].to = "requestConnectionInfo" /\ Untrue(replies[i].link, link)
        BY <2>2, <2>3, <2>8, <3>1
      <4>2. i \in 0..Len(replies)
        BY <1>0, <3>1
      <4> QED BY <2>6, <3>1, <4>1, <4>2 DEF TrueInTheEnd
    <3>2. CASE i \notin 1..Len(replies)
      <4>1. i = Len(replies) + 1 /\ replies'[i] = r
        BY <1>0, <2>4, <3>2
      <4> QED BY <2>8, <4>1 DEF Untrue
    <3> QED BY <3>1, <3>2
  <2> QED BY <2>7, <2>8 DEF TrueInTheEnd
<1> QED BY <1>1, <1>2

(* Events only ever come after those that are there.                       *)
LEMMA OneEventMore ==
    ASSUME events \in Seq(Intent), NEW e \in Intent, events' = Append(events, e)
    PROVE  /\ events' \in Seq(Intent)
           /\ Told => Told'
           /\ e.action = "CONNECTION_CHANGED" => Told'
<1>1. /\ events' \in Seq(Intent) /\ Len(events) + 1 \in 1..Len(events')
      /\ events'[Len(events) + 1] = e
      /\ \A k \in 1..Len(events) : k \in 1..Len(events') /\ events'[k] = events[k]
  OBVIOUS
<1> QED BY <1>1 DEF Told

(* An announcement of a change is heard of.                                *)
LEMMA Announced ==
    ASSUME events \in Seq(Intent), NEW failed \in BOOLEAN,
           Announce(ConnectionChanged(failed))
    PROVE  events' \in Seq(Intent) /\ Told'
<1> DEFINE e == ConnectionChanged(failed)
<1>1. e \in Intent /\ e.action = "CONNECTION_CHANGED"
  BY DEF ConnectionChanged, Intent
<1>2. events' = Append(events, e)
  BY DEF Announce
<1> HIDE DEF e
<1> QED BY <1>1, <1>2, OneEventMore

(* The end of a negotiation or of a group is announced, unless it makes no *)
(* difference to what is shown.                                            *)
LEMMA EndsTold ==
    ASSUME ManagerTypes,
           \/ link = "negotiating" /\ NegotiationEnds
           \/ link \in Group /\ GroupEnds
           \/ UNCHANGED <<link, events>>
    PROVE  /\ events' \in Seq(Intent) /\ link' \in Link
           /\ Told' \/ (Shown(link') = Shown(link) /\ (Told => Told'))
<1>1. CASE UNCHANGED <<link, events>>
  BY <1>1 DEF ManagerTypes, Told
<1>2. CASE link = "negotiating" /\ NegotiationEnds
  <2>1. link' = "idle" /\ link' \in Link /\ Shown(link') = Shown(link)
    BY <1>2 DEF NegotiationEnds, Link, Shown, Group
  <2>2. CASE UNCHANGED events
    BY <2>1, <2>2 DEF ManagerTypes, Told
  <2>3. ASSUME NEW failed \in BOOLEAN, Announce(ConnectionChanged(failed))
        PROVE  events' \in Seq(Intent) /\ Told'
    BY <2>3, Announced DEF ManagerTypes
  <2> QED BY <1>2, <2>1, <2>2, <2>3 DEF NegotiationEnds
<1>3. CASE link \in Group /\ GroupEnds
  <2>1. link' \in Link /\ Announce(ConnectionChanged(FALSE))
    BY <1>3 DEF GroupEnds, Link
  <2> QED BY <2>1, Announced DEF ManagerTypes
<1> QED BY <1>1, <1>2, <1>3

(* An answer that is taken leaves what comes after it to mend the rest.    *)
LEMMA OneAnswerTaken ==
    ASSUME ManagerTypes, ManagerTypes', TrueInTheEnd,
           replies # << >>, replies' = Tail(replies), NEW r, r = Head(replies),
           Told' \/ (Shown(link') = Shown(link) /\ (Told => Told')),
           \/ role' = "none"
           \/ r.to = "requestConnectionInfo" /\ role' = Shown(r.link)
           \/ /\ role' = role
              /\ isConnecting => isConnecting'
              /\ Mends(r, link) => isConnecting'
    PROVE  TrueInTheEnd'
<1>0. /\ replies \in Seq(Answer) /\ replies' \in Seq(Answer)
      /\ link \in Link /\ link' \in Link
  BY DEF ManagerTypes
<1>1. CASE Told'
  <2>1. \A i : MendedAfter(i)'
    BY <1>1 DEF MendedAfter
  <2> QED BY <2>1 DEF TrueInTheEnd
<1>2. CASE ~ Told'
  <2>1. Shown(link') = Shown(link) /\ ~ Told
    BY <1>2
  <2>2. \A claim : Untrue(claim, link') <=> Untrue(claim, link)
    BY <1>0, <2>1, SameShown DEF Untrue
  <2>3. /\ Len(replies) \in Nat \ {0} /\ Len(replies') = Len(replies) - 1
        /\ replies[1] = r
        /\ \A i \in 1..Len(replies') : i + 1 \in 1..Len(replies) /\ replies'[i] = replies[i + 1]
    BY <1>0
  <2>4. ASSUME NEW i \in Nat, MendedAfter(i + 1)
        PROVE  MendedAfter(i)'
    <3>1. PICK j \in (i + 2)..Len(replies) : Mends(replies[j], link)
      BY <2>1, <2>4 DEF MendedAfter
    <3>2. j - 1 \in (i + 1)..Len(replies') /\ (j - 1) + 1 = j /\ j - 1 \in 1..Len(replies')
      BY <2>3, <3>1
    <3>3. replies'[j - 1] = replies[j]
      BY <2>3, <3>2
    <3>4. Mends(replies'[j - 1], link')
      BY <1>0, <2>1, <3>1, <3>3, SameShown
    <3> QED BY <3>2, <3>4 DEF MendedAfter
  <2>5. Untrue(role', link') => isConnecting' \/ MendedAfter(0)'
    <3> SUFFICES ASSUME Untrue(role', link'), ~ isConnecting'
                 PROVE  MendedAfter(0)'
      OBVIOUS
    <3>1. Untrue(role', link) /\ role' # "none"
      BY <2>2 DEF Untrue, Group
    <3>2. CASE r.to = "requestConnectionInfo" /\ role' = Shown(r.link)
      <4>1. role' = r.link
        BY <3>1, <3>2 DEF Shown
      <4>2. 1 \in 1..Len(replies)
        BY <2>3
      <4>3. MendedAfter(1)
        BY <2>3, <3>1, <3>2, <4>1, <4>2 DEF TrueInTheEnd
      <4>4. MendedAfter(0 + 1)
        BY <4>3
      <4> QED BY <2>4, <4>4
    <3>3. CASE role' = role /\ ~ isConnecting /\ ~ Mends(r, link)
      <4>1. MendedAfter(0)
        BY <3>1, <3>3 DEF TrueInTheEnd
      <4>2. PICK j \in 1..Len(replies) : Mends(replies[j], link)
        BY <2>1, <4>1 DEF MendedAfter
      <4>3. j # 1
        BY <2>3, <3>3, <4>2
      <4>4. j \in ((0 + 1) + 1)..Len(replies)
        BY <2>3, <4>2, <4>3
      <4>5. MendedAfter(0 + 1)
        BY <4>2, <4>4 DEF MendedAfter
      <4> QED BY <2>4, <4>5
    <3> QED BY <3>1, <3>2, <3>3
  <2>6. ASSUME NEW i \in 1..Len(replies'),
               replies'[i].to = "requestConnectionInfo", Untrue(replies'[i].link, link')
        PROVE  MendedAfter(i)'
    <3>1. i + 1 \in 1..Len(replies) /\ replies'[i] = replies[i + 1] /\ i \in Nat
      BY <2>3
    <3>2. Untrue(replies[i + 1].link, link)
      BY <2>2, <2>6, <3>1
    <3>3. MendedAfter(i + 1)
      BY <2>6, <3>1, <3>2 DEF TrueInTheEnd
    <3> QED BY <2>4, <3>1, <3>3
  <2> QED BY <2>5, <2>6 DEF TrueInTheEnd
<1> QED BY <1>1, <1>2

(* A tear-down announces a change of what is shown.                        *)
LEMMA TearDownTells ==
    ASSUME ManagerTypes, TearDown
    PROVE  /\ events' \in Seq(Intent) /\ link' \in Link /\ scanning' \in BOOLEAN
           /\ Told' \/ (Shown(link') = Shown(link) /\ (Told => Told'))
<1> DEFINE stopped == IF scanning THEN <<Broadcast("DISCOVERY_STOPPED")>> ELSE << >>
<1>1. events \in Seq(Intent) /\ link \in Link
  BY DEF ManagerTypes
<1>2. stopped \in Seq(Intent)
  <2>1. Broadcast("DISCOVERY_STOPPED") \in Intent
    BY DEF Broadcast, Intent
  <2> QED BY <2>1
<1>3. scanning' = FALSE
  BY DEF TearDown
<1>4. \/ /\ link' = "idle"
         /\ \E failed \in BOOLEAN : events' = events \o <<ConnectionChanged(failed)>> \o stopped
      \/ /\ link' = IF link = "negotiating" THEN "idle" ELSE link
         /\ events' = events \o stopped
  BY DEF TearDown
<1> HIDE DEF stopped
<1>5. ASSUME NEW failed \in BOOLEAN, link' = "idle",
             events' = events \o <<ConnectionChanged(failed)>> \o stopped
      PROVE  events' \in Seq(Intent) /\ Told' /\ link' \in Link
  <2> DEFINE e == ConnectionChanged(failed)
  <2>1. e \in Intent /\ e.action = "CONNECTION_CHANGED"
    BY DEF ConnectionChanged, Intent
  <2>2. events' = events \o <<e>> \o stopped
    BY <1>5
  <2> HIDE DEF e
  <2>3. events' \in Seq(Intent)
    BY <1>1, <1>2, <2>1, <2>2
  <2>4. /\ Len(events) + 1 \in 1..Len(events')
        /\ events'[Len(events) + 1] = e
    BY <1>1, <1>2, <2>1, <2>2
  <2>5. link' \in Link
    BY <1>5 DEF Link
  <2> QED BY <2>1, <2>3, <2>4, <2>5 DEF Told
<1>6. ASSUME link' = IF link = "negotiating" THEN "idle" ELSE link,
             events' = events \o stopped
      PROVE  /\ events' \in Seq(Intent) /\ link' \in Link
             /\ Shown(link') = Shown(link) /\ (Told => Told')
  <2>1. events' \in Seq(Intent)
    BY <1>1, <1>2, <1>6
  <2>2. \A k \in 1..Len(events) : k \in 1..Len(events') /\ events'[k] = events[k]
    BY <1>1, <1>2, <1>6
  <2>3. link' \in Link /\ Shown(link') = Shown(link)
    BY <1>1, <1>6 DEF Link, Shown, Group
  <2> QED BY <2>1, <2>2, <2>3 DEF Told
<1> QED BY <1>3, <1>4, <1>5, <1>6

(* An answer that comes back as the looper takes it.                       *)
LEMMA TakeReplyStep ==
    ASSUME ManagerInv, TakeReply
    PROVE  ManagerInv'
<1> DEFINE r == Head(replies)
<1>0. ManagerTypes /\ TrueInTheEnd /\ replies # << >> /\ replies' = Tail(replies)
  BY DEF ManagerInv, TakeReply
<1>1. replies \in Seq(Answer) /\ replies' \in Seq(Answer) /\ r \in Answer
  BY <1>0 DEF ManagerTypes
<1>2. /\ isConnecting' \in BOOLEAN /\ role' \in {"none"} \union Group
      /\ scanning' \in BOOLEAN /\ link' \in Link /\ events' \in Seq(Intent)
      /\ Told' \/ (Shown(link') = Shown(link) /\ (Told => Told'))
      /\ \/ role' = "none"
         \/ r.to = "requestConnectionInfo" /\ role' = Shown(r.link)
         \/ /\ role' = role
            /\ isConnecting => isConnecting'
            /\ Mends(r, link) => isConnecting'
  <2>a. ASSUME UNCHANGED <<link, scanning, events>>
        PROVE  /\ scanning' \in BOOLEAN /\ link' \in Link /\ events' \in Seq(Intent)
               /\ Told' \/ (Shown(link') = Shown(link) /\ (Told => Told'))
    BY <1>0, <2>a DEF ManagerTypes, Told
  <2>b. role' = "none" => role' \in {"none"} \union Group
    OBVIOUS
  <2>1. CASE r.to = "connect" /\ ConnectFailed
    <3>1. /\ UNCHANGED <<link, scanning, events>> /\ isConnecting' = FALSE /\ role' = "none"
      BY <2>1 DEF ConnectFailed, Unlock, Show, Group
    <3> QED BY <2>a, <2>b, <3>1
  <2>2. CASE r.to = "removeGroup" /\ GroupRemoved
    <3>1. /\ UNCHANGED <<link, scanning, events>> /\ isConnecting' = isConnecting
          /\ role' = "none"
      BY <2>2 DEF GroupRemoved, lock, Show, Group
    <3> QED BY <1>0, <2>a, <2>b, <3>1 DEF ManagerTypes
  <2>3. CASE r.to = "discoverPeers" /\ DiscoveryFailed(r.isRetry, r.busy)
    <3>1. isConnecting' = isConnecting /\ role' = role /\ ~ Mends(r, link)
      BY <2>3 DEF DiscoveryFailed, lock, Mends
    <3>2. CASE TearDown
      BY <1>0, <3>1, <3>2, TearDownTells DEF ManagerTypes
    <3>3. CASE UNCHANGED <<link, scanning, events>>
      BY <1>0, <2>a, <3>1, <3>3 DEF ManagerTypes
    <3> QED BY <2>3, <3>2, <3>3 DEF DiscoveryFailed, ResetWiFiDirectState
  <2>4. CASE r.to = "requestPeers" /\ PeersListed(r.some)
    <3>1. /\ UNCHANGED <<link, scanning, events>> /\ isConnecting' = isConnecting
          /\ role' = role /\ ~ Mends(r, link)
      BY <2>4 DEF PeersListed, lock, Mends
    <3> QED BY <1>0, <2>a, <3>1 DEF ManagerTypes
  <2>5. CASE r.to = "requestConnectionInfo" /\ InfoArrived(r.link, r.failed)
    <3>1. UNCHANGED <<link, scanning, events>>
      BY <2>5 DEF InfoArrived
    <3>2. CASE isConnecting /\ UNCHANGED <<lock, role>>
      BY <1>0, <2>a, <3>1, <3>2 DEF ManagerTypes, lock
    <3>3. CASE (Unlock \/ UNCHANGED lock) /\ Show(r.link)
      <4>1. role' = Shown(r.link) /\ role' \in {"none"} \union Group
        BY <3>3 DEF Show, Shown
      <4>2. isConnecting' \in BOOLEAN
        BY <1>0, <3>3 DEF Unlock, lock, ManagerTypes
      <4> QED BY <2>5, <2>a, <3>1, <4>1, <4>2
    <3> QED BY <2>5, <3>2, <3>3 DEF InfoArrived
  <2> HIDE DEF r
  <2>6. \/ r.to = "connect" /\ ConnectFailed
        \/ r.to = "removeGroup" /\ GroupRemoved
        \/ r.to = "discoverPeers" /\ DiscoveryFailed(r.isRetry, r.busy)
        \/ r.to = "requestPeers" /\ PeersListed(r.some)
        \/ r.to = "requestConnectionInfo" /\ InfoArrived(r.link, r.failed)
    BY DEF TakeReply, r
  <2> QED BY <2>1, <2>2, <2>3, <2>4, <2>5, <2>6
<1>3. ManagerTypes'
  BY <1>1, <1>2 DEF ManagerTypes
<1>4. TrueInTheEnd'
  <2> HIDE DEF r
  <2>1. r = Head(replies)
    BY DEF r
  <2> QED BY <1>0, <1>2, <1>3, <2>1, OneAnswerTaken
<1> QED BY <1>3, <1>4 DEF ManagerInv

(* Every step keeps the manager's invariant.                               *)
LEMMA ManagerStep == ManagerInv /\ [WiFiNext]_wifiVars => ManagerInv'
<1> SUFFICES ASSUME ManagerInv, [WiFiNext]_wifiVars PROVE ManagerInv'
  OBVIOUS
<1>0. /\ ManagerTypes /\ TrueInTheEnd
      /\ isConnecting \in BOOLEAN /\ role \in {"none"} \union Group /\ link \in Link
      /\ scanning \in BOOLEAN /\ replies \in Seq(Answer) /\ events \in Seq(Intent)
  BY DEF ManagerInv, ManagerTypes
<1> DEFINE toConnect == [to |-> "connect"]
           toRemove == [to |-> "removeGroup"]
<1>a. /\ toConnect \in Answer /\ toRemove \in Answer
      /\ \A l : Mends(toConnect, l) /\ Mends(toRemove, l)
      /\ toConnect.to # "requestConnectionInfo" /\ toRemove.to # "requestConnectionInfo"
  BY DEF Answer, Mends
\* Steps that add at most an answer that claims nothing, and do not touch
\* what is shown.
<1>b. ASSUME NEW r \in Answer, r.to # "requestConnectionInfo",
             replies' = replies \/ replies' = Append(replies, r),
             events' \in Seq(Intent), link' \in Link, scanning' \in BOOLEAN,
             Told' \/ (Shown(link') = Shown(link) /\ (Told => Told')),
             role' = role, isConnecting' \in BOOLEAN, isConnecting => isConnecting'
      PROVE  ManagerInv'
  <2>1. replies' \in Seq(Answer)
    BY <1>0, <1>b
  <2>2. ManagerTypes'
    BY <1>0, <1>b, <2>1 DEF ManagerTypes
  <2>3. \/ Told'
        \/ /\ Shown(link') = Shown(link)
           /\ Told => replies' = Append(replies, r) /\ Mends(r, link')
    BY <1>b
  <2>4. TrueInTheEnd'
    BY <1>0, <1>b, <2>2, <2>3, OneAnswerMore
  <2> QED BY <2>2, <2>4 DEF ManagerInv
<1>c. ASSUME UNCHANGED <<isConnecting, role, link, scanning, replies, events>>
      PROVE  ManagerInv'
  BY <1>0, <1>a, <1>b, <1>c DEF Told
\* A step that announces nothing, or that a scan began or ended.
<1>d. ASSUME NEW action \in {"DISCOVERY_STARTED", "DISCOVERY_STOPPED", "PEERS_CHANGED"},
             UNCHANGED events \/ Announce(Broadcast(action))
      PROVE  events' \in Seq(Intent) /\ (Told => Told')
  <2>1. Broadcast(action) \in Intent
    BY DEF Broadcast, Intent
  <2>2. CASE UNCHANGED events
    BY <1>0, <2>2 DEF Told
  <2>3. CASE Announce(Broadcast(action))
    BY <1>0, <2>1, <2>3, OneEventMore DEF Announce
  <2> QED BY <1>d, <2>2, <2>3
<1>e. ASSUME NEW isRetry \in BOOLEAN, Discover(isRetry),
             UNCHANGED <<isConnecting, role, link>>
      PROVE  ManagerInv'
  <2>1. CASE /\ scanning' = TRUE /\ UNCHANGED replies
             /\ IF scanning THEN UNCHANGED events ELSE Announce(Broadcast("DISCOVERY_STARTED"))
    <3>1. events' \in Seq(Intent) /\ (Told => Told')
      BY <1>d, <2>1
    <3> QED BY <1>0, <1>a, <1>b, <1>e, <2>1, <3>1
  <2>2. ASSUME NEW busy \in BOOLEAN, UNCHANGED <<scanning, events>>,
               Reply([to |-> "discoverPeers", isRetry |-> isRetry, busy |-> busy])
        PROVE  ManagerInv'
    <3> DEFINE r == [to |-> "discoverPeers", isRetry |-> isRetry, busy |-> busy]
    <3>1. r \in Answer /\ r.to # "requestConnectionInfo"
      BY DEF Answer
    <3>2. replies' = Append(replies, r)
      BY <2>2 DEF Reply
    <3>3. Told <=> Told'
      BY <2>2 DEF Told
    <3> HIDE DEF r
    <3> QED BY <1>0, <1>b, <1>e, <2>2, <3>1, <3>2, <3>3
  <2> QED BY <1>e, <2>1, <2>2 DEF Discover
<1>1. CASE DiscoverPeers \/ RetryDiscovery
  <2>1. PICK isRetry \in BOOLEAN : StartDiscovery(isRetry)
    BY <1>1 DEF DiscoverPeers, RetryDiscovery
  <2> QED BY <1>e, <2>1 DEF StartDiscovery, lock
<1>2. CASE ConnectToPeer
  <2>1. /\ isConnecting' = TRUE /\ role' = role /\ UNCHANGED <<scanning, events>>
        /\ link' = link \/ (link = "idle" /\ link' = "negotiating")
        /\ replies' = replies \/ replies' = Append(replies, toConnect)
    BY <1>2 DEF ConnectToPeer, Connect, Reply, screen
  <2>2. link' \in Link /\ Shown(link') = Shown(link)
    BY <1>0, <2>1 DEF Link, Shown, Group
  <2>3. Told <=> Told'
    BY <2>1 DEF Told
  <2> HIDE DEF toConnect
  <2> QED BY <1>0, <1>a, <1>b, <2>1, <2>2, <2>3
<1>3. ASSUME NEW a \in timeouts, ConnectTimeout(a)
      PROVE  ManagerInv'
  <2>1. CASE ~ isConnecting
    BY <1>3, <1>c, <2>1 DEF ConnectTimeout
  <2>2. CASE isConnecting
    <3>1. /\ isConnecting' = FALSE /\ role' = "none" /\ UNCHANGED <<scanning, replies>>
          /\ CancelConnect
      BY <1>3, <2>2 DEF ConnectTimeout, Show, Group
    <3>2. /\ events' \in Seq(Intent) /\ link' \in Link
          /\ Told' \/ (Shown(link') = Shown(link) /\ (Told => Told'))
      <4>1. \/ link = "negotiating" /\ NegotiationEnds
            \/ UNCHANGED <<link, events>>
        BY <3>1 DEF CancelConnect
      <4> QED BY <1>0, <4>1, EndsTold
    <3>3. ManagerTypes'
      BY <1>0, <3>1, <3>2 DEF ManagerTypes
    <3>4. TrueInTheEnd'
      <4>1. \/ Told'
            \/ /\ Shown(link') = Shown(link)
               /\ Told => replies' = Append(replies, toConnect) /\ Mends(toConnect, link')
        BY <3>2
      <4> HIDE DEF toConnect
      <4> QED BY <1>0, <1>a, <3>1, <3>3, <4>1, OneAnswerMore
    <3> QED BY <3>3, <3>4 DEF ManagerInv
  <2> QED BY <2>1, <2>2
<1>4. CASE StartProtocol \/ StopByIntent
  BY <1>4, <1>c DEF StartProtocol, StopByIntent, lock
<1>5. CASE StopProtocol
  <2>1. /\ isConnecting' = FALSE /\ role' = role /\ UNCHANGED scanning
        /\ replies' = Append(replies, toRemove) /\ CancelAndRemove
    BY <1>5 DEF StopProtocol, Disconnect, Unlock, Reply
  <2>2. /\ events' \in Seq(Intent) /\ link' \in Link
        /\ Told' \/ (Shown(link') = Shown(link) /\ (Told => Told'))
    <3>1. \/ link = "negotiating" /\ NegotiationEnds
          \/ link \in Group /\ GroupEnds
          \/ UNCHANGED <<link, events>>
      BY <2>1 DEF CancelAndRemove
    <3> QED BY <1>0, <3>1, EndsTold
  <2> HIDE DEF toRemove
  <2>3. replies' \in Seq(Answer)
    BY <1>0, <1>a, <2>1
  <2>4. ManagerTypes'
    BY <1>0, <2>1, <2>2, <2>3 DEF ManagerTypes
  <2>5. Mends(toRemove, link')
    BY <1>a
  <2>6. TrueInTheEnd'
    BY <1>0, <1>a, <2>1, <2>2, <2>4, <2>5, OneAnswerMore
  <2> QED BY <2>4, <2>6 DEF ManagerInv
<1>6. CASE TakeReply
  BY <1>6, TakeReplyStep
<1>7. CASE OnReceive
  <2> DEFINE e == Head(events)
  <2>1. /\ events # << >> /\ events' = Tail(events) /\ e \in Intent
        /\ events' \in Seq(Intent)
        /\ UNCHANGED <<isConnecting, role, link, scanning>>
    BY <1>0, <1>7 DEF OnReceive, lock
  <2>2. Told /\ e.action # "CONNECTION_CHANGED" => Told'
    <3> SUFFICES ASSUME NEW k \in 1..Len(events), events[k].action = "CONNECTION_CHANGED",
                        e.action # "CONNECTION_CHANGED"
                 PROVE  Told'
      BY DEF Told
    <3>1. k # 1
      BY <1>0, <2>1
    <3>2. k - 1 \in 1..Len(events') /\ events'[k - 1] = events[k]
      BY <1>0, <2>1, <3>1
    <3> QED BY <3>2 DEF Told
  <2>3. CASE e.action = "CONNECTION_CHANGED"
    <3> DEFINE r == [to |-> "requestConnectionInfo", link |-> link, failed |-> e.failed]
    <3>1. e.failed \in BOOLEAN
      BY <2>1, <2>3 DEF Intent
    <3>2. r \in Answer /\ r.to = "requestConnectionInfo" /\ r.link = link /\ Mends(r, link)
      BY <1>0, <3>1 DEF Answer, Mends
    <3>3. replies' = Append(replies, r)
      BY <1>7, <2>3 DEF OnReceive, Reply
    <3> HIDE DEF r
    <3>4. replies' \in Seq(Answer)
      BY <1>0, <3>2, <3>3
    <3>5. ManagerTypes'
      BY <1>0, <2>1, <3>4 DEF ManagerTypes
    <3>6. r.link = link' /\ Mends(r, link') /\ Shown(link') = Shown(link)
      BY <2>1, <3>2
    <3>7. TrueInTheEnd'
      BY <1>0, <2>1, <3>3, <3>5, <3>6, OneAnswerMore
    <3> QED BY <3>5, <3>7 DEF ManagerInv
  <2>4. CASE e.action # "CONNECTION_CHANGED"
    <3>1. PICK some \in BOOLEAN :
            \/ UNCHANGED replies
            \/ Reply([to |-> "requestPeers", some |-> some])
      BY <1>7, <2>4 DEF OnReceive
    <3> DEFINE r == [to |-> "requestPeers", some |-> some]
    <3>2. r \in Answer /\ r.to # "requestConnectionInfo"
      BY DEF Answer
    <3>3. replies' = replies \/ replies' = Append(replies, r)
      BY <3>1 DEF Reply
    <3> HIDE DEF r, e
    <3> QED BY <1>0, <1>b, <2>1, <2>2, <2>4, <3>2, <3>3
  <2> QED BY <2>3, <2>4
<1>8. CASE Spontaneous
  <2>1. UNCHANGED <<isConnecting, role, scanning, replies>>
    BY <1>8 DEF Spontaneous, lock, screen
  <2>2. /\ events' \in Seq(Intent) /\ link' \in Link
        /\ Told' \/ (Shown(link') = Shown(link) /\ (Told => Told'))
    <3>1. CASE link' \in Group /\ Announce(ConnectionChanged(FALSE))
      BY <1>0, <3>1, Announced DEF Link
    <3>2. CASE \/ link = "negotiating" /\ NegotiationEnds
               \/ link \in Group /\ GroupEnds
      BY <1>0, <3>2, EndsTold
    <3>3. CASE Announce(Broadcast("PEERS_CHANGED")) /\ UNCHANGED link
      BY <1>0, <1>d, <3>3
    <3> QED BY <1>8, <3>1, <3>2, <3>3 DEF Spontaneous
  <2> HIDE DEF toConnect
  <2> QED BY <1>0, <1>a, <1>b, <2>1, <2>2
<1>9. CASE ScanEnds
  <2>1. /\ UNCHANGED <<isConnecting, role, link, replies>> /\ scanning' = FALSE
        /\ Announce(Broadcast("DISCOVERY_STOPPED"))
    BY <1>9 DEF ScanEnds, lock, screen
  <2>2. events' \in Seq(Intent) /\ (Told => Told')
    BY <1>d, <2>1
  <2> HIDE DEF toConnect
  <2> QED BY <1>0, <1>a, <1>b, <2>1, <2>2
<1>10. CASE UNCHANGED wifiVars
  BY <1>10, <1>c DEF wifiVars, lock, screen
<1> QED BY <1>1, <1>2, <1>3, <1>4, <1>5, <1>6, <1>7, <1>8, <1>9, <1>10 DEF WiFiNext

(* Whatever attempts, time-outs, groups and late answers there are, the    *)
(* screen tells the truth about the connection when all is quiet.          *)
THEOREM ScreenIsTrue == WiFiSpec => []ConnectedIsTrue
BY ManagerInit, ManagerStep, ManagerShowsTruth, PTL DEF WiFiSpec
=============================================================================
