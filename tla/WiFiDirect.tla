----------------------------- MODULE WiFiDirect -----------------------------
(***************************************************************************)
(* WiFiDirectManager and what MainActivity shows of it.  Everything of the *)
(* app runs on the main looper, one step at a time: clicks, the runnables  *)
(* it has posted, the answers to its calls (in the order of the calls) and *)
(* the broadcasts.  The Wi-Fi P2P service is another process, in which     *)
(* groups form and break without being asked.                              *)
(*                                                                         *)
(* The service acts on a call at once and answers later.  Were it to take  *)
(* the call later, in order, the app could not tell: what happens in       *)
(* between might as well have happened before the call.  An answer that is *)
(* only logged is left out.  A negotiation that ends badly may go          *)
(* unreported, for which the code has its time-out; that a group was       *)
(* formed or is gone is always broadcast.                                  *)
(***************************************************************************)
EXTENDS Naturals, Sequences

CONSTANTS
    MaxScans,           \* bound on the scans asked for, by the button or otherwise
    MaxAttempts,        \* bound on the connections the user asks for
    MaxProtocolStarts,  \* bound on how often the protocol is started
    MaxChanges          \* bound on what the service does of its own accord

ASSUME WiFiAssumption ==
    {MaxScans, MaxAttempts, MaxProtocolStarts, MaxChanges} \subseteq Nat

VARIABLES
    isConnecting,   \* the manager's lock against a second attempt
    attempt,        \* the attempts made; names them
    timeouts,       \* the attempts whose connectTimeoutRunnable is posted
    recoveries,     \* retries posted by resetWiFiDirectState
    started,        \* protocolStartedState
    role,           \* connectionState and isGroupOwnerState
    discovering,    \* isDiscoveringState
    link,           \* the service: idle, negotiating, owner or client
    scanning,       \* the service is looking for peers
    replies,        \* answers under way to the app
    events,         \* broadcasts under way to the app
    scans, protocolStarts, changes  \* how much of the bounds is used up

lock == <<isConnecting, attempt, timeouts>>
screen == <<started, role, discovering>>
used == <<scans, protocolStarts, changes>>
wifiVars == <<lock, recoveries, screen, link, scanning, replies, events, used>>

Group == {"owner", "client"}

WiFiInit ==
    /\ isConnecting = FALSE /\ attempt = 0 /\ timeouts = {} /\ recoveries = 0
    /\ started = FALSE
    /\ role = "none" /\ discovering = FALSE
    /\ link = "idle" /\ scanning = FALSE
    /\ replies = << >> /\ events = << >>
    /\ scans = 0 /\ protocolStarts = 0 /\ changes = 0

-----------------------------------------------------------------------------
(* The Wi-Fi P2P service (external): what it does with a call.             *)

Reply(r) == replies' = Append(replies, r)
Announce(e) == events' = Append(events, e)

ConnectionChanged(failed) == [action |-> "CONNECTION_CHANGED", failed |-> failed]
Broadcast(action) == [action |-> action]

NegotiationEnds ==
    /\ link' = "idle"
    /\ (\E failed \in BOOLEAN : Announce(ConnectionChanged(failed))) \/ UNCHANGED events

GroupEnds ==
    /\ link' = "idle"
    /\ Announce(ConnectionChanged(FALSE))

CancelConnect ==
    IF link = "negotiating" THEN NegotiationEnds ELSE UNCHANGED <<link, events>>

\* cancelConnect, then removeGroup, which may fail.
CancelAndRemove ==
    \/ link = "negotiating" /\ NegotiationEnds
    \/ link \in Group /\ GroupEnds
    \/ link # "negotiating" /\ UNCHANGED <<link, events>>

\* The same, and stopPeerDiscovery.
TearDown ==
    /\ scanning' = FALSE
    /\ LET stopped == IF scanning THEN <<Broadcast("DISCOVERY_STOPPED")>> ELSE << >>
       IN \/ /\ link # "idle" /\ link' = "idle"
             /\ \E failed \in BOOLEAN :
                   /\ failed => link = "negotiating"
                   /\ events' = events \o <<ConnectionChanged(failed)>> \o stopped
          \/ /\ link' = IF link = "negotiating" THEN "idle" ELSE link
             /\ events' = events \o stopped

Connect ==
    \/ /\ link' = IF link = "idle" THEN "negotiating" ELSE link
       /\ UNCHANGED replies
    \/ Reply([to |-> "connect"]) /\ UNCHANGED link

Discover(isRetry) ==
    \/ /\ scanning' = TRUE
       /\ IF scanning THEN UNCHANGED events ELSE Announce(Broadcast("DISCOVERY_STARTED"))
       /\ UNCHANGED replies
    \/ /\ \E busy \in BOOLEAN :
             Reply([to |-> "discoverPeers", isRetry |-> isRetry, busy |-> busy])
       /\ UNCHANGED <<scanning, events>>

-----------------------------------------------------------------------------
(* The manager.                                                            *)

\* onConnectionChanged(false, null, false), or with the group's owner.
Show(l) == role' = IF l \in Group THEN l ELSE "none"

\* Mutant of Unlock: the posted runnable is not removed.
UnlockOnly ==
    /\ isConnecting' = FALSE
    /\ UNCHANGED <<attempt, timeouts>>

Unlock ==
    /\ isConnecting' = FALSE
    /\ timeouts' = {}
    /\ UNCHANGED attempt

StartDiscovery(isRetry) ==
    /\ discovering' = TRUE
    /\ Discover(isRetry)
    /\ UNCHANGED <<lock, started, role, link>>

\* The button is enabled only while no scan is shown and the protocol is not
\* started; the auto_discover intent and the permission callback start a scan
\* whatever is shown.
DiscoverPeers ==
    /\ scans < MaxScans
    /\ scans' = scans + 1
    /\ StartDiscovery(FALSE)
    /\ UNCHANGED <<recoveries, protocolStarts, changes>>

\* Recovery after BUSY: tear everything down, and try once more in 500 ms.
ResetWiFiDirectState ==
    /\ TearDown
    /\ recoveries' = recoveries + 1
    /\ UNCHANGED discovering

\* Mutant of RetryDiscovery: the retry is not marked as one.
RetryForEver ==
    /\ recoveries > 0
    /\ recoveries' = recoveries - 1
    /\ StartDiscovery(FALSE)
    /\ UNCHANGED used

RetryDiscovery ==
    /\ recoveries > 0
    /\ recoveries' = recoveries - 1
    /\ StartDiscovery(TRUE)
    /\ UNCHANGED used

\* Mutant of ArmTimeout: no time-out.
DoNotArm == UNCHANGED timeouts

ArmTimeout == timeouts' = timeouts \union {attempt + 1}

ConnectToPeer ==
    /\ ~ started                                  \* the list of peers is shown
    /\ ~ isConnecting
    /\ attempt < MaxAttempts
    /\ isConnecting' = TRUE
    /\ attempt' = attempt + 1
    /\ ArmTimeout
    /\ Connect
    /\ UNCHANGED <<recoveries, screen, scanning, events, used>>

\* connectTimeoutRunnable: 60 s have passed since it was posted, which is
\* longer than the answer to connect takes.
ConnectTimeout(a) ==
    /\ a \in timeouts
    /\ \A i \in 1..Len(replies) : replies[i].to # "connect"
    /\ timeouts' = timeouts \ {a}
    /\ IF isConnecting
       THEN isConnecting' = FALSE /\ CancelConnect /\ Show("idle")
       ELSE UNCHANGED <<isConnecting, link, events, role>>
    /\ UNCHANGED <<attempt, recoveries, started, discovering, scanning, replies,
                   used>>

-----------------------------------------------------------------------------
(* The activity.                                                           *)

\* "Start JOKER Protocol", or "Force Start", which asks for no connection.
StartProtocol ==
    /\ ~ started
    /\ protocolStarts < MaxProtocolStarts
    /\ protocolStarts' = protocolStarts + 1
    /\ started' = TRUE
    /\ UNCHANGED <<lock, recoveries, role, discovering, link, scanning, replies,
                   events, scans, changes>>

Disconnect ==
    /\ Unlock
    /\ CancelAndRemove
    /\ Reply([to |-> "removeGroup"])

StopProtocol ==
    /\ started
    /\ started' = FALSE
    /\ Disconnect
    /\ UNCHANGED <<recoveries, role, discovering, scanning, used>>

\* The stop_protocol intent stops the node and leaves the connection alone.
StopByIntent ==
    /\ started
    /\ started' = FALSE
    /\ UNCHANGED <<lock, recoveries, role, discovering, link, scanning, replies,
                   events, used>>

-----------------------------------------------------------------------------
(* Answers and broadcasts, as the main looper comes to them.               *)

\* onFailure of connect.
ConnectFailed ==
    /\ Unlock
    /\ Show("idle")
    /\ UNCHANGED <<recoveries, discovering, link, scanning, events>>

\* onSuccess and onFailure of removeGroup do the same.
GroupRemoved ==
    /\ Show("idle")
    /\ UNCHANGED <<lock, recoveries, discovering, link, scanning, events>>

\* onFailure of discoverPeers.
DiscoveryFailed(isRetry, busy) ==
    /\ IF busy /\ ~ isRetry
       THEN ResetWiFiDirectState
       ELSE discovering' = FALSE /\ UNCHANGED <<recoveries, link, scanning, events>>
    /\ UNCHANGED <<lock, role>>

\* The list of peers, after PEERS_CHANGED.
PeersListed(some) ==
    /\ discovering' = IF some THEN FALSE ELSE discovering
    /\ UNCHANGED <<lock, recoveries, role, link, scanning, events>>

\* Mutant of InfoArrived: while an attempt runs, its failure is not told.
InfoArrivedQuietly(l, failed) ==
    /\ IF isConnecting THEN Unlock ELSE UNCHANGED lock
    /\ IF isConnecting /\ l \notin Group THEN UNCHANGED role ELSE Show(l)
    /\ UNCHANGED <<recoveries, discovering, link, scanning, events>>

\* The connection info, after a CONNECTION_CHANGED that did or did not say
\* FAILED.
InfoArrived(l, failed) ==
    /\ IF isConnecting /\ l \notin Group /\ ~ failed
       THEN UNCHANGED <<lock, role>>                 \* still negotiating
       ELSE /\ IF isConnecting THEN Unlock ELSE UNCHANGED lock
            /\ Show(l)
    /\ UNCHANGED <<recoveries, discovering, link, scanning, events>>

TakeReply ==
    /\ replies # << >>
    /\ replies' = Tail(replies)
    /\ LET r == Head(replies) IN
       \/ r.to = "connect" /\ ConnectFailed
       \/ r.to = "removeGroup" /\ GroupRemoved
       \/ r.to = "discoverPeers" /\ DiscoveryFailed(r.isRetry, r.busy)
       \/ r.to = "requestPeers" /\ PeersListed(r.some)
       \/ r.to = "requestConnectionInfo" /\ InfoArrived(r.link, r.failed)
    /\ UNCHANGED <<started, used>>

OnReceive ==
    /\ events # << >>
    /\ events' = Tail(events)
    /\ LET e == Head(events) IN
       \/ /\ e.action = "CONNECTION_CHANGED"
          /\ Reply([to |-> "requestConnectionInfo", link |-> link, failed |-> e.failed])
          /\ UNCHANGED discovering
       \/ /\ e.action = "PEERS_CHANGED"
          /\ \E some \in BOOLEAN : Reply([to |-> "requestPeers", some |-> some])
          /\ UNCHANGED discovering
       \/ /\ e.action \in {"DISCOVERY_STARTED", "DISCOVERY_STOPPED"}
          /\ discovering' = (e.action = "DISCOVERY_STARTED")
          /\ UNCHANGED replies
    /\ UNCHANGED <<lock, recoveries, started, role, link, scanning, used>>

-----------------------------------------------------------------------------
(* What the service does by itself (external).                             *)

\* A negotiation, this phone's or one that another phone has begun, ends in
\* a group or fails; a group breaks up; the list of peers changes.
Spontaneous ==
    /\ changes < MaxChanges
    /\ changes' = changes + 1
    /\ \/ link \notin Group /\ link' \in Group /\ Announce(ConnectionChanged(FALSE))
       \/ link = "negotiating" /\ NegotiationEnds
       \/ link \in Group /\ GroupEnds
       \/ scanning /\ Announce(Broadcast("PEERS_CHANGED")) /\ UNCHANGED link
    /\ UNCHANGED <<lock, recoveries, screen, scanning, replies, scans, protocolStarts>>

\* The system ends every scan after a while.
ScanEnds ==
    /\ scanning
    /\ scanning' = FALSE
    /\ Announce(Broadcast("DISCOVERY_STOPPED"))
    /\ UNCHANGED <<lock, recoveries, screen, link, replies, used>>

-----------------------------------------------------------------------------
WiFiNext ==
    \/ DiscoverPeers \/ RetryDiscovery
    \/ ConnectToPeer \/ \E a \in timeouts : ConnectTimeout(a)
    \/ StartProtocol \/ StopProtocol \/ StopByIntent
    \/ TakeReply \/ OnReceive
    \/ Spontaneous \/ ScanEnds

\* The looper runs what is posted or delivered to it; the service ends its
\* scans.  Nothing is assumed of the user or the peers.
WiFiFairness ==
    /\ WF_wifiVars(RetryDiscovery)
    /\ \A a \in 1..MaxAttempts : WF_wifiVars(ConnectTimeout(a))
    /\ WF_wifiVars(TakeReply) /\ WF_wifiVars(OnReceive)
    /\ WF_wifiVars(ScanEnds)

WiFiSpec == WiFiInit /\ [][WiFiNext]_wifiVars /\ WiFiFairness
-----------------------------------------------------------------------------
(* An attempt is only ever ended by its own time-out: while one runs, its  *)
(* runnable is posted and no other, and when none runs no runnable of an   *)
(* earlier one waits to cut the next one short (WiFiDirectManager.kt:37-44 *)
(* against the five places that unlock).                                   *)
TimeoutIsOfThisAttempt == timeouts = IF isConnecting THEN {attempt} ELSE {}

(* The lock is released in the end, even if the system says nothing: "to   *)
(* ensure the UI can never permanently freeze if the Android OS swallows a *)
(* broadcast" (docs/wifi_direct_debounce_and_unicast.md:11).               *)
AttemptEnds == isConnecting ~> ~ isConnecting

(* A scan shown as running is finally shown as over, be it that peers were *)
(* found, the system gave up, or the service stays BUSY after the recovery *)
(* (WiFiDirectManager.kt:193-222).                                         *)
DiscoveryIsOver == discovering ~> ~ discovering

Quiet == replies = << >> /\ events = << >>

(* "Connected" is not shown for a group that is gone, nor the wrong role   *)
(* in it, once everything under way has arrived and no attempt is running, *)
(* whatever attempts, time-outs and late answers came in between           *)
(* (WiFiDirectManager.kt:86-109).                                          *)
ConnectedIsTrue ==
    Quiet /\ ~ isConnecting /\ role # "none" => role = link

(* "Overlapping connection attempts are safely ignored until the Android   *)
(* OS broadcasts a definitive success (CONNECTION_CHANGED) or failure      *)
(* (onFailure)" (docs/v3_walkthrough_and_known_issues.md:8): the attempt   *)
(* that the service is negotiating holds the lock.                         *)
AttemptHoldsLock == link = "negotiating" => isConnecting
=============================================================================
