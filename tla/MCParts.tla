------------------------------ MODULE MCParts ------------------------------
(***************************************************************************)
(* The parts that are specified each by itself, checked in one run: a      *)
(* behaviour is one of a single part, the others stay as they begin.       *)
(***************************************************************************)
EXTENDS TimerWheel, DedupCache, AckCoordination, PacketSocket, ControlPlane

VARIABLE part       \* the part that this behaviour is one of

wheelVars == vars
allVars ==
    <<part, wheelVars, cacheVars, ackVars, socketVars, controlVars>>

PartsInit ==
    /\ part \in {"wheel", "cache", "ack", "socket", "control"}
    /\ Init /\ CacheInit /\ AckInit /\ SocketInit /\ ControlInit

Wheel(A) ==
    /\ part = "wheel" /\ A
    /\ UNCHANGED <<part, cacheVars, ackVars, socketVars, controlVars>>

SocketStep(A) ==
    /\ part = "socket" /\ A
    /\ UNCHANGED <<part, wheelVars, cacheVars, ackVars, controlVars>>

Control(A) ==
    /\ part = "control" /\ A
    /\ UNCHANGED <<part, wheelVars, cacheVars, ackVars, socketVars>>

PartsNext ==
    \/ Wheel(Next)
    \/ /\ part = "cache" /\ CacheNext
       /\ UNCHANGED <<part, wheelVars, ackVars, socketVars, controlVars>>
    \/ /\ part = "ack" /\ AckNext
       /\ UNCHANGED <<part, wheelVars, cacheVars, socketVars, controlVars>>
    \/ SocketStep(SocketNext)
    \/ Control(ControlNext)

\* Each part's own fairness.
PartsSpec ==
    /\ PartsInit /\ [][PartsNext]_allVars
    /\ WF_allVars(Wheel(BeginTick)) /\ WF_allVars(Wheel(EndTick))
    /\ WF_allVars(Wheel(PopFront)) /\ WF_allVars(Wheel(RunCallback))
    /\ WF_allVars(Wheel(SkipCancelled)) /\ WF_allVars(Wheel(ClockTick))
    /\ \A a \in Adapters :
         /\ WF_allVars(SocketStep(JoinRx(a)))
         /\ WF_allVars(SocketStep(LeavePromiscuous(a)))
         /\ WF_allVars(SocketStep(ReceiveLoop(a)))
    /\ WF_allVars(Control(TimePasses))
    /\ WF_allVars(Control(\E ogm \in ogms : ReceiveOgm(ogm)))
    /\ \A n \in Neighbours : SF_allVars(Control(OnFire(n) /\ Broadcast(n)))

=============================================================================
