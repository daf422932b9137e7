CONSTANTS
    n1 = n1
    n2 = n2
    Broadcast = Broadcast
    p1 = p1
    p2 = p2
    PacketId <- MCPacketId
    Node <- MCNode
    Mac <- MCMac
    Frame <- MCFrame
    Capacity = 1
    CandidateCount = 2
    TWait = 1
    MaxInserts = 2
    SendHorizon = 1
    MaxTx = 1
SPECIFICATION FairSpec
INVARIANTS TypeOK HandledAtMostOnce AcceptanceAccounted PendingHasTimer EarlyOnlyIfForgotten
PROPERTIES PendingIsResolved ImplementsLifecycle
CHECK_DEADLOCK FALSE
