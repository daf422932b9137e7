CONSTANTS
    macA = macA
    macB = macB
    macC = macC
    macD = macD
    Ttl = 3
    Broadcast = Broadcast
    PacketId = {p1}
    Capacity = 1
    Node <- MCNode
    Mac <- MCNode
    Frame <- MCFrame
    Media <- LossyTriangle
    Sendable <- ToCandidates
    CandidateCount = 2
    TWait = 1
    MaxInserts = 5
    SendHorizon = 0
    MaxTx = 1
SPECIFICATION FairNetSpec
PROPERTIES BackupForwards
CHECK_DEADLOCK FALSE
