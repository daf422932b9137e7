CONSTANTS
    Text = {"hi"}
    PacketId <- MCPacketId
    Capacity = 2
    Ttl = 2
    MaxSeq = 2
    MaxSent = 3
    MaxAir = 2
    MaxRuns = 3
    MaxLives = 3
    MaxForgotten = 1
SPECIFICATION Spec
INVARIANTS ArrivedIsShown
CHECK_DEADLOCK FALSE
