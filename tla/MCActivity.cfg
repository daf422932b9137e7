CONSTANTS
    Text = {"hi", "yo"}
    PacketId <- MCPacketId
    Capacity = 1
    Ttl = 2
    MaxSeq = 1
    MaxSent = 3
    MaxAir = 2
    MaxRuns = 3
    MaxLives = 3
    MaxForgotten = 2
    Theirs = {"t1", "t2"}
    Mine = {"m1"}
    FileNames = {"photo"}
    TotalChunks <- MCTotalChunks
    MaxLag = 3
SPECIFICATION ActivitySpec
INVARIANTS ShownOnce ShownUnlessIdShared OwnNotForwarded
INVARIANTS FilesAreWhatWasSent BannerIsOfATransfer
CHECK_DEADLOCK FALSE
