CONSTANTS
    Delay = {0, 2}
    MaxTimers = 3
    MaxNow = 3
    PacketId = {"p1", "p2", "p3"}
    Cell = {"c1", "c2", "c3"}
    Capacity = 2
    Ttl = 1
    MaxClock = 3
    Senders = {"s1", "s2"}
    Candidates = {"c1", "c2"}
    Packets = {"p1"}
    RetryLimit = 2
    Adapters = {"a1"}
    Backlog = 1
    Neighbours = {1, 2}
    Throughputs = {0, 750}
    FadeMargins = {10}
    CandidateCount = 1
    NeighborExpiry = 4500
    CmsiMin = 1500
    CmsiMax = 30000
    MaxDelay = 1500
    Step = 1500
SPECIFICATION PartsSpec
INVARIANTS OnTimeAndOnce CancelIsFinal FiresInExpiryOrder IteratorsValid SweepIsExact
INVARIANTS OneElectionPerTransmission ThreadEndsWithStop
INVARIANTS SelectedOnRecentMetric LossTolerance
PROPERTIES EveryTimerLeaves ImplementsSeenCache StopReturns
PROPERTIES NeighbourIsFound
