CONSTANTS
    Senders = {"s1", "s2"}
    Candidates = {"c1", "c2"}
    Packets = {"p1"}
    RetryLimit = 2
SPECIFICATION AckSpec
INVARIANT OneForwarder
