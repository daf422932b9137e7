CONSTANTS
    App = {"ui", "io"}
    MaxStarts = 2
    MaxTimers = 2
    MaxScans = 1
    MaxAttempts = 2
    MaxProtocolStarts = 1
    MaxChanges = 1
SPECIFICATION AppSpec
INVARIANTS TypeOK NoUseAfterFree SendsOnOpenSocket EntryHasTimer OneSocket
INVARIANTS TimeoutIsOfThisAttempt ConnectedIsTrue
PROPERTIES StopFinishes AttemptEnds DiscoveryIsOver
