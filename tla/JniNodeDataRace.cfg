CONSTANTS
    App = {"ui", "io"}
    MaxStarts = 2
    MaxTimers = 2
SPECIFICATION Spec
INVARIANTS NoDataRace
