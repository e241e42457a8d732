SPECIFICATION FreqSpec
CONSTANTS
    N = 1
    CountMod = 32
    Channels = {0}
    Pins = {"CAP"}
    Gate = 27
    Rest = 2
INVARIANTS FreqTypeOK CountedOnce EdgesBeforeTick WithinOne
CHECK_DEADLOCK TRUE
