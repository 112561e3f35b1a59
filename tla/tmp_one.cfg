SPECIFICATION FairSpec
CONSTANTS
    c1 = c1   c2 = c2
    Callers <- OneCaller
    MaxChan = 3
    MaxSig = 3
INVARIANTS NoSignalLost StopRestores WatchedNotKilled LatchedOnce
PROPERTIES SignalLatched
CHECK_DEADLOCK FALSE
