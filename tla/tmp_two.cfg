SPECIFICATION Spec
CONSTANTS
    c1 = c1   c2 = c2
    Callers <- TwoCallers
    MaxChan = 3
    MaxSig = 2
SYMMETRY EitherCaller
INVARIANTS RacesSettle
CHECK_DEADLOCK FALSE
