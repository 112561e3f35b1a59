SPECIFICATION Spec
CONSTANTS
    Texts <- MCTexts
    MaxDep = 2
    Faults = {"pull", "empty", "cb"}
INVARIANTS PullIsBytes AcceptsJson LocationsTrue EventsNest
PROPERTIES ParseReturns
CHECK_DEADLOCK FALSE
