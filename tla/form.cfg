SPECIFICATION Spec
CONSTANTS
    Forms <- MCForms
    Sizes = {0, 2, 3, 4, 9}
    Maxes <- MCMaxes
    MaxBody = 3
    MaxInt = 7
INVARIANTS EofMeansWhole FilesClosed ReadIsWhole
PROPERTIES WriterEnds
CHECK_DEADLOCK FALSE
