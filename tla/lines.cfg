SPECIFICATION MCSpec
CONSTANTS
    Files <- MCFiles
    BindLists <- MCBinds
    Long = {"long"}
    Numbers <- MCNumbers
    Rests <- MCRests
    Payloads <- MCPayloads
    Talks <- MCTalks
    Indents = {0, 1}
    LongLines <- MCLongLines
    TooLong = {"long"}
INVARIANTS EntriesInEffect OnlyGoodFiles WrittenIsRead NoLineDropped
