SPECIFICATION MCSpec
CONSTANTS
    Calls <- MCCalls
    Chars <- MCChars
    Feed <- MCFeed
    MaxDep = 3
    Word = 2
    I32Max = 10
    U32Max = 16
    Huge <- MCHuge
INVARIANTS FieldsStored RequiredFound ElementsStored
PROPERTIES ArenaKept
