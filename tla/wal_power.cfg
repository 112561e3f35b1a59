SPECIFICATION Spec
CONSTANTS
    w1 = w1   rd = rd  m1 = m1  t1 = t1  t2 = t2  zt = zt  b1 = b1  b2 = b2
    ZeroTyp = zt
    Magics <- OneMagic
    Types <- OneType
    Payloads <- OneOrTwoBytes
    Handles <- OneHandle
    Writers <- OneHandle
    Bytes <- TwoBytes
    U32 = 16
    FileCap = 8
    MaxNest = 1
    PageN = 2
    Faults = {"power", "crash"}
INVARIANTS SyncedSurvive
PROPERTIES ImplementsAppendLog
CHECK_DEADLOCK FALSE
