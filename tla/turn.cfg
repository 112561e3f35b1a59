SPECIFICATION TurnSpec
CONSTANTS
    w1 = w1  rd = rd  m1 = m1  zt = zt  b1 = b1
    ZeroTyp = zt
    Magics <- MCMagics
    Types <- MCTypes
    Payloads <- MCPayloads
    Handles <- MCHandles
    Writers <- MCWriters
    Bytes <- MCBytes
    U32 = 16
    FileCap = 6
    MaxNest = 1
    PageN = 1
    Faults = {"io", "crash"}
INVARIANTS ProjectIsSnapshot
PROPERTIES HistoryKept
CHECK_DEADLOCK FALSE
