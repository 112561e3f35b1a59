SPECIFICATION Spec
CONSTANTS
    w1 = w1   rd = rd  m1 = m1  t1 = t1  t2 = t2  zt = zt  b1 = b1  b2 = b2
    ZeroTyp = zt
    Magics <- OneMagic
    Types <- OneType
    Payloads <- NoOrOneByte
    Handles <- TwoHandles
    Writers <- OneHandle
    Bytes <- OneByte
    U32 = 16
    FileCap = 7
    MaxNest = 1
    PageN = 1
    Faults = {}
INVARIANTS ScanSound ScanComplete
PROPERTIES ErrOnlyInWrite
