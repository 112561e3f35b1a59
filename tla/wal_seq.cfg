SPECIFICATION FairSpec
CONSTANTS
    w1 = w1   rd = rd  m1 = m1  t1 = t1  t2 = t2  zt = zt  b1 = b1  b2 = b2
    ZeroTyp = zt
    Magics <- OneMagic
    Types <- TwoTypes
    Payloads <- UpToTwoBytes
    Handles <- OneHandle
    Writers <- OneHandle
    Bytes <- OneByte
    U32 = 4
    FileCap = 9
    MaxNest = 1
    PageN = 1
    Faults = {"io", "crash"}
INVARIANTS IInv AckedIntact NoLossWithoutGap IndexStable ScanComplete ReadInv
PROPERTIES CallsReturn
CHECK_DEADLOCK FALSE
