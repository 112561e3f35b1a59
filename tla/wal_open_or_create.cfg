SPECIFICATION OpenSpec
CONSTANTS
    h1 = h1  h2 = h2  m1 = m1  t1 = t1  zt = zt  b1 = b1
    ZeroTyp = zt
    Magics <- MCMagics
    Types <- MCTypes
    Payloads <- MCPayloads
    Handles <- MCHandles
    Writers <- MCHandles
    Bytes <- MCBytes
    U32 = 16
    FileCap = 4
    MaxNest = 1
    PageN = 1
    Faults = {}
PROPERTIES CreatesWhenAbsent
