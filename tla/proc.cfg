SPECIFICATION Spec
CONSTANTS
    Streams <- MCStreams
    Caps <- MCCaps
    PipeN = 2
    Codes = {0, 1}
    MaxSent = 4
INVARIANTS OutputIsPrefix CapReported
PROPERTIES ReturnsWhenEnded
CHECK_DEADLOCK FALSE
