CONSTANTS
    Emitter = {e1, e2}
    Stream = {s1, s2}
    Stuck = {s2}
    NoStream = NoStream
    ChanCap = 1
    MaxLines = 1
    MaxEmits = 1
SPECIFICATION Spec
CHECK_DEADLOCK FALSE
INVARIANTS
    NoPanic
