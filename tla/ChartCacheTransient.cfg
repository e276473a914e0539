SPECIFICATION Spec
CONSTANTS
    Keys = {k1}
    NoKey = NoKey
    Workers = {w1}
    Readers = {r1}
    Producers = {p1}
    MaxRetries = 1
    MaxOps = 1
    MaxResyncs = 0
    MaxFaults = 0
    MaxEvents = 3
INVARIANT StoreIsTransient
CHECK_DEADLOCK FALSE
