SPECIFICATION Spec
CONSTANTS
    Keys = {k1, k2}
    NoKey = NoKey
    Workers = {w1, w2}
    Readers = {}
    Producers = {p1}
    MaxRetries = 1
    MaxOps = 2
    MaxResyncs = 1
    MaxFaults = 1
    MaxEvents = 3
SYMMETRY Symmetry
INVARIANTS RequestsHonoured DeletionOverlooksNone ResyncExcludesWorkers
CHECK_DEADLOCK FALSE
