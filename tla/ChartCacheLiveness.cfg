SPECIFICATION FairSpec
CONSTANTS
    Keys = {k1}
    NoKey = NoKey
    Workers = {w1, w2}
    Readers = {r1}
    Producers = {p1}
    MaxRetries = 1
    MaxOps = 1
    MaxResyncs = 1
    MaxFaults = 1
    MaxEvents = 3
INVARIANT ReaderGetsChart
PROPERTIES EverythingSettles ReadersReturn
CHECK_DEADLOCK FALSE
