SPECIFICATION Spec
CONSTANTS
    Keys = {k1}
    OciKeys = {}
    Digests = {d1, d2}
    NoKey = NoKey
    NoDigest = NoDigest
    Worker = worker
    Readers = {r1}
    MaxRetries = 1
    MaxAttempts = 2
    MaxChanges = 3
    MaxResyncs = 1
    MaxFaults = 3
    MaxCrashes = 1
    MaxEvents = 4
SYMMETRY Symmetry
INVARIANTS TypeOK CacheConverges ResyncPopulates ReaderGetsValue NoReaderDropped
CHECK_DEADLOCK FALSE
