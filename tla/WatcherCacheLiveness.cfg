SPECIFICATION FairSpec
CONSTANTS
    Keys = {k1}
    OciKeys = {k1}
    Digests = {d1, d2}
    NoKey = NoKey
    NoDigest = NoDigest
    Worker = worker
    Readers = {r1}
    MaxRetries = 1
    MaxAttempts = 2
    MaxChanges = 2
    MaxResyncs = 1
    MaxFaults = 2
    MaxCrashes = 1
    MaxEvents = 2
PROPERTIES EverythingSettles ReadersReturn
CHECK_DEADLOCK FALSE
