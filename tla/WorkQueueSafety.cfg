SPECIFICATION Spec
CONSTANTS
    Items = {a, b}
    NoItem = NoItem
    Workers = {w1, w2}
    Waiters = {c1}
    MaxRetries = 1
    MaxAdds = 1
    MaxResets = 1
    MayShutDown = TRUE
SYMMETRY Symmetry
INVARIANTS TypeOK QueueShape OneWorkerPerItem ProcessingHasWorker
           NoMissedWakeup CountedWillRetry WaiterServed
PROPERTIES ImplementsLifecycle
CHECK_DEADLOCK FALSE
