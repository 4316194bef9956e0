\* three threads, answers out of order
CONSTANTS
    Threads = {"t1", "t2", "t3"}
    Programs <- MCPrograms
    MaxCalls = 3
    Ahead = 2
    Handler <- MCHandler
SPECIFICATION Spec
CHECK_DEADLOCK FALSE
INVARIANTS TypeOK PendingIsNext OwnAnswer KeepsOnlyOptional
PROPERTY CallsEnd
