SPECIFICATION Spec
CONSTANTS
    Workers = {w1, w2}
    Packets = {p1, p2, p3}
    QUEUE_SIZE = 1
    MaxRounds = 1
    Tasks = {t1, t2}
INVARIANTS
    
    SaveIsAlone
    FreedIsUnused
    WaitsAreServed
    MutexesComeFree
PROPERTIES
    AgentStops
    QueuedIsProcessed
    ServerStops
CHECK_DEADLOCK FALSE
