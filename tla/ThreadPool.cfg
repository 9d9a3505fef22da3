SPECIFICATION FairSpec
CONSTANTS
    Workers = {w1, w2, w3}
    Tasks = {t1, t2, t3, t4}
    QueueSize = 2
    Idle = Idle
    MaxDestroys = 2
INVARIANTS
    RingConsistent
    EachTaskInOnePlace
    FreedPoolIsQuiet
    NoLostWakeup
PROPERTIES
    ImplementsTaskQueue
    ShutdownCompletes
    AcceptedTasksRun
CHECK_DEADLOCK FALSE
