\* The process ends after a stop once the starts are used up.
CHECK_DEADLOCK FALSE
SPECIFICATION FairSpec
CONSTANTS
    a = a
    b = b
    Ips <- MCIps
    QueueSize = 2
    MaxStamp = 2
    MaxOps = 3
    MaxStarts = 2
INVARIANTS
    
    CleanStopSavesAll
    StopDrainsQueue
PROPERTIES
    StopCompletes
    QueuedIsCarriedOut
