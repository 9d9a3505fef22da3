SPECIFICATION FairSpec
CONSTANTS
    m1 = m1
    m2 = m2
    m3 = m3
    Macs = {m1, m2, m3}
    NoMac = NoMac
    Hosts <- OneHost
    PoolSize = 2
    Excluded = {}
    UINT_MAX = 3
    Workers = {w1}
    Requests = {2}
    MaxLeases = 1
    MaxPackets = 4
    MaxRestarts = 1
INVARIANTS
    TypeOK
PROPERTIES
    EndedLeaseFreesEntry
    UsedEntryIsAllocated
