SPECIFICATION Spec
CONSTANTS
    m1 = m1
    m2 = m2
    m3 = m3
    Macs = {m1, m2}
    NoMac = NoMac
    Hosts <- NoHosts
    PoolSize = 2
    Excluded = {}
    UINT_MAX = 3
    Workers = {w1, w2}
    Requests = {2}
    MaxLeases = 2
    MaxPackets = 4
    MaxRestarts = 0
INVARIANTS
    UniqueAddresses
SYMMETRY Symmetric
