CHECK_DEADLOCK FALSE
SPECIFICATION IpSpec
CONSTANTS
    m1 = m1
    m2 = m2
    PoolSize = 3
    Macs <- MCMacs
    NoMac = NoMac
    Hosts <- MCHosts
    Excluded = {3}
    UINT_MAX = 4
    Addresses = {0, 1, 2, 3, 4}
    PingCheck = TRUE
INVARIANTS
    CountersMatch
