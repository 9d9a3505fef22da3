CONSTANTS
    c1 = c1
    c2 = c2
    c3 = c3
    None = None
    Addrs = {1, 2}
    Prefixes = {11}
    Duids = {c1, c2, c3}
    LongDuids = {c1}
    Hosts <- HostC1
    Probing = TRUE
    LEASES6_MAX = 2
    MaxStarts = 2
    MaxWork = 3
    MaxNotices = 1
SPECIFICATION Spec
PROPERTY CleanupSyncsPool
CHECK_DEADLOCK FALSE
