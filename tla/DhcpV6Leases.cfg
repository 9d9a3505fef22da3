CONSTANTS
    c1 = c1
    c2 = c2
    c3 = c3
    None = None
    Addrs = {1, 2, 3}
    Prefixes = {11, 12}
    Duids = {c1, c2, c3}
    LongDuids = {c1}
    Hosts <- HostC1
    Probing = TRUE
    LEASES6_MAX = 2
    MaxStarts = 2
    MaxWork = 3
    MaxNotices = 1
SPECIFICATION Spec
INVARIANTS TypeOK Counters6Match FileFollowsDb  OnePerClient ActiveIsTaken
SYMMETRY Symmetric
CHECK_DEADLOCK FALSE
