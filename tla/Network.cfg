SPECIFICATION Spec
CONSTANTS
    c = c
    d = d
    Clients = {c, d}
    IPs = {1, 2}
    NoIp = 0
    MaxXids = 2
    Start <- TwoStarts
    XIDS = 4
    www = www
    WWW = WWW
    domain = domain
    odd = odd
    Names = {www, WWW, domain, odd}
    Types = {"A", "NS", "any"}
    NoName = NoName
    Key <- SomeKeys
    Cut <- SomeCuts
    Origin = domain
    Lines <- SomeLines
    TTL = 2
    MaxClock = 3
INVARIANTS
    
    
    RenewalIsReal6
    
PROPERTIES
    ClientGetsLease
    Client6Proceeds
CHECK_DEADLOCK FALSE
