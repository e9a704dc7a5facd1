SPECIFICATION FairClaimSpec
CHECK_DEADLOCK FALSE
CONSTANTS
    None = None
    DefaultView = default
    NetworkViews = {default}
    h1 = h1
    h2 = h2
    Hosts = {h1, h2}
    s1 = s1
    s2 = s2
    bad = bad
    a1 = a1
    a2 = a2
    b1 = b1
    Subnets <- MCSubnets
    Addrs = {a1, b1}
    AddrsIn <- MCAddrsInSmall
    MaxFaults = 2
    c1 = c1
    c2 = c2
    pool1 = pool1
    pool2 = pool2
    Claims = {c1}
    Pools = {pool1}
    PoolOf <- SharedPoolOf
    PoolView <- InDefaultView
    PoolSubnets <- SharedPoolSubnets
    InvalidCIDRs = {bad}
    HasZone <- Zoned
    InZone <- OnlyH1
    ClaimName <- OwnNames
    MachineName <- OneName
    Presets = {h2}
    MaxApiFaults = 2
INVARIANTS
    ReadyClaimHolds
    NoLeakWithoutError
PROPERTIES
    DeletionCompletes
    ClaimIsServed
