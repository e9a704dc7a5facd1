SPECIFICATION ClaimSpec
CHECK_DEADLOCK FALSE
CONSTANTS
    None = None
    DefaultView = default
    NetworkViews = {default}
    h1 = h1
    h2 = h2
    Hosts = {h1, h2}
    s1 = s1
    s2 = s2
    bad = bad
    a1 = a1
    a2 = a2
    b1 = b1
    Subnets <- MCSubnets
    Addrs <- MCAddrs
    AddrsIn <- MCAddrsIn
    MaxFaults = 0
    c1 = c1
    c2 = c2
    pool1 = pool1
    pool2 = pool2
    Claims = {c1, c2}
    Pools = {pool1, pool2}
    PoolOf <- MachinePoolOf
    PoolView <- NoView
    PoolSubnets <- SameSubnet
    InvalidCIDRs = {bad}
    HasZone <- Unzoned
    InZone <- AllHosts
    ClaimName <- OneName
    MachineName <- OneName
    Presets = {}
    MaxApiFaults = 0
INVARIANTS
    EveryBoundAddressHeld
