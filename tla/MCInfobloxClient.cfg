SPECIFICATION ClientSpec
CONSTANTS
    None = None
    DefaultView = default
    NetworkViews = {default, other}
    Hosts = {h1, h2}
    s1 = s1
    s2 = s2
    a1 = a1
    a2 = a2
    b1 = b1
    Subnets <- MCSubnets
    Addrs <- MCAddrs
    AddrsIn <- MCAddrsIn
    MaxFaults = 2
SYMMETRY Symmetry
INVARIANTS
    TypeOK
    SnapshotFresh
    OnePerSubnet
    AllocateContract
    ReleaseContract
PROPERTIES
    ImplementsLedger
    RefusedOnlyWhenFull
