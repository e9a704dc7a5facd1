SPECIFICATION ConfSpec
CHECK_DEADLOCK FALSE
CONSTANTS
    None = None
    Nothing = Nothing
    claim = claim
    x = x
    y = y
    z = z
    m = m
    nv = nv
    dv = dv
    Objects = {claim, x, y, z, m}
    Claim = claim
    KindOf <- MCKindOf
    OwnerGraphs <- MCOwnerGraphs
    MaxDepth = 3
    MaxDisappearances = 1
    NetworkViews = {nv}
    DNSViews = {dv}
    InstanceSpecs <- MCInstanceSpecs
    Secrets <- MCSecrets
    Servers <- MCServers
    MaxChanges = 1
    MaxFaults = 1
    Width = 2
    Requests <- MCRequests
INVARIANTS
    ResolverTypeOK
    NameOfAnOwner
    NotFoundMeansNone
    MachineKindsSuffice
    InstanceTypeOK
    ReadyIsTheVerdict
    ReadyMeansUsable
    CheckedSubnetsParse
PROPERTIES
    SearchProgresses
    SearchEnds
    ReadySettles
