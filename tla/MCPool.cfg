SPECIFICATION FairSpec
CHECK_DEADLOCK FALSE
CONSTANTS
    None = None
    DefaultView = default
    NetworkViews = {default, other}
    InstanceView = other
    SpecViews <- OptionalView
    Claims = {c1}
    MaxEdits = 1
    MaxTroubles = 1
    MaxFaults = 1
INVARIANTS
    TypeOK
    ExplicitViewNeverStrands
PROPERTIES
    NoOrphanedClaim
    PoolBecomesReady
    PoolDeletionCompletes
