SPECIFICATION Spec
CHECK_DEADLOCK FALSE
CONSTANTS
    None = None
    DefaultView = default
    NetworkViews = {default, other}
    InstanceView = other
    SpecViews = {default}
    Claims = {c1}
    MaxEdits = 0
    MaxTroubles = 0
    MaxFaults = 0
PROPERTIES
    PoolProtected
