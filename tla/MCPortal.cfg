SPECIFICATION PageSpec
CONSTANTS
    Name = {alice, bob}
    Node = {n1, n2}
    Server = {tailnet}
    FirstUser = alice
    SecondUser = bob
    FirstNode = n1
    SecondNode = n2
    Local = Local
    Lan = lan
    Viewer = alice
    portal = tailnet
    MaxCalls = 3
    MaxEvents = 3
    None = None
INVARIANTS
    TypeOK
    GrantsKept
    ControlsHonest
PROPERTIES
    AdminRemains
    DeviceNoticed
CHECK_DEADLOCK FALSE
