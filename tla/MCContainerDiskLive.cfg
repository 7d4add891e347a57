SPECIFICATION FairSpec
CONSTANTS
    a = a
    b = b
    base = base
    layer = layer
    NoConfig = NoConfig
    None = None
    NoDev = NoDev
    VMs = {}
    DHCP = {}
    Containers <- MCContainers
    Disked <- MCContainers
    Configs <- MCDisks
    Devices <- MCDevices
    InitMarker <- MCLayered
    Mishaps <- MCForward
    MaxEdits = 3
    MaxMishaps = 1
INVARIANT NoStray
PROPERTY Recovers
