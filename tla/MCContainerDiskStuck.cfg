SPECIFICATION FairSpec
CONSTANTS
    a = a
    b = b
    base = base
    layer = layer
    NoConfig = NoConfig
    None = None
    NoDev = NoDev
    VMs = {}
    DHCP = {}
    Containers <- MCContainers
    Disked <- MCContainers
    Configs <- MCDisks
    Devices <- MCDevices
    InitMarker <- MCLayered
    Mishaps <- MCEnds
    MaxEdits = 2
    MaxMishaps = 2
PROPERTY Recovers
