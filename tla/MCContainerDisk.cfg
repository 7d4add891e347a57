SPECIFICATION Spec
CONSTANTS
    a = a
    b = b
    base = base
    layer = layer
    NoConfig = NoConfig
    None = None
    NoDev = NoDev
    VMs = {}
    DHCP = {}
    Containers <- MCContainers
    Disked <- MCContainers
    Configs <- MCDisks
    Devices <- MCDevices
    InitMarker <- MCLayered
    Mishaps <- Kinds
    MaxEdits = 3
    MaxMishaps = 2
INVARIANTS TypeOK OwnDisk
PROPERTIES CallEffects PullsNoTask
