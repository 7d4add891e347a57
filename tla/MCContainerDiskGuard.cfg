SPECIFICATION Spec
CONSTANTS
    a = a
    b = b
    base = base
    layer = layer
    NoConfig = NoConfig
    None = None
    NoDev = NoDev
    VMs = {}
    DHCP = {}
    Containers <- MCContainers
    Disked <- MCContainers
    Configs <- MCDisks
    Devices <- MCDevices
    InitMarker <- MCLayered
    Mishaps <- MCExits
    MaxEdits = 2
    MaxMishaps = 1
INVARIANT StoppedIsFree
