SPECIFICATION FairSpec
CONSTANTS
    vm = vm
    dhcp = dhcp
    disked = disked
    c1 = c1
    c2 = c2
    NoConfig = NoConfig
    None = None
    VMs <- MCVMs
    Containers <- MCContainers
    DHCP <- MCDHCP
    Disked <- MCDisked
    Configs <- MCConfigs
    InitLabs <- MCInitLabs
    Broken = {}
    MaxEdits = 1
    MaxMishaps = 0
PROPERTIES DeletedGoes
