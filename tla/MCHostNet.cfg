SPECIFICATION Spec
CONSTANTS
  None = ""
  Fold <- MCFold
  Bridge <- MCBridge
  DefaultCaps <- MCCaps
  Supported <- MCCaps
  Labs <- MCLabs
  Iface <- MCIface
  LinuxBridges <- MCLinuxBridges
  Preferred <- MCPreferred
  Rank <- MCRank
  Slots <- MCSlots
  MaxMishaps = 2
INVARIANTS TypeOK Wired StartMeans AddressesApart
PROPERTIES KeepsAttached
CHECK_DEADLOCK FALSE
