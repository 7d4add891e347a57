SPECIFICATION CommandSpec
CONSTANTS
  None = ""
  Fold <- MCNone
  Bridge <- MCNone
  DefaultCaps = {}
  Supported = {}
  Loads <- MCLoads
  Normal <- MCNormal
  HandLabs <- MCHandLabs
  Torn = Torn
  NoLab = NoLab
  DiskIds <- MCDiskIds
  Backups <- MCBackups
  Sizes <- MCSizes
  FirstFiles <- MCFirstFiles
  MaxJobs = 2
  MaxMishaps = 2
INVARIANTS TypeOK Backed
PROPERTIES KeepsData WorksOffline
CHECK_DEADLOCK FALSE
