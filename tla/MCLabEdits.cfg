SPECIFICATION ModeSpec
CONSTANTS
  None = ""
  Fold <- MCFold
  Bridge <- MCBridge
  DefaultCaps <- MCDefaultCaps
  Supported <- MCSupported
  Loads <- Valid
  Normal <- Normalize
  HandLabs <- MCHandLabs
  Torn = Torn
  NoLab = NoLab
  Ids <- MCIds
  Macs <- MCMacs
  Paths <- MCPaths
    MaxEvents = 2
INVARIANTS ModeTypeOK Sound FileReads
PROPERTIES AllOrNothing OnlyNamed
CHECK_DEADLOCK FALSE
