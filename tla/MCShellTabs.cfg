SPECIFICATION FairSpec
CONSTANTS
    one = one
    two = two
    Tabs <- MCOneTab
    MaxGen <- MCOneGen
    MaxSignals = 2
INVARIANTS TypeOK NoStray Connected Woken ShellsEnd
PROPERTIES Fenced KeyAnswered Reaped
CHECK_DEADLOCK FALSE
