SPECIFICATION FairSpec
CONSTANTS
    default = default
    other = other
    w1 = w1
    w2 = w2
    ui = ui
    ui2 = ui2
    None = None
    Labs <- MCLabs
    Work <- MCWork
    Default <- MCDefault
    Shipped = default
    Callers <- MCCallers
    InitFiles <- MCInitFiles
    MaxEdits = 2
    MaxMishaps = 3
INVARIANTS StatusTruth AppliedRuns NothingLeft
PROPERTY RetrySettles
CONSTRAINT MCApart
