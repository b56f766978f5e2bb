\* a reset while a contact is down
SPECIFICATION Spec
CONSTANTS
    kMaxSlot = 2
    PipeCap = 16
    MaxCmds = 2
INVARIANT ResetReachesReader
