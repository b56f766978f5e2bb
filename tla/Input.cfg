\* a pipe of two events, and any commands
SPECIFICATION Spec
CONSTANTS
    kMaxSlot = 2
    PipeCap = 2
    MaxCmds = 3
INVARIANTS TypeOK CountCovers DistinctIds ReaderAgrees KeysReleased
