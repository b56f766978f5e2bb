\* a configuration arrives while the sender is at work
SPECIFICATION Spec
CONSTANTS
    MaxMsgs = 1
    MaxDrops = 0
    MaxPending = 2
    SendCap = 1
INVARIANT MapGuarded
CHECK_DEADLOCK FALSE
