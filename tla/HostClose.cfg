\* CMD_CLOSE while the camera is closed
SPECIFICATION HostFairSpec
CONSTANTS
    Fds <- OneFd
    SigPipe = FALSE
    ForeignFds = FALSE
    Spurious = FALSE
    MaxCmds = 1
    MaxDrops = 0
    MaxPending = 4
    OpenAfterAck = TRUE
PROPERTY CloseCompletes
CHECK_DEADLOCK FALSE
