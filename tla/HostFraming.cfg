\* the connection is lost between header and payload of a frame
SPECIFICATION HostFairSpec
CONSTANTS
    Fds <- OneFd
    SigPipe = FALSE
    ForeignFds = FALSE
    Spurious = FALSE
    MaxCmds = 1
    MaxDrops = 1
    MaxPending = 4
    OpenAfterAck = TRUE
PROPERTY DataHasHeader
CHECK_DEADLOCK FALSE
