\* connections that the vHAL never drops
SPECIFICATION HostFairSpec
CONSTANTS
    Fds <- OneFd
    SigPipe = FALSE
    ForeignFds = FALSE
    Spurious = FALSE
    MaxCmds = 0
    MaxDrops = 0
    MaxPending = 4
    OpenAfterAck = TRUE
PROPERTY ExchangeCompletes
CHECK_DEADLOCK FALSE
