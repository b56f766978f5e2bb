\* connections that only a short read ends, and a vHAL that opens after the exchange
SPECIFICATION HostFairSpec
CONSTANTS
    Fds <- OneFd
    SigPipe = FALSE
    ForeignFds = FALSE
    Spurious = FALSE
    MaxCmds = 4
    MaxDrops = 0
    MaxPending = 4
    OpenAfterAck = TRUE
INVARIANTS CapabilityFromVhal FramesIntact StreamsThroughAssignedSink
PROPERTY WaitingCloseCompletes
CHECK_DEADLOCK FALSE
