\* every hazard on: SIGPIPE, descriptors taken by others, spurious
\* wakeups, lost connections, and a vHAL that commands at any time
SPECIFICATION HostSpec
CONSTANTS
    Fds <- TwoFds
    SigPipe = TRUE
    ForeignFds = TRUE
    Spurious = TRUE
    MaxCmds = 2
    MaxDrops = 1
    MaxPending = 1
    OpenAfterAck = FALSE
INVARIANTS NoDescriptorLeak NoUseAfterFree CallbackPhases
CHECK_DEADLOCK FALSE
