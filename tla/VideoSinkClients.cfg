\* both programs, with lost connections and short reads; nobody else uses descriptors
SPECIFICATION CamFairSpec
CONSTANTS
    Fds <- OneFd
    SigPipe = TRUE
    ForeignFds = FALSE
    Spurious = FALSE
    MaxCmds = 2
    MaxDrops = 1
    MaxPending = 3
INVARIANTS TypeOK CameraSessionClean
PROPERTIES KeepsLiveConnection WokenByOwnReply WaiterIsServed TalkerReconnects DestructorReturns DeliversCommands CameraCloseExits
