\* a process that uses descriptors, and a server that drops connections
SPECIFICATION SampleFairSpec
CONSTANTS
    Fds <- OneFd
    MaxCmds = 3
    MaxDrops = 1
    Starts <- EdgeStart
    MaxFixes = 2
    MaxAhead = 1
INVARIANTS NoSocketLost FlagMatchesThread InjectsUntilStopped SentenceDecodes
CHECK_DEADLOCK FALSE
PROPERTIES ClosesOwnOnly PositionsAdvance FixesStayHome StopReturns QuitEndsReceiver KeepsTrying
