\* the server resets the connection
SPECIFICATION FairSpec
CONSTANTS
    Fds <- TwoFds
    MaxCmds = 0
    MaxDrops = 1
PROPERTY ReadErrorReconnects
