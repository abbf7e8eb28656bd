\* No allocation or read fails; one read is interrupted while a request
\* calls fuse_exit.
SPECIFICATION Spec
CONSTANTS
    MaxRequests = 2
    MaxInterrupts = 1
    AllocMayFail = FALSE
    ReadMayFail = FALSE
    AppMayExit = TRUE
INVARIANTS
    CleanExitIsSuccess
