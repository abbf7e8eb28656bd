\* The loop against its abstract specification, with every failure,
\* interrupt, fuse_exit and unmount the model allows.
SPECIFICATION Spec
CONSTANTS
    MaxRequests = 3
    MaxInterrupts = 2
    AllocMayFail = TRUE
    ReadMayFail = TRUE
    AppMayExit = TRUE
PROPERTIES
    Refinement
