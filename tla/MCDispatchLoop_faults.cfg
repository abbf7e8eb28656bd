\* Every failure the loop handles: allocation failures, I/O errors, an
\* interrupted read, fuse_exit from a request, and an unmount at any time.
SPECIFICATION Spec
CONSTANTS
    MaxRequests = 3
    MaxInterrupts = 1
    AllocMayFail = TRUE
    ReadMayFail = TRUE
    AppMayExit = TRUE
INVARIANTS
    TypeOK
    NoLeak
    FailureReported
PROPERTIES
    ReturnsAfterUnmount
