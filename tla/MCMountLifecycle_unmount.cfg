\* Shutdown by umount(8) or fuse_exit, no signals; every setup failure and
\* every mount outcome.
SPECIFICATION Spec
CONSTANTS
    MaxRequests = 2
    MaxSignals = 0
    CallbackResults <- AnyMountResult
    ExternalUnmount = TRUE
    AppMayExit = TRUE
    SetupMayFail = TRUE
    SignalOnlyAfterMount = FALSE
INVARIANTS
    TypeOK
    NoUseAfterFree
    RefCountBalanced
    NoLeak
PROPERTIES
    ShutdownCompletes
