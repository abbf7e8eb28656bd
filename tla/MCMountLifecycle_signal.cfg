\* Shutdown by one SIGINT/SIGTERM/SIGHUP sent after the mount completed with
\* its DADiskRef attached; no other cause of shutdown.
SPECIFICATION Spec
CONSTANTS
    MaxRequests = 2
    MaxSignals = 1
    CallbackResults <- MountedWithDisk
    ExternalUnmount = FALSE
    AppMayExit = FALSE
    SetupMayFail = TRUE
    SignalOnlyAfterMount = TRUE
INVARIANTS
    NoUseAfterFree
    RefCountBalanced
    NoLeak
PROPERTIES
    ShutdownCompletes
