\* One signal racing any other cause of shutdown (outside unmount, fuse_exit,
\* a failed or not yet completed mount).
SPECIFICATION Spec
CONSTANTS
    MaxRequests = 2
    MaxSignals = 1
    CallbackResults <- AnyMountResult
    ExternalUnmount = TRUE
    AppMayExit = TRUE
    SetupMayFail = FALSE
    SignalOnlyAfterMount = FALSE
INVARIANTS
    NoUseAfterFree
