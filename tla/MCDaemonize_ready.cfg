\* Nothing fails: does the parent's exit status mean the volume is ready?
SPECIFICATION Spec
CONSTANTS
    PipeMayFail = FALSE
    ForkMayFail = FALSE
    HandlersMayFail = FALSE
    InterruptMayHappen = FALSE
    KillMayHappen = FALSE
INVARIANTS ParentExitMeansMounted
