\* The application has a handler installed without SA_RESTART for a signal
\* that reaches the waiting parent; nothing else fails.
SPECIFICATION Spec
CONSTANTS
    PipeMayFail = FALSE
    ForkMayFail = FALSE
    HandlersMayFail = FALSE
    InterruptMayHappen = TRUE
    KillMayHappen = FALSE
INVARIANTS ParentWaitsForHandshake
