\* Every failure fuse_daemonize and the setup after it can meet.  Deadlock
\* is not checked: once the child is killed before it reports, the parent
\* blocks in read() for good, which is what the code does.
SPECIFICATION Spec
CONSTANTS
    PipeMayFail = TRUE
    ForkMayFail = TRUE
    HandlersMayFail = TRUE
    InterruptMayHappen = FALSE
    KillMayHappen = TRUE
INVARIANTS ParentWaitsForHandshake NoSigpipe
PROPERTIES ParentEventuallyExits
CHECK_DEADLOCK FALSE
