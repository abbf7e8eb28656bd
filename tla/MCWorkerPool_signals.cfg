\* Three threads (the main thread and two workers), two requests, one
\* signal, with malloc and pthread_create failures allowed.
SPECIFICATION Spec
CONSTANTS
    NumWorkers = 3
    MaxRequests = 2
    MaxSignals = 1
    MallocMayFail = TRUE
    CreateMayFail = TRUE
INVARIANTS TypeOK SignalsOnlyToMain
PROPERTIES SignalReachesMain ExitTerminates
