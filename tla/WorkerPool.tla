----------------------------- MODULE WorkerPool -----------------------------
(***************************************************************************)
(* The worker-pool loop of src/lib/fuse_mt.c (fuse_loop_mt), in the build  *)
(* whose signal handlers are installed with sigaction (fuse_signals.c,     *)
(* lines 133-139): exit_handler runs on whichever thread the kernel picks  *)
(* among those that do not block the signal, and calls fuse_session_exit. *)
(*                                                                         *)
(* The main thread allocates the shared struct fuse_worker, then for each  *)
(* of the FUSE_NUM_WORKERS - 1 workers blocks every signal, creates the    *)
(* thread (which inherits the mask), restores its own mask and exits the  *)
(* process if pthread_create failed.  It then runs do_work itself.  Every  *)
(* thread in do_work reads one command with __fuse_read_cmd and processes  *)
(* it; a NULL command ends the whole process with exit(1).                 *)
(*                                                                         *)
(* __fuse_read_cmd and the kernel are not under src/: a read takes the    *)
(* next request the kernel queued, blocks while there is none, and        *)
(* returns NULL once the session has exited or the volume is gone.        *)
(***************************************************************************)
EXTENDS Naturals

CONSTANTS
    NumWorkers,     \* FUSE_NUM_WORKERS, the main thread included
    MaxRequests,    \* requests the kernel delivers in one run
    MaxSignals,     \* SIGHUP/SIGINT/SIGTERM sent to the process
    MallocMayFail,  \* malloc of the struct fuse_worker may return NULL
    CreateMayFail   \* pthread_create may fail

ASSUME PoolAssumption ==
    /\ NumWorkers \in Nat \ {0}
    /\ MaxRequests \in Nat /\ MaxSignals \in Nat
    /\ MallocMayFail \in BOOLEAN /\ CreateMayFail \in BOOLEAN

VARIABLES
    mpc,        \* where the main thread is in __fuse_loop_mt / start_thread
    i,          \* the loop counter of __fuse_loop_mt
    oldset,     \* start_thread's oldset: the main thread's saved mask
    createOk,   \* the result of the last pthread_create was 0
    alive,      \* the threads that exist
    mask,       \* mask[t]: "all" when thread t blocks every signal
    wpc,        \* wpc[t]: where thread t is in do_work
    cur,        \* cur[t]: the request thread t is processing
    sent,       \* requests the kernel queued: 1..sent
    taken,      \* requests read so far: 1..taken
    count,      \* count[r]: how many times request r was processed
    exitReq,    \* the session has exited or the volume is gone
    sigLeft,    \* signals still to be sent
    pending,    \* a signal is pending on the process
    handled,    \* the threads that ran exit_handler
    status      \* "running", or how the process ended

vars == <<mpc, i, oldset, createOk, alive, mask, wpc, cur, sent, taken,
          count, exitReq, sigLeft, pending, handled, status>>

Main == 0
Threads == 0..(NumWorkers - 1)
Reqs == 1..MaxRequests

Init ==
    /\ mpc = "alloc" /\ i = 1 /\ oldset = "none" /\ createOk = TRUE
    /\ alive = {Main}
    /\ mask = [t \in Threads |-> "none"]
    /\ wpc = [t \in Threads |-> "none"]
    /\ cur = [t \in Threads |-> 0]
    /\ sent = 0 /\ taken = 0 /\ count = [r \in Reqs |-> 0]
    /\ exitReq = FALSE /\ sigLeft = MaxSignals /\ pending = FALSE
    /\ handled = {} /\ status = "running"

Running == status = "running"

-----------------------------------------------------------------------------
(* The main thread: __fuse_loop_mt and start_thread.                      *)

(* w = malloc(...); w->f = f: a NULL w faults on the first store.         *)
AllocWorker ==
    /\ Running /\ mpc = "alloc"
    /\ \/ mpc' = "loop" /\ UNCHANGED status
       \/ MallocMayFail /\ status' = "crash" /\ UNCHANGED mpc
    /\ UNCHANGED <<i, oldset, createOk, alive, mask, wpc, cur, sent, taken,
                   count, exitReq, sigLeft, pending, handled>>

(* Mutant: the loop runs while i <= FUSE_NUM_WORKERS.                      *)
MutLoopTestOffByOne ==
    /\ Running /\ mpc = "loop"
    /\ IF i <= NumWorkers
          THEN mpc' = "mask" /\ UNCHANGED wpc
          ELSE mpc' = "work" /\ wpc' = [wpc EXCEPT ![Main] = "read"]
    /\ UNCHANGED <<i, oldset, createOk, alive, mask, cur, sent, taken, count,
                   exitReq, sigLeft, pending, handled, status>>

(* for (i = 1; i < FUSE_NUM_WORKERS; i++) start_thread(w); do_work(w);     *)
LoopTest ==
    /\ Running /\ mpc = "loop"
    /\ IF i < NumWorkers
          THEN mpc' = "mask" /\ UNCHANGED wpc
          ELSE mpc' = "work" /\ wpc' = [wpc EXCEPT ![Main] = "read"]
    /\ UNCHANGED <<i, oldset, createOk, alive, mask, cur, sent, taken, count,
                   exitReq, sigLeft, pending, handled, status>>

(* sigfillset(&newset); pthread_sigmask(SIG_SETMASK, &newset, &oldset).    *)
BlockSignals ==
    /\ Running /\ mpc = "mask"
    /\ oldset' = mask[Main]
    /\ mask' = [mask EXCEPT ![Main] = "all"]
    /\ mpc' = "create"
    /\ UNCHANGED <<i, createOk, alive, wpc, cur, sent, taken, count, exitReq,
                   sigLeft, pending, handled, status>>

(* Mutant: the new thread starts with the mask the program began with,    *)
(* as if it were created after the mask was restored.                     *)
MutCreateUnmasked ==
    /\ Running /\ mpc = "create"
    /\ \/ /\ alive' = alive \cup {i}
          /\ mask' = [mask EXCEPT ![i] = "none"]
          /\ wpc' = [wpc EXCEPT ![i] = "read"]
          /\ createOk' = TRUE
       \/ CreateMayFail /\ createOk' = FALSE /\ UNCHANGED <<alive, mask, wpc>>
    /\ mpc' = "restore"
    /\ UNCHANGED <<i, oldset, cur, sent, taken, count, exitReq, sigLeft,
                   pending, handled, status>>

(* pthread_create(&thrid, NULL, do_work, w): the thread inherits the      *)
(* creating thread's signal mask and starts in do_work.                   *)
CreateThread ==
    /\ Running /\ mpc = "create"
    /\ \/ /\ alive' = alive \cup {i}
          /\ mask' = [mask EXCEPT ![i] = mask[Main]]
          /\ wpc' = [wpc EXCEPT ![i] = "read"]
          /\ createOk' = TRUE
       \/ CreateMayFail /\ createOk' = FALSE /\ UNCHANGED <<alive, mask, wpc>>
    /\ mpc' = "restore"
    /\ UNCHANGED <<i, oldset, cur, sent, taken, count, exitReq, sigLeft,
                   pending, handled, status>>

(* Mutant: the main thread never restores its mask.                       *)
MutRestoreMissing ==
    /\ Running /\ mpc = "restore"
    /\ IF createOk
          THEN i' = i + 1 /\ mpc' = "loop" /\ UNCHANGED status
          ELSE status' = "exit1" /\ UNCHANGED <<i, mpc>>
    /\ UNCHANGED <<oldset, createOk, alive, mask, wpc, cur, sent, taken,
                   count, exitReq, sigLeft, pending, handled>>

(* pthread_sigmask(SIG_SETMASK, &oldset, NULL); if (res != 0) exit(1);    *)
(* pthread_detach(thrid).                                                  *)
RestoreSignals ==
    /\ Running /\ mpc = "restore"
    /\ mask' = [mask EXCEPT ![Main] = oldset]
    /\ IF createOk
          THEN i' = i + 1 /\ mpc' = "loop" /\ UNCHANGED status
          ELSE status' = "exit1" /\ UNCHANGED <<i, mpc>>
    /\ UNCHANGED <<oldset, createOk, alive, wpc, cur, sent, taken, count,
                   exitReq, sigLeft, pending, handled>>

-----------------------------------------------------------------------------
(* do_work, run by every worker and finally by the main thread.           *)

(* Mutant: a NULL command is skipped and the thread reads again.          *)
MutReadCmdIgnoreNull(t) ==
    /\ Running /\ t \in alive /\ wpc[t] = "read"
    /\ \/ exitReq /\ UNCHANGED <<taken, cur, wpc>>
       \/ /\ ~exitReq /\ taken < sent
          /\ taken' = taken + 1
          /\ cur' = [cur EXCEPT ![t] = taken + 1]
          /\ wpc' = [wpc EXCEPT ![t] = "proc"]
    /\ UNCHANGED <<mpc, i, oldset, createOk, alive, mask, sent, count,
                   exitReq, sigLeft, pending, handled, status>>

(* cmd = __fuse_read_cmd(w->f); if (cmd == NULL) exit(1);                 *)
ReadCmd(t) ==
    /\ Running /\ t \in alive /\ wpc[t] = "read"
    /\ \/ /\ exitReq
          /\ status' = "exit1"
          /\ UNCHANGED <<taken, cur, wpc>>
       \/ /\ ~exitReq /\ taken < sent
          /\ taken' = taken + 1
          /\ cur' = [cur EXCEPT ![t] = taken + 1]
          /\ wpc' = [wpc EXCEPT ![t] = "proc"]
          /\ UNCHANGED status
    /\ UNCHANGED <<mpc, i, oldset, createOk, alive, mask, sent, count,
                   exitReq, sigLeft, pending, handled>>

(* w->proc(w->f, cmd, w->data), then the next iteration of while (1).     *)
Process(t) ==
    /\ Running /\ wpc[t] = "proc"
    /\ count' = [count EXCEPT ![cur[t]] = @ + 1]
    /\ cur' = [cur EXCEPT ![t] = 0]
    /\ wpc' = [wpc EXCEPT ![t] = "read"]
    /\ UNCHANGED <<mpc, i, oldset, createOk, alive, mask, sent, taken,
                   exitReq, sigLeft, pending, handled, status>>

-----------------------------------------------------------------------------
(* Signals and the outside world.                                         *)

(* kill(pid, SIGINT): the signal is pending on the process.               *)
SendSignal ==
    /\ Running /\ sigLeft > 0
    /\ sigLeft' = sigLeft - 1
    /\ pending' = TRUE
    /\ UNCHANGED <<mpc, i, oldset, createOk, alive, mask, wpc, cur, sent,
                   taken, count, exitReq, handled, status>>

(* The kernel delivers the pending signal to a thread that does not block *)
(* it, which runs exit_handler: fuse_session_exit(fuse_instance).         *)
Deliver(t) ==
    /\ Running /\ pending
    /\ t \in alive /\ mask[t] = "none"
    /\ pending' = FALSE
    /\ handled' = handled \cup {t}
    /\ exitReq' = TRUE
    /\ UNCHANGED <<mpc, i, oldset, createOk, alive, mask, wpc, cur, sent,
                   taken, count, sigLeft, status>>

(* The kernel queues a request while the volume is mounted.               *)
KernelSend ==
    /\ Running /\ ~exitReq /\ sent < MaxRequests
    /\ sent' = sent + 1
    /\ UNCHANGED <<mpc, i, oldset, createOk, alive, mask, wpc, cur, taken,
                   count, exitReq, sigLeft, pending, handled, status>>

(* The volume is unmounted: every later read fails.                       *)
Unmount ==
    /\ Running /\ ~exitReq
    /\ exitReq' = TRUE
    /\ UNCHANGED <<mpc, i, oldset, createOk, alive, mask, wpc, cur, sent,
                   taken, count, sigLeft, pending, handled, status>>

(* The process has ended.                                                 *)
Ended ==
    /\ ~Running
    /\ UNCHANGED vars

MainStep == AllocWorker \/ LoopTest \/ BlockSignals \/ CreateThread
            \/ RestoreSignals

Next ==
    \/ MainStep
    \/ \E t \in Threads : ReadCmd(t) \/ Process(t) \/ Deliver(t)
    \/ SendSignal \/ KernelSend \/ Unmount \/ Ended

(* Every thread is scheduled while it can run, and the kernel delivers a  *)
(* pending signal as soon as some thread leaves it unblocked.  The user   *)
(* and the kernel's requests get no fairness.                             *)
Fairness ==
    /\ WF_vars(MainStep)
    /\ \A t \in Threads : WF_vars(ReadCmd(t)) /\ WF_vars(Process(t))
    /\ WF_vars(\E t \in Threads : Deliver(t))

Spec == Init /\ [][Next]_vars /\ Fairness

-----------------------------------------------------------------------------
(* Properties.                                                            *)

(* Every variable keeps its type.                                         *)
TypeOK ==
    /\ mpc \in {"alloc", "loop", "mask", "create", "restore", "work"}
    /\ i \in 1..NumWorkers
    /\ oldset \in {"none", "all"} /\ createOk \in BOOLEAN
    /\ alive \subseteq Threads
    /\ mask \in [Threads -> {"none", "all"}]
    /\ wpc \in [Threads -> {"none", "read", "proc"}]
    /\ cur \in [Threads -> 0..MaxRequests]
    /\ sent \in 0..MaxRequests /\ taken \in 0..sent
    /\ count \in [Reqs -> Nat]
    /\ exitReq \in BOOLEAN /\ sigLeft \in 0..MaxSignals
    /\ pending \in BOOLEAN /\ handled \subseteq Threads
    /\ status \in {"running", "exit1", "crash"}

(* start_thread blocks every signal before pthread_create and restores    *)
(* the mask after it, so every worker inherits a full mask: exit_handler  *)
(* only ever runs on the main thread (spec: "worker threads block all     *)
(* signals before creation").                                             *)
SignalsOnlyToMain == handled \subseteq {Main}

(* A signal sent to the process, even while start_thread has the main     *)
(* thread's mask full, is eventually handled by the main thread unless    *)
(* the process has ended first.                                           *)
SignalReachesMain == pending ~> (Main \in handled \/ ~Running)

(* Once the session has exited or the volume is gone, the process ends:   *)
(* every thread's next read returns NULL and do_work calls exit(1).       *)
ExitTerminates == exitReq ~> ~Running

=============================================================================
