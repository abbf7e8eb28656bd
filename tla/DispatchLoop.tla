---------------------------- MODULE DispatchLoop ----------------------------
(***************************************************************************)
(* fuse_loop_dispatch and fuse_session_loop_dispatch                       *)
(* (src/lib/fuse_loop_dispatch.c) with the session calls they make         *)
(* (src/lib/fuse_session.c): one reader thread that reads a request into   *)
(* its scratch buffer, copies it into a buffer of its own and submits a    *)
(* block for it to a dispatch group on a concurrent queue, and the blocks  *)
(* that process the requests.  Every allocation may fail, a read may be    *)
(* interrupted (-EINTR) or fail, a file system operation may call          *)
(* fuse_exit, and the volume may be unmounted.                             *)
(*                                                                         *)
(* The kernel side of a read (the channel's receive operation) is not      *)
(* under src/ and is modelled from the spec (section 4.3): it returns a    *)
(* request the kernel queued, -EINTR, an error, or 0 once the volume is    *)
(* unmounted.  Request contents and sizes are abstracted to an id.         *)
(***************************************************************************)
EXTENDS Naturals, Integers

CONSTANTS
    MaxRequests,     \* requests the kernel delivers in one run
    MaxInterrupts,   \* reads a signal interrupts (EINTR)
    AllocMayFail,    \* malloc, dispatch_queue_create and friends may fail
    ReadMayFail,     \* a read may fail with an I/O error while mounted
    AppMayExit       \* a file system operation may call fuse_exit

ASSUME DispatchAssumption ==
    /\ MaxRequests \in Nat /\ MaxInterrupts \in Nat
    /\ AllocMayFail \in BOOLEAN /\ ReadMayFail \in BOOLEAN
    /\ AppMayExit \in BOOLEAN

EINTR == 4
EIO == 5

VARIABLES
    lpc,        \* the reader thread's place in fuse_loop_dispatch
    res,        \* its local res
    ret,        \* what fuse_loop_dispatch returned
    held,       \* live allocations of the reader: buf, queue, group
    cleanup,    \* the cleanup thread of struct fuse
    exited,     \* se->exited
    nread,      \* requests read so far, 1..nread
    submitted,  \* requests whose block is in the group and has not run
    count,      \* count[i]: times request i was processed
    pbufs,      \* process buffers allocated and not yet freed
    failed,     \* history: an allocation or a read failed
    sent,       \* requests the kernel has queued so far
    mounted,    \* the volume is mounted
    intrLeft    \* interrupts still to come

vars == <<lpc, res, ret, held, cleanup, exited, nread, submitted, count,
          pbufs, failed, sent, mounted, intrLeft>>

Ids == 1..MaxRequests
LoopPCs == {"start", "alloc_buf", "queue", "group", "check", "recv", "copy",
            "wait", "out", "returned"}

Init ==
    /\ lpc = "start" /\ res = 0 /\ ret = 0
    /\ held = {} /\ cleanup = "none" /\ exited = FALSE
    /\ nread = 0 /\ submitted = {} /\ count = [i \in Ids |-> 0]
    /\ pbufs = 0 /\ failed = FALSE
    /\ sent = 0 /\ mounted = TRUE /\ intrLeft = MaxInterrupts

-----------------------------------------------------------------------------
(* The session's exit flag, without lowlevel ops that override it.        *)

(* fuse_session_exited: se->exited.                                        *)
SessionExited == exited

(* fuse_session_exit: se->exited = 1.                                      *)
SessionExit == exited' = TRUE

(* fuse_session_reset: se->exited = 0.                                     *)
SessionReset == exited' = FALSE

-----------------------------------------------------------------------------
(* The reader thread.                                                      *)

(* fuse_start_cleanup_thread; its failure is returned as is.             *)
StartCleanup ==
    /\ lpc = "start"
    /\ \/ /\ cleanup' = "running" /\ lpc' = "alloc_buf"
          /\ UNCHANGED <<ret, failed>>
       \/ /\ AllocMayFail
          /\ lpc' = "returned" /\ ret' = -1 /\ failed' = TRUE
          /\ UNCHANGED cleanup
    /\ UNCHANGED <<res, held, exited, nread, submitted, count, pbufs, sent,
                   mounted, intrLeft>>

(* One of the three allocations before the loop: on failure res = -1 and *)
(* the code jumps to out.                                                  *)
Allocate(pc, what, next) ==
    /\ lpc = pc
    /\ \/ /\ held' = held \cup {what} /\ lpc' = next
          /\ UNCHANGED <<res, failed>>
       \/ /\ AllocMayFail
          /\ res' = -1 /\ lpc' = "out" /\ failed' = TRUE
          /\ UNCHANGED held
    /\ UNCHANGED <<ret, cleanup, exited, nread, submitted, count, pbufs,
                   sent, mounted, intrLeft>>

AllocBuf == Allocate("alloc_buf", "buf", "queue")
CreateQueue == Allocate("queue", "queue", "group")
CreateGroup == Allocate("group", "group", "check")

(* while (!fuse_session_exited(se)) *)
Check ==
    /\ lpc = "check"
    /\ lpc' = IF SessionExited THEN "wait" ELSE "recv"
    /\ UNCHANGED <<res, ret, held, cleanup, exited, nread, submitted, count,
                   pbufs, failed, sent, mounted, intrLeft>>

(* Mutant: a read of 0 bytes is retried like -EINTR instead of breaking. *)
MutRecvZeroRetry ==
    /\ lpc = "recv"
    /\ \/ /\ nread < sent /\ mounted
          /\ res' = 1 /\ nread' = nread + 1 /\ lpc' = "copy"
          /\ UNCHANGED <<failed, intrLeft>>
       \/ /\ intrLeft > 0
          /\ res' = -EINTR /\ intrLeft' = intrLeft - 1 /\ lpc' = "check"
          /\ UNCHANGED <<nread, failed>>
       \/ /\ ~mounted
          /\ res' = 0 /\ lpc' = "check"
          /\ UNCHANGED <<nread, failed, intrLeft>>
       \/ /\ ReadMayFail /\ mounted
          /\ res' = -EIO /\ lpc' = "wait" /\ failed' = TRUE
          /\ UNCHANGED <<nread, intrLeft>>
    /\ UNCHANGED <<ret, held, cleanup, exited, submitted, count, pbufs, sent,
                   mounted>>

(* fuse_session_receive_buf -> fuse_chan_recv -> the kernel's receive,    *)
(* then the loop's tests of res: -EINTR continues, res <= 0 breaks.        *)
Recv ==
    /\ lpc = "recv"
    /\ \/ /\ nread < sent /\ mounted
          /\ res' = 1 /\ nread' = nread + 1 /\ lpc' = "copy"
          /\ UNCHANGED <<failed, intrLeft>>
       \/ /\ intrLeft > 0
          /\ res' = -EINTR /\ intrLeft' = intrLeft - 1 /\ lpc' = "check"
          /\ UNCHANGED <<nread, failed>>
       \/ /\ ~mounted
          /\ res' = 0 /\ lpc' = "wait"
          /\ UNCHANGED <<nread, failed, intrLeft>>
       \/ /\ ReadMayFail /\ mounted
          /\ res' = -EIO /\ lpc' = "wait" /\ failed' = TRUE
          /\ UNCHANGED <<nread, intrLeft>>
    /\ UNCHANGED <<ret, held, cleanup, exited, submitted, count, pbufs, sent,
                   mounted>>

(* Mutant: a failed malloc of the process buffer breaks without res = -1. *)
MutCopyFailNoRes ==
    /\ lpc = "copy"
    /\ \/ /\ pbufs' = pbufs + 1 /\ submitted' = submitted \cup {nread}
          /\ lpc' = "check"
          /\ UNCHANGED <<res, failed>>
       \/ /\ AllocMayFail
          /\ lpc' = "wait" /\ failed' = TRUE
          /\ UNCHANGED <<res, pbufs, submitted>>
    /\ UNCHANGED <<ret, held, cleanup, exited, nread, count, sent, mounted,
                   intrLeft>>

(* malloc(res) and memcpy, then dispatch_group_async of the block.  A      *)
(* failed malloc sets res = -1 and breaks out of the loop.                 *)
Copy ==
    /\ lpc = "copy"
    /\ \/ /\ pbufs' = pbufs + 1 /\ submitted' = submitted \cup {nread}
          /\ lpc' = "check"
          /\ UNCHANGED <<res, failed>>
       \/ /\ AllocMayFail
          /\ res' = -1 /\ lpc' = "wait" /\ failed' = TRUE
          /\ UNCHANGED <<pbufs, submitted>>
    /\ UNCHANGED <<ret, held, cleanup, exited, nread, count, sent, mounted,
                   intrLeft>>

(* Mutant: the loop goes to out without waiting for the group.           *)
MutWaitNoDrain ==
    /\ lpc = "wait"
    /\ lpc' = "out"
    /\ UNCHANGED <<res, ret, held, cleanup, exited, nread, submitted, count,
                   pbufs, failed, sent, mounted, intrLeft>>

(* dispatch_group_wait(group, DISPATCH_TIME_FOREVER): it returns once     *)
(* every block of the group has run, and never with a timeout.            *)
Wait ==
    /\ lpc = "wait"
    /\ submitted = {}
    /\ lpc' = "out"
    /\ UNCHANGED <<res, ret, held, cleanup, exited, nread, submitted, count,
                   pbufs, failed, sent, mounted, intrLeft>>

(* Mutant: the loop returns res itself instead of res < 0 ? -1 : 0.      *)
MutLoopReturnRaw ==
    /\ lpc = "out"
    /\ held' = {}
    /\ SessionReset
    /\ ret' = res
    /\ cleanup' = "stopped"
    /\ lpc' = "returned"
    /\ UNCHANGED <<res, nread, submitted, count, pbufs, failed, sent,
                   mounted, intrLeft>>

(* out: free the buffer, release group and queue, fuse_session_reset,     *)
(* return res < 0 ? -1 : 0; then fuse_stop_cleanup_thread in the caller.  *)
LoopReturn ==
    /\ lpc = "out"
    /\ held' = {}
    /\ SessionReset
    /\ ret' = IF res < 0 THEN -1 ELSE 0
    /\ cleanup' = "stopped"
    /\ lpc' = "returned"
    /\ UNCHANGED <<res, nread, submitted, count, pbufs, failed, sent,
                   mounted, intrLeft>>

-----------------------------------------------------------------------------
(* Mutant: the block does not free its process buffer.                   *)
MutTaskRunNoFree(i) ==
    /\ i \in submitted
    /\ count' = [count EXCEPT ![i] = @ + 1]
    /\ submitted' = submitted \ {i}
    /\ \/ UNCHANGED exited
       \/ AppMayExit /\ SessionExit
    /\ UNCHANGED <<lpc, res, ret, held, cleanup, nread, pbufs, failed, sent,
                   mounted, intrLeft>>

(* A block on the concurrent queue: fuse_session_process_buf, during      *)
(* which the file system may call fuse_exit (fuse_session_exit), then     *)
(* free(fbuf.mem).                                                         *)
TaskRun(i) ==
    /\ i \in submitted
    /\ count' = [count EXCEPT ![i] = @ + 1]
    /\ submitted' = submitted \ {i}
    /\ pbufs' = pbufs - 1
    /\ \/ UNCHANGED exited
       \/ AppMayExit /\ SessionExit
    /\ UNCHANGED <<lpc, res, ret, held, cleanup, nread, failed, sent, mounted,
                   intrLeft>>

(* The kernel queues a request while the volume is mounted.               *)
KernelSend ==
    /\ mounted /\ sent < MaxRequests
    /\ sent' = sent + 1
    /\ UNCHANGED <<lpc, res, ret, held, cleanup, exited, nread, submitted,
                   count, pbufs, failed, mounted, intrLeft>>

(* The volume is unmounted (umount, or exit_handler's fuse_unmount).      *)
Unmount ==
    /\ mounted
    /\ mounted' = FALSE
    /\ UNCHANGED <<lpc, res, ret, held, cleanup, exited, nread, submitted,
                   count, pbufs, failed, sent, intrLeft>>

(* After fuse_loop_dispatch returned, nothing more happens.               *)
Done ==
    /\ lpc = "returned" /\ ~mounted
    /\ UNCHANGED vars

ReaderStep == StartCleanup \/ AllocBuf \/ CreateQueue \/ CreateGroup
              \/ Check \/ Recv \/ Copy \/ Wait \/ LoopReturn

Next ==
    \/ ReaderStep
    \/ \E i \in Ids : TaskRun(i)
    \/ KernelSend \/ Unmount \/ Done

(* GCD runs every submitted block, and the reader thread is scheduled     *)
(* whenever it can run; the kernel and the user get no fairness.          *)
Fairness ==
    /\ WF_vars(ReaderStep)
    /\ \A i \in Ids : WF_vars(TaskRun(i))

Spec == Init /\ [][Next]_vars /\ Fairness

-----------------------------------------------------------------------------
(* The refinement mapping to DispatchSpec.  The loop takes requests until *)
(* it leaves the read loop; the request dropped is the one it read and    *)
(* never submitted.                                                        *)
Reading == lpc \in {"start", "alloc_buf", "queue", "group", "check", "recv",
                    "copy"}

Dropped == {i \in 1..nread : ~Reading /\ i \notin submitted /\ count[i] = 0}

Abs == INSTANCE DispatchSpec
         WITH read <- nread, count <- count, lost <- Dropped,
              open <- Reading, returned <- (lpc = "returned")

-----------------------------------------------------------------------------
(* Properties.                                                             *)

(* Every variable keeps its type; in particular fuse_loop_dispatch returns *)
(* only -1 or 0, whatever res the reader was left with.                    *)
TypeOK ==
    /\ lpc \in LoopPCs
    /\ res \in {-EINTR, -EIO, -1, 0, 1}
    /\ ret \in {-1, 0}
    /\ held \subseteq {"buf", "queue", "group"}
    /\ cleanup \in {"none", "running", "stopped"}
    /\ exited \in BOOLEAN /\ failed \in BOOLEAN /\ mounted \in BOOLEAN
    /\ nread \in 0..MaxRequests /\ sent \in 0..MaxRequests
    /\ submitted \subseteq Ids
    /\ count \in [Ids -> Nat]
    /\ pbufs \in 0..MaxRequests
    /\ intrLeft \in 0..MaxInterrupts

(* The loop implements DispatchSpec: requests are taken in order, each is *)
(* processed at most once, and fuse_loop_dispatch returns only after      *)
(* dispatch_group_wait saw every submitted block finish, so every request *)
(* read was processed except the one whose process buffer could not be   *)
(* allocated.                                                              *)
Refinement == Abs!Spec

(* When fuse_loop_dispatch has returned, it has freed the scratch buffer, *)
(* released queue and group, every block has freed its process buffer,    *)
(* the cleanup thread is not left running, and fuse_session_reset has     *)
(* cleared se->exited for a later loop.                                    *)
NoLeak ==
    lpc = "returned" =>
        /\ held = {} /\ pbufs = 0 /\ cleanup # "running" /\ ~exited

(* A failed allocation or read is never reported as success: a loop that  *)
(* hit one returns -1 (spec section 7, taxonomy (a) and (c)).             *)
FailureReported ==
    lpc = "returned" /\ failed => ret = -1

(* The loop reports -1 only for a failure: an interrupted read is retried *)
(* "transparently, never surfaced" (spec section 7 (b)), so a loop whose  *)
(* allocations and reads all succeeded returns 0.                          *)
CleanExitIsSuccess ==
    lpc = "returned" /\ ~failed => ret = 0

(* Once the volume is unmounted, fuse_loop_dispatch returns: the reader   *)
(* gets 0 from its next read, and no interrupt, request or block keeps it *)
(* from getting through dispatch_group_wait.                               *)
ReturnsAfterUnmount ==
    ~mounted ~> (lpc = "returned")

=============================================================================
