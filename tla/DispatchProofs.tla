--------------------------- MODULE DispatchProofs ---------------------------
(***************************************************************************)
(* Proofs about DispatchLoop for every value of the constants: type        *)
(* correctness, and that the loop implements DispatchSpec under the       *)
(* refinement mapping Abs.                                                 *)
(*                                                                         *)
(* The invariant DInv says where the requests read so far are:             *)
(*   - every request read is in the group or processed once, except,     *)
(*     while the reader holds it in its scratch buffer (copy) or after it *)
(*     broke out of the loop, the last one;                                *)
(*   - once dispatch_group_wait returned the group is empty;               *)
(*   - pbufs counts the blocks in the group, one buffer each.              *)
(* TypeOK alone is not inductive: a block frees a buffer, so pbufs - 1 is *)
(* in range only because pbufs counts the blocks; and the abstract         *)
(* Complete step needs the request a block runs not to have been           *)
(* processed before.                                                       *)
(*                                                                         *)
(* NoLeak and FailureReported also rest on Outcome, which says what the   *)
(* reader holds before its loop starts, after a failure and after it      *)
(* returned.                                                               *)
(***************************************************************************)
EXTENDS DispatchLoop, FiniteSets, FiniteSetTheorems, TLAPS

(* Every request read is in the group or was processed, for the requests *)
(* 1..k.                                                                   *)
Accounted(k) == \A i \in 1..k : i \in submitted \/ count[i] = 1

Shape ==
    /\ submitted \subseteq 1..nread
    /\ \A i \in Ids : count[i] \in {0, 1} /\ (i > nread => count[i] = 0)
    /\ \A i \in submitted : count[i] = 0
    /\ pbufs = Cardinality(submitted)
    /\ lpc \in {"start", "alloc_buf", "queue", "group"} => nread = 0
    /\ lpc \in {"check", "recv"} => Accounted(nread)
    /\ lpc = "copy" => /\ nread \in Ids /\ nread \notin submitted
                       /\ count[nread] = 0 /\ Accounted(nread - 1)
    /\ lpc \in {"wait", "out", "returned"} => Accounted(nread - 1)
    /\ lpc \in {"out", "returned"} => submitted = {}

DInv == TypeOK /\ Shape

(* What the reader owns and reports, relative to where it is: nothing is  *)
(* held and se->exited is clear before fuse_start_cleanup_thread; a       *)
(* failure sends the reader straight out of its loop with res < 0; and    *)
(* once it has returned, out: freed and reset everything and turned a     *)
(* failure into -1.  No block can set se->exited after that, because the   *)
(* group is empty (Shape).                                                 *)
Outcome ==
    /\ lpc = "start" => held = {} /\ cleanup = "none" /\ ~exited
    /\ failed => lpc \in {"wait", "out", "returned"}
    /\ failed /\ lpc \in {"wait", "out"} => res < 0
    /\ lpc = "returned" => /\ held = {} /\ cleanup # "running" /\ ~exited
                           /\ (failed => ret = -1)

-----------------------------------------------------------------------------
(* A set of request ids is finite and has at most MaxRequests elements.   *)
LEMMA IdsFinite ==
    ASSUME NEW S \in SUBSET Ids
    PROVE  /\ IsFiniteSet(S)
           /\ Cardinality(S) \in 0..MaxRequests
<1>1. MaxRequests \in Nat
    BY DispatchAssumption
<1>2. IsFiniteSet(Ids) /\ Cardinality(Ids) = MaxRequests
    BY <1>1, FS_Interval DEF Ids
<1>3. IsFiniteSet(S) /\ Cardinality(S) <= MaxRequests
    BY <1>2, FS_Subset
<1>4. Cardinality(S) \in Nat
    BY <1>3, FS_CardinalityType
<1> QED
    BY <1>3, <1>4

(* A request accounted for stays so when the range is cut by one.         *)
LEMMA AccountedPrefix ==
    ASSUME NEW k \in Nat, Accounted(k)
    PROVE  Accounted(k - 1)
BY DEF Accounted

LEMMA InitDInv == Init => DInv
<1> SUFFICES ASSUME Init PROVE DInv
    OBVIOUS
<1>1. IsFiniteSet({}) /\ Cardinality({}) = 0
    BY FS_EmptySet
<1>2. MaxRequests \in Nat /\ MaxInterrupts \in Nat
    BY DispatchAssumption
<1>5. count \in [Ids -> Nat]
    BY DEF Init
<1>6. pbufs \in 0..MaxRequests /\ intrLeft \in 0..MaxInterrupts
      /\ nread \in 0..MaxRequests /\ sent \in 0..MaxRequests
    BY <1>2 DEF Init
<1>7. res \in {-EINTR, -EIO, -1, 0, 1} /\ ret \in {-1, 0}
    BY DEF Init
<1>8. lpc \in LoopPCs /\ held \subseteq {"buf", "queue", "group"}
      /\ cleanup \in {"none", "running", "stopped"}
    BY DEF Init, LoopPCs
<1>9. exited \in BOOLEAN /\ failed \in BOOLEAN /\ mounted \in BOOLEAN
      /\ submitted \subseteq Ids
    BY DEF Init
<1>3. TypeOK
    BY <1>5, <1>6, <1>7, <1>8, <1>9 DEF TypeOK
<1>4. \A i \in Ids : count[i] \in {0, 1} /\ (i > nread => count[i] = 0)
    BY DEF Init
<1> QED
    BY <1>1, <1>3, <1>4 DEF Init, DInv, Shape

(* Every step of the loop, of a block and of the kernel keeps DInv.      *)
LEMMA NextDInv == DInv /\ [Next]_vars => DInv'
<1> SUFFICES ASSUME DInv, [Next]_vars PROVE DInv'
    OBVIOUS
<1>0. /\ TypeOK
      /\ MaxRequests \in Nat /\ MaxInterrupts \in Nat
      /\ AllocMayFail \in BOOLEAN /\ ReadMayFail \in BOOLEAN
      /\ AppMayExit \in BOOLEAN
      /\ IsFiniteSet(submitted) /\ Cardinality(submitted) \in 0..MaxRequests
    BY IdsFinite, DispatchAssumption DEF DInv, TypeOK
<1>1. CASE StartCleanup
    <2>1. TypeOK'
        BY <1>0, <1>1 DEF StartCleanup, TypeOK, LoopPCs
    <2>2. Shape'
        BY <1>0, <1>1, AccountedPrefix DEF StartCleanup, DInv, Shape, Accounted
    <2> QED
        BY <2>1, <2>2 DEF DInv
<1>2. ASSUME NEW pc \in {"alloc_buf", "queue", "group"},
             NEW what \in {"buf", "queue", "group"},
             NEW nxt \in {"queue", "group", "check"},
             Allocate(pc, what, nxt)
      PROVE  DInv'
    <2>1. TypeOK'
        BY <1>0, <1>2 DEF Allocate, TypeOK, LoopPCs
    <2>2. Shape'
        BY <1>0, <1>2, AccountedPrefix DEF Allocate, DInv, Shape, Accounted
    <2> QED
        BY <2>1, <2>2 DEF DInv
<1>3. CASE AllocBuf \/ CreateQueue \/ CreateGroup
    BY <1>2, <1>3 DEF AllocBuf, CreateQueue, CreateGroup
<1>4. CASE Check
    <2>1. TypeOK'
        BY <1>0, <1>4 DEF Check, TypeOK, LoopPCs
    <2>2. Shape'
        <3>1. /\ UNCHANGED <<nread, submitted, count, pbufs>>
              /\ lpc = "check" /\ lpc' \in {"wait", "recv"}
            BY <1>4 DEF Check
        <3>2. Accounted(nread) /\ Accounted(nread - 1)
            BY <1>0, <3>1, AccountedPrefix DEF DInv, Shape, TypeOK
        <3> QED
            BY <3>1, <3>2 DEF DInv, Shape, Accounted
    <2> QED
        BY <2>1, <2>2 DEF DInv
<1>5. CASE Recv
    <2>0. lpc = "recv" /\ Accounted(nread) /\ Accounted(nread - 1)
          /\ UNCHANGED <<submitted, count, pbufs>>
        BY <1>0, <1>5, AccountedPrefix DEF Recv, DInv, Shape, TypeOK
    <2>1. CASE /\ nread < sent /\ mounted
               /\ res' = 1 /\ nread' = nread + 1 /\ lpc' = "copy"
               /\ UNCHANGED <<failed, intrLeft>>
        <3>1. nread' \in Ids /\ nread' \notin submitted /\ count[nread'] = 0
            BY <1>0, <2>0, <2>1 DEF DInv, Shape, TypeOK, Ids
        <3>2. TypeOK'
            BY <1>0, <1>5, <2>1 DEF Recv, TypeOK, LoopPCs
        <3>3. Shape'
            BY <1>0, <2>0, <2>1, <3>1 DEF DInv, Shape, TypeOK, Accounted, Ids
        <3> QED
            BY <3>2, <3>3 DEF DInv
    <2>2. CASE /\ intrLeft > 0
               /\ res' = -EINTR /\ intrLeft' = intrLeft - 1 /\ lpc' = "check"
               /\ UNCHANGED <<nread, failed>>
        <3>1. TypeOK'
            BY <1>0, <1>5, <2>2 DEF Recv, TypeOK, LoopPCs
        <3>2. Shape'
            BY <2>0, <2>2 DEF DInv, Shape, Accounted
        <3> QED
            BY <3>1, <3>2 DEF DInv
    <2>3. CASE /\ \/ ~mounted /\ res' = 0
                  \/ ReadMayFail /\ mounted /\ res' = -EIO /\ failed' = TRUE
               /\ lpc' = "wait"
               /\ UNCHANGED <<nread, intrLeft>>
        <3>1. TypeOK'
            BY <1>0, <1>5, <2>3 DEF Recv, TypeOK, LoopPCs
        <3>2. Shape'
            BY <2>0, <2>3 DEF DInv, Shape, Accounted
        <3> QED
            BY <3>1, <3>2 DEF DInv
    <2> QED
        BY <1>5, <2>1, <2>2, <2>3 DEF Recv
<1>6. CASE Copy
    <2>0. lpc = "copy" /\ nread \in Ids /\ nread \notin submitted
          /\ count[nread] = 0 /\ Accounted(nread - 1)
        BY <1>6 DEF Copy, DInv, Shape
    <2>1. CASE /\ pbufs' = pbufs + 1 /\ submitted' = submitted \cup {nread}
               /\ lpc' = "check" /\ UNCHANGED <<res, failed>>
               /\ UNCHANGED <<ret, held, cleanup, exited, nread, count,
                              sent, mounted, intrLeft>>
        <3>1. Cardinality(submitted') = Cardinality(submitted) + 1
            BY <1>0, <2>0, <2>1, FS_AddElement
        <3>2. submitted' \subseteq Ids
            BY <1>0, <2>0, <2>1 DEF TypeOK
        <3>3. Cardinality(submitted') \in 0..MaxRequests
            BY <3>2, IdsFinite
        <3>4. TypeOK'
            BY <1>0, <2>1, <3>1, <3>2, <3>3 DEF DInv, Shape, TypeOK, LoopPCs
        <3>5. Shape'
            BY <1>0, <2>0, <2>1, <3>1 DEF DInv, Shape, Accounted, Ids
        <3> QED
            BY <3>4, <3>5 DEF DInv
    <2>2. CASE /\ AllocMayFail
               /\ res' = -1 /\ lpc' = "wait" /\ failed' = TRUE
               /\ UNCHANGED <<pbufs, submitted>>
               /\ UNCHANGED <<ret, held, cleanup, exited, nread, count,
                              sent, mounted, intrLeft>>
        <3>1. TypeOK'
            BY <1>0, <2>2 DEF TypeOK, LoopPCs
        <3>2. Shape'
            BY <2>0, <2>2 DEF DInv, Shape, Accounted
        <3> QED
            BY <3>1, <3>2 DEF DInv
    <2> QED
        BY <1>6, <2>1, <2>2 DEF Copy
<1>7. CASE Wait
    <2>1. TypeOK'
        BY <1>0, <1>7 DEF Wait, TypeOK, LoopPCs
    <2>2. Shape'
        <3>1. /\ UNCHANGED <<nread, submitted, count, pbufs>>
              /\ lpc = "wait" /\ lpc' = "out" /\ submitted = {}
            BY <1>7 DEF Wait
        <3> QED
            BY <3>1 DEF DInv, Shape, Accounted
    <2> QED
        BY <2>1, <2>2 DEF DInv
<1>8. CASE LoopReturn
    <2>1. TypeOK'
        BY <1>0, <1>8 DEF LoopReturn, SessionReset, TypeOK, LoopPCs
    <2>2. Shape'
        <3>1. /\ UNCHANGED <<nread, submitted, count, pbufs>>
              /\ lpc = "out" /\ lpc' = "returned"
            BY <1>8 DEF LoopReturn
        <3> QED
            BY <3>1 DEF DInv, Shape, Accounted
    <2> QED
        BY <2>1, <2>2 DEF DInv
<1>9. ASSUME NEW i \in Ids, TaskRun(i) PROVE DInv'
    <2>1. i \in submitted /\ count[i] = 0 /\ i \in 1..nread
        BY <1>9 DEF TaskRun, DInv, Shape
    <2>2. Cardinality(submitted') = Cardinality(submitted) - 1
        BY <1>0, <1>9, <2>1, FS_RemoveElement DEF TaskRun
    <2>3. submitted' \subseteq Ids /\ Cardinality(submitted') \in 0..MaxRequests
        BY <1>0, <1>9, IdsFinite DEF TaskRun, TypeOK
    <2>4. count' = [count EXCEPT ![i] = 1]
        BY <1>0, <1>9, <2>1 DEF TaskRun, TypeOK
    <2>5. pbufs' = Cardinality(submitted')
        BY <1>9, <2>2 DEF TaskRun, DInv, Shape
    <2>6. TypeOK'
        <3>1. count' \in [Ids -> Nat]
            BY <1>0, <2>4 DEF TypeOK
        <3>2. exited' \in BOOLEAN
            BY <1>0, <1>9 DEF TaskRun, SessionExit, TypeOK
        <3>3. UNCHANGED <<lpc, res, ret, held, cleanup, nread, failed, sent,
                          mounted, intrLeft>>
            BY <1>9 DEF TaskRun
        <3> QED
            BY <1>0, <2>3, <2>5, <3>1, <3>2, <3>3 DEF TypeOK
    <2>7. Shape'
        <3>0. /\ UNCHANGED <<lpc, nread>> /\ submitted' = submitted \ {i}
              /\ count \in [Ids -> Nat] /\ i \in Ids
            BY <1>0, <1>9 DEF TaskRun, TypeOK
        <3>1. submitted' \subseteq 1..nread'
            BY <3>0 DEF DInv, Shape
        <3>2. \A j \in Ids : count'[j] \in {0, 1} /\ (j > nread' => count'[j] = 0)
            BY <1>0, <2>1, <2>4, <3>0 DEF DInv, Shape, TypeOK, Ids
        <3>3. \A j \in submitted' : count'[j] = 0
            BY <2>4, <3>0 DEF DInv, Shape, TypeOK
        <3>4. ASSUME NEW k \in Int, Accounted(k) PROVE Accounted(k)'
            BY <3>4, <2>4, <3>0 DEF Accounted, TypeOK
        <3>5. lpc = "copy" => nread' \notin submitted' /\ count'[nread'] = 0
            BY <2>1, <2>4, <3>0 DEF DInv, Shape
        <3>6. pbufs' = Cardinality(submitted')
            BY <2>5
        <3>7. lpc \in {"out", "returned"} => submitted' = {}
            BY <2>1, <3>0 DEF DInv, Shape
        <3> QED
            BY <1>0, <3>0, <3>1, <3>2, <3>3, <3>4, <3>5, <3>6, <3>7
            DEF DInv, Shape, TypeOK
    <2> QED
        BY <2>6, <2>7 DEF DInv
<1>10. CASE KernelSend \/ Unmount \/ Done \/ UNCHANGED vars
    <2>1. TypeOK'
        <3>1. CASE KernelSend
            BY <1>0, <3>1 DEF KernelSend, TypeOK
        <3>2. CASE Unmount
            BY <1>0, <3>2 DEF Unmount, TypeOK
        <3>3. CASE Done \/ UNCHANGED vars
            BY <1>0, <3>3 DEF Done, vars, TypeOK
        <3> QED
            BY <1>10, <3>1, <3>2, <3>3
    <2>2. UNCHANGED <<lpc, nread, submitted, count, pbufs>>
        BY <1>10 DEF KernelSend, Unmount, Done, vars
    <2>3. Shape'
        BY <2>2 DEF DInv, Shape, Accounted
    <2> QED
        BY <2>1, <2>3 DEF DInv
<1> QED
    BY <1>1, <1>3, <1>4, <1>5, <1>6, <1>7, <1>8, <1>9, <1>10
    DEF Next, ReaderStep

-----------------------------------------------------------------------------
(* While the reader is in its read loop, no request counts as dropped.    *)
LEMMA ReadingNoDrop == Reading => Dropped = {}
BY DEF Dropped

(* Each step of DispatchLoop is a step of DispatchSpec under Abs, or      *)
(* leaves the mapped state alone.                                         *)
LEMMA StepRefines == DInv /\ [Next]_vars => [Abs!Next]_Abs!vars
<1> SUFFICES ASSUME DInv, [Next]_vars PROVE [Abs!Next]_Abs!vars
    OBVIOUS
<1>0. /\ TypeOK /\ MaxRequests \in Nat
    BY DispatchAssumption DEF DInv, Shape
<1> DEFINE Stutter == UNCHANGED <<nread, count, Dropped, Reading,
                                   lpc = "returned">>
<1>s. Stutter => [Abs!Next]_Abs!vars
    BY DEF Abs!vars
<1>1. CASE StartCleanup
    <2>0. lpc = "start" /\ nread = 0 /\ UNCHANGED <<nread, count, submitted>>
        BY <1>1 DEF StartCleanup, DInv, Shape
    <2>1. CASE lpc' = "alloc_buf"
        <3>1. Dropped = {} /\ Dropped' = {} /\ Reading /\ Reading'
            BY <2>0, <2>1 DEF Dropped, Reading
        <3> QED
            BY <1>s, <2>0, <2>1, <3>1
    <2>2. CASE lpc' = "returned"
        <3>1. Dropped = {} /\ Dropped' = {} /\ Reading /\ ~Reading'
            BY <2>0, <2>2 DEF Dropped, Reading
        <3>2. Abs!Return
            BY <2>0, <2>2, <3>1 DEF Abs!Return
        <3> QED
            BY <3>2 DEF Abs!Next
    <2> QED
        BY <1>1, <2>1, <2>2 DEF StartCleanup
<1>2. CASE AllocBuf \/ CreateQueue \/ CreateGroup
    <2>1. /\ lpc \in {"alloc_buf", "queue", "group"} /\ nread = 0
          /\ UNCHANGED <<nread, count, submitted>>
          /\ lpc' \in {"queue", "group", "check", "out"}
        BY <1>2 DEF AllocBuf, CreateQueue, CreateGroup, Allocate, DInv, Shape
    <2>2. Dropped' = {} /\ Dropped = {} /\ Reading
        BY <2>1 DEF Dropped, Reading
    <2>3. CASE lpc' = "out"
        <3>1. Abs!Close
            BY <2>1, <2>2, <2>3 DEF Reading, Abs!Close
        <3> QED
            BY <3>1 DEF Abs!Next
    <2>4. CASE lpc' # "out"
        BY <1>s, <2>1, <2>2, <2>4 DEF Reading
    <2> QED
        BY <2>3, <2>4
<1>3. CASE Check
    <2>0. lpc = "check" /\ UNCHANGED <<nread, count, submitted>>
          /\ lpc' \in {"wait", "recv"} /\ Accounted(nread)
        BY <1>3 DEF Check, DInv, Shape
    <2>1. Dropped = {} /\ Reading
        BY <2>0 DEF Dropped, Reading
    <2>2. CASE lpc' = "recv"
        <3>1. Dropped' = {} /\ Reading'
            BY <2>0, <2>2 DEF Dropped, Reading
        <3> QED
            BY <1>s, <2>0, <2>1, <2>2, <3>1
    <2>3. CASE lpc' = "wait"
        <3>1. Dropped' = {} /\ ~Reading'
            BY <2>0, <2>3 DEF Dropped, Reading, Accounted
        <3>2. Abs!Close
            BY <2>0, <2>1, <2>3, <3>1 DEF Abs!Close
        <3> QED
            BY <3>2 DEF Abs!Next
    <2> QED
        BY <2>0, <2>2, <2>3
<1>4. CASE Recv
    <2>0. lpc = "recv" /\ UNCHANGED <<count, submitted>> /\ Accounted(nread)
          /\ Dropped = {} /\ Reading
        BY <1>4 DEF Recv, DInv, Shape, Dropped, Reading
    <2>1. CASE lpc' = "copy"
        <3>1. nread' = nread + 1 /\ nread < MaxRequests
            BY <1>0, <1>4, <2>1 DEF Recv, TypeOK
        <3>2. Dropped' = {} /\ Reading'
            BY <2>1 DEF Dropped, Reading
        <3>3. Abs!Receive
            BY <2>0, <2>1, <3>1, <3>2 DEF Abs!Receive
        <3> QED
            BY <3>3 DEF Abs!Next
    <2>2. CASE lpc' = "check"
        <3>1. UNCHANGED nread /\ Dropped' = {} /\ Reading'
            BY <1>4, <2>2 DEF Recv, Dropped, Reading
        <3> QED
            BY <1>s, <2>0, <2>2, <3>1
    <2>3. CASE lpc' = "wait"
        <3>1. UNCHANGED nread
            BY <1>4, <2>3 DEF Recv
        <3>2. Dropped' = {} /\ ~Reading'
            BY <2>0, <2>3, <3>1 DEF Dropped, Reading, Accounted
        <3>3. Abs!Close
            BY <2>0, <2>3, <3>1, <3>2 DEF Abs!Close
        <3> QED
            BY <3>3 DEF Abs!Next
    <2> QED
        BY <1>4, <2>1, <2>2, <2>3 DEF Recv
<1>5. CASE Copy
    <2>0. /\ lpc = "copy" /\ nread \in Ids /\ nread \notin submitted
          /\ count[nread] = 0 /\ Accounted(nread - 1) /\ Dropped = {}
          /\ Reading /\ UNCHANGED <<nread, count>>
        BY <1>5 DEF Copy, DInv, Shape, Reading, Dropped
    <2>1. CASE lpc' = "check"
        <3>1. Dropped' = {} /\ Reading'
            BY <2>1 DEF Dropped, Reading
        <3> QED
            BY <1>s, <2>0, <2>1, <3>1
    <2>2. CASE lpc' = "wait"
        <3>1. UNCHANGED submitted
            BY <1>5, <2>2 DEF Copy
        <3>2. ~Reading'
            BY <2>2 DEF Reading
        <3>3. Dropped' = {nread}
            BY <1>0, <2>0, <3>1, <3>2 DEF Dropped, Accounted, Ids
        <3>4. nread > 0
            BY <2>0 DEF Ids
        <3>5. Abs!Lose
            BY <2>0, <2>2, <3>2, <3>3, <3>4 DEF Abs!Lose
        <3> QED
            BY <3>5 DEF Abs!Next
    <2> QED
        BY <1>5, <2>1, <2>2 DEF Copy
<1>6. CASE Wait
    <2>1. lpc = "wait" /\ lpc' = "out" /\ UNCHANGED <<nread, count, submitted>>
        BY <1>6 DEF Wait
    <2>2. Dropped' = Dropped /\ ~Reading /\ ~Reading'
        BY <2>1 DEF Dropped, Reading
    <2>3. Reading' = Reading /\ (lpc' = "returned") = (lpc = "returned")
        BY <2>1 DEF Reading
    <2> QED
        BY <1>s, <2>1, <2>2, <2>3
<1>7. CASE LoopReturn
    <2>1. lpc = "out" /\ lpc' = "returned" /\ submitted = {}
          /\ UNCHANGED <<nread, count, submitted>>
        BY <1>7 DEF LoopReturn, DInv, Shape
    <2>2. ~Reading /\ ~Reading' /\ Dropped' = Dropped
        BY <2>1 DEF Dropped, Reading
    <2>3. \A i \in 1..nread : count[i] = 1 \/ i \in Dropped
        BY <1>0, <2>1, <2>2 DEF DInv, Shape, Dropped, TypeOK, Ids
    <2>4. Abs!Return
        BY <2>1, <2>2, <2>3 DEF Abs!Return
    <2> QED
        BY <2>4 DEF Abs!Next
<1>8. ASSUME NEW i \in Ids, TaskRun(i) PROVE [Abs!Next]_Abs!vars
    <2>1. i \in submitted /\ count[i] = 0 /\ i \in 1..nread
        BY <1>8 DEF TaskRun, DInv, Shape
    <2>2. count' = [count EXCEPT ![i] = 1]
        BY <1>0, <1>8, <2>1 DEF TaskRun, TypeOK
    <2>3. /\ UNCHANGED <<nread, lpc>> /\ submitted' = submitted \ {i}
          /\ Reading' = Reading
        BY <1>8 DEF TaskRun, Reading
    <2>4. Dropped' = Dropped
        BY <1>0, <2>1, <2>2, <2>3 DEF Dropped, TypeOK, Ids
    <2>5. i \notin Dropped
        BY <2>1 DEF Dropped
    <2>6. Abs!Complete(i)
        BY <2>1, <2>2, <2>3, <2>4, <2>5 DEF Abs!Complete
    <2> QED
        BY <2>6 DEF Abs!Next, Abs!Ids, Ids
<1>9. CASE KernelSend \/ Unmount \/ Done \/ UNCHANGED vars
    <2>1. UNCHANGED <<lpc, nread, count, submitted>>
        BY <1>9 DEF KernelSend, Unmount, Done, vars
    <2>2. Dropped' = Dropped /\ Reading' = Reading
        BY <2>1 DEF Dropped, Reading
    <2> QED
        BY <1>s, <2>1, <2>2
<1> QED
    BY <1>1, <1>2, <1>3, <1>4, <1>5, <1>6, <1>7, <1>8, <1>9
    DEF Next, ReaderStep

-----------------------------------------------------------------------------
LEMMA InitOutcome == Init => Outcome
BY DEF Init, Outcome

(* A block runs only while the reader is between its allocations and out: *)
(* at start nothing was read, and after out the group is empty.           *)
LEMMA BlocksOnlyInLoop ==
    ASSUME DInv, NEW i \in submitted
    PROVE  lpc \notin {"start", "returned"}
BY DEF DInv, Shape

(* Every step keeps Outcome, given DInv in the state it starts from.       *)
LEMMA NextOutcome == DInv /\ Outcome /\ [Next]_vars => Outcome'
<1> SUFFICES ASSUME DInv, Outcome, [Next]_vars PROVE Outcome'
    OBVIOUS
<1>0. TypeOK
    BY DEF DInv
<1>1. CASE StartCleanup
    BY <1>1 DEF StartCleanup, Outcome
<1>2. CASE AllocBuf \/ CreateQueue \/ CreateGroup
    BY <1>0, <1>2 DEF AllocBuf, CreateQueue, CreateGroup, Allocate, Outcome,
                      TypeOK
<1>3. CASE Check
    BY <1>3 DEF Check, Outcome
<1>4. CASE Recv
    <2>1. ~failed
        BY <1>4 DEF Recv, Outcome
    <2> QED
        BY <1>0, <1>4, <2>1 DEF Recv, Outcome, TypeOK, EINTR, EIO
<1>5. CASE Copy
    <2>1. ~failed
        BY <1>5 DEF Copy, Outcome
    <2> QED
        BY <1>0, <1>5, <2>1 DEF Copy, Outcome, TypeOK
<1>6. CASE Wait
    BY <1>6 DEF Wait, Outcome
<1>7. CASE LoopReturn
    BY <1>0, <1>7 DEF LoopReturn, SessionReset, Outcome, TypeOK
<1>8. ASSUME NEW i \in Ids, TaskRun(i)
      PROVE  Outcome'
    <2>1. lpc \notin {"start", "returned"}
        BY <1>8, BlocksOnlyInLoop DEF TaskRun
    <2> QED
        BY <1>8, <2>1 DEF TaskRun, SessionExit, Outcome
<1>9. CASE KernelSend \/ Unmount \/ Done \/ UNCHANGED vars
    BY <1>9 DEF KernelSend, Unmount, Done, vars, Outcome
<1> QED
    BY <1>1, <1>2, <1>3, <1>4, <1>5, <1>6, <1>7, <1>8, <1>9
    DEF Next, ReaderStep

-----------------------------------------------------------------------------
(* fuse_loop_dispatch keeps DInv, hence TypeOK, in every reachable state. *)
THEOREM DispatchTypeCorrect == Spec => []TypeOK
<1>1. Init => DInv
    BY InitDInv
<1>2. DInv /\ [Next]_vars => DInv'
    BY NextDInv
<1>3. DInv => TypeOK
    BY DEF DInv
<1> QED
    BY <1>1, <1>2, <1>3, PTL DEF Spec

(* The bounded concurrent dispatch loop implements its abstract           *)
(* specification DispatchSpec, whatever MaxRequests, MaxInterrupts and    *)
(* the failures allowed: requests are read in order, processed at most    *)
(* once, and fuse_loop_dispatch returns only when every request it read   *)
(* was processed, except the one whose process buffer malloc failed.      *)
THEOREM DispatchRefinement == Spec => Refinement
<1>1. Init => Abs!Init
    <2> SUFFICES ASSUME Init PROVE Abs!Init
        OBVIOUS
    <2>1. Reading /\ Dropped = {}
        BY DEF Init, Reading, Dropped
    <2> QED
        BY <2>1 DEF Init, Abs!Init, Abs!Ids, Ids
<1>2. Spec => []DInv
    BY InitDInv, NextDInv, PTL DEF Spec
<1> QED
    BY <1>1, <1>2, StepRefines, PTL DEF Spec, Refinement, Abs!Spec

-----------------------------------------------------------------------------
(* DInv and Outcome hold together in every reachable state.               *)
LEMMA SpecOutcome == Spec => [](DInv /\ Outcome)
<1>1. Init => DInv /\ Outcome
    BY InitDInv, InitOutcome
<1>2. DInv /\ Outcome /\ [Next]_vars => (DInv /\ Outcome)'
    BY NextDInv, NextOutcome
<1> QED
    BY <1>1, <1>2, PTL DEF Spec

(* When fuse_loop_dispatch has returned, whatever failed on the way, the   *)
(* scratch buffer, queue and group are released, every process buffer was  *)
(* freed by its block, the cleanup thread is not left running, and         *)
(* fuse_session_reset has cleared se->exited.                               *)
THEOREM DispatchNoLeak == Spec => []NoLeak
<1>1. DInv /\ Outcome => NoLeak
    <2> SUFFICES ASSUME DInv, Outcome, lpc = "returned"
                 PROVE  held = {} /\ pbufs = 0 /\ cleanup # "running"
                        /\ ~exited
        BY DEF NoLeak
    <2>1. submitted = {}
        BY DEF DInv, Shape
    <2>2. pbufs = 0
        BY <2>1, FS_EmptySet DEF DInv, Shape
    <2> QED
        BY <2>2 DEF Outcome
<1> QED
    BY <1>1, SpecOutcome, PTL

(* A fuse_loop_dispatch that met a failed allocation or a failed read     *)
(* returns -1, never 0.                                                    *)
THEOREM DispatchFailureReported == Spec => []FailureReported
<1>1. Outcome => FailureReported
    BY DEF Outcome, FailureReported
<1> QED
    BY <1>1, SpecOutcome, PTL

=============================================================================
