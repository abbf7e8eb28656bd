-------------------------- MODULE WorkerPoolProofs --------------------------
(***************************************************************************)
(* Proofs about the worker pool of fuse_mt.c, for every FUSE_NUM_WORKERS, *)
(* number of requests and signals.                                        *)
(*                                                                         *)
(* SignalsOnlyToMain is not inductive: a step of Deliver is safe only     *)
(* because every worker that exists blocks every signal, and a worker     *)
(* starts with a full mask only because start_thread filled the main      *)
(* thread's mask before pthread_create.  PInv adds those two facts, that  *)
(* the loop counter names a worker slot while start_thread runs, and that *)
(* a thread in w->proc holds a request that was read.                     *)
(***************************************************************************)
EXTENDS WorkerPool, TLAPS

Shape ==
    /\ Main \in alive
    /\ mpc \in {"mask", "create", "restore"} => i < NumWorkers
    /\ mpc = "create" => mask[Main] = "all"
    /\ \A t \in alive \ {Main} : mask[t] = "all"
    /\ \A t \in Threads : wpc[t] = "proc" => cur[t] \in 1..taken
    /\ handled \subseteq {Main}

PInv == TypeOK /\ Shape


LEMMA InitPInv == Init => PInv
<1> SUFFICES ASSUME Init PROVE PInv
    OBVIOUS
<1>1. TypeOK
    <2>1. /\ mask \in [Threads -> {"none", "all"}]
          /\ wpc \in [Threads -> {"none", "read", "proc"}]
          /\ cur \in [Threads -> 0..MaxRequests]
          /\ count \in [Reqs -> Nat]
        BY PoolAssumption DEF Init
    <2>2. alive \subseteq Threads /\ i \in 1..NumWorkers
        BY PoolAssumption DEF Init, Threads, Main
    <2>3. sigLeft \in 0..MaxSignals /\ sent \in 0..MaxRequests
        BY PoolAssumption DEF Init
    <2>4. /\ mpc = "alloc" /\ oldset = "none" /\ createOk = TRUE
          /\ taken = 0 /\ sent = 0 /\ exitReq = FALSE /\ pending = FALSE
          /\ handled = {} /\ status = "running"
        BY DEF Init
    <2>5. mpc \in {"alloc", "loop", "mask", "create", "restore", "work"}
        BY <2>4
    <2>6. oldset \in {"none", "all"} /\ createOk \in BOOLEAN
        BY <2>4
    <2>7. taken \in 0..sent
        BY <2>4
    <2>9. exitReq \in BOOLEAN /\ pending \in BOOLEAN
        BY <2>4, Zenon
    <2>8. handled \subseteq Threads /\ status \in {"running", "exit1", "crash"}
        BY <2>4
    <2> QED
        BY <2>1, <2>2, <2>3, <2>5, <2>6, <2>7, <2>8, <2>9 DEF TypeOK
<1>2. Shape
    BY PoolAssumption DEF Init, Shape, Threads, Main
<1> QED
    BY <1>1, <1>2 DEF PInv

LEMMA NextPInv == PInv /\ [Next]_vars => PInv'
<1> SUFFICES ASSUME PInv, [Next]_vars PROVE PInv'
    OBVIOUS
<1>0. /\ TypeOK /\ Shape
      /\ NumWorkers \in Nat \ {0} /\ MaxRequests \in Nat
      /\ MaxSignals \in Nat /\ Main \in Threads
    BY PoolAssumption DEF PInv, Main, Threads
<1>1. CASE AllocWorker
    BY <1>0, <1>1 DEF AllocWorker, PInv, TypeOK, Shape
<1>2. CASE LoopTest
    BY <1>0, <1>2 DEF LoopTest, PInv, TypeOK, Shape
<1>3. CASE BlockSignals
    <2>1. mask[Main] \in {"none", "all"}
        BY <1>0 DEF TypeOK
    <2> QED
        BY <1>0, <1>3, <2>1 DEF BlockSignals, PInv, TypeOK, Shape
<1>4. CASE CreateThread
    <2>1. i \in Threads /\ i # Main /\ mask[Main] = "all"
        BY <1>0, <1>4 DEF CreateThread, Shape, TypeOK, Threads, Main
    <2>2. CASE createOk' = FALSE
        BY <1>0, <1>4, <2>2 DEF CreateThread, PInv, TypeOK, Shape
    <2>3. CASE createOk' = TRUE
        <3>1. /\ alive' = alive \cup {i}
              /\ mask' = [mask EXCEPT ![i] = "all"]
              /\ wpc' = [wpc EXCEPT ![i] = "read"]
              /\ mpc' = "restore"
              /\ UNCHANGED <<i, cur, taken, handled>>
            BY <1>4, <2>1, <2>3 DEF CreateThread
        <3>2. TypeOK'
            BY <1>0, <1>4, <2>1, <3>1 DEF CreateThread, TypeOK
        <3>3. \A u \in alive' \ {Main} : mask'[u] = "all"
            BY <1>0, <2>1, <3>1 DEF Shape, TypeOK
        <3>4. \A u \in Threads : wpc'[u] = "proc" => cur'[u] \in 1..taken'
            BY <1>0, <2>1, <3>1 DEF Shape, TypeOK
        <3>5. Shape'
            BY <1>0, <2>1, <3>1, <3>3, <3>4 DEF Shape, Threads
        <3> QED
            BY <3>2, <3>5 DEF PInv
    <2> QED
        BY <1>4, <2>2, <2>3 DEF CreateThread
<1>5. CASE RestoreSignals
    <2>1. i < NumWorkers /\ oldset \in {"none", "all"}
        BY <1>0, <1>5 DEF RestoreSignals, Shape, TypeOK
    <2> QED
        BY <1>0, <1>5, <2>1 DEF RestoreSignals, PInv, TypeOK, Shape
<1>6. ASSUME NEW t \in Threads, ReadCmd(t) PROVE PInv'
    BY <1>0, <1>6 DEF ReadCmd, PInv, TypeOK, Shape
<1>7. ASSUME NEW t \in Threads, Process(t) PROVE PInv'
    <2>1. cur[t] \in Reqs
        BY <1>0, <1>7 DEF Process, Shape, TypeOK, Reqs
    <2> QED
        BY <1>0, <1>7, <2>1 DEF Process, PInv, TypeOK, Shape
<1>8. ASSUME NEW t \in Threads, Deliver(t) PROVE PInv'
    <2>1. t = Main
        BY <1>0, <1>8 DEF Deliver, Shape
    <2> QED
        BY <1>0, <1>8, <2>1 DEF Deliver, PInv, TypeOK, Shape
<1>9. CASE SendSignal
    BY <1>0, <1>9 DEF SendSignal, PInv, TypeOK, Shape
<1>10. CASE KernelSend
    BY <1>0, <1>10 DEF KernelSend, PInv, TypeOK, Shape
<1>11. CASE Unmount
    BY <1>0, <1>11 DEF Unmount, PInv, TypeOK, Shape
<1>12. CASE Ended \/ UNCHANGED vars
    BY <1>0, <1>12 DEF Ended, vars, PInv, TypeOK, Shape
<1> QED
    BY <1>1, <1>2, <1>3, <1>4, <1>5, <1>6, <1>7, <1>8, <1>9, <1>10, <1>11,
       <1>12 DEF Next, MainStep

-----------------------------------------------------------------------------
-----------------------------------------------------------------------------
(* Every variable of the worker pool keeps its type, whatever             *)
(* FUSE_NUM_WORKERS, the number of requests and of signals.              *)
THEOREM PoolTypeCorrect == Spec => []TypeOK
<1>1. PInv => TypeOK
    BY DEF PInv
<1> QED
    BY InitPInv, NextPInv, <1>1, PTL DEF Spec

(* For any number of workers, exit_handler never runs on a worker thread: *)
(* start_thread's fill-create-restore order gives every worker a full     *)
(* signal mask, so the kernel can only pick the main thread.             *)
THEOREM WorkersNeverHandleSignals == Spec => []SignalsOnlyToMain
<1>1. PInv => SignalsOnlyToMain
    BY DEF PInv, Shape, SignalsOnlyToMain
<1> QED
    BY InitPInv, NextPInv, <1>1, PTL DEF Spec



=============================================================================
