-------------------------- MODULE MountSafetyProofs --------------------------
(***************************************************************************)
(* The channel's memory safety and retain-count balance, proved for every  *)
(* bound on requests and every mount outcome, outside unmount and setup    *)
(* failure, in the runs of fuse_main where no unmount signal is handled    *)
(* (MaxSignals = 0).  With signals the property fails: see the             *)
(* signal_teardown_race run.                                               *)
(***************************************************************************)
EXTENDS MountLifecycleProofs

(* What the two owners of the channel, the session and mc->ch, and the    *)
(* threads that use it know of one another when no signal is handled:     *)
(* the session's reference is dropped at most once and only after the     *)
(* loop has drained, the context holds a reference exactly while it is    *)
(* pending and the channel exists, and a successful mount implies the     *)
(* channel has been created.                                               *)
SafeInv ==
    /\ spc = "idle" /\ ~sigDisk
    /\ destroyed \in {0, 1}
    /\ chan.st = "none" =>
          /\ destroyed = 0 /\ ~mcCh /\ ~chan.bound
          /\ reqs = 0 /\ inflight = 0
    /\ chan.st # "none" =>
          /\ chan.rc = Owners
          /\ chan.st = "freed" <=> Owners = 0
    /\ mpc \in {"setup", "loop", "read", "wait", "td_next", "td_remove",
                "um_disk", "um_kern", "um_fin", "destroy"} => chan.st # "none"
    /\ mpc \in {"mount", "chan_new", "setup", "loop", "read", "wait",
                "td_next", "td_remove", "um_disk", "um_kern", "um_fin"}
          => destroyed = 0
    /\ chan.bound => destroyed = 0
    /\ inflight > 0 => mpc \in {"loop", "read", "wait"}
    /\ cpc \in {"armed", "cb_lock", "cb_body", "cb_unlock"} =>
          mcAlive /\ (mcCh <=> chan.st # "none")
    /\ cpc \in {"none", "done"} => ~mcCh
    /\ cpc = "none" => ~mcAlive /\ mpc \in {"mount", "done"}
    /\ mpc = "chan_new" => cpc \in {"armed", "cb_lock"}
    /\ (cbResult # "fail" /\ cpc \in {"cb_lock", "cb_body", "cb_unlock"})
          => chan.st # "none"
    /\ reqs > 0 => chan.st # "none"
    /\ mpc \in {"mount", "chan_new"} => chan.st = "none"

(* What is left to release, relative to where each thread is, when no    *)
(* signal is handled.  A mount succeeds only after FUSE_INIT was read, so  *)
(* a DADiskRef can be attached only to a channel that a session bound;     *)
(* the main thread therefore reaches fuse_destroy either having destroyed  *)
(* the channel in fuse_unmount_common (no disk) or with the channel still  *)
(* bound, and fuse_session_destroy destroys it then.  The descriptor is    *)
(* opened once, by fuse_kern_mount, and closed by fuse_chan_destroy or by  *)
(* the failure path of fuse_mount_common.                                  *)
LeakInv ==
    /\ cpc = "done" => ~mcAlive
    /\ mpc \in {"mount", "chan_new", "setup", "done"} => ~seAlive
    /\ cbResult # "fail" => reqs > 0
    /\ chan.disk => cbResult = "ok_disk"
    /\ cpc \in {"none", "armed", "cb_lock"} => ~chan.disk
    /\ chan.st # "live" => ~chan.disk
    /\ reqs > 0 /\ destroyed = 0 => chan.bound
    /\ mpc \in {"loop", "read", "wait", "td_next", "td_remove"} => chan.bound
    /\ mpc \in {"td_remove", "um_disk", "um_kern", "um_fin"} => mainCh
    /\ mainDisk => reqs > 0
    /\ mpc = "destroy" => destroyed = 1 \/ chan.bound
    /\ mpc = "done" => (destroyed = 1 \/ chan.st = "none")
    /\ mpc \in {"mount", "done"} => ~fdOpen
    /\ destroyed = 1 => ~fdOpen

(* How each channel operator moves the fields the retain-count argument   *)
(* reads: the state of the allocation, the count and the binding.         *)
LEMMA ChanCounts ==
    ASSUME NEW c \in Chan
    PROVE  /\ Retained(NewChan).st = "live" /\ Retained(NewChan).rc = 2
           /\ ~Retained(NewChan).bound
           /\ Bound(c).st = c.st /\ Bound(c).rc = c.rc /\ Bound(c).bound
           /\ WithDisk(c).st = c.st /\ WithDisk(c).rc = c.rc
           /\ WithDisk(c).bound = c.bound
           /\ c.rc = 1 => Released(c).st = "freed" /\ Released(c).rc = 0
           /\ c.rc # 1 => Released(c).st = c.st /\ Released(c).rc = c.rc - 1
           /\ Released(c).bound = c.bound
           /\ c.rc = 1 => Destroyed(c).st = "freed" /\ Destroyed(c).rc = 0
           /\ c.rc # 1 => Destroyed(c).st = c.st
                          /\ Destroyed(c).rc = c.rc - 1
           /\ ~Destroyed(c).bound
<1>1. /\ Retained(NewChan).st = "live" /\ Retained(NewChan).rc = 2
      /\ ~Retained(NewChan).bound
    BY DEF Retained, NewChan
<1>2. /\ Bound(c).st = c.st /\ Bound(c).rc = c.rc /\ Bound(c).bound
      /\ WithDisk(c).st = c.st /\ WithDisk(c).rc = c.rc
      /\ WithDisk(c).bound = c.bound
    BY DEF Chan, Bound, WithDisk
<1>3. ASSUME NEW d \in Chan
      PROVE  /\ d.rc = 1 => Released(d).st = "freed" /\ Released(d).rc = 0
             /\ d.rc # 1 => Released(d).st = d.st
                            /\ Released(d).rc = d.rc - 1
             /\ Released(d).bound = d.bound
    BY DEF Chan, Released
<1>4. /\ Unbound(c) \in Chan /\ ~Unbound(c).bound
      /\ Unbound(c).st = c.st /\ Unbound(c).rc = c.rc
    BY DEF Chan, Unbound
<1> QED
    BY <1>1, <1>2, <1>3, <1>4 DEF Destroyed

LEMMA NextSafe ==
    ASSUME MaxSignals = 0
    PROVE  IInv /\ SafeInv /\ [Next]_vars => SafeInv'
<1> SUFFICES ASSUME IInv, SafeInv, [Next]_vars PROVE SafeInv'
    OBVIOUS
<1>0. /\ TypeNum /\ TypeBool /\ TypePc /\ DiskInv /\ LockInv
      /\ sigsLeft = 0
    BY TypeSplit DEF IInv, TypeNum
<1>31. /\ chan \in Chan
       /\ chan.st \in ChanStates /\ chan.rc \in Int
       /\ chan.disk \in BOOLEAN /\ chan.bound \in BOOLEAN
    BY <1>0, ChanFields DEF TypeNum
<1>32. /\ Retained(NewChan).st = "live" /\ Retained(NewChan).rc = 2
       /\ ~Retained(NewChan).bound
       /\ Bound(chan).st = chan.st /\ Bound(chan).rc = chan.rc
       /\ Bound(chan).bound
       /\ WithDisk(chan).st = chan.st /\ WithDisk(chan).rc = chan.rc
       /\ WithDisk(chan).bound = chan.bound
       /\ chan.rc = 1 => Released(chan).st = "freed"
                         /\ Released(chan).rc = 0
       /\ chan.rc # 1 => Released(chan).st = chan.st
                         /\ Released(chan).rc = chan.rc - 1
       /\ Released(chan).bound = chan.bound
       /\ chan.rc = 1 => Destroyed(chan).st = "freed"
                         /\ Destroyed(chan).rc = 0
       /\ chan.rc # 1 => Destroyed(chan).st = chan.st
                         /\ Destroyed(chan).rc = chan.rc - 1
       /\ ~Destroyed(chan).bound
    BY <1>31, ChanCounts
<1>1. CASE MountCall
    BY <1>0, <1>31, <1>32, <1>1 DEF MountCall, SafeInv, Owners, LockInv
<1>2. CASE MountChanNew
    BY <1>0, <1>31, <1>32, <1>2 DEF MountChanNew, SafeInv, Owners, LockInv
<1>3. CASE Setup
    BY <1>0, <1>31, <1>32, <1>3 DEF Setup, SafeInv, Owners, LockInv
<1>4. CASE LoopCheck
    BY <1>0, <1>31, <1>32, <1>4 DEF LoopCheck, SafeInv, Owners, LockInv
<1>5. CASE LoopRead
    BY <1>0, <1>31, <1>32, <1>5 DEF LoopRead, Readable, SafeInv, Owners, LockInv
<1>6. CASE LoopWait
    BY <1>0, <1>31, <1>32, <1>6 DEF LoopWait, SafeInv, Owners, LockInv
<1>7. CASE TeardownNextChan
    BY <1>0, <1>31, <1>32, <1>7 DEF TeardownNextChan, SafeInv, Owners, LockInv
<1>8. CASE TeardownRemoveSignals
    BY <1>0, <1>31, <1>32, <1>8 DEF TeardownRemoveSignals, SafeInv, Owners, LockInv
<1>9. CASE UnmountGetDisk
    BY <1>0, <1>31, <1>32, <1>9 DEF UnmountGetDisk, SafeInv, Owners, LockInv
<1>10. CASE UnmountKern
    BY <1>0, <1>31, <1>32, <1>10 DEF UnmountKern, KernUnmount, SafeInv, Owners, LockInv
<1>11. CASE UnmountFin
    BY <1>0, <1>31, <1>32, <1>11 DEF UnmountFin, UnmountFinish, DestroyChan, SafeInv, Owners, LockInv
<1>12. CASE FuseDestroy
    BY <1>0, <1>31, <1>32, <1>12 DEF FuseDestroy, DestroyChan, SafeInv, Owners, LockInv
<1>13. CASE TaskRun
    BY <1>0, <1>31, <1>32, <1>13 DEF TaskRun, SafeInv, Owners, LockInv
<1>14. CASE SignalArrives
    BY <1>0, <1>31, <1>32, <1>14 DEF SignalArrives, SafeInv, Owners, LockInv
<1>15. CASE HandlerCheck
    BY <1>0, <1>31, <1>32, <1>15 DEF HandlerCheck, SafeInv, Owners, LockInv
<1>16. CASE HandlerNextChan
    BY <1>0, <1>31, <1>32, <1>16 DEF HandlerNextChan, SafeInv, Owners, LockInv
<1>17. CASE HandlerGetDisk
    BY <1>0, <1>31, <1>32, <1>17 DEF HandlerGetDisk, SafeInv, Owners, LockInv
<1>18. CASE HandlerKern
    BY <1>0, <1>31, <1>32, <1>18 DEF HandlerKern, KernUnmount, SafeInv, Owners, LockInv
<1>19. CASE HandlerFin
    BY <1>0, <1>31, <1>32, <1>19 DEF HandlerFin, UnmountFinish, DestroyChan, SafeInv, Owners, LockInv
<1>20. CASE MountComplete
    BY <1>0, <1>31, <1>32, <1>20 DEF MountComplete, MountOutcomes, SafeInv, Owners, LockInv
<1>21. CASE CallbackLock
    BY <1>0, <1>31, <1>32, <1>21 DEF CallbackLock, SafeInv, Owners, LockInv
<1>22. CASE CallbackBody
    BY <1>0, <1>31, <1>32, <1>22 DEF CallbackBody, SafeInv, Owners, LockInv
<1>23. CASE CallbackDone
    BY <1>0, <1>31, <1>32, <1>23 DEF CallbackDone, SafeInv, Owners, LockInv
<1>24. CASE UnmountFromOutside
    BY <1>0, <1>31, <1>32, <1>24 DEF UnmountFromOutside, SafeInv, Owners, LockInv
<1>25. CASE Finished
    BY <1>0, <1>31, <1>32, <1>25 DEF Finished, AllDone, vars, SafeInv, Owners, LockInv
<1>26. CASE UNCHANGED vars
    BY <1>26 DEF vars, SafeInv, Owners
<1>27. QED
    BY <1>1, <1>2, <1>3, <1>4, <1>5, <1>6, <1>7, <1>8, <1>9, <1>10, <1>11, <1>12, <1>13, <1>14, <1>15, <1>16, <1>17, <1>18, <1>19, <1>20, <1>21, <1>22, <1>23, <1>24, <1>25, <1>26
       DEF Next, MainStep, HandlerStep, CallbackStep

LEMMA InitSafe == Init => SafeInv
BY DEF Init, SafeInv, NoChan

(* The strengthened invariant gives the two properties the runs check.    *)
LEMMA SafeImplies ==
    IInv /\ SafeInv => NoUseAfterFree /\ RefCountBalanced
<1> SUFFICES ASSUME IInv, SafeInv PROVE NoUseAfterFree /\ RefCountBalanced
    OBVIOUS
<1>1. chan \in Chan
    BY DEF IInv, TypeOK
<1>2. chan.st \in ChanStates
    BY <1>1, ChanFields
<1>3. Owners > 0 /\ chan.st # "none" => LiveChan
    BY <1>2 DEF SafeInv, Owners, LiveChan, ChanStates
<1>4. NoUseAfterFree
    BY <1>3 DEF SafeInv, Owners, NoUseAfterFree, IInv, LockInv
<1>5. RefCountBalanced
    BY DEF SafeInv, RefCountBalanced
<1> QED
    BY <1>4, <1>5

(* Where each channel operator leaves the DADiskRef slot: a freed channel *)
(* has none, attaching one fills it, and the other operators keep it.     *)
LEMMA ChanSlot ==
    ASSUME NEW c \in Chan
    PROVE  /\ ~Retained(NewChan).disk
           /\ Bound(c).disk = c.disk /\ WithDisk(c).disk
           /\ c.rc = 1 => ~Released(c).disk /\ ~Destroyed(c).disk
           /\ c.rc # 1 => /\ Released(c).disk = c.disk
                          /\ Destroyed(c).disk = c.disk
BY DEF Chan, Retained, NewChan, Bound, WithDisk, Released, Destroyed, Unbound

LEMMA InitLeak == Init => LeakInv
BY DEF Init, LeakInv, NoChan

(* Every step keeps LeakInv when no signal is handled.                    *)
LEMMA NextLeak ==
    ASSUME MaxSignals = 0
    PROVE  IInv /\ SafeInv /\ LeakInv /\ [Next]_vars => LeakInv'
<1> SUFFICES ASSUME IInv, SafeInv, LeakInv, [Next]_vars PROVE LeakInv'
    OBVIOUS
<1>0. /\ TypeNum /\ TypeBool /\ TypePc /\ DiskInv /\ LockInv
      /\ sigsLeft = 0 /\ NoUseAfterFree
    BY TypeSplit, SafeImplies DEF IInv, TypeNum
<1>31. /\ chan \in Chan
       /\ chan.st \in ChanStates /\ chan.rc \in Int
       /\ chan.disk \in BOOLEAN /\ chan.bound \in BOOLEAN
    BY <1>0, ChanFields DEF TypeNum
<1>32. /\ Retained(NewChan).st = "live" /\ ~Retained(NewChan).bound
       /\ Bound(chan).st = chan.st /\ Bound(chan).bound
       /\ WithDisk(chan).st = chan.st /\ WithDisk(chan).bound = chan.bound
       /\ chan.rc = 1 => Released(chan).st = "freed"
       /\ chan.rc # 1 => Released(chan).st = chan.st
       /\ Released(chan).bound = chan.bound
       /\ chan.rc = 1 => Destroyed(chan).st = "freed"
       /\ chan.rc # 1 => Destroyed(chan).st = chan.st
       /\ ~Destroyed(chan).bound
    BY <1>31, ChanCounts
<1>33. /\ ~Retained(NewChan).disk
       /\ Bound(chan).disk = chan.disk /\ WithDisk(chan).disk
       /\ chan.rc = 1 => ~Released(chan).disk /\ ~Destroyed(chan).disk
       /\ chan.rc # 1 => /\ Released(chan).disk = chan.disk
                          /\ Destroyed(chan).disk = chan.disk
    BY <1>31, ChanSlot
<1>1. CASE MountCall
    BY <1>0, <1>31, <1>32, <1>33, <1>1
    DEF MountCall, LeakInv, SafeInv, NoUseAfterFree, LiveChan, Owners
<1>2. CASE MountChanNew
    BY <1>0, <1>31, <1>32, <1>33, <1>2
    DEF MountChanNew, LeakInv, SafeInv, NoUseAfterFree, LiveChan, Owners
<1>3. CASE Setup
    BY <1>0, <1>31, <1>32, <1>33, <1>3
    DEF Setup, LeakInv, SafeInv, NoUseAfterFree, LiveChan, Owners
<1>4. CASE LoopCheck
    BY <1>0, <1>31, <1>32, <1>33, <1>4
    DEF LoopCheck, LeakInv, SafeInv, NoUseAfterFree, LiveChan, Owners
<1>5. CASE LoopRead
    <2>1. chan.bound /\ mpc = "read"
        BY <1>5 DEF LoopRead, LeakInv
    <2>2. CASE reqs' = reqs + 1 /\ mpc' = "loop"
        BY <1>0, <1>31, <1>5, <2>1, <2>2 DEF LoopRead, LeakInv, TypeNum
    <2>3. CASE UNCHANGED reqs /\ mpc' = "wait"
        BY <1>0, <1>31, <1>5, <2>1, <2>3 DEF LoopRead, LeakInv, TypeNum
    <2> QED
        BY <1>5, <2>2, <2>3 DEF LoopRead
<1>6. CASE LoopWait
    BY <1>0, <1>31, <1>32, <1>33, <1>6
    DEF LoopWait, LeakInv, SafeInv, NoUseAfterFree, LiveChan, Owners
<1>7. CASE TeardownNextChan
    BY <1>0, <1>31, <1>32, <1>33, <1>7
    DEF TeardownNextChan, LeakInv, SafeInv, NoUseAfterFree, LiveChan, Owners
<1>8. CASE TeardownRemoveSignals
    BY <1>0, <1>31, <1>32, <1>33, <1>8
    DEF TeardownRemoveSignals, LeakInv, SafeInv, NoUseAfterFree, LiveChan, Owners
<1>9. CASE UnmountGetDisk
    BY <1>0, <1>31, <1>32, <1>33, <1>9
    DEF UnmountGetDisk, LeakInv, SafeInv, NoUseAfterFree, LiveChan, Owners
<1>10. CASE UnmountKern
    BY <1>0, <1>31, <1>32, <1>33, <1>10
    DEF UnmountKern, KernUnmount, LeakInv, SafeInv, NoUseAfterFree, LiveChan, Owners
<1>11. CASE UnmountFin
    BY <1>0, <1>31, <1>32, <1>33, <1>11
    DEF UnmountFin, UnmountFinish, DestroyChan, LeakInv, SafeInv, NoUseAfterFree, LiveChan, Owners
<1>12. CASE FuseDestroy
    BY <1>0, <1>31, <1>32, <1>33, <1>12
    DEF FuseDestroy, DestroyChan, LeakInv, SafeInv, NoUseAfterFree, LiveChan, Owners
<1>13. CASE TaskRun
    BY <1>0, <1>31, <1>32, <1>33, <1>13
    DEF TaskRun, LeakInv, SafeInv, NoUseAfterFree, LiveChan, Owners
<1>14. CASE SignalArrives
    BY <1>0, <1>31, <1>32, <1>33, <1>14
    DEF SignalArrives, LeakInv, SafeInv, NoUseAfterFree, LiveChan, Owners
<1>15. CASE HandlerCheck
    BY <1>0, <1>31, <1>32, <1>33, <1>15
    DEF HandlerCheck, LeakInv, SafeInv, NoUseAfterFree, LiveChan, Owners
<1>16. CASE HandlerNextChan
    BY <1>0, <1>31, <1>32, <1>33, <1>16
    DEF HandlerNextChan, LeakInv, SafeInv, NoUseAfterFree, LiveChan, Owners
<1>17. CASE HandlerGetDisk
    BY <1>0, <1>31, <1>32, <1>33, <1>17
    DEF HandlerGetDisk, LeakInv, SafeInv, NoUseAfterFree, LiveChan, Owners
<1>18. CASE HandlerKern
    BY <1>0, <1>31, <1>32, <1>33, <1>18
    DEF HandlerKern, KernUnmount, LeakInv, SafeInv, NoUseAfterFree, LiveChan, Owners
<1>19. CASE HandlerFin
    BY <1>0, <1>31, <1>32, <1>33, <1>19
    DEF HandlerFin, UnmountFinish, DestroyChan, LeakInv, SafeInv, NoUseAfterFree, LiveChan, Owners
<1>20. CASE MountComplete
    <2>1. cbResult' # "fail" => reqs > 0
        <3>1. PICK r \in MountOutcomes : cbResult' = r
            BY <1>20 DEF MountComplete
        <3>2. r # "fail" => reqs > 0
            BY DEF MountOutcomes
        <3> QED
            BY <3>1, <3>2
    <2> QED
        BY <1>0, <1>31, <1>20, <2>1 DEF MountComplete, LeakInv, TypeNum
<1>21. CASE CallbackLock
    BY <1>0, <1>31, <1>32, <1>33, <1>21
    DEF CallbackLock, LeakInv, SafeInv, NoUseAfterFree, LiveChan, Owners
<1>22. CASE CallbackBody
    BY <1>0, <1>31, <1>32, <1>33, <1>22
    DEF CallbackBody, LeakInv, SafeInv, NoUseAfterFree, LiveChan, Owners
<1>23. CASE CallbackDone
    BY <1>0, <1>31, <1>32, <1>33, <1>23
    DEF CallbackDone, LeakInv, SafeInv, NoUseAfterFree, LiveChan, Owners
<1>24. CASE UnmountFromOutside
    BY <1>0, <1>31, <1>32, <1>33, <1>24
    DEF UnmountFromOutside, LeakInv, SafeInv, NoUseAfterFree, LiveChan, Owners
<1>25. CASE Finished
    BY <1>0, <1>31, <1>32, <1>33, <1>25
    DEF Finished, AllDone, vars, LeakInv, SafeInv, NoUseAfterFree, LiveChan, Owners
<1>26. CASE UNCHANGED vars
    BY <1>26 DEF vars, LeakInv
<1> QED
    BY <1>1, <1>2, <1>3, <1>4, <1>5, <1>6, <1>7, <1>8, <1>9, <1>10, <1>11, <1>12, <1>13, <1>14, <1>15, <1>16, <1>17, <1>18, <1>19, <1>20, <1>21, <1>22, <1>23, <1>24, <1>25, <1>26
    DEF Next, MainStep, HandlerStep, CallbackStep

(* When fuse_main handles no unmount signal, no thread of the library ever *)
(* touches a freed channel, a freed mount context or a NULL fuse_instance, *)
(* and the channel's retain count always equals its owners (the session   *)
(* until fuse_chan_destroy, and mc->ch until fuse_mount_context_destroy), *)
(* the memory being freed exactly when both have let go.  This holds for  *)
(* every mount outcome, outside unmount, application exit and setup       *)
(* failure, and for any number of requests.                                *)
THEOREM NoSignalSafety ==
    ASSUME MaxSignals = 0
    PROVE  Spec => [](NoUseAfterFree /\ RefCountBalanced)
<1>1. Init => IInv /\ SafeInv
    BY InitIInv, InitSafe
<1>2. IInv /\ SafeInv /\ [Next]_vars => (IInv /\ SafeInv)'
    BY NextIInv, NextSafe
<1>3. IInv /\ SafeInv => NoUseAfterFree /\ RefCountBalanced
    BY SafeImplies
<1> QED
    BY <1>1, <1>2, <1>3, PTL DEF Spec


(* When no unmount signal is handled, the channel's retain count always    *)
(* equals the number of its owners (the session until its single           *)
(* fuse_chan_destroy, mc->ch until fuse_mount_context_destroy), and the    *)
(* channel is freed exactly when the last of them lets go.                 *)
THEOREM NoSignalRefCount ==
    ASSUME MaxSignals = 0
    PROVE  Spec => []RefCountBalanced
<1>1. Spec => [](NoUseAfterFree /\ RefCountBalanced)
    BY NoSignalSafety
<1> QED
    BY <1>1, PTL

(* IInv, SafeInv and LeakInv give NoLeak.                                  *)
LEMMA LeakImplies == IInv /\ SafeInv /\ LeakInv => NoLeak
<1> SUFFICES ASSUME IInv, SafeInv, LeakInv, AllDone
             PROVE  /\ chan.st # "live" /\ diskRc = 0 /\ ~fdOpen
                    /\ ~seAlive /\ ~mcAlive
    BY DEF NoLeak
<1>1. mpc = "done" /\ spc = "idle" /\ cpc \in {"none", "done"}
    BY DEF AllDone
<1>2. ~mcCh /\ ~mcAlive
    BY <1>1 DEF SafeInv, LeakInv
<1>3. chan.st # "live"
    <2>1. CASE chan.st = "none"
        BY <2>1
    <2>2. CASE chan.st # "none"
        <3>1. destroyed = 1
            BY <1>1, <2>2 DEF LeakInv
        <3>2. Owners = 0
            BY <1>2, <3>1 DEF Owners
        <3> QED
            BY <2>2, <3>2 DEF SafeInv
    <2> QED
        BY <2>1, <2>2
<1>4. diskRc = 0
    <2>1. ~chan.disk /\ ~mainDisk /\ ~sigDisk
        BY <1>1, <1>3 DEF LeakInv, IInv, DiskInv
    <2> QED
        BY <2>1 DEF IInv, DiskInv, B
<1> QED
    BY <1>1, <1>2, <1>3, <1>4 DEF LeakInv

(* When no unmount signal is handled, once fuse_main has returned and the  *)
(* mount callback and signal queue are idle, nothing the library allocated *)
(* or retained is left, whatever the mount's outcome, an outside unmount,  *)
(* fuse_exit or a setup failure: the channel is freed (or was never        *)
(* made), every CFRetain of the DADiskRef has its CFRelease, the kernel    *)
(* descriptor is closed, and session and mount context are freed.  The     *)
(* case that needs the argument is a disk attached to a channel: it is     *)
(* kept by fuse_unmount_common and destroyed by fuse_session_destroy,      *)
(* which needs the channel still bound; a mount can only succeed after a   *)
(* session bound it and read FUSE_INIT.                                    *)
THEOREM NoSignalNoLeak ==
    ASSUME MaxSignals = 0
    PROVE  Spec => []NoLeak
<1>1. Init => IInv /\ SafeInv /\ LeakInv
    BY InitIInv, InitSafe, InitLeak
<1>2. IInv /\ SafeInv /\ LeakInv /\ [Next]_vars
         => (IInv /\ SafeInv /\ LeakInv)'
    BY NextIInv, NextSafe, NextLeak
<1>3. IInv /\ SafeInv /\ LeakInv => NoLeak
    BY LeakImplies
<1> QED
    BY <1>1, <1>2, <1>3, PTL DEF Spec

=============================================================================
