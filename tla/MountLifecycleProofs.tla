------------------------ MODULE MountLifecycleProofs ------------------------
(***************************************************************************)
(* Proofs about MountLifecycle that hold for every value of its constants, *)
(* whatever signals, mount outcomes and outside unmounts the environment   *)
(* produces.                                                               *)
(***************************************************************************)
EXTENDS MountLifecycle, TLAPS

B(b) == IF b THEN 1 ELSE 0

(* The library's CFRetains on the DADiskRef are the one held by the        *)
(* channel's slot plus the local references fuse_unmount_common holds      *)
(* between fuse_chan_disk and CFRelease, in the main thread and in         *)
(* exit_handler; outside that window the locals hold nothing.              *)
DiskInv ==
    /\ diskRc = B(chan.disk) + B(mainDisk) + B(sigDisk)
    /\ mpc \notin {"um_kern", "um_fin"} => ~mainDisk
    /\ spc \notin {"h_kern", "h_fin"} => ~sigDisk

(* mc->lock: fuse_mount_common holds it from before fuse_kern_mount until  *)
(* mc->ch is set, so the callback's body, which runs under the lock, can   *)
(* only see the channel once it has been wired; before that no disk is     *)
(* attached to anything.                                                   *)
LockInv ==
    /\ mpc = "mount" => cpc = "none" /\ ~chan.disk
    /\ mpc = "chan_new" => mcLock = "main" /\ ~chan.disk
    /\ cpc \in {"cb_body", "cb_unlock"} => mcLock = "cb"

IInv == TypeOK /\ DiskInv /\ LockInv

LEMMA InitIInv == Init => IInv
<1> SUFFICES ASSUME Init PROVE IInv
    OBVIOUS
<1>1. TypeOK
    <2>1. chan \in Chan
        BY DEF Init, NoChan, Chan, ChanStates
    <2>2. MaxSignals \in Nat /\ MaxRequests \in Nat
        BY ConstantsAssumption
    <2>4. sigsLeft \in 0..MaxSignals /\ reqs \in 0..MaxRequests
        BY <2>2 DEF Init
    <2>3. QED
        BY <2>1, <2>4 DEF Init, TypeOK, VolStates, MainPCs, SigPCs, CbPCs
<1>2. DiskInv
    BY DEF Init, DiskInv, B, NoChan
<1>4. LockInv
    BY DEF Init, LockInv, NoChan
<1>3. QED
    BY <1>1, <1>2, <1>4 DEF IInv


(* Every channel operator maps a channel to a channel.                   *)
LEMMA ChanTyping ==
    ASSUME NEW c \in Chan
    PROVE  /\ NoChan \in Chan /\ NewChan \in Chan
           /\ Retained(c) \in Chan /\ Released(c) \in Chan
           /\ Bound(c) \in Chan /\ Unbound(c) \in Chan
           /\ Destroyed(c) \in Chan /\ WithDisk(c) \in Chan
           /\ Retained(NewChan) \in Chan
<1>1. NoChan \in Chan /\ NewChan \in Chan
    BY DEF Chan, ChanStates, NoChan, NewChan
<1>2. ASSUME NEW d \in Chan PROVE Released(d) \in Chan
    BY DEF Chan, ChanStates, Released
<1>3. Retained(c) \in Chan /\ Retained(NewChan) \in Chan
    BY <1>1 DEF Chan, Retained
<1>4. Unbound(c) \in Chan /\ Bound(c) \in Chan /\ WithDisk(c) \in Chan
    BY DEF Chan, Unbound, Bound, WithDisk
<1>5. Destroyed(c) \in Chan
    BY <1>2, <1>4 DEF Destroyed
<1> QED
    BY <1>1, <1>2, <1>3, <1>4, <1>5

(* TypeOK in three parts, so that each step's type obligation is split   *)
(* into pieces that one prover handles: the numbers and the channel, the  *)
(* flags, and the program counters and enumerations.                      *)
TypeNum ==
    /\ chan \in Chan
    /\ diskRc \in Nat /\ destroyed \in Nat /\ inflight \in Nat
    /\ reqs \in 0..MaxRequests /\ sigsLeft \in 0..MaxSignals

TypeBool ==
    /\ fdOpen \in BOOLEAN /\ seAlive \in BOOLEAN /\ exited \in BOOLEAN
    /\ instance \in BOOLEAN /\ mcAlive \in BOOLEAN /\ mcCh \in BOOLEAN
    /\ mainCh \in BOOLEAN /\ mainDisk \in BOOLEAN /\ sigDisk \in BOOLEAN

TypePc ==
    /\ vol \in VolStates /\ mcLock \in {"none", "main", "cb"}
    /\ cbResult \in {"ok_disk", "ok_nodisk", "fail"}
    /\ mpc \in MainPCs /\ spc \in SigPCs /\ cpc \in CbPCs

LEMMA TypeSplit == TypeOK <=> TypeNum /\ TypeBool /\ TypePc
BY DEF TypeOK, TypeNum, TypeBool, TypePc

(* The fields of a channel have their C types.                           *)
LEMMA ChanFields ==
    ASSUME NEW c \in Chan
    PROVE  /\ c.st \in ChanStates /\ c.rc \in Int
           /\ c.disk \in BOOLEAN /\ c.bound \in BOOLEAN
BY DEF Chan

(* How each channel operator changes the CFRetains held through the disk  *)
(* slot: fuse_chan_release drops the slot's reference when it frees the    *)
(* channel, fuse_chan_set_disk takes one, and fuse_chan_disk returns one.  *)
LEMMA ChanDisk ==
    ASSUME NEW c \in Chan
    PROVE  /\ B(Released(c).disk) = B(c.disk) + ReleaseDiskDelta(c)
           /\ B(Destroyed(c).disk) = B(c.disk) + ReleaseDiskDelta(Unbound(c))
           /\ B(WithDisk(c).disk) = B(c.disk) + SetDiskDelta(c)
           /\ GetDiskDelta(c) = B(c.disk)
           /\ Bound(c).disk = c.disk
           /\ Retained(NewChan).disk = FALSE
           /\ Destroyed(c).disk => c.disk
           /\ Released(c).disk => c.disk
           /\ ReleaseDiskDelta(c) \in {-1, 0}
           /\ ReleaseDiskDelta(Unbound(c)) \in {-1, 0}
           /\ SetDiskDelta(c) \in {0, 1}
<1>1. B(Released(c).disk) = B(c.disk) + ReleaseDiskDelta(c)
    BY DEF Chan, B, Released, ReleaseDiskDelta
<1>2. Unbound(c) \in Chan /\ Unbound(c).disk = c.disk
    BY DEF Chan, Unbound
<1>3. B(Destroyed(c).disk) = B(c.disk) + ReleaseDiskDelta(Unbound(c))
    BY <1>2 DEF Chan, B, Destroyed, Released, ReleaseDiskDelta
<1>4. B(WithDisk(c).disk) = B(c.disk) + SetDiskDelta(c)
    BY DEF Chan, B, WithDisk, SetDiskDelta
<1>5. GetDiskDelta(c) = B(c.disk) /\ Bound(c).disk = c.disk
    BY DEF Chan, B, GetDiskDelta, Bound
<1>6. Retained(NewChan).disk = FALSE
    BY DEF Retained, NewChan
<1>7. Released(c).disk => c.disk
    BY DEF Chan, Released
<1>8. Destroyed(c).disk => c.disk
    BY DEF Chan, Destroyed, Released, Unbound
<1>9. /\ ReleaseDiskDelta(c) \in {-1, 0}
      /\ ReleaseDiskDelta(Unbound(c)) \in {-1, 0}
      /\ SetDiskDelta(c) \in {0, 1}
    BY DEF ReleaseDiskDelta, SetDiskDelta
<1> QED
    BY <1>1, <1>3, <1>4, <1>5, <1>6, <1>7, <1>8, <1>9

LEMMA NextIInv == IInv /\ [Next]_vars => IInv'
<1> SUFFICES ASSUME IInv, [Next]_vars PROVE IInv'
    OBVIOUS
<1>0. TypeNum /\ TypeBool /\ TypePc /\ DiskInv /\ LockInv
    BY TypeSplit DEF IInv
<1>30. MaxRequests \in Nat /\ MaxSignals \in Nat
       /\ CallbackResults \subseteq {"ok_disk", "ok_nodisk", "fail"}
    BY ConstantsAssumption
<1>31. /\ chan \in Chan
       /\ chan.st \in ChanStates /\ chan.rc \in Int
       /\ chan.disk \in BOOLEAN /\ chan.bound \in BOOLEAN
    BY <1>0, ChanFields DEF TypeNum
<1>32. /\ B(Released(chan).disk) = B(chan.disk) + ReleaseDiskDelta(chan)
       /\ B(Destroyed(chan).disk) = B(chan.disk)
                                    + ReleaseDiskDelta(Unbound(chan))
       /\ B(WithDisk(chan).disk) = B(chan.disk) + SetDiskDelta(chan)
       /\ GetDiskDelta(chan) = B(chan.disk)
       /\ Bound(chan).disk = chan.disk
       /\ Retained(NewChan).disk = FALSE
       /\ Destroyed(chan).disk => chan.disk
       /\ Released(chan).disk => chan.disk
       /\ ReleaseDiskDelta(chan) \in {-1, 0}
       /\ ReleaseDiskDelta(Unbound(chan)) \in {-1, 0}
       /\ SetDiskDelta(chan) \in {0, 1}
    BY <1>31, ChanDisk
<1>1. CASE MountCall
    <2>1. DiskInv'
        BY <1>0, <1>31, <1>1 DEF MountCall, DiskInv, B, LockInv
    <2>2. LockInv'
        BY <1>0, <1>31, <1>1 DEF MountCall, LockInv
    <2>3. TypeNum'
        BY <1>0, <1>30, <1>31, <1>1, <2>1 DEF MountCall, TypeNum, DiskInv, B
    <2>4. TypeBool'
        BY <1>0, <1>31, <1>1, Zenon DEF MountCall, TypeBool
    <2>5. TypePc'
        BY <1>0, <1>30, <1>1 DEF MountCall, TypePc, VolStates, MainPCs, SigPCs, CbPCs
    <2>6. QED
        BY <2>1, <2>2, <2>3, <2>4, <2>5 DEF IInv, TypeOK, TypeNum, TypeBool, TypePc
<1>2. CASE MountChanNew
    <2>1. DiskInv'
        BY <1>0, <1>31, <1>2, <1>32 DEF MountChanNew, DiskInv, B, LockInv
    <2>2. LockInv'
        BY <1>0, <1>31, <1>2, <1>32 DEF MountChanNew, LockInv
    <2>3. TypeNum'
        BY <1>0, <1>30, <1>31, <1>2, <2>1, ChanTyping DEF MountChanNew, TypeNum, DiskInv, B
    <2>4. TypeBool'
        BY <1>0, <1>31, <1>2, Zenon DEF MountChanNew, TypeBool
    <2>5. TypePc'
        BY <1>0, <1>30, <1>2 DEF MountChanNew, TypePc, VolStates, MainPCs, SigPCs, CbPCs
    <2>6. QED
        BY <2>1, <2>2, <2>3, <2>4, <2>5 DEF IInv, TypeOK, TypeNum, TypeBool, TypePc
<1>3. CASE Setup
    <2>1. DiskInv'
        BY <1>0, <1>31, <1>3, <1>32 DEF Setup, DiskInv, B, LockInv
    <2>2. LockInv'
        BY <1>0, <1>31, <1>3, <1>32 DEF Setup, LockInv
    <2>3. TypeNum'
        BY <1>0, <1>30, <1>31, <1>3, <2>1, ChanTyping DEF Setup, TypeNum, DiskInv, B
    <2>4. TypeBool'
        BY <1>0, <1>31, <1>3, Zenon DEF Setup, TypeBool
    <2>5. TypePc'
        BY <1>0, <1>30, <1>3 DEF Setup, TypePc, VolStates, MainPCs, SigPCs, CbPCs
    <2>6. QED
        BY <2>1, <2>2, <2>3, <2>4, <2>5 DEF IInv, TypeOK, TypeNum, TypeBool, TypePc
<1>4. CASE LoopCheck
    <2>1. DiskInv'
        BY <1>0, <1>31, <1>4 DEF LoopCheck, DiskInv, B, LockInv
    <2>2. LockInv'
        BY <1>0, <1>31, <1>4 DEF LoopCheck, LockInv
    <2>3. TypeNum'
        BY <1>0, <1>30, <1>31, <1>4, <2>1 DEF LoopCheck, TypeNum, DiskInv, B
    <2>4. TypeBool'
        BY <1>0, <1>31, <1>4, Zenon DEF LoopCheck, TypeBool
    <2>5. TypePc'
        BY <1>0, <1>30, <1>4 DEF LoopCheck, TypePc, VolStates, MainPCs, SigPCs, CbPCs
    <2>6. QED
        BY <2>1, <2>2, <2>3, <2>4, <2>5 DEF IInv, TypeOK, TypeNum, TypeBool, TypePc
<1>5. CASE LoopRead
    <2>1. DiskInv'
        BY <1>0, <1>31, <1>5 DEF LoopRead, Readable, DiskInv, B, LockInv
    <2>2. LockInv'
        BY <1>0, <1>31, <1>5 DEF LoopRead, Readable, LockInv
    <2>3. TypeNum'
        BY <1>0, <1>30, <1>31, <1>5, <2>1 DEF LoopRead, Readable, TypeNum, DiskInv, B
    <2>4. TypeBool'
        BY <1>0, <1>31, <1>5, Zenon DEF LoopRead, Readable, TypeBool
    <2>5. TypePc'
        BY <1>0, <1>30, <1>5 DEF LoopRead, Readable, TypePc, VolStates, MainPCs, SigPCs, CbPCs
    <2>6. QED
        BY <2>1, <2>2, <2>3, <2>4, <2>5 DEF IInv, TypeOK, TypeNum, TypeBool, TypePc
<1>6. CASE LoopWait
    <2>1. DiskInv'
        BY <1>0, <1>31, <1>6 DEF LoopWait, DiskInv, B, LockInv
    <2>2. LockInv'
        BY <1>0, <1>31, <1>6 DEF LoopWait, LockInv
    <2>3. TypeNum'
        BY <1>0, <1>30, <1>31, <1>6, <2>1 DEF LoopWait, TypeNum, DiskInv, B
    <2>4. TypeBool'
        BY <1>0, <1>31, <1>6, Zenon DEF LoopWait, TypeBool
    <2>5. TypePc'
        BY <1>0, <1>30, <1>6 DEF LoopWait, TypePc, VolStates, MainPCs, SigPCs, CbPCs
    <2>6. QED
        BY <2>1, <2>2, <2>3, <2>4, <2>5 DEF IInv, TypeOK, TypeNum, TypeBool, TypePc
<1>7. CASE TeardownNextChan
    <2>1. DiskInv'
        BY <1>0, <1>31, <1>7 DEF TeardownNextChan, DiskInv, B, LockInv
    <2>2. LockInv'
        BY <1>0, <1>31, <1>7 DEF TeardownNextChan, LockInv
    <2>3. TypeNum'
        BY <1>0, <1>30, <1>31, <1>7, <2>1 DEF TeardownNextChan, TypeNum, DiskInv, B
    <2>4. TypeBool'
        BY <1>0, <1>31, <1>7, Zenon DEF TeardownNextChan, TypeBool
    <2>5. TypePc'
        BY <1>0, <1>30, <1>7 DEF TeardownNextChan, TypePc, VolStates, MainPCs, SigPCs, CbPCs
    <2>6. QED
        BY <2>1, <2>2, <2>3, <2>4, <2>5 DEF IInv, TypeOK, TypeNum, TypeBool, TypePc
<1>8. CASE TeardownRemoveSignals
    <2>1. DiskInv'
        BY <1>0, <1>31, <1>8 DEF TeardownRemoveSignals, DiskInv, B, LockInv
    <2>2. LockInv'
        BY <1>0, <1>31, <1>8 DEF TeardownRemoveSignals, LockInv
    <2>3. TypeNum'
        BY <1>0, <1>30, <1>31, <1>8, <2>1 DEF TeardownRemoveSignals, TypeNum, DiskInv, B
    <2>4. TypeBool'
        BY <1>0, <1>31, <1>8, Zenon DEF TeardownRemoveSignals, TypeBool
    <2>5. TypePc'
        BY <1>0, <1>30, <1>8 DEF TeardownRemoveSignals, TypePc, VolStates, MainPCs, SigPCs, CbPCs
    <2>6. QED
        BY <2>1, <2>2, <2>3, <2>4, <2>5 DEF IInv, TypeOK, TypeNum, TypeBool, TypePc
<1>9. CASE UnmountGetDisk
    <2>1. DiskInv'
        BY <1>0, <1>31, <1>9, <1>32 DEF UnmountGetDisk, DiskInv, B, LockInv
    <2>2. LockInv'
        BY <1>0, <1>31, <1>9, <1>32 DEF UnmountGetDisk, LockInv
    <2>3. TypeNum'
        BY <1>0, <1>30, <1>31, <1>9, <2>1 DEF UnmountGetDisk, TypeNum, DiskInv, B
    <2>4. TypeBool'
        BY <1>0, <1>31, <1>9, Zenon DEF UnmountGetDisk, TypeBool
    <2>5. TypePc'
        BY <1>0, <1>30, <1>9 DEF UnmountGetDisk, TypePc, VolStates, MainPCs, SigPCs, CbPCs
    <2>6. QED
        BY <2>1, <2>2, <2>3, <2>4, <2>5 DEF IInv, TypeOK, TypeNum, TypeBool, TypePc
<1>10. CASE UnmountKern
    <2>1. DiskInv'
        BY <1>0, <1>31, <1>10 DEF UnmountKern, KernUnmount, DiskInv, B, LockInv
    <2>2. LockInv'
        BY <1>0, <1>31, <1>10 DEF UnmountKern, KernUnmount, LockInv
    <2>3. TypeNum'
        BY <1>0, <1>30, <1>31, <1>10, <2>1 DEF UnmountKern, KernUnmount, TypeNum, DiskInv, B
    <2>4. TypeBool'
        BY <1>0, <1>31, <1>10, Zenon DEF UnmountKern, KernUnmount, TypeBool
    <2>5. TypePc'
        BY <1>0, <1>30, <1>10 DEF UnmountKern, KernUnmount, TypePc, VolStates, MainPCs, SigPCs, CbPCs
    <2>6. QED
        BY <2>1, <2>2, <2>3, <2>4, <2>5 DEF IInv, TypeOK, TypeNum, TypeBool, TypePc
<1>11. CASE UnmountFin
    <2>1. DiskInv'
        <3>1. CASE mainDisk
            BY <1>0, <1>11, <3>1 DEF UnmountFin, UnmountFinish, DiskInv, B
        <3>2. CASE ~mainDisk
            <4>1. /\ chan' = Destroyed(chan)
                  /\ diskRc' = diskRc + ReleaseDiskDelta(Unbound(chan))
                  /\ mainDisk' = FALSE /\ sigDisk' = sigDisk
                  /\ mpc' = "destroy" /\ spc' = spc
                BY <1>11, <3>2 DEF UnmountFin, UnmountFinish, DestroyChan
            <4>2. diskRc = B(chan.disk) + B(sigDisk)
                BY <1>0, <3>2 DEF DiskInv, B
            <4>3. diskRc' = B(chan'.disk) + B(mainDisk') + B(sigDisk')
                BY <4>1, <4>2, <1>32 DEF B
            <4>4. QED
                BY <4>1, <4>3, <1>0 DEF DiskInv
        <3>3. QED
            BY <3>1, <3>2
    <2>2. LockInv'
        BY <1>0, <1>31, <1>11, <1>32 DEF UnmountFin, UnmountFinish, DestroyChan, LockInv
    <2>3. TypeNum'
        BY <1>0, <1>30, <1>31, <1>11, <2>1, ChanTyping DEF UnmountFin, UnmountFinish, DestroyChan, TypeNum, DiskInv, B
    <2>4. TypeBool'
        BY <1>0, <1>31, <1>11, Zenon DEF UnmountFin, UnmountFinish, DestroyChan, TypeBool
    <2>5. TypePc'
        BY <1>0, <1>30, <1>11 DEF UnmountFin, UnmountFinish, DestroyChan, TypePc, VolStates, MainPCs, SigPCs, CbPCs
    <2>6. QED
        BY <2>1, <2>2, <2>3, <2>4, <2>5 DEF IInv, TypeOK, TypeNum, TypeBool, TypePc
<1>12. CASE FuseDestroy
    <2>1. DiskInv'
        <3>1. CASE chan.bound
            BY <1>0, <1>31, <1>32, <1>12, <3>1
               DEF FuseDestroy, DestroyChan, DiskInv, B
        <3>2. CASE ~chan.bound
            BY <1>0, <1>12, <3>2 DEF FuseDestroy, DiskInv
        <3>3. QED
            BY <3>1, <3>2
    <2>2. LockInv'
        BY <1>0, <1>31, <1>12, <1>32 DEF FuseDestroy, DestroyChan, LockInv
    <2>3. TypeNum'
        BY <1>0, <1>30, <1>31, <1>12, <2>1, ChanTyping DEF FuseDestroy, DestroyChan, TypeNum, DiskInv, B
    <2>4. TypeBool'
        BY <1>0, <1>31, <1>12, Zenon DEF FuseDestroy, DestroyChan, TypeBool
    <2>5. TypePc'
        BY <1>0, <1>30, <1>12 DEF FuseDestroy, DestroyChan, TypePc, VolStates, MainPCs, SigPCs, CbPCs
    <2>6. QED
        BY <2>1, <2>2, <2>3, <2>4, <2>5 DEF IInv, TypeOK, TypeNum, TypeBool, TypePc
<1>13. CASE TaskRun
    <2>1. DiskInv'
        BY <1>0, <1>31, <1>13 DEF TaskRun, DiskInv, B, LockInv
    <2>2. LockInv'
        BY <1>0, <1>31, <1>13 DEF TaskRun, LockInv
    <2>3. TypeNum'
        BY <1>0, <1>30, <1>31, <1>13, <2>1 DEF TaskRun, TypeNum, DiskInv, B
    <2>4. TypeBool'
        BY <1>0, <1>31, <1>13, Zenon DEF TaskRun, TypeBool
    <2>5. TypePc'
        BY <1>0, <1>30, <1>13 DEF TaskRun, TypePc, VolStates, MainPCs, SigPCs, CbPCs
    <2>6. QED
        BY <2>1, <2>2, <2>3, <2>4, <2>5 DEF IInv, TypeOK, TypeNum, TypeBool, TypePc
<1>14. CASE SignalArrives
    <2>1. DiskInv'
        BY <1>0, <1>31, <1>14 DEF SignalArrives, DiskInv, B, LockInv
    <2>2. LockInv'
        BY <1>0, <1>31, <1>14 DEF SignalArrives, LockInv
    <2>3. TypeNum'
        BY <1>0, <1>30, <1>31, <1>14, <2>1 DEF SignalArrives, TypeNum, DiskInv, B
    <2>4. TypeBool'
        BY <1>0, <1>31, <1>14, Zenon DEF SignalArrives, TypeBool
    <2>5. TypePc'
        BY <1>0, <1>30, <1>14 DEF SignalArrives, TypePc, VolStates, MainPCs, SigPCs, CbPCs
    <2>6. QED
        BY <2>1, <2>2, <2>3, <2>4, <2>5 DEF IInv, TypeOK, TypeNum, TypeBool, TypePc
<1>15. CASE HandlerCheck
    <2>1. DiskInv'
        BY <1>0, <1>31, <1>15 DEF HandlerCheck, DiskInv, B, LockInv
    <2>2. LockInv'
        BY <1>0, <1>31, <1>15 DEF HandlerCheck, LockInv
    <2>3. TypeNum'
        BY <1>0, <1>30, <1>31, <1>15, <2>1 DEF HandlerCheck, TypeNum, DiskInv, B
    <2>4. TypeBool'
        BY <1>0, <1>31, <1>15, Zenon DEF HandlerCheck, TypeBool
    <2>5. TypePc'
        BY <1>0, <1>30, <1>15 DEF HandlerCheck, TypePc, VolStates, MainPCs, SigPCs, CbPCs
    <2>6. QED
        BY <2>1, <2>2, <2>3, <2>4, <2>5 DEF IInv, TypeOK, TypeNum, TypeBool, TypePc
<1>16. CASE HandlerNextChan
    <2>1. DiskInv'
        BY <1>0, <1>31, <1>16 DEF HandlerNextChan, DiskInv, B, LockInv
    <2>2. LockInv'
        BY <1>0, <1>31, <1>16 DEF HandlerNextChan, LockInv
    <2>3. TypeNum'
        BY <1>0, <1>30, <1>31, <1>16, <2>1 DEF HandlerNextChan, TypeNum, DiskInv, B
    <2>4. TypeBool'
        BY <1>0, <1>31, <1>16, Zenon DEF HandlerNextChan, TypeBool
    <2>5. TypePc'
        BY <1>0, <1>30, <1>16 DEF HandlerNextChan, TypePc, VolStates, MainPCs, SigPCs, CbPCs
    <2>6. QED
        BY <2>1, <2>2, <2>3, <2>4, <2>5 DEF IInv, TypeOK, TypeNum, TypeBool, TypePc
<1>17. CASE HandlerGetDisk
    <2>1. DiskInv'
        BY <1>0, <1>31, <1>17, <1>32 DEF HandlerGetDisk, DiskInv, B, LockInv
    <2>2. LockInv'
        BY <1>0, <1>31, <1>17, <1>32 DEF HandlerGetDisk, LockInv
    <2>3. TypeNum'
        BY <1>0, <1>30, <1>31, <1>17, <2>1 DEF HandlerGetDisk, TypeNum, DiskInv, B
    <2>4. TypeBool'
        BY <1>0, <1>31, <1>17, Zenon DEF HandlerGetDisk, TypeBool
    <2>5. TypePc'
        BY <1>0, <1>30, <1>17 DEF HandlerGetDisk, TypePc, VolStates, MainPCs, SigPCs, CbPCs
    <2>6. QED
        BY <2>1, <2>2, <2>3, <2>4, <2>5 DEF IInv, TypeOK, TypeNum, TypeBool, TypePc
<1>18. CASE HandlerKern
    <2>1. DiskInv'
        BY <1>0, <1>31, <1>18 DEF HandlerKern, KernUnmount, DiskInv, B, LockInv
    <2>2. LockInv'
        BY <1>0, <1>31, <1>18 DEF HandlerKern, KernUnmount, LockInv
    <2>3. TypeNum'
        BY <1>0, <1>30, <1>31, <1>18, <2>1 DEF HandlerKern, KernUnmount, TypeNum, DiskInv, B
    <2>4. TypeBool'
        BY <1>0, <1>31, <1>18, Zenon DEF HandlerKern, KernUnmount, TypeBool
    <2>5. TypePc'
        BY <1>0, <1>30, <1>18 DEF HandlerKern, KernUnmount, TypePc, VolStates, MainPCs, SigPCs, CbPCs
    <2>6. QED
        BY <2>1, <2>2, <2>3, <2>4, <2>5 DEF IInv, TypeOK, TypeNum, TypeBool, TypePc
<1>19. CASE HandlerFin
    <2>1. DiskInv'
        <3>1. CASE sigDisk
            BY <1>0, <1>19, <3>1 DEF HandlerFin, UnmountFinish, DiskInv, B
        <3>2. CASE ~sigDisk
            BY <1>0, <1>31, <1>32, <1>19, <3>2
               DEF HandlerFin, UnmountFinish, DestroyChan, DiskInv, B
        <3>3. QED
            BY <3>1, <3>2
    <2>2. LockInv'
        BY <1>0, <1>31, <1>19, <1>32 DEF HandlerFin, UnmountFinish, DestroyChan, LockInv
    <2>3. TypeNum'
        BY <1>0, <1>30, <1>31, <1>19, <2>1, ChanTyping DEF HandlerFin, UnmountFinish, DestroyChan, TypeNum, DiskInv, B
    <2>4. TypeBool'
        BY <1>0, <1>31, <1>19, Zenon DEF HandlerFin, UnmountFinish, DestroyChan, TypeBool
    <2>5. TypePc'
        BY <1>0, <1>30, <1>19 DEF HandlerFin, UnmountFinish, DestroyChan, TypePc, VolStates, MainPCs, SigPCs, CbPCs
    <2>6. QED
        BY <2>1, <2>2, <2>3, <2>4, <2>5 DEF IInv, TypeOK, TypeNum, TypeBool, TypePc
<1>20. CASE MountComplete
    <2>1. DiskInv'
        BY <1>0, <1>31, <1>20 DEF MountComplete, MountOutcomes, DiskInv, B, LockInv
    <2>2. LockInv'
        BY <1>0, <1>31, <1>20 DEF MountComplete, MountOutcomes, LockInv
    <2>3. TypeNum'
        BY <1>0, <1>30, <1>31, <1>20, <2>1 DEF MountComplete, MountOutcomes, TypeNum, DiskInv, B
    <2>4. TypeBool'
        BY <1>0, <1>31, <1>20, Zenon DEF MountComplete, MountOutcomes, TypeBool
    <2>5. TypePc'
        BY <1>0, <1>30, <1>20 DEF MountComplete, MountOutcomes, TypePc, VolStates, MainPCs, SigPCs, CbPCs
    <2>6. QED
        BY <2>1, <2>2, <2>3, <2>4, <2>5 DEF IInv, TypeOK, TypeNum, TypeBool, TypePc
<1>21. CASE CallbackLock
    <2>1. DiskInv'
        BY <1>0, <1>31, <1>21 DEF CallbackLock, DiskInv, B, LockInv
    <2>2. LockInv'
        BY <1>0, <1>31, <1>21 DEF CallbackLock, LockInv
    <2>3. TypeNum'
        BY <1>0, <1>30, <1>31, <1>21, <2>1 DEF CallbackLock, TypeNum, DiskInv, B
    <2>4. TypeBool'
        BY <1>0, <1>31, <1>21, Zenon DEF CallbackLock, TypeBool
    <2>5. TypePc'
        BY <1>0, <1>30, <1>21 DEF CallbackLock, TypePc, VolStates, MainPCs, SigPCs, CbPCs
    <2>6. QED
        BY <2>1, <2>2, <2>3, <2>4, <2>5 DEF IInv, TypeOK, TypeNum, TypeBool, TypePc
<1>22. CASE CallbackBody
    <2>1. DiskInv'
        <3>1. CASE cbResult = "ok_disk"
            BY <1>0, <1>31, <1>32, <1>22, <3>1 DEF CallbackBody, DiskInv, B
        <3>2. CASE cbResult # "ok_disk"
            BY <1>0, <1>22, <3>2 DEF CallbackBody, DiskInv
        <3>3. QED
            BY <3>1, <3>2
    <2>2. LockInv'
        BY <1>0, <1>31, <1>22, <1>32 DEF CallbackBody, LockInv
    <2>3. TypeNum'
        BY <1>0, <1>30, <1>31, <1>22, <2>1, ChanTyping DEF CallbackBody, TypeNum, DiskInv, B
    <2>4. TypeBool'
        BY <1>0, <1>31, <1>22, Zenon DEF CallbackBody, TypeBool
    <2>5. TypePc'
        BY <1>0, <1>30, <1>22 DEF CallbackBody, TypePc, VolStates, MainPCs, SigPCs, CbPCs
    <2>6. QED
        BY <2>1, <2>2, <2>3, <2>4, <2>5 DEF IInv, TypeOK, TypeNum, TypeBool, TypePc
<1>23. CASE CallbackDone
    <2>1. DiskInv'
        <3>1. CASE mcCh
            BY <1>0, <1>31, <1>32, <1>23, <3>1 DEF CallbackDone, DiskInv, B
        <3>2. CASE ~mcCh
            BY <1>0, <1>23, <3>2 DEF CallbackDone, DiskInv
        <3>3. QED
            BY <3>1, <3>2
    <2>2. LockInv'
        BY <1>0, <1>31, <1>23, <1>32 DEF CallbackDone, LockInv
    <2>3. TypeNum'
        BY <1>0, <1>30, <1>31, <1>23, <2>1, ChanTyping DEF CallbackDone, TypeNum, DiskInv, B
    <2>4. TypeBool'
        BY <1>0, <1>31, <1>23, Zenon DEF CallbackDone, TypeBool
    <2>5. TypePc'
        BY <1>0, <1>30, <1>23 DEF CallbackDone, TypePc, VolStates, MainPCs, SigPCs, CbPCs
    <2>6. QED
        BY <2>1, <2>2, <2>3, <2>4, <2>5 DEF IInv, TypeOK, TypeNum, TypeBool, TypePc
<1>24. CASE UnmountFromOutside
    <2>1. DiskInv'
        BY <1>0, <1>31, <1>24 DEF UnmountFromOutside, DiskInv, B, LockInv
    <2>2. LockInv'
        BY <1>0, <1>31, <1>24 DEF UnmountFromOutside, LockInv
    <2>3. TypeNum'
        BY <1>0, <1>30, <1>31, <1>24, <2>1 DEF UnmountFromOutside, TypeNum, DiskInv, B
    <2>4. TypeBool'
        BY <1>0, <1>31, <1>24, Zenon DEF UnmountFromOutside, TypeBool
    <2>5. TypePc'
        BY <1>0, <1>30, <1>24 DEF UnmountFromOutside, TypePc, VolStates, MainPCs, SigPCs, CbPCs
    <2>6. QED
        BY <2>1, <2>2, <2>3, <2>4, <2>5 DEF IInv, TypeOK, TypeNum, TypeBool, TypePc
<1>25. CASE Finished
    <2>1. DiskInv'
        BY <1>0, <1>31, <1>25 DEF Finished, AllDone, vars, DiskInv, B, LockInv
    <2>2. LockInv'
        BY <1>0, <1>31, <1>25 DEF Finished, AllDone, vars, LockInv
    <2>3. TypeNum'
        BY <1>0, <1>30, <1>31, <1>25, <2>1 DEF Finished, AllDone, vars, TypeNum, DiskInv, B
    <2>4. TypeBool'
        BY <1>0, <1>31, <1>25, Zenon DEF Finished, AllDone, vars, TypeBool
    <2>5. TypePc'
        BY <1>0, <1>30, <1>25 DEF Finished, AllDone, vars, TypePc, VolStates, MainPCs, SigPCs, CbPCs
    <2>6. QED
        BY <2>1, <2>2, <2>3, <2>4, <2>5 DEF IInv, TypeOK, TypeNum, TypeBool, TypePc
<1>26. CASE UNCHANGED vars
    BY <1>0, <1>26 DEF vars, IInv, TypeOK, TypeNum, TypeBool, TypePc,
       DiskInv, B, LockInv
<1>27. QED
    BY <1>1, <1>2, <1>3, <1>4, <1>5, <1>6, <1>7, <1>8, <1>9, <1>10, <1>11, <1>12, <1>13, <1>14, <1>15, <1>16, <1>17, <1>18, <1>19, <1>20, <1>21, <1>22, <1>23, <1>24, <1>25, <1>26
       DEF Next, MainStep, HandlerStep, CallbackStep

(* Type correctness of the mount lifecycle for every bound and every       *)
(* environment: every variable keeps its C type in every reachable state,  *)
(* and in particular the library's CFRetain count on the DADiskRef taken   *)
(* by fuse_mount_callback, fuse_chan_disk and fuse_chan_set_disk never     *)
(* goes below zero.                                                        *)
THEOREM TypeCorrect == Spec => []TypeOK
<1>1. Init => IInv
    BY InitIInv
<1>2. IInv /\ [Next]_vars => IInv'
    BY NextIInv
<1>3. IInv => TypeOK
    BY DEF IInv
<1> QED
    BY <1>1, <1>2, <1>3, PTL DEF Spec

(* The CFRetains this library holds on the volume's DADiskRef are exactly  *)
(* the reference in the channel's disk slot plus the local references that *)
(* fuse_unmount_common holds in the main thread and in exit_handler, for   *)
(* every interleaving of the mount callback, the signal handler and the    *)
(* main thread: no CFRetain is lost and no CFRelease is doubled.           *)
THEOREM DiskRetainsBalanced == Spec => []DiskInv
<1>1. IInv => DiskInv
    BY DEF IInv
<1> QED
    BY <1>1, InitIInv, NextIInv, PTL DEF Spec

=============================================================================
