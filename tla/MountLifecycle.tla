--------------------------- MODULE MountLifecycle ---------------------------
(***************************************************************************)
(* The life of one mounted file system on the __APPLE__ build, from        *)
(* fuse_main_common (src/lib/helper.c) to its return, with the threads     *)
(* that share the channel:                                                 *)
(*                                                                         *)
(*  main  fuse_setup_common -> fuse_mount_common -> fuse_new_common ->     *)
(*        fuse_set_signal_handlers -> fuse_session_loop_dispatch ->        *)
(*        fuse_teardown_common -> fuse_unmount_common -> fuse_destroy      *)
(*  tasks the blocks fuse_session_loop_dispatch submits to its group; each *)
(*        processes one request and replies through the channel           *)
(*  sig   exit_handler on fuse_signal_queue (src/lib/fuse_signals.c),      *)
(*        which unmounts through fuse_unmount(NULL, ch)                    *)
(*  cb    fuse_mount_callback, run when the asynchronous mount completes   *)
(*                                                                         *)
(* and the kernel as environment: it completes the mount, delivers         *)
(* requests, and may have the volume unmounted from outside (umount).      *)
(* The platform primitives fuse_kern_mount and fuse_kern_unmount are not   *)
(* under src/; they are modelled from the spec (sections 4.4, 4.5, 6).     *)
(***************************************************************************)
EXTENDS Integers, FuseChan

CONSTANTS
    MaxRequests,          \* requests the kernel delivers in one run
    MaxSignals,           \* SIGHUP/SIGINT/SIGTERM the user sends
    CallbackResults,      \* what the mount completion may report
    ExternalUnmount,      \* the volume may be unmounted from outside
    AppMayExit,           \* a file system operation may call fuse_exit
    SetupMayFail,         \* mount, channel allocation, daemonize may fail
    SignalOnlyAfterMount  \* signals arrive only after the mount callback

ASSUME ConstantsAssumption ==
    /\ MaxRequests \in Nat
    /\ MaxSignals \in Nat
    /\ CallbackResults \subseteq {"ok_disk", "ok_nodisk", "fail"}
    /\ CallbackResults # {}
    /\ ExternalUnmount \in BOOLEAN /\ AppMayExit \in BOOLEAN
    /\ SetupMayFail \in BOOLEAN /\ SignalOnlyAfterMount \in BOOLEAN

VARIABLES
    chan,       \* the struct fuse_chan (FuseChan)
    diskRc,     \* CFRetains this library holds on the volume's DADiskRef
    destroyed,  \* how many times fuse_chan_destroy ran (history)
    fdOpen,     \* the kernel descriptor returned by fuse_kern_mount is open
    vol,        \* the kernel's view of the volume
    seAlive,    \* struct fuse_session allocated (by fuse_new_common)
    exited,     \* se->exited
    instance,   \* fuse_instance == se (signal sources registered)
    mcAlive,    \* struct fuse_mount_context allocated
    mcCh,       \* mc->ch != NULL: the context holds a channel reference
    mcLock,     \* holder of mc->lock
    cbResult,   \* status and DADiskRef the mount completion reports
    mpc, mainCh, mainDisk,   \* main thread: pc, local ch, local disk
    inflight,   \* submitted blocks not yet run
    reqs,       \* requests read so far
    spc, sigDisk, sigsLeft,  \* signal queue: pc, local disk, budget
    cpc         \* mount callback: pc

vars == <<chan, diskRc, destroyed, fdOpen, vol, seAlive, exited, instance,
          mcAlive, mcCh, mcLock, cbResult, mpc, mainCh, mainDisk, inflight,
          reqs, spc, sigDisk, sigsLeft, cpc>>

MainPCs == {"mount", "chan_new", "setup", "loop", "read", "wait", "td_next",
            "td_remove", "um_disk", "um_kern", "um_fin", "destroy", "done"}
SigPCs == {"idle", "h_inst", "h_next", "h_disk", "h_kern", "h_fin"}
CbPCs == {"none", "armed", "cb_lock", "cb_body", "cb_unlock", "done"}
VolStates == {"none", "mounting", "mounted", "failed", "unmounted"}

Init ==
    /\ chan = NoChan /\ diskRc = 0 /\ destroyed = 0
    /\ fdOpen = FALSE /\ vol = "none"
    /\ seAlive = FALSE /\ exited = FALSE /\ instance = FALSE
    /\ mcAlive = FALSE /\ mcCh = FALSE /\ mcLock = "none"
    /\ cbResult = "fail"
    /\ mpc = "mount" /\ mainCh = FALSE /\ mainDisk = FALSE
    /\ inflight = 0 /\ reqs = 0
    /\ spc = "idle" /\ sigDisk = FALSE /\ sigsLeft = MaxSignals
    /\ cpc = "none"

-----------------------------------------------------------------------------
(* Main thread.                                                            *)

(* fuse_mount_common up to fuse_kern_mount: the context is created and     *)
(* locked; a failed mount destroys it (the callback will not run) and      *)
(* fuse_setup_common returns NULL.                                         *)
MountCall ==
    /\ mpc = "mount"
    /\ \/ /\ SetupMayFail
          /\ mpc' = "done"
          /\ UNCHANGED <<fdOpen, vol, mcAlive, mcLock, cpc>>
       \/ /\ fdOpen' = TRUE /\ vol' = "mounting"
          /\ mcAlive' = TRUE /\ mcLock' = "main"
          /\ cpc' = "armed" /\ mpc' = "chan_new"
    /\ UNCHANGED <<chan, diskRc, destroyed, seAlive, exited, instance, mcCh,
                   cbResult, mainCh, mainDisk, inflight, reqs, spc, sigDisk,
                   sigsLeft>>

(* Mutant: fuse_mount_common without the fuse_chan_retain for the         *)
(* pending callback.                                                       *)
MutMountChanNewNoRetain ==
    /\ mpc = "chan_new"
    /\ mcLock' = "none"
    /\ \/ /\ chan' = NewChan
          /\ mcCh' = TRUE /\ mpc' = "setup"
          /\ UNCHANGED fdOpen
       \/ /\ SetupMayFail
          /\ fdOpen' = FALSE /\ mpc' = "done"
          /\ UNCHANGED <<chan, mcCh>>
    /\ UNCHANGED <<diskRc, destroyed, vol, seAlive, exited, instance, mcAlive,
                   cbResult, mainCh, mainDisk, inflight, reqs, spc, sigDisk,
                   sigsLeft, cpc>>

(* fuse_kern_chan_new, then under mc->lock: fuse_chan_retain and           *)
(* mc->ch = ch; or, if the channel cannot be created, fuse_kern_unmount    *)
(* (NULL, fd) closes fd; mc->lock is released either way.                  *)
MountChanNew ==
    /\ mpc = "chan_new"
    /\ mcLock' = "none"
    /\ \/ /\ chan' = Retained(NewChan)
          /\ mcCh' = TRUE /\ mpc' = "setup"
          /\ UNCHANGED fdOpen
       \/ /\ SetupMayFail
          /\ fdOpen' = FALSE /\ mpc' = "done"
          /\ UNCHANGED <<chan, mcCh>>
    /\ UNCHANGED <<diskRc, destroyed, vol, seAlive, exited, instance, mcAlive,
                   cbResult, mainCh, mainDisk, inflight, reqs, spc, sigDisk,
                   sigsLeft, cpc>>

(* fuse_new_common creates the session and binds the channel; then         *)
(* fuse_daemonize and fuse_set_signal_handlers, which sets fuse_instance.  *)
(* If one of them fails, err_unmount: fuse_unmount_common, then            *)
(* fuse_destroy if the session exists.  A failed fuse_new_common leaves    *)
(* the channel unbound and no session, so FuseDestroy does nothing.        *)
Setup ==
    /\ mpc = "setup"
    /\ mainCh' = TRUE
    /\ \/ /\ chan' = Bound(chan) /\ seAlive' = TRUE
          /\ \/ /\ instance' = TRUE /\ mpc' = "loop"
             \/ /\ SetupMayFail
                /\ mpc' = "um_disk" /\ UNCHANGED instance
       \/ /\ SetupMayFail
          /\ mpc' = "um_disk"
          /\ UNCHANGED <<chan, seAlive, instance>>
    /\ UNCHANGED <<diskRc, destroyed, fdOpen, vol, exited, mcAlive, mcCh,
                   mcLock, cbResult, mainDisk, inflight, reqs, spc, sigDisk,
                   sigsLeft, cpc>>

(* while (!fuse_session_exited(se))                                        *)
LoopCheck ==
    /\ mpc = "loop"
    /\ mpc' = IF exited THEN "wait" ELSE "read"
    /\ UNCHANGED <<chan, diskRc, destroyed, fdOpen, vol, seAlive, exited,
                   instance, mcAlive, mcCh, mcLock, cbResult, mainCh, mainDisk,
                   inflight, reqs, spc, sigDisk, sigsLeft, cpc>>

(* The kernel can deliver a request on the descriptor.                    *)
Readable == fdOpen /\ vol \in {"mounting", "mounted"}

(* Mutant: a failed read is retried like -EINTR instead of breaking.     *)
MutLoopReadRetry ==
    /\ mpc = "read"
    /\ \/ /\ Readable /\ reqs < MaxRequests
          /\ reqs' = reqs + 1 /\ inflight' = inflight + 1
          /\ mpc' = "loop"
       \/ /\ ~Readable
          /\ mpc' = "loop"
          /\ UNCHANGED <<reqs, inflight>>
    /\ UNCHANGED <<chan, diskRc, destroyed, fdOpen, vol, seAlive, exited,
                   instance, mcAlive, mcCh, mcLock, cbResult, mainCh, mainDisk,
                   spc, sigDisk, sigsLeft, cpc>>

(* fuse_session_receive_buf blocks until a request arrives or the          *)
(* descriptor fails.  A request is copied and submitted with              *)
(* dispatch_group_async; a result <= 0 breaks the loop.                   *)
LoopRead ==
    /\ mpc = "read"
    /\ \/ /\ Readable /\ reqs < MaxRequests
          /\ reqs' = reqs + 1 /\ inflight' = inflight + 1
          /\ mpc' = "loop"
       \/ /\ ~Readable
          /\ mpc' = "wait"
          /\ UNCHANGED <<reqs, inflight>>
    /\ UNCHANGED <<chan, diskRc, destroyed, fdOpen, vol, seAlive, exited,
                   instance, mcAlive, mcCh, mcLock, cbResult, mainCh, mainDisk,
                   spc, sigDisk, sigsLeft, cpc>>

(* Mutant: the loop returns without dispatch_group_wait.                  *)
MutLoopWaitNoDrain ==
    /\ mpc = "wait"
    /\ exited' = FALSE
    /\ mpc' = "td_next"
    /\ UNCHANGED <<chan, diskRc, destroyed, fdOpen, vol, seAlive, instance,
                   mcAlive, mcCh, mcLock, cbResult, mainCh, mainDisk, inflight,
                   reqs, spc, sigDisk, sigsLeft, cpc>>

(* dispatch_group_wait, then fuse_session_reset clears se->exited.         *)
LoopWait ==
    /\ mpc = "wait"
    /\ inflight = 0
    /\ exited' = FALSE
    /\ mpc' = "td_next"
    /\ UNCHANGED <<chan, diskRc, destroyed, fdOpen, vol, seAlive, instance,
                   mcAlive, mcCh, mcLock, cbResult, mainCh, mainDisk, inflight,
                   reqs, spc, sigDisk, sigsLeft, cpc>>

(* fuse_teardown_common: ch = fuse_session_next_chan(se, NULL).            *)
TeardownNextChan ==
    /\ mpc = "td_next"
    /\ mainCh' = chan.bound
    /\ mpc' = "td_remove"
    /\ UNCHANGED <<chan, diskRc, destroyed, fdOpen, vol, seAlive, exited,
                   instance, mcAlive, mcCh, mcLock, cbResult, mainDisk,
                   inflight, reqs, spc, sigDisk, sigsLeft, cpc>>

(* fuse_remove_signal_handlers: fuse_instance = NULL, sources released.    *)
TeardownRemoveSignals ==
    /\ mpc = "td_remove"
    /\ instance' = FALSE
    /\ mpc' = "um_disk"
    /\ UNCHANGED <<chan, diskRc, destroyed, fdOpen, vol, seAlive, exited,
                   mcAlive, mcCh, mcLock, cbResult, mainCh, mainDisk, inflight,
                   reqs, spc, sigDisk, sigsLeft, cpc>>

(* fuse_chan_destroy as a whole: the channel step of FuseChan!Destroyed   *)
(* and ch->op.destroy closing the descriptor.                              *)
DestroyChan ==
    /\ chan' = Destroyed(chan)
    /\ diskRc' = diskRc + ReleaseDiskDelta(Unbound(chan))
    /\ destroyed' = destroyed + 1
    /\ fdOpen' = FALSE

(* fuse_kern_unmount(disk, fd): with a DADiskRef the volume is unmounted;  *)
(* without one only the descriptor is closed (spec 4.4, 4.5).              *)
KernUnmount(withDisk) ==
    IF withDisk
    THEN /\ vol' = IF vol = "mounted" THEN "unmounted" ELSE vol
         /\ UNCHANGED fdOpen
    ELSE /\ fdOpen' = FALSE
         /\ UNCHANGED vol

(* Mutant: CFRelease(disk) without the if (disk) test.                   *)
MutUnmountFinishUnguarded(withDisk) ==
    /\ diskRc' = diskRc - 1
    /\ UNCHANGED <<chan, destroyed, fdOpen>>

(* Mutant: fuse_unmount_common destroys the channel whether or not a disk  *)
(* was attached, as the non-__APPLE__ branch does.                         *)
MutUnmountFinishAlwaysDestroy(withDisk) ==
    /\ chan' = Destroyed(chan)
    /\ diskRc' = diskRc + ReleaseDiskDelta(Unbound(chan))
                   - (IF withDisk THEN 1 ELSE 0)
    /\ destroyed' = destroyed + 1
    /\ fdOpen' = FALSE

(* The end of fuse_unmount_common: CFRelease(disk), or, when no disk was   *)
(* attached, fuse_chan_destroy(ch).                                        *)
UnmountFinish(withDisk) ==
    IF withDisk
    THEN /\ diskRc' = diskRc - 1
         /\ UNCHANGED <<chan, destroyed, fdOpen>>
    ELSE DestroyChan

(* fuse_unmount_common: disk = fuse_chan_disk(ch), if ch != NULL.          *)
UnmountGetDisk ==
    /\ mpc = "um_disk"
    /\ IF mainCh
       THEN /\ mainDisk' = chan.disk
            /\ diskRc' = diskRc + GetDiskDelta(chan)
            /\ mpc' = "um_kern"
       ELSE /\ mpc' = "destroy"
            /\ UNCHANGED <<mainDisk, diskRc>>
    /\ UNCHANGED <<chan, destroyed, fdOpen, vol, seAlive, exited, instance,
                   mcAlive, mcCh, mcLock, cbResult, mainCh, inflight, reqs,
                   spc, sigDisk, sigsLeft, cpc>>

(* fuse_kern_unmount(disk, fuse_chan_fd(ch)).                              *)
UnmountKern ==
    /\ mpc = "um_kern"
    /\ KernUnmount(mainDisk)
    /\ mpc' = "um_fin"
    /\ UNCHANGED <<chan, diskRc, destroyed, seAlive, exited, instance,
                   mcAlive, mcCh, mcLock, cbResult, mainCh, mainDisk, inflight,
                   reqs, spc, sigDisk, sigsLeft, cpc>>

UnmountFin ==
    /\ mpc = "um_fin"
    /\ UnmountFinish(mainDisk)
    /\ mainDisk' = FALSE
    /\ mpc' = "destroy"
    /\ UNCHANGED <<vol, seAlive, exited, instance, mcAlive, mcCh, mcLock,
                   cbResult, mainCh, inflight, reqs, spc, sigDisk, sigsLeft,
                   cpc>>

(* Mutant: fuse_session_destroy frees the session without destroying its *)
(* channel.                                                                *)
MutFuseDestroyKeepChan ==
    /\ mpc = "destroy"
    /\ UNCHANGED <<chan, diskRc, destroyed, fdOpen>>
    /\ seAlive' = FALSE
    /\ mpc' = "done"
    /\ UNCHANGED <<vol, exited, instance, mcAlive, mcCh, mcLock, cbResult,
                   mainCh, mainDisk, inflight, reqs, spc, sigDisk, sigsLeft,
                   cpc>>

(* fuse_destroy -> fuse_session_destroy: fuse_chan_destroy(se->ch) if the  *)
(* session still has a channel, then free(se); fuse_main_common returns.   *)
FuseDestroy ==
    /\ mpc = "destroy"
    /\ IF chan.bound THEN DestroyChan
                     ELSE UNCHANGED <<chan, diskRc, destroyed, fdOpen>>
    /\ seAlive' = FALSE
    /\ mpc' = "done"
    /\ UNCHANGED <<vol, exited, instance, mcAlive, mcCh, mcLock, cbResult,
                   mainCh, mainDisk, inflight, reqs, spc, sigDisk, sigsLeft,
                   cpc>>

(* One submitted block: fuse_session_process_buf(se, &fbuf, tmpch) runs    *)
(* the operation, which replies through tmpch and may call fuse_exit.      *)
TaskRun ==
    /\ inflight > 0
    /\ inflight' = inflight - 1
    /\ exited' \in {exited, AppMayExit \/ exited}
    /\ UNCHANGED <<chan, diskRc, destroyed, fdOpen, vol, seAlive, instance,
                   mcAlive, mcCh, mcLock, cbResult, mpc, mainCh, mainDisk,
                   reqs, spc, sigDisk, sigsLeft, cpc>>

-----------------------------------------------------------------------------
(* Signal queue: the dispatch source's event handler exit_handler(sig).    *)

(* A signal is delivered to a registered source; the serial queue runs     *)
(* one handler at a time and coalesces signals that arrive meanwhile.      *)
SignalArrives ==
    /\ spc = "idle" /\ sigsLeft > 0 /\ instance
    /\ SignalOnlyAfterMount => cpc = "done"
    /\ sigsLeft' = sigsLeft - 1
    /\ spc' = "h_inst"
    /\ UNCHANGED <<chan, diskRc, destroyed, fdOpen, vol, seAlive, exited,
                   instance, mcAlive, mcCh, mcLock, cbResult, mpc, mainCh,
                   mainDisk, inflight, reqs, sigDisk, cpc>>

(* if (fuse_instance)                                                      *)
HandlerCheck ==
    /\ spc = "h_inst"
    /\ spc' = IF instance THEN "h_next" ELSE "idle"
    /\ UNCHANGED <<chan, diskRc, destroyed, fdOpen, vol, seAlive, exited,
                   instance, mcAlive, mcCh, mcLock, cbResult, mpc, mainCh,
                   mainDisk, inflight, reqs, sigDisk, sigsLeft, cpc>>

(* ch = fuse_session_next_chan(fuse_instance, NULL): fuse_instance is read *)
(* again here; if (ch) fuse_unmount(NULL, ch).                             *)
HandlerNextChan ==
    /\ spc = "h_next"
    /\ spc' = IF chan.bound THEN "h_disk" ELSE "idle"
    /\ UNCHANGED <<chan, diskRc, destroyed, fdOpen, vol, seAlive, exited,
                   instance, mcAlive, mcCh, mcLock, cbResult, mpc, mainCh,
                   mainDisk, inflight, reqs, sigDisk, sigsLeft, cpc>>

HandlerGetDisk ==
    /\ spc = "h_disk"
    /\ sigDisk' = chan.disk
    /\ diskRc' = diskRc + GetDiskDelta(chan)
    /\ spc' = "h_kern"
    /\ UNCHANGED <<chan, destroyed, fdOpen, vol, seAlive, exited, instance,
                   mcAlive, mcCh, mcLock, cbResult, mpc, mainCh, mainDisk,
                   inflight, reqs, sigsLeft, cpc>>

HandlerKern ==
    /\ spc = "h_kern"
    /\ KernUnmount(sigDisk)
    /\ spc' = "h_fin"
    /\ UNCHANGED <<chan, diskRc, destroyed, seAlive, exited, instance,
                   mcAlive, mcCh, mcLock, cbResult, mpc, mainCh, mainDisk,
                   inflight, reqs, sigDisk, sigsLeft, cpc>>

HandlerFin ==
    /\ spc = "h_fin"
    /\ UnmountFinish(sigDisk)
    /\ sigDisk' = FALSE
    /\ spc' = "idle"
    /\ UNCHANGED <<vol, seAlive, exited, instance, mcAlive, mcCh, mcLock,
                   cbResult, mpc, mainCh, mainDisk, inflight, reqs, sigsLeft,
                   cpc>>

-----------------------------------------------------------------------------
(* Mount completion.                                                       *)

(* The kernel finishes the asynchronous mount and queues the callback.    *)
(* A mount may fail at any time; it succeeds only once the daemon has read *)
(* the kernel's first request (FUSE_INIT) and while its descriptor is      *)
(* open.  A mount whose descriptor was closed first fails, as the comment  *)
(* in fuse_mount_common relies on.                                         *)
MountOutcomes ==
    IF ~fdOpen THEN {"fail"}
    ELSE IF reqs > 0 THEN CallbackResults
    ELSE CallbackResults \cap {"fail"}

MountComplete ==
    /\ cpc = "armed"
    /\ \E r \in MountOutcomes :
          /\ cbResult' = r
          /\ vol' = IF r = "fail" THEN "failed" ELSE "mounted"
    /\ cpc' = "cb_lock"
    /\ UNCHANGED <<chan, diskRc, destroyed, fdOpen, seAlive, exited, instance,
                   mcAlive, mcCh, mcLock, mpc, mainCh, mainDisk, inflight,
                   reqs, spc, sigDisk, sigsLeft>>

(* fuse_mount_callback: pthread_mutex_lock(&mc->lock).                     *)
CallbackLock ==
    /\ cpc = "cb_lock"
    /\ mcLock = "none"
    /\ mcLock' = "cb"
    /\ cpc' = "cb_body"
    /\ UNCHANGED <<chan, diskRc, destroyed, fdOpen, vol, seAlive, exited,
                   instance, mcAlive, mcCh, cbResult, mpc, mainCh, mainDisk,
                   inflight, reqs, spc, sigDisk, sigsLeft>>

(* On status 0, the DADiskRef of the mount point (when                     *)
(* DADiskCreateFromVolumePath finds one) is attached with                  *)
(* fuse_chan_set_disk(mc->ch, disk) and the local reference released.      *)
CallbackBody ==
    /\ cpc = "cb_body"
    /\ IF cbResult = "ok_disk"
       THEN /\ chan' = WithDisk(chan)
            /\ diskRc' = diskRc + SetDiskDelta(chan)
       ELSE UNCHANGED <<chan, diskRc>>
    /\ cpc' = "cb_unlock"
    /\ UNCHANGED <<destroyed, fdOpen, vol, seAlive, exited, instance, mcAlive,
                   mcCh, mcLock, cbResult, mpc, mainCh, mainDisk, inflight,
                   reqs, spc, sigDisk, sigsLeft>>

(* pthread_mutex_unlock, then fuse_mount_context_destroy: release mc->ch   *)
(* if set, free mc.                                                        *)
CallbackDone ==
    /\ cpc = "cb_unlock"
    /\ mcLock' = "none"
    /\ IF mcCh
       THEN /\ chan' = Released(chan)
            /\ diskRc' = diskRc + ReleaseDiskDelta(chan)
       ELSE UNCHANGED <<chan, diskRc>>
    /\ mcAlive' = FALSE /\ mcCh' = FALSE
    /\ cpc' = "done"
    /\ UNCHANGED <<destroyed, fdOpen, vol, seAlive, exited, instance, cbResult,
                   mpc, mainCh, mainDisk, inflight, reqs, spc, sigDisk,
                   sigsLeft>>

-----------------------------------------------------------------------------
(* Environment: umount(8) of the volume from outside.                      *)
UnmountFromOutside ==
    /\ ExternalUnmount /\ vol = "mounted"
    /\ vol' = "unmounted"
    /\ UNCHANGED <<chan, diskRc, destroyed, fdOpen, seAlive, exited, instance,
                   mcAlive, mcCh, mcLock, cbResult, mpc, mainCh, mainDisk,
                   inflight, reqs, spc, sigDisk, sigsLeft, cpc>>

AllDone == mpc = "done" /\ spc = "idle" /\ cpc \in {"none", "done"}

(* The process has returned from fuse_main and every thread has finished. *)
Finished == AllDone /\ UNCHANGED vars

MainStep ==
    \/ MountCall \/ MountChanNew \/ Setup \/ LoopCheck \/ LoopRead
    \/ LoopWait \/ TeardownNextChan \/ TeardownRemoveSignals
    \/ UnmountGetDisk \/ UnmountKern \/ UnmountFin \/ FuseDestroy

HandlerStep ==
    HandlerCheck \/ HandlerNextChan \/ HandlerGetDisk \/ HandlerKern
    \/ HandlerFin

CallbackStep ==
    MountComplete \/ CallbackLock \/ CallbackBody \/ CallbackDone

Next ==
    \/ MainStep \/ TaskRun \/ HandlerStep \/ CallbackStep
    \/ SignalArrives \/ UnmountFromOutside \/ Finished

(* Every thread of the library runs when it can: the main thread, the     *)
(* blocks of the dispatch group, the serial signal queue and the mount     *)
(* completion.  Signals and outside unmounts are left to the user.         *)
Fairness ==
    /\ WF_vars(MainStep)
    /\ WF_vars(TaskRun)
    /\ WF_vars(HandlerStep)
    /\ WF_vars(CallbackStep)

Spec == Init /\ [][Next]_vars /\ Fairness

-----------------------------------------------------------------------------
(* Properties.                                                             *)

TypeOK ==
    /\ chan \in Chan
    /\ diskRc \in Nat /\ destroyed \in Nat
    /\ fdOpen \in BOOLEAN /\ vol \in VolStates
    /\ seAlive \in BOOLEAN /\ exited \in BOOLEAN /\ instance \in BOOLEAN
    /\ mcAlive \in BOOLEAN /\ mcCh \in BOOLEAN
    /\ mainCh \in BOOLEAN /\ mainDisk \in BOOLEAN /\ sigDisk \in BOOLEAN
    /\ mcLock \in {"none", "main", "cb"}
    /\ cbResult \in {"ok_disk", "ok_nodisk", "fail"}
    /\ mpc \in MainPCs /\ spc \in SigPCs /\ cpc \in CbPCs
    /\ inflight \in Nat /\ reqs \in 0..MaxRequests
    /\ sigsLeft \in 0..MaxSignals

LiveChan == chan.st = "live"

(* No thread is about to dereference a freed channel, a freed mount       *)
(* context, or a NULL fuse_instance: the reader in fuse_session_receive_buf*)
(* and the blocks replying through tmpch, fuse_unmount_common in the main *)
(* thread and in exit_handler, fuse_session_destroy, and                   *)
(* fuse_mount_callback's fuse_chan_set_disk and release of mc->ch, all    *)
(* rely on the channel's retain count keeping it allocated.               *)
NoUseAfterFree ==
    /\ mpc = "chan_new" => mcAlive
    /\ mpc = "read" => LiveChan
    /\ inflight > 0 => LiveChan
    /\ (mpc \in {"um_disk", "um_kern"} /\ mainCh) => LiveChan
    /\ (mpc = "um_fin" /\ ~mainDisk) => LiveChan
    /\ (mpc = "destroy" /\ chan.bound) => LiveChan
    /\ spc = "h_next" => instance
    /\ spc \in {"h_disk", "h_kern"} => LiveChan
    /\ (spc = "h_fin" /\ ~sigDisk) => LiveChan
    /\ (cpc = "cb_body" /\ cbResult = "ok_disk") => mcCh /\ LiveChan
    /\ (cpc = "cb_unlock" /\ mcCh) => LiveChan

(* The references that own the channel: the one fuse_chan_new_common      *)
(* creates, dropped by the single fuse_chan_destroy, and the one          *)
(* fuse_mount_common retains for the pending mount callback.              *)
Owners ==
    (IF destroyed = 0 THEN 1 ELSE 0) + (IF mcCh THEN 1 ELSE 0)

(* The channel is destroyed at most once, its retain count is the number  *)
(* of owners, and it is freed exactly when the last owner released it     *)
(* (spec section 8, first property): fuse_chan_retain in                  *)
(* fuse_mount_common, fuse_chan_destroy in fuse_unmount_common and        *)
(* fuse_session_destroy, fuse_chan_release in fuse_mount_context_destroy. *)
RefCountBalanced ==
    chan.st # "none" =>
        /\ destroyed <= 1
        /\ chan.rc = Owners
        /\ (chan.st = "freed") = (Owners = 0)

(* When fuse_main has returned and the callback and signal queue are idle, *)
(* nothing this library allocated or retained is left: the channel is      *)
(* freed, every CFRetain of the DADiskRef has its CFRelease, the           *)
(* descriptor is closed, session and mount context are freed.              *)
NoLeak ==
    AllDone =>
        /\ chan.st # "live"
        /\ diskRc = 0
        /\ ~fdOpen
        /\ ~seAlive
        /\ ~mcAlive

(* Once the volume is unmounted or its mount has failed, the dispatch      *)
(* loop's read fails, the loop drains its group and fuse_main returns.     *)
ShutdownCompletes ==
    (vol \in {"failed", "unmounted"}) ~> (mpc = "done")

=============================================================================
