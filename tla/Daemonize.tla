----------------------------- MODULE Daemonize ------------------------------
(***************************************************************************)
(* fuse_daemonize (src/lib/helper.c) as called by fuse_setup_common after *)
(* the mount and before fuse_set_signal_handlers.                         *)
(*                                                                         *)
(* Unless running in the foreground, the process makes a pipe and forks.  *)
(* The parent blocks in read() on the pipe and then _exit(0)s whatever    *)
(* read returned; it never closes its own write end.  The child calls     *)
(* setsid, chdir("/") and redirects 0-2 to /dev/null, writes the          *)
(* completion byte, closes both ends and returns 0; fuse_setup_common     *)
(* then installs the signal handlers, whose failure unmounts and makes    *)
(* fuse_main return 1.  The mount itself was started before, and on the   *)
(* asynchronous platform completes, or fails, independently.              *)
(***************************************************************************)
EXTENDS Naturals

CONSTANTS
    PipeMayFail,      \* pipe() may fail
    ForkMayFail,      \* fork() may fail
    HandlersMayFail,  \* fuse_set_signal_handlers may return -1
    InterruptMayHappen, \* a handler the application installed interrupts
                        \* the parent's read()
    KillMayHappen     \* SIGKILL, or SIGINT before handlers are installed

ASSUME DaemonizeAssumption ==
    {PipeMayFail, ForkMayFail, HandlersMayFail, InterruptMayHappen,
     KillMayHappen} \subseteq BOOLEAN

VARIABLES
    foreground,  \* the foreground option
    opc,         \* the original process: where it is
    spc,         \* the process that carries on with the setup
    writers,     \* the processes holding the pipe's write end open
    readers,     \* the processes holding the pipe's read end open
    bytes,       \* bytes in the pipe
    wrote,       \* the child has written the completion byte
    sigpipe,     \* the child was killed by SIGPIPE writing the byte
    vol          \* the asynchronous mount: "mounting", "mounted", "failed"

vars == <<foreground, opc, spc, writers, readers, bytes, wrote, sigpipe, vol>>

Init ==
    /\ foreground \in BOOLEAN
    /\ opc = "start" /\ spc = "none"
    /\ writers = {} /\ readers = {} /\ bytes = 0
    /\ wrote = FALSE /\ sigpipe = FALSE
    /\ vol = "mounting"

(* err_unmount in fuse_setup_common: fuse_unmount_common unmounts a      *)
(* mounted volume, and closing the descriptor of one still mounting makes *)
(* its mount fail.                                                         *)
ErrUnmount ==
    vol' = IF vol = "mounted" THEN "unmounted" ELSE "failed"

-----------------------------------------------------------------------------
(* The original process.                                                   *)

(* if (!foreground) { if (pipe(waiter)) return -1; ... } return 0;         *)
(* In the foreground the original process carries on with the setup; a    *)
(* failed pipe returns -1 and fuse_setup_common unmounts and fails.        *)
Start ==
    /\ opc = "start"
    /\ \/ foreground /\ opc' = "daemon" /\ spc' = "handlers"
          /\ UNCHANGED <<writers, readers, vol>>
       \/ ~foreground /\ opc' = "fork"
          /\ writers' = {"parent"} /\ readers' = {"parent"}
          /\ UNCHANGED <<spc, vol>>
       \/ ~foreground /\ PipeMayFail /\ opc' = "failed" /\ ErrUnmount
          /\ UNCHANGED <<spc, writers, readers>>
    /\ UNCHANGED <<foreground, bytes, wrote, sigpipe>>

(* Mutant: the parent closes its write end after the fork.                *)
MutForkParentCloses ==
    /\ opc = "fork"
    /\ \/ /\ opc' = "read" /\ spc' = "setsid"
          /\ writers' = {"child"}
          /\ readers' = readers \cup {"child"}
          /\ UNCHANGED vol
       \/ /\ ForkMayFail /\ opc' = "failed" /\ ErrUnmount
          /\ UNCHANGED <<spc, writers, readers>>
    /\ UNCHANGED <<foreground, bytes, wrote, sigpipe>>

(* switch (fork()): -1 returns -1; the child inherits both pipe ends; the *)
(* parent goes on to read.                                                 *)
Fork ==
    /\ opc = "fork"
    /\ \/ /\ opc' = "read" /\ spc' = "setsid"
          /\ writers' = writers \cup {"child"}
          /\ readers' = readers \cup {"child"}
          /\ UNCHANGED vol
       \/ /\ ForkMayFail /\ opc' = "failed" /\ ErrUnmount
          /\ UNCHANGED <<spc, writers, readers>>
    /\ UNCHANGED <<foreground, bytes, wrote, sigpipe>>

(* read(waiter[0], &completed, 1); _exit(0): read returns once a byte is  *)
(* there, at end of file when no process holds a write end, or with       *)
(* EINTR when a handler of the application interrupts it; its result is   *)
(* not looked at.  _exit closes the parent's descriptors.                 *)
ParentRead ==
    /\ opc = "read"
    /\ \/ bytes > 0
       \/ writers = {}
       \/ InterruptMayHappen
    /\ opc' = "exited"
    /\ bytes' = IF bytes > 0 THEN bytes - 1 ELSE 0
    /\ writers' = writers \ {"parent"}
    /\ readers' = readers \ {"parent"}
    /\ UNCHANGED <<foreground, spc, wrote, sigpipe, vol>>

-----------------------------------------------------------------------------
(* The process that carries on with the setup.                            *)

(* Mutant: the child closes its read end before writing.                  *)
MutChildSetsidCloses ==
    /\ spc = "setsid"
    /\ spc' = "write"
    /\ readers' = readers \ {"child"}
    /\ UNCHANGED <<foreground, opc, writers, bytes, wrote, sigpipe, vol>>

(* setsid (it cannot fail in a child that fork just made, which is never  *)
(* a process group leader), chdir("/"), and 0-2 onto /dev/null.           *)
ChildSetsid ==
    /\ spc = "setsid"
    /\ spc' = "write"
    /\ UNCHANGED <<foreground, opc, writers, readers, bytes, wrote, sigpipe,
                   vol>>

(* Mutant: the completion byte is never written.                          *)
MutChildWriteLost ==
    /\ spc = "write"
    /\ spc' = "close"
    /\ UNCHANGED <<foreground, opc, writers, readers, bytes, wrote, sigpipe,
                   vol>>

(* completed = 1; write(waiter[1], ...).  With no reader left the write   *)
(* raises SIGPIPE, still at its default action: the child dies.           *)
ChildWrite ==
    /\ spc = "write"
    /\ \/ /\ readers # {}
          /\ bytes' = bytes + 1 /\ wrote' = TRUE /\ spc' = "close"
          /\ UNCHANGED <<writers, readers, sigpipe>>
       \/ /\ readers = {}
          /\ spc' = "dead" /\ sigpipe' = TRUE
          /\ writers' = writers \ {"child"}
          /\ UNCHANGED <<readers, bytes, wrote>>
    /\ UNCHANGED <<foreground, opc, vol>>

(* close(waiter[0]); close(waiter[1]); return 0.                          *)
ChildClose ==
    /\ spc = "close"
    /\ readers' = readers \ {"child"}
    /\ writers' = writers \ {"child"}
    /\ spc' = "handlers"
    /\ UNCHANGED <<foreground, opc, bytes, wrote, sigpipe, vol>>

(* fuse_set_signal_handlers; on -1 fuse_setup_common goes to err_unmount, *)
(* unmounts, and fuse_main returns 1.                                      *)
SetHandlers ==
    /\ spc = "handlers"
    /\ \/ spc' = "ready" /\ UNCHANGED vol
       \/ HandlersMayFail /\ spc' = "failed" /\ ErrUnmount
    /\ UNCHANGED <<foreground, opc, writers, readers, bytes, wrote, sigpipe>>

-----------------------------------------------------------------------------
(* The environment.                                                       *)

(* The daemonized child is killed: the kernel closes its descriptors.     *)
ChildDies ==
    /\ KillMayHappen /\ opc \in {"read", "exited"}
    /\ spc \in {"setsid", "write", "close", "handlers", "ready"}
    /\ spc' = "dead"
    /\ writers' = writers \ {"child"}
    /\ readers' = readers \ {"child"}
    /\ UNCHANGED <<foreground, opc, bytes, wrote, sigpipe, vol>>

(* The original process, in the terminal's process group until it exits, *)
(* is killed by a signal whose default action ends it (no handler is      *)
(* installed yet), between pipe() and fork() or while it waits; the       *)
(* caller sees death by signal, not a status.                             *)
ParentKilled ==
    /\ KillMayHappen /\ opc \in {"fork", "read"}
    /\ opc' = "killed"
    /\ writers' = writers \ {"parent"}
    /\ readers' = readers \ {"parent"}
    /\ UNCHANGED <<foreground, spc, bytes, wrote, sigpipe, vol>>

(* The asynchronous mount started by fuse_mount_common completes.         *)
MountDone ==
    /\ vol = "mounting"
    /\ vol' \in {"mounted", "failed"}
    /\ UNCHANGED <<foreground, opc, spc, writers, readers, bytes, wrote,
                   sigpipe>>

(* The volume is unmounted from outside (umount, or Finder's eject).      *)
OutsideUnmount ==
    /\ vol = "mounted"
    /\ vol' = "unmounted"
    /\ UNCHANGED <<foreground, opc, spc, writers, readers, bytes, wrote,
                   sigpipe>>

(* Nothing is left to do.                                                 *)
Finished ==
    /\ opc \in {"exited", "daemon", "failed", "killed"}
    /\ spc \in {"none", "ready", "failed", "dead"}
    /\ vol # "mounting"
    /\ UNCHANGED vars

Next ==
    \/ Start \/ Fork \/ ParentRead
    \/ ChildSetsid \/ ChildWrite \/ ChildClose \/ SetHandlers
    \/ ChildDies \/ ParentKilled \/ MountDone \/ OutsideUnmount \/ Finished

(* Both processes are scheduled while they can run; the mount's outcome,  *)
(* an unmount and a kill get no fairness.                                 *)
Fairness ==
    /\ WF_vars(Start \/ Fork \/ ParentRead)
    /\ WF_vars(ChildSetsid \/ ChildWrite \/ ChildClose \/ SetHandlers)

Spec == Init /\ [][Next]_vars /\ Fairness


-----------------------------------------------------------------------------
(* Properties.                                                            *)

(* The spec's handshake: the parent of a daemonized process exits only    *)
(* after the child has reported that its initialisation completed, even   *)
(* when the child is killed first (the parent then waits for good,        *)
(* because it keeps a write end of the pipe open itself).  fuse_daemonize *)
(* does not look at what read() returned, so an interrupted read breaks   *)
(* it.                                                                     *)
ParentWaitsForHandshake == opc = "exited" => wrote

(* The child keeps its own read end open until it has written the byte,  *)
(* so the write cannot raise SIGPIPE (still at its default action, which  *)
(* ends the process) even when the parent was killed meanwhile.           *)
NoSigpipe == ~sigpipe

(* The parent blocked in read() leaves it once the child has reported,    *)
(* unless the child was killed before reporting.                          *)
ParentEventuallyExits ==
    opc = "read" ~> (opc \in {"exited", "killed"} \/ spc = "dead")

(* The spec: the parent must not exit before the daemon is ready, else a  *)
(* caller script could race ahead of a not-yet-ready mount.  The parent   *)
(* _exit(0)s on the child's byte, written before the asynchronous mount   *)
(* has completed and before the signal handlers are installed.            *)
ParentExitMeansMounted == opc = "exited" => vol = "mounted"

=============================================================================
