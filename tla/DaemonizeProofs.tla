-------------------------- MODULE DaemonizeProofs ---------------------------
(***************************************************************************)
(* Proofs about fuse_daemonize for every choice of the failures allowed.  *)
(*                                                                         *)
(* Neither property is inductive alone.  The child could die of SIGPIPE    *)
(* only if it wrote with no read end open, and it keeps its own until      *)
(* ChildClose.  The parent could leave read() without the byte only at     *)
(* end of file or on EINTR; end of file needs every write end closed, and  *)
(* the parent holds one itself from pipe() until it exits or is killed.    *)
(***************************************************************************)
EXTENDS Daemonize, TLAPS

(* The flags are Booleans.                                                *)
Flags == foreground \in BOOLEAN /\ wrote \in BOOLEAN /\ sigpipe \in BOOLEAN

(* The values each other variable can take.                               *)
Types ==
    /\ opc \in {"start", "daemon", "fork", "read", "exited", "failed",
                "killed"}
    /\ spc \in {"none", "setsid", "write", "close", "handlers", "ready",
                "failed", "dead"}
    /\ writers \subseteq {"parent", "child"}
    /\ readers \subseteq {"parent", "child"}
    /\ bytes \in Nat
    /\ vol \in {"mounting", "mounted", "failed", "unmounted"}

(* Who holds which end of the pipe, relative to where each process is.    *)
Ends ==
    /\ opc \in {"start", "fork"} => spc = "none"
    /\ opc \in {"fork", "read"} => "parent" \in writers
    /\ spc \in {"setsid", "write", "close"} => "child" \in readers
    /\ bytes > 0 => wrote

HInv == Flags /\ Types /\ Ends /\ NoSigpipe

(* With no interrupt, the parent has exited only after the byte.          *)
HInvNoIntr == HInv /\ ParentWaitsForHandshake

-----------------------------------------------------------------------------
LEMMA InitHInv == Init => HInv
<1> SUFFICES ASSUME Init PROVE HInv
    OBVIOUS
<1>1. Flags
    BY Zenon DEF Init, Flags
<1>2. Types /\ Ends /\ NoSigpipe
    BY DEF Init, Types, Ends, NoSigpipe
<1> QED
    BY <1>1, <1>2 DEF HInv

(* Every step keeps HInv, whatever fails.  The flags are Zenon's part,    *)
(* the rest SMT's.                                                         *)
LEMMA NextHInv == HInv /\ [Next]_vars => HInv'
<1> SUFFICES ASSUME HInv, [Next]_vars PROVE HInv'
    OBVIOUS
<1>1. CASE Start
    <2>1. Flags'
        BY <1>1, Zenon DEF Start, ErrUnmount, HInv, Flags
    <2>2. (Types /\ Ends /\ NoSigpipe)'
        <3>1. CASE foreground
            BY <1>1, <2>1, <3>1 DEF Start, HInv, Flags, Types, Ends,
                                    NoSigpipe
        <3>2. CASE ~foreground /\ opc' = "fork"
            BY <1>1, <2>1, <3>2 DEF Start, HInv, Flags, Types, Ends,
                                    NoSigpipe
        <3>3. CASE ~foreground /\ opc' = "failed"
            <4>1. /\ UNCHANGED <<spc, writers, readers, bytes, sigpipe>>
                  /\ vol' \in {"unmounted", "failed"}
                BY <1>1, <3>3 DEF Start, ErrUnmount
            <4> QED
                BY <1>1, <2>1, <3>3, <4>1 DEF Start, HInv, Flags, Types,
                                              Ends, NoSigpipe
        <3> QED
            BY <1>1, <3>1, <3>2, <3>3 DEF Start
    <2> QED
        BY <2>1, <2>2 DEF HInv
<1>2. CASE Fork
    <2>1. Flags'
        BY <1>2, Zenon DEF Fork, ErrUnmount, HInv, Flags
    <2>2. (Types /\ Ends /\ NoSigpipe)'
        BY <1>2, <2>1, DaemonizeAssumption
        DEF Fork, ErrUnmount, HInv, Flags, Types, Ends, NoSigpipe
    <2> QED
        BY <2>1, <2>2 DEF HInv
<1>3. CASE ParentRead
    <2>1. Flags'
        BY <1>3, Zenon DEF ParentRead, HInv, Flags
    <2>2. (Types /\ Ends /\ NoSigpipe)'
        BY <1>3, <2>1, DaemonizeAssumption
        DEF ParentRead, HInv, Flags, Types, Ends, NoSigpipe
    <2> QED
        BY <2>1, <2>2 DEF HInv
<1>4. CASE ChildSetsid
    <2>1. Flags'
        BY <1>4, Zenon DEF ChildSetsid, HInv, Flags
    <2>2. (Types /\ Ends /\ NoSigpipe)'
        BY <1>4, <2>1, DaemonizeAssumption
        DEF ChildSetsid, HInv, Flags, Types, Ends, NoSigpipe
    <2> QED
        BY <2>1, <2>2 DEF HInv
<1>5. CASE ChildWrite
    <2>0. "child" \in readers
        BY <1>5 DEF ChildWrite, HInv, Ends
    <2>1. Flags'
        BY <1>5, Zenon DEF ChildWrite, HInv, Flags
    <2>2. /\ spc = "write" /\ spc' = "close"
          /\ bytes' = bytes + 1 /\ wrote' = TRUE
          /\ UNCHANGED <<foreground, opc, writers, readers, sigpipe, vol>>
        BY <1>5, <2>0 DEF ChildWrite
    <2>3. (Types /\ Ends /\ NoSigpipe)'
        BY <2>1, <2>2 DEF HInv, Flags, Types, Ends, NoSigpipe
    <2> QED
        BY <2>1, <2>3 DEF HInv
<1>6. CASE ChildClose
    <2>1. Flags'
        BY <1>6, Zenon DEF ChildClose, HInv, Flags
    <2>2. (Types /\ Ends /\ NoSigpipe)'
        BY <1>6, <2>1, DaemonizeAssumption
        DEF ChildClose, HInv, Flags, Types, Ends, NoSigpipe
    <2> QED
        BY <2>1, <2>2 DEF HInv
<1>7. CASE SetHandlers
    <2>1. Flags'
        BY <1>7, Zenon DEF SetHandlers, ErrUnmount, HInv, Flags
    <2>2. (Types /\ Ends /\ NoSigpipe)'
        BY <1>7, <2>1, DaemonizeAssumption
        DEF SetHandlers, ErrUnmount, HInv, Flags, Types, Ends, NoSigpipe
    <2> QED
        BY <2>1, <2>2 DEF HInv
<1>8. CASE ChildDies \/ ParentKilled
    <2>1. Flags'
        BY <1>8, Zenon DEF ChildDies, ParentKilled, HInv, Flags
    <2>2. (Types /\ Ends /\ NoSigpipe)'
        BY <1>8, <2>1, DaemonizeAssumption
        DEF ChildDies, ParentKilled, HInv, Flags, Types, Ends, NoSigpipe
    <2> QED
        BY <2>1, <2>2 DEF HInv
<1>9. CASE MountDone \/ OutsideUnmount \/ Finished \/ UNCHANGED vars
    <2>1. Flags'
        BY <1>9, Zenon DEF MountDone, OutsideUnmount, Finished, vars, HInv, Flags
    <2>2. (Types /\ Ends /\ NoSigpipe)'
        BY <1>9, <2>1, DaemonizeAssumption
        DEF MountDone, OutsideUnmount, Finished, vars, HInv, Flags, Types, Ends, NoSigpipe
    <2> QED
        BY <2>1, <2>2 DEF HInv
<1> QED
    BY <1>1, <1>2, <1>3, <1>4, <1>5, <1>6, <1>7, <1>8, <1>9 DEF Next

(* Without an interrupted read, the parent's read() returns only on the   *)
(* byte: it holds a write end itself, so end of file cannot happen.        *)
LEMMA NextHandshake ==
    ASSUME ~InterruptMayHappen
    PROVE  HInvNoIntr /\ [Next]_vars => HInvNoIntr'
<1> SUFFICES ASSUME HInvNoIntr, [Next]_vars PROVE HInvNoIntr'
    OBVIOUS
<1>1. HInv'
    BY NextHInv DEF HInvNoIntr
<1>2. CASE ParentRead
    <2>1. bytes > 0
        BY <1>2 DEF ParentRead, HInvNoIntr, HInv, Ends
    <2>2. wrote /\ wrote' = wrote
        BY <1>2, <2>1 DEF ParentRead, HInvNoIntr, HInv, Ends
    <2> QED
        BY <1>1, <1>2, <2>2 DEF ParentRead, HInvNoIntr, ParentWaitsForHandshake
<1>3. CASE ~ParentRead
    <2>1. opc' = "exited" => opc = "exited"
        BY <1>3 DEF Next, Start, Fork, ChildSetsid, ChildWrite, ChildClose,
                    SetHandlers, ChildDies, ParentKilled, MountDone,
                    OutsideUnmount, Finished, vars
    <2>2. wrote => wrote'
        BY DEF Next, Start, Fork, ParentRead, ChildSetsid, ChildWrite,
               ChildClose, SetHandlers, ChildDies, ParentKilled, MountDone,
               OutsideUnmount, Finished, vars
    <2> QED
        BY <1>1, <2>1, <2>2 DEF HInvNoIntr, ParentWaitsForHandshake
<1> QED
    BY <1>1, <1>2, <1>3 DEF HInvNoIntr

-----------------------------------------------------------------------------
(* The child of fuse_daemonize never dies of SIGPIPE writing its byte,    *)
(* whatever else fails or is killed: it keeps its own read end of the     *)
(* pipe open until after the write.                                        *)
THEOREM ChildNeverGetsSigpipe == Spec => []NoSigpipe
<1>1. HInv => NoSigpipe
    BY DEF HInv
<1> QED
    BY <1>1, InitHInv, NextHInv, PTL DEF Spec

(* Unless a handler of the application interrupts its read(), the parent  *)
(* of fuse_daemonize exits only after the child has written the byte that  *)
(* says its initialisation completed, even if the child was killed first. *)
(* The hypothesis is needed: the daemon_interrupted_read run shows the     *)
(* parent exiting on EINTR without the byte.                              *)
THEOREM ParentWaitsWithoutInterrupt ==
    ASSUME ~InterruptMayHappen
    PROVE  Spec => []ParentWaitsForHandshake
<1>1. Init => HInvNoIntr
    BY InitHInv DEF Init, HInvNoIntr, ParentWaitsForHandshake
<1>2. HInvNoIntr /\ [Next]_vars => HInvNoIntr'
    BY NextHandshake
<1>3. HInvNoIntr => ParentWaitsForHandshake
    BY DEF HInvNoIntr
<1> QED
    BY <1>1, <1>2, <1>3, PTL DEF Spec

=============================================================================
