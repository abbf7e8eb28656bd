------------------------------ MODULE FuseChan ------------------------------
(***************************************************************************)
(* The channel object of src/lib/fuse_session.c on the __APPLE__ build:    *)
(* one struct fuse_chan with its retain count, its DADiskRef slot and its  *)
(* binding to a session.  A channel is a record                            *)
(*                                                                         *)
(*   st    "none" before fuse_chan_new_common, "live" while the memory is  *)
(*         allocated, "freed" after free(ch)                               *)
(*   rc    ch->retain_count, a C int                                       *)
(*   disk  ch->disk != NULL                                                *)
(*   bound ch->se != NULL (and then se->ch == ch)                          *)
(*                                                                         *)
(* and each channel operation is an operator from the channel before the   *)
(* call to the channel after it, so that a thread's step in the lifecycle  *)
(* module can make several calls in the order the code makes them.  The    *)
(* DADiskRef is one object (there is one volume): the slot is a Boolean    *)
(* and the lifecycle module counts the CFRetain/CFRelease balance on it    *)
(* with DiskDelta.                                                         *)
(***************************************************************************)
EXTENDS Integers

ChanStates == {"none", "live", "freed"}

Chan == [st : ChanStates, rc : Int, disk : BOOLEAN, bound : BOOLEAN]

NoChan == [st |-> "none", rc |-> 0, disk |-> FALSE, bound |-> FALSE]

(* fuse_chan_new_common: malloc, retain_count = 1, no disk, no session.    *)
NewChan == [st |-> "live", rc |-> 1, disk |-> FALSE, bound |-> FALSE]

(* fuse_chan_retain: ++retain_count under ch->lock.                        *)
Retained(c) == [c EXCEPT !.rc = @ + 1]

(* fuse_chan_release: --retain_count under ch->lock; the thread that sees  *)
(* zero destroys the lock, CFReleases ch->disk and frees ch.               *)
Released(c) ==
    IF c.rc = 1
    THEN [st |-> "freed", rc |-> 0, disk |-> FALSE, bound |-> c.bound]
    ELSE [c EXCEPT !.rc = @ - 1]

(* The change to the DADiskRef's retain count made by fuse_chan_release.  *)
ReleaseDiskDelta(c) == IF c.rc = 1 /\ c.disk THEN -1 ELSE 0

(* fuse_session_add_chan, as called by fuse_new_common.                   *)
Bound(c) == [c EXCEPT !.bound = TRUE]

(* fuse_session_remove_chan: clears the binding if there is one.          *)
Unbound(c) == [c EXCEPT !.bound = FALSE]

(* fuse_chan_destroy: fuse_session_remove_chan, ch->op.destroy (closing   *)
(* the descriptor, which the caller models), then fuse_chan_release.      *)
Destroyed(c) == Released(Unbound(c))

(* fuse_chan_disk returns ch->disk CFRetained: +1 when there is one.      *)
GetDiskDelta(c) == IF c.disk THEN 1 ELSE 0

(* fuse_chan_set_disk(ch, disk), disk != NULL: CFRetain(disk), swap the   *)
(* slot under ch->lock, CFRelease(old) when there was one.                *)
WithDisk(c) == [c EXCEPT !.disk = TRUE]

SetDiskDelta(c) == 1 - (IF c.disk THEN 1 ELSE 0)

=============================================================================
