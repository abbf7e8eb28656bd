------------------------- MODULE MCMountLifecycle --------------------------
(***************************************************************************)
(* Instances of MountLifecycle for TLC.  Each run fixes what the           *)
(* environment may do: how the mount completes, whether the user sends a  *)
(* signal and when, whether the volume is unmounted from outside.          *)
(***************************************************************************)
EXTENDS MountLifecycle

(* Every outcome of the asynchronous mount.                               *)
AnyMountResult == {"ok_disk", "ok_nodisk", "fail"}

(* A mount that succeeds and whose DADiskRef is found.                    *)
MountedWithDisk == {"ok_disk"}

=============================================================================
