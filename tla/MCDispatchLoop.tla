--------------------------- MODULE MCDispatchLoop ---------------------------
(***************************************************************************)
(* Instances of DispatchLoop for TLC.  The cfgs fix how many requests the *)
(* kernel sends, how many reads are interrupted and which failures may    *)
(* happen.                                                                 *)
(***************************************************************************)
EXTENDS DispatchLoop

=============================================================================
