---------------------------- MODULE MCDaemonize -----------------------------
(* fuse_daemonize for TLC: the constants are given in the .cfg files.     *)
EXTENDS Daemonize
=============================================================================
