---------------------------- MODULE MCNativeWork ----------------------------
(* Small instances of NativeWork for TLC. *)
EXTENDS NativeWork
=============================================================================
