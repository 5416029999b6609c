--------------------------- MODULE MCJobDispatch ----------------------------
(* A reconciler and its replacement, with a few jobs.                      *)
EXTENDS JobDispatch
=============================================================================
