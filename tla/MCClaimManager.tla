--------------------------- MODULE MCClaimManager ---------------------------
(* Small instances of ClaimManager for TLC. *)
EXTENDS ClaimManager
=============================================================================
