------------------------- MODULE MCSystemTaskLease -------------------------
(* Small instances of SystemTaskLease for TLC.                             *)
EXTENDS SystemTaskLease

CONSTANTS r1, r2
=============================================================================
