--------------------------- MODULE MCTaskBilling ---------------------------
(* Small instances of TaskBilling for TLC.                                 *)
EXTENDS TaskBilling, TLC

CONSTANTS t1, t2, p1, p2, c1

\* Tasks share nothing but the limits of a pass.
VideoKind == [t \in Tasks |-> "video"]
RealtimeKind == [t \in Tasks |-> "realtime"]
MixedKind == [t \in Tasks |-> IF t = t1 THEN "realtime" ELSE "suno"]
=============================================================================
