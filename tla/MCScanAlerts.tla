---------------------------- MODULE MCScanAlerts ----------------------------
(* Small instances of ScanAlerts for TLC.                                  *)
EXTENDS ScanAlerts, TLC

CONSTANTS u1, u2, p1, p2, telegram, webhook, job, r1, r2

Symmetry == Permutations(User) \cup Permutations(Pair) \cup Permutations(Request)
=============================================================================
