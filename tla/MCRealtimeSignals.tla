-------------------------- MODULE MCRealtimeSignals --------------------------
(* Small instances of RealtimeSignals for TLC.                             *)
EXTENDS RealtimeSignals

CONSTANTS u1, u2, btc, eth, long, trend, zone, retest, t1, t2

\* Every channel belongs to the first user.
OneOwner == [c \in Channel |-> u1]
=============================================================================
