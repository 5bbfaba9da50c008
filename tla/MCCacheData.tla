---------------------------- MODULE MCCacheData ----------------------------
(* CacheData for TLC: two lines, two packets, two values. *)
EXTENDS CacheData

CONSTANTS a1, a2, r1, r2

MCAddrs == {a1, a2}
MCReqs == {r1, r2}
MCValues == {0, 1}

=============================================================================
