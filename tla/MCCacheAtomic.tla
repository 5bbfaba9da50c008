--------------------------- MODULE MCCacheAtomic ---------------------------
(***************************************************************************)
(* CacheAtomic for model checking: two lines and two CPU-side packets.     *)
(***************************************************************************)
EXTENDS CacheAtomic

CONSTANTS a1, a2, r1, r2

MCAddrs == {a1, a2}
MCReqs == {r1, r2}

=============================================================================
