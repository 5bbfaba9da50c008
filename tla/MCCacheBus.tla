----------------------------- MODULE MCCacheBus -----------------------------
(* CacheBus instantiated for TLC: two lines in tag stores of one line, so  *)
(* that the caches take a line from each other and evict it for the other  *)
(* line; a CPU with two accesses outstanding above cache A, so that misses *)
(* merge in an MSHR, and a CPU with one, as TimingSimpleCPU is, above B.   *)
EXTENDS CacheBus
CONSTANTS a1, a2, r1, r2
MCAddrs == {a1, a2}
MCReqsA == {r1, r2}
MCReqsB == {r1}
=============================================================================
