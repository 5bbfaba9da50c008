----------------------------- MODULE MCCpuCache -----------------------------
(* CpuCache instantiated for TLC: three packet identities, as for the CPU  *)
(* alone; two lines in a tag store of one line and a write buffer of one   *)
(* entry, so that a store followed by an access to the other line evicts a *)
(* dirty line, fills the write buffer and blocks the cache under the CPU.  *)
EXTENDS CpuCache
CONSTANTS p1, p2, p3, a1, a2
MCPackets == {p1, p2, p3}
MCAddrs == {a1, a2}
=============================================================================
