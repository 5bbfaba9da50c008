------------------------------ MODULE MCCache ------------------------------
(* Cache instantiated for TLC: two lines in a tag store of one line, so    *)
(* that every fill of the second line replaces the first; two MSHRs, so    *)
(* that the miss queue fills and the cache blocks.  MCReqs, with two       *)
(* targets to an MSHR, is enough for misses to merge; MCReqs3, with four   *)
(* targets, is what it takes for an upgrade to leave a target unserved: a  *)
(* read, a write, an appended invalidate and one more request in one MSHR. *)
EXTENDS Cache, TLC

CONSTANTS a1, a2, r1, r2, r3

MCAddrs == {a1, a2}
MCReqs == {r1, r2}
MCReqs3 == {r1, r2, r3}

\* The CPU-side packets are interchangeable: nothing in Cache tells one
\* from another but the request it carries.
ReqSymmetry == Permutations(MCReqs3)

=============================================================================
