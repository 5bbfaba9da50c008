---------------------------- MODULE MCTimingCPU ----------------------------
(* TimingCPU instantiated for TLC: a pool of three packet identities, so   *)
(* that a stale pointer, a packet in flight and a new allocation can exist *)
(* together.                                                               *)
EXTENDS TimingCPU

CONSTANTS p1, p2, p3

MCPackets == {p1, p2, p3}

=============================================================================
