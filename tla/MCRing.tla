------------------------------- MODULE MCRing -------------------------------
(* RingBuffer on small instances: a few orders through a ring of one or two *)
(* slots, so that the sequences lap the ring.                               *)
EXTENDS RingProperties, TLC

\* Orders are interchangeable in the safety runs.
OrderSymmetry == Permutations(Orders)
=============================================================================
