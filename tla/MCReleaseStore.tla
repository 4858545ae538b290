---------------------------- MODULE MCReleaseStore ----------------------------
(* Instances of ReleaseStoreCalls for TLC.                                 *)
EXTENDS ReleaseStoreCalls, TLC

CONSTANTS r1, r2, q1, q2, ssd, hdd

Symmetry == Permutations({r1, r2}) \cup Permutations({q1, q2}) \cup Permutations({ssd, hdd})
=============================================================================
