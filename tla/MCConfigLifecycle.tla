-------------------------- MODULE MCConfigLifecycle --------------------------
(* Instances of ConfigLifecycle for TLC.                                   *)
EXTENDS ConfigLifecycle, TLC

CONSTANTS r1, r2, q1, q2, q3, ssd, tank1, tank2, ann, bob, x, y

(* The two editors, and the releases, are interchangeable. *)
Symmetry == Permutations({ann, bob}) \cup Permutations({r1, r2}) \cup Permutations({q1, q2, q3})
=============================================================================
