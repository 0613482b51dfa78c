----------------------------- MODULE MCEnrollment -----------------------------
(* Enrollment with three keys: more than the faults can use up. *)
EXTENDS Enrollment, TLC

CONSTANTS k1, k2, k3

Symmetry == Permutations({k1, k2, k3})
================================================================================
