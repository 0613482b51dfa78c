--------------------------- MODULE MCMachineTunnel ---------------------------
(***************************************************************************)
(* Model values for MachineTunnel.                                         *)
(***************************************************************************)
EXTENDS MachineTunnel, TLC

CONSTANTS ns1, dc1, dc2, net1, c1, c2

\* The two addresses are interchangeable.
Symmetry == Permutations({dc1, dc2})
==============================================================================
