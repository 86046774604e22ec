--------------------------- MODULE MCRunLifecycle ---------------------------
(* Kernel processes sharing one Run; the cfg chooses how many.              *)
EXTENDS RunLifecycle, TLC

CONSTANTS a, b

OwnerSymmetry == Permutations({a, b})

=============================================================================
