------------------------ MODULE MCContinuationQueue ------------------------
(* Two kernels over one Run and its continuation inputs.                   *)
EXTENDS ContinuationQueue, TLC

CONSTANTS a, b

OwnerSymmetry == Permutations(Owners)

=============================================================================
