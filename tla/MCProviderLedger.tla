-------------------------- MODULE MCProviderLedger --------------------------
(* Kernel processes sharing the Provider calls of one Run.                  *)
EXTENDS ProviderLedger, TLC

CONSTANTS a, b, c1, c2

OwnerSymmetry == Permutations({a, b})
CallSymmetry  == Permutations({c1, c2})

=============================================================================
