--------------------------- MODULE MCEffectLedger ---------------------------
(* Kernel processes executing one Tool call; the cfg chooses how many.      *)
EXTENDS EffectLedger, TLC

CONSTANTS a, b

OwnerSymmetry == Permutations({a, b})

=============================================================================
