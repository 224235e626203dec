--------------------------- MODULE MCEffectReceipts ---------------------------
(* Two activations; two charged tools compete for a budget of one, one of   *)
(* them a child of a program, which may also be closed undispatched.        *)
EXTENDS EffectReceipts, TLC

CONSTANTS a1, a2, k1, k2, none

MCActivation == {a1, a2}
MCKey == {k1, k2}
MCChild == {k2}

Symmetry == Permutations(MCActivation)
=============================================================================
