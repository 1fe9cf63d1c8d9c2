----------------------------- MODULE MCSigning -----------------------------
(***************************************************************************)
(* Small instances of Signing for TLC.                                     *)
(***************************************************************************)
EXTENDS Signing, TLC

CONSTANTS a1, c1, k1, i1, i2

OneAccount == {a1}
OneCaller == {c1}
NoKeys == {}
OneKey == {k1}
OneIntent == {i1}
TwoIntents == {i1, i2}

\* Intents are interchangeable in every definition of Signing.
IntentSymmetry == Permutations(TwoIntents)
=============================================================================
