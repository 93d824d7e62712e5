--------------------------- MODULE MCEffectLedger ---------------------------
(* Small instances of EffectLedger for TLC.                                *)
EXTENDS EffectLedger, TLC

Symmetry == Permutations(Caller) \cup Permutations(Key)
=============================================================================
