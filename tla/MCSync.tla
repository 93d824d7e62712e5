-------------------------------- MODULE MCSync --------------------------------
(* Small instances of Sync for TLC.                                        *)
EXTENDS Sync, TLC

CONSTANTS r1, r2

NothingRefused == {}
FirstRefused == {<<r1, 1>>}

\* Call slots are interchangeable, and replicas are where no id is refused.
Symmetry == Permutations(Call) \cup Permutations(Replica)
SlotSymmetry == Permutations(Call)
=============================================================================
