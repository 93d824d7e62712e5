---------------------------- MODULE MCEditsJournal ----------------------------
(* Small instances of EditsJournal for TLC.                                *)
EXTENDS EditsJournal, TLC

CONSTANTS e1, e2, row1, row2

\* Two edits of one row, and one of each of two rows.
OneRow == [e \in {e1, e2} |-> row1]
RowEach == [e \in {e1, e2} |-> IF e = e1 THEN row1 ELSE row2]

Symmetry == Permutations(Settler) \cup Permutations(Absorber)
=============================================================================
