---------------------------- MODULE MCJournalBatch ----------------------------
(* Small instances of JournalBatch for TLC.                                *)
EXTENDS JournalBatch, TLC

Symmetry == Permutations(Conn) \cup Permutations(OpId) \cup Permutations(Actor)
=============================================================================
