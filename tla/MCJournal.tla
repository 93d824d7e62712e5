------------------------------ MODULE MCJournal ------------------------------
(* Small instances of Journal for TLC.                                     *)
EXTENDS Journal, TLC

\* Connections, and ids with their bodies and actors, are interchangeable.
Symmetry == Permutations(Conn) \cup Permutations(OpId)
              \cup Permutations(Actor)
=============================================================================
