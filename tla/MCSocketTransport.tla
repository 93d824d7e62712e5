-------------------------- MODULE MCSocketTransport --------------------------
(* Small instances of SocketTransport for TLC.                             *)
EXTENDS SocketTransport, TLC

Symmetry == Permutations(Exchange)
=============================================================================
