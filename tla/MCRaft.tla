------------------------------- MODULE MCRaft -------------------------------
(* Small instances of RaftElection for TLC. *)
EXTENDS RaftElection, TLC

Symmetry == Permutations(Server)
=============================================================================
