----------------------------- MODULE MCKVClerk ------------------------------
(* A small instance of KVClerk and KVTest for TLC. *)
EXTENDS KVTest, TLC

Symmetry == Permutations(Client) \union Permutations(Value)
=============================================================================
