------------------------------ MODULE MCGroup -------------------------------
(* A small instance of Group for TLC. *)
EXTENDS Group
=============================================================================
