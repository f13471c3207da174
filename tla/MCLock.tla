------------------------------- MODULE MCLock -------------------------------
(* A small instance of Lock for TLC. *)
EXTENDS Lock

MCValue == [locked : BOOLEAN, id : 1..MaxId]
=============================================================================
