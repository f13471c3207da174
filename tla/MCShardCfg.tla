----------------------------- MODULE MCShardCfg -----------------------------
(* A small instance of ShardCfg for TLC. *)
EXTENDS ShardCfg

MCGid == 1 .. 5
=============================================================================
