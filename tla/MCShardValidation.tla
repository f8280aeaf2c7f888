-------------------------- MODULE MCShardValidation --------------------------
(* The instance of ShardValidation for TLC: either enumeration may fail. *)
EXTENDS ShardValidation

AllSides == Sides
=============================================================================
