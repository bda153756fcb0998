---------------------------- MODULE MCController ----------------------------
(* Models of Controller for TLC, on trees that meet its assumptions. *)
EXTENDS BlockTrees

ASSUME SwitchesInTime
ASSUME InvalidMovesNothing
=============================================================================
