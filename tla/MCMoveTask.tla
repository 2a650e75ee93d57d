---------------------------- MODULE MCMoveTask ----------------------------
(***************************************************************************)
(* Small instances of MoveTask.                                            *)
(***************************************************************************)
EXTENDS MoveTask, TLC

CONSTANTS t1, t2, m1, m2, m3

TaskSymmetry == Permutations(Tasks)
=============================================================================
