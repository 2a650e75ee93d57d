---------------------------- MODULE MCLazyStore ----------------------------
(***************************************************************************)
(* Small instances of LazyStore: all messages share a group, and all but   *)
(* the first a deduplication id.                                           *)
(***************************************************************************)
EXTENDS LazyStore

CONSTANTS g1, d1

OneGroup    == [m \in Msg |-> g1]
SharedDedup == [m \in Msg |-> IF m = 1 THEN NoDedup ELSE d1]
=============================================================================
