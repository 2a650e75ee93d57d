--------------------------- MODULE MCMemoryStore ---------------------------
(***************************************************************************)
(* Small instances of MemoryStore.  In a FIFO instance the first two       *)
(* messages share a group and the last two a deduplication id.             *)
(***************************************************************************)
EXTENDS MemoryStore, TLC

CONSTANTS m1, m2, m3, g1, g2, d1, c1, c2

OneGroup   == [m \in Msg |-> g1]
TwoGroups  == [m \in Msg |-> IF m = m3 THEN g2 ELSE g1]
NoGroups   == [m \in Msg |-> NoGroup]
NoDedups   == [m \in Msg |-> NoDedup]
SharedDedup == [m \in Msg |-> IF m = m1 THEN NoDedup ELSE d1]

MsgSymmetry == Permutations({m1, m2})
=============================================================================
