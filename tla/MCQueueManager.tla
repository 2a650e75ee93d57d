-------------------------- MODULE MCQueueManager --------------------------
(***************************************************************************)
(* Small instances of QueueManager: a queue qa with dead-letter queue qd.  *)
(***************************************************************************)
EXTENDS QueueManager

CONSTANTS qa, qd, m1, m2, p1, p2, i1

\* qd is a FIFO queue that knows all messages by one id; inserts into the second
\* store of that name may fail.
OneId  == [q \in Queues |-> [m \in Msg |-> IF q = qd THEN i1 ELSE NoDedup]]
Second == {<<qd, 2>>}

Chain == [q \in Queues |-> IF q = qa THEN qd ELSE NoQueue]
=============================================================================
