------------------------------ MODULE MCServer ------------------------------
(***************************************************************************)
(* Small instances of the request handlers and the web interface.          *)
(***************************************************************************)
EXTENDS WebUI, TLC

CONSTANTS qa, qf, qb, k1, k2, k3, p1, p2

Configured == (qa :> <<>>) @@ (qf :> [FifoQueue |-> "true"])

\* Entries with one deduplication id, or none, and one body.
Good(id)  == [id |-> id, size |-> 1, delay |-> 0, group |-> 1, dedup |-> 1, key |-> "d", body |-> "b"]
Bare(id)  == [Good(id) EXCEPT !.group = 0, !.dedup = 0]
Large(id) == [Good(id) EXCEPT !.size = 2049]
Handle1(id, rcv, v) == [id |-> id, n |-> 1, rcv |-> rcv, visibility |-> v]

Tags == {[op |-> "TagQueue", q |-> qa, tags |-> {k}] : k \in {k1, k2, k3}}
  \cup {[op |-> "UntagQueue", q |-> qa, tags |-> {k1}]}

Policy(target) == [RedrivePolicy |-> [target |-> target, max |-> 1]]

Lives ==
  {[op |-> "DeleteQueue", q |-> qa], [op |-> "UICreate", q |-> qa, attrs |-> Policy(qf)],
   [op |-> "CreateQueue", q |-> qa, attrs |-> Policy("gone")],
   [op |-> "CreateQueue", q |-> qa, attrs |-> [VisibilityTimeout |-> 43201]],
   [op |-> "CreateQueue", q |-> qb, attrs |-> <<>>], [op |-> "UICreate", q |-> qb, attrs |-> <<>>],
   [op |-> "AddPermission", q |-> qb]}

Updates ==
  {[op |-> "SetQueueAttributes", q |-> qf, attrs |-> a] : a \in
     {[ContentBasedDeduplication |-> "true"], [MaximumMessageSize |-> 1024, DelaySeconds |-> 5],
      [MaximumMessageSize |-> 1024, DelaySeconds |-> 901]}}

Purges == {[op |-> o, q |-> qa] : o \in {"PurgeQueue", "UIPurge"}}

Sends ==
  {[op |-> "SendMessageBatch", q |-> qa, entries |-> <<Good("a"), Good("b")>>],
   [op |-> "SendMessageBatch", q |-> qf, entries |-> <<Bare("a"), Good("b")>>],
   [op |-> "SendMessage", q |-> qf, entries |-> <<Large("a")>>],
   [op |-> "UISend", q |-> qa, entries |-> <<Bare("a")>>],
   [op |-> "UISend", q |-> qf, entries |-> <<Good("a")>>],
   [op |-> "UISend", q |-> qf, entries |-> <<[Good("a") EXCEPT !.delay = 901]>>]}

Uses ==
  {[op |-> "ReceiveMessage", q |-> qa, max |-> 1, visibility |-> -1, wait |-> -1],
   [op |-> "ReceiveMessage", q |-> qa, max |-> 11, visibility |-> 0, wait |-> 0],
   [op |-> "ReceiveMessage", q |-> qa, max |-> 1, visibility |-> 0, wait |-> 21],
   [op |-> "UIPeek", q |-> qa],
   [op |-> "DeleteMessageBatch", q |-> qa, entries |-> <<Handle1("a", 1, 0), Handle1("b", 1, 0)>>],
   [op |-> "DeleteMessageBatch", q |-> qa, entries |-> <<Handle1("a", 1, 0), Handle1("a", 1, 0)>>],
   [op |-> "ChangeMessageVisibilityBatch", q |-> qa, entries |-> <<Handle1("a", 1, 0)>>],
   [op |-> "GetQueueAttributes", q |-> qf, names |-> <<"MaximumMessageSize", "DelaySeconds">>]}

ProcSymmetry == Permutations(Procs)

All == Tags \cup Lives \cup Updates \cup Purges \cup Sends \cup Uses
=============================================================================
