----------------------------- MODULE LazyStore -----------------------------
(***************************************************************************)
(* The SQLite and the Badger message store of one queue                    *)
(* (pkgs/v1/queue/store/sqlite/sqlite.go and store/badger/badger.go).      *)
(*                                                                         *)
(* Both keep messages on disk and decide visibility lazily, when someone   *)
(* receives: there are no timers.  A method body runs under the mutex s.mu *)
(* and is one action.  ReceiveMessages is several, because its redrive     *)
(* commits the deletion of messages and then calls redriveFunc for each:   *)
(* the process may crash between the two, and the clock may advance.  A    *)
(* long poll repeats the pass, every 200 ms until its deadline, and keeps  *)
(* no state between passes: each pass is a receive of its own.             *)
(*                                                                         *)
(* A message is a natural number: message ids are random and their order   *)
(* is the order of Badger's keys, so it is unrelated to the order of       *)
(* sending.  A receipt handle is the number of the receive that made it,   *)
(* and 0 is the empty handle.  first_received_at is never read.            *)
(***************************************************************************)
EXTENDS Integers, FiniteSets, Sequences

CONSTANTS
  Msg,               \* the messages callers send
  Groups,            \* the message group ids
  GroupOf,           \* [Msg -> Groups \cup {NoGroup}]
  NoGroup,           \* the empty MessageGroupId
  DedupIds,          \* the deduplication ids
  DedupOf,           \* [Msg -> DedupIds \cup {NoDedup}]
  NoDedup,
  Backends,          \* the backends an instance may have
  Kinds,             \* values of s.isFifo an instance may have
  MaxReceiveCount,   \* s.maxReceiveCount; 0: no redrive policy
  Retention,         \* s.messageRetentionPeriod after its default is applied
  DedupWindow,       \* the five minutes of SendMessage, in ticks
  DefaultVisibility, \* s.visibilityTimeout
  Delays,            \* DelaySeconds callers use
  Timeouts,          \* VisibilityTimeout callers use
  Batches,           \* MaxNumberOfMessages callers use
  MaxTime,           \* bound: last tick of the clock
  MaxDeliveries,     \* bound: receives of one message
  MaxSequence,       \* bound: sequence numbers, failed inserts included
  MaxOpens           \* bound: how often the store is opened again

ASSUME LazyAssumption ==
  /\ Msg \subseteq Nat /\ IsFiniteSet(Msg)
  /\ NoGroup \notin Groups /\ NoDedup \notin DedupIds
  /\ GroupOf \in [Msg -> Groups \cup {NoGroup}]
  /\ DedupOf \in [Msg -> DedupIds \cup {NoDedup}]
  /\ Backends \subseteq {"sqlite", "badger"} /\ Kinds \subseteq BOOLEAN
  /\ MaxReceiveCount \in Nat /\ Retention \in Nat /\ DedupWindow \in Nat \ {0}
  /\ DefaultVisibility \in Nat /\ Delays \subseteq Nat /\ Timeouts \subseteq Nat
  /\ Batches \subseteq Nat \ {0}
  /\ MaxTime \in Nat /\ MaxDeliveries \in Nat /\ MaxSequence \in Nat /\ MaxOpens \in Nat

VARIABLES
  backend, isFifo,  \* which store this is
  now,              \* store.Now(), in ticks
  table,            \* on disk: stored messages to their rows
  dedupCache,       \* s.dedupCache: expiry of an id, 0 when absent
  sequenceCounter,  \* s.sequenceCounter
  closed,           \* s.closed, or the process is down
  receiving,        \* a receive holds s.mu, between its redrive and its scan
  carried,          \* deleted for redrive, redriveFunc not called yet
  opens,            \* how often the store was opened again
  \* what happened, for the properties; no action reads these
  accepted,         \* the messages stored, in the order of their inserts
  fate,             \* how a message left the store
  revived,          \* their visibility lapsed and was extended afterwards
  window            \* end of an id's window since the last insert with it in this life of dedupCache

conf   == <<backend, isFifo>>
memory == <<dedupCache, sequenceCounter, closed>>
ghosts == <<accepted, fate, revived, window>>
vars   == <<conf, now, table, memory, receiving, carried, opens, ghosts>>

(***************************************************************************)
(* Types and helpers                                                       *)
(***************************************************************************)
NoHandle == 0
Row   == [sent : Nat, visible : Nat, handle : Nat, count : Nat, seq : Nat]
Fates == {"none", "deleted", "purged", "expired", "redriven", "lost"}

Stored     == DOMAIN table
Without(S) == [m \in Stored \ S |-> table[m]]

Visible(m)  == table[m].visible <= now
InFlight(m) == ~Visible(m) /\ table[m].handle # NoHandle
Delayed     == {m \in Stored : ~Visible(m) /\ table[m].handle = NoHandle}
Grouped(m)  == isFifo /\ GroupOf[m] # NoGroup
SameGroup(m, k) == Grouped(m) /\ Grouped(k) /\ GroupOf[m] = GroupOf[k]

ApproximateNumberOfMessages           == Cardinality({m \in Stored : Visible(m)})
ApproximateNumberOfMessagesNotVisible == Cardinality({m \in Stored : InFlight(m)})
ApproximateNumberOfMessagesDelayed    == Cardinality(Delayed)

\* Mutant: an entry is dropped one tick early.
CleanDedupEntriesEarly == [d \in DedupIds |-> IF now >= dedupCache[d] THEN 0 ELSE dedupCache[d]]

CleanExpiredDedupEntries == [d \in DedupIds |-> IF now > dedupCache[d] THEN 0 ELSE dedupCache[d]]

NoEntries == [d \in DedupIds |-> 0]

Expired == {m \in Stored : table[m].sent + Retention < now}

\* Mutant: the query does not look at visible_at.
RedrivableInFlight == {m \in Stored : table[m].handle # NoHandle /\ table[m].count >= MaxReceiveCount}

\* Visible again after a receive, and received too often.
Redrivable ==
  {m \in Stored : Visible(m) /\ table[m].handle # NoHandle /\ table[m].count >= MaxReceiveCount}

(***************************************************************************)
(* Which messages a receive picks, out of the stored messages S            *)
(***************************************************************************)
\* Mutants: the query forgets the groups in flight; it asks for an empty handle.
SQLiteReadyIgnoringGroups(S) == {m \in S : Visible(m)}
SQLiteReadyNeverReceived(S)  == {m \in S : Visible(m) /\ table[m].handle = NoHandle}

\* The WHERE clause: in a FIFO queue a group with a message in flight is
\* skipped, and the messages without a group count as one.
SQLiteReady(S) ==
  {m \in S : Visible(m) /\ (isFifo => ~\E k \in S : InFlight(k) /\ GroupOf[k] = GroupOf[m])}

\* Mutant: no ORDER BY.
OldestUnordered(S, n) ==
  {L \in SUBSET S : Cardinality(L) = IF Cardinality(S) < n THEN Cardinality(S) ELSE n}

\* ORDER BY sent_timestamp LIMIT n: any n of the oldest, as rows that were sent
\* in the same millisecond have no order.
Oldest(S, n) ==
  {L \in SUBSET S :
     /\ Cardinality(L) = IF Cardinality(S) < n THEN Cardinality(S) ELSE n
     /\ \A m \in L, k \in S \ L : table[m].sent <= table[k].sent}

\* Then the first row of each group is kept, in the order of the query.
SQLiteSelections(S, n) ==
  UNION {{C \in SUBSET L :
            \A m \in L :
              /\ m \in C \/ \E k \in C : SameGroup(m, k) /\ table[k].sent <= table[m].sent
              /\ m \in C => ~\E k \in C \ {m} : SameGroup(m, k)} : L \in Oldest(SQLiteReady(S), n)}

\* Badger scans in key order.  A row that is visible, or holds a handle, closes
\* its group for the rows after it; of the visible rows of a group only one
\* without a handle is taken.
BadgerReady(S) ==
  {m \in S :
     /\ Visible(m)
     /\ Grouped(m) =>
          /\ table[m].handle = NoHandle
          /\ ~\E k \in S : k < m /\ SameGroup(m, k) /\ (Visible(k) \/ table[k].handle # NoHandle)}

BadgerSelection(S, n) ==
  {m \in BadgerReady(S) : Cardinality({k \in BadgerReady(S) : k < m}) < n}

Selections(S, n) ==
  IF backend = "sqlite" THEN SQLiteSelections(S, n) ELSE {BadgerSelection(S, n)}

(***************************************************************************)
(* NewSQLiteStore, NewBadgerStore                                          *)
(***************************************************************************)
Init ==
  /\ backend \in Backends /\ isFifo \in Kinds
  /\ now = 0 /\ table = <<>>
  /\ dedupCache = NoEntries /\ sequenceCounter = 0 /\ closed = FALSE
  /\ receiving = FALSE /\ carried = {} /\ opens = 0
  /\ accepted = <<>> /\ fate = [m \in Msg |-> "none"] /\ revived = {} /\ window = NoEntries

\* Mutant: numbers start again at 1.
CounterFromZero(n) == n = 0

\* loadSequenceCounter: the highest sequence number that is still stored.
LoadsSequenceCounter(n) ==
  /\ n = 0 \/ \E m \in Stored : table[m].seq = n
  /\ \A m \in Stored : table[m].seq <= n

\* A queue of the same name is created, in this process or the next: what is on
\* disk is found again, what was in memory is not.
Open ==
  /\ closed /\ opens < MaxOpens
  /\ closed' = FALSE /\ opens' = opens + 1
  /\ dedupCache' = NoEntries /\ window' = NoEntries
  /\ sequenceCounter' \in 0..MaxSequence
  /\ IF isFifo THEN LoadsSequenceCounter(sequenceCounter') ELSE sequenceCounter' = 0
  /\ UNCHANGED <<conf, now, table, receiving, carried, accepted, fate, revived>>

(***************************************************************************)
(* SendMessage                                                             *)
(***************************************************************************)
Free == ~closed /\ ~receiving

IsDuplicate(m) == isFifo /\ DedupOf[m] # NoDedup /\ CleanExpiredDedupEntries[DedupOf[m]] # 0

\* A duplicate within the window is accepted and not stored.
SendDuplicate(m) ==
  /\ Free /\ fate[m] = "none" /\ m \notin Stored /\ IsDuplicate(m)
  /\ dedupCache' = CleanExpiredDedupEntries
  /\ UNCHANGED <<conf, now, table, sequenceCounter, closed, receiving, carried, opens, ghosts>>

\* What happens in memory before the insert, and stays when the insert fails.
NumberMessage(m) ==
  IF isFifo
  THEN /\ sequenceCounter < MaxSequence
       /\ sequenceCounter' = sequenceCounter + 1
       /\ dedupCache' = [d \in DedupIds |-> IF d = DedupOf[m] THEN now + DedupWindow
                                            ELSE CleanExpiredDedupEntries[d]]
  ELSE UNCHANGED <<sequenceCounter, dedupCache>>

SendMessage(m, delay) ==
  /\ Free /\ fate[m] = "none" /\ m \notin Stored /\ ~IsDuplicate(m)
  /\ NumberMessage(m)
  /\ table' = [k \in Stored \cup {m} |->
       IF k = m THEN [sent |-> now, visible |-> now + delay, handle |-> NoHandle,
                      count |-> 0, seq |-> sequenceCounter']
       ELSE table[k]]
  /\ accepted' = Append(accepted, m)
  /\ window' = [d \in DedupIds |-> IF isFifo /\ d = DedupOf[m] THEN now + DedupWindow ELSE window[d]]
  /\ UNCHANGED <<conf, now, closed, receiving, carried, opens, fate, revived>>

\* The INSERT or the transaction fails: a locked database, a cancelled request.
SendFails(m) ==
  /\ Free /\ fate[m] = "none" /\ m \notin Stored /\ ~IsDuplicate(m)
  /\ NumberMessage(m)
  /\ UNCHANGED <<conf, now, table, closed, receiving, carried, opens, ghosts>>

(***************************************************************************)
(* ReceiveMessages                                                         *)
(***************************************************************************)
\* Mutant: the transaction is rolled back by its deferred Rollback.
RedriveWithoutCommit(S) == carried' = S /\ UNCHANGED table

\* The transaction of redriveIfNeededLocked that deletes the messages S.
RedriveCommit(S) == carried' = S /\ table' = Without(S)

\* redriveIfNeededLocked up to its commit, or to the error that ends it.
ReceiveRedrive ==
  /\ Free /\ receiving' = TRUE
  /\ \/ MaxReceiveCount > 0 /\ RedriveCommit(Redrivable)
     \/ UNCHANGED <<table, carried>>
  /\ revived' = revived \cap Stored'
  /\ UNCHANGED <<conf, now, memory, opens, accepted, fate, window>>

\* One call of redriveFunc.
RedriveCall(m) ==
  /\ receiving /\ m \in carried
  /\ carried' = carried \ {m}
  /\ fate' = [fate EXCEPT ![m] = "redriven"]
  /\ UNCHANGED <<conf, now, table, memory, receiving, opens, accepted, revived, window>>

ReceivedRow(r, vt) ==
  [sent |-> r.sent, visible |-> now + vt, handle |-> r.count + 1, count |-> r.count + 1, seq |-> r.seq]

\* deleteExpiredMessages, whose error is ignored, and the selection; then the
\* updates: SQLite skips a row whose UPDATE fails, Badger updates all or none
\* and returns the error.  A query that fails ends the call with no update.
ReceiveReturns(n, vt) ==
  /\ receiving /\ carried = {} /\ receiving' = FALSE
  /\ \E gone \in {{}, Expired} :
       LET kept == Stored \ gone IN
       \E C \in Selections(kept, n) :
         \E U \in IF backend = "sqlite" THEN SUBSET C ELSE {{}, C} :
           /\ \A m \in U : table[m].count < MaxDeliveries
           /\ table' = [m \in kept |-> IF m \in U
                          THEN ReceivedRow(table[m], IF vt = 0 THEN DefaultVisibility ELSE vt)
                          ELSE table[m]]
           /\ fate' = [m \in Msg |-> IF m \in gone THEN "expired" ELSE fate[m]]
           /\ revived' = revived \ (U \cup gone)
  /\ UNCHANGED <<conf, now, memory, carried, opens, accepted, window>>

(***************************************************************************)
(* DeleteMessage, ChangeMessageVisibility, Purge, Close, Crash             *)
(***************************************************************************)
\* A handle stays good after its visibility lapsed, until the next receive.
HasHandle(m) == m \in Stored /\ table[m].handle # NoHandle

DeleteMessage(m) ==
  /\ Free /\ HasHandle(m)
  /\ table' = Without({m})
  /\ fate' = [fate EXCEPT ![m] = "deleted"] /\ revived' = revived \ {m}
  /\ UNCHANGED <<conf, now, memory, receiving, carried, opens, accepted, window>>

\* A move task deletes by the empty handle: SQLite deletes every row that has
\* it, Badger the first.
DeleteEmptyHandle ==
  LET empty == {m \in Stored : table[m].handle = NoHandle}
      hit   == IF backend = "sqlite" THEN empty ELSE {m \in empty : \A k \in empty : m <= k}
  IN
  /\ Free /\ hit # {}
  /\ table' = Without(hit)
  /\ fate' = [m \in Msg |-> IF m \in hit THEN "deleted" ELSE fate[m]]
  /\ revived' = revived \ hit
  /\ UNCHANGED <<conf, now, memory, receiving, carried, opens, accepted, window>>

GivenBack(r) ==
  [sent |-> r.sent, visible |-> now, handle |-> NoHandle, count |-> r.count, seq |-> r.seq]

Extended(r, vt) ==
  [sent |-> r.sent, visible |-> now + vt, handle |-> r.handle, count |-> r.count, seq |-> r.seq]

ChangeMessageVisibilityZero(m) ==
  /\ Free /\ HasHandle(m)
  /\ table' = [table EXCEPT ![m] = GivenBack(table[m])]
  /\ revived' = revived \ {m}
  /\ UNCHANGED <<conf, now, memory, receiving, carried, opens, accepted, fate, window>>

ChangeMessageVisibility(m, vt) ==
  /\ Free /\ HasHandle(m) /\ vt > 0
  /\ table' = [table EXCEPT ![m] = Extended(table[m], vt)]
  /\ revived' = IF Visible(m) THEN revived \cup {m} ELSE revived
  /\ UNCHANGED <<conf, now, memory, receiving, carried, opens, accepted, fate, window>>

\* Purge keeps the sequence counter.
Purge ==
  /\ Free
  /\ table' = Without(Stored) /\ dedupCache' = NoEntries
  /\ fate' = [m \in Msg |-> IF m \in Stored THEN "purged" ELSE fate[m]]
  /\ revived' = {} /\ window' = NoEntries
  /\ UNCHANGED <<conf, now, sequenceCounter, closed, receiving, carried, opens, accepted>>

\* Close leaves the rows: the database is shared.
Close ==
  /\ Free /\ closed' = TRUE
  /\ UNCHANGED <<conf, now, table, dedupCache, sequenceCounter, receiving, carried, opens, ghosts>>

\* The process ends at any point; what a redrive carries is lost.
Crash ==
  /\ ~closed /\ closed' = TRUE
  /\ receiving' = FALSE /\ carried' = {}
  /\ fate' = [m \in Msg |-> IF m \in carried THEN "lost" ELSE fate[m]]
  /\ UNCHANGED <<conf, now, table, dedupCache, sequenceCounter, opens, accepted, revived, window>>

Tick ==
  /\ now < MaxTime /\ now' = now + 1
  /\ UNCHANGED <<conf, table, memory, receiving, carried, opens, ghosts>>

Next ==
  \/ Open
  \/ \E m \in Msg : SendDuplicate(m)
  \/ \E m \in Msg, delay \in Delays : SendMessage(m, delay)
  \/ \E m \in Msg : SendFails(m)
  \/ ReceiveRedrive
  \/ \E m \in Msg : RedriveCall(m)
  \/ \E n \in Batches, vt \in Timeouts : ReceiveReturns(n, vt)
  \/ \E m \in Msg : DeleteMessage(m)
  \/ DeleteEmptyHandle
  \/ \E m \in Msg : ChangeMessageVisibilityZero(m)
  \/ \E m \in Msg, vt \in Timeouts : ChangeMessageVisibility(m, vt)
  \/ Purge
  \/ Close
  \/ Crash
  \/ Tick

Spec == Init /\ [][Next]_vars

(***************************************************************************)
(* Properties                                                              *)
(***************************************************************************)
Accepted == {accepted[i] : i \in DOMAIN accepted}

TypeOK ==
  /\ backend \in Backends /\ isFifo \in Kinds /\ now \in Nat
  /\ Stored \subseteq Msg /\ table \in [Stored -> Row]
  /\ dedupCache \in [DedupIds -> Nat] /\ sequenceCounter \in Nat
  /\ closed \in BOOLEAN /\ receiving \in BOOLEAN /\ carried \subseteq Msg /\ opens \in Nat
  /\ accepted \in Seq(Msg) /\ fate \in [Msg -> Fates]
  /\ revived \subseteq Stored /\ window \in [DedupIds -> Nat]

\* Every message the store ever accepted is in exactly one place, whatever fails
\* and whenever the process crashes: in the database, in the hands of a redrive
\* that has deleted it, or it left in one way.  (A crash between the commit and
\* redriveFunc is such a way: both stores may lose a message there, but neither
\* ever redrives one that it also keeps.)
OnePlace ==
  \A m \in Accepted :
    /\ m \in Stored   => m \notin carried /\ fate[m] = "none"
    /\ m \in carried  => fate[m] = "none"
    /\ fate[m] = "none" => m \in Stored \cup carried

\* FIFO exclusion over SQLite, restarts included: two messages of a group are in
\* flight together only if one of them lapsed and was extended with its old
\* handle.  Badger looks only at smaller keys and does not keep this.
OneInFlightPerGroup ==
  backend = "sqlite" =>
    \A m, k \in Stored \ revived :
      SameGroup(m, k) /\ InFlight(m) /\ InFlight(k) => m = k

\* Delivery order within a group over SQLite: a message is received only when
\* every older stored message of its group is still in its send delay.
GroupOrder ==
  [][\A m \in Stored \cap Stored' :
       backend = "sqlite" /\ table'[m].count > table[m].count =>
         \A k \in Stored \cap Stored' :
           SameGroup(m, k) /\ table[k].sent < table[m].sent => k \in Delayed]_vars

\* Sequence numbers of stored messages grow in the order they were accepted,
\* across restarts, purges and failed inserts.
SequenceOrder ==
  isFifo =>
    \A i, j \in DOMAIN accepted :
      /\ i < j /\ accepted[i] \in Stored /\ accepted[j] \in Stored
      => table[accepted[i]].seq < table[accepted[j]].seq

\* A message is not stored twice within the deduplication window, unless a
\* restart or a purge has emptied the cache in between.
DedupWindowHolds ==
  [][\A m \in Stored' \ Stored :
       isFifo /\ DedupOf[m] # NoDedup =>
         window[DedupOf[m]] = 0 \/ window[DedupOf[m]] < now]_vars

\* ApproximateNumberOfMessagesDelayed counts no message that was received.
DelayedNeverReceived == \A m \in Delayed : table[m].count = 0

\* A receive of n messages that can find nothing: every visible message waits
\* for a message of its group that is in flight.
NothingHeldBack(n) ==
  receiving /\ carried = {} /\ {} \in Selections(Stored, n) =>
    \A m \in Stored :
      Visible(m) => isFifo /\ \E k \in Stored : GroupOf[k] = GroupOf[m] /\ InFlight(k)

\* Over SQLite a receive finds nothing only when every visible message waits for
\* one in flight: a message whose visibility lapsed comes back.
LapsedComesBack == backend = "sqlite" => \A n \in Batches : NothingHeldBack(n)

(***************************************************************************)
(* What the stores promise (StoreContract)                                 *)
(***************************************************************************)
Place(m) ==
  CASE m \in Stored -> IF Visible(m) THEN "visible" ELSE "hidden"
    [] m \notin Stored /\ (m \in carried \/ fate[m] \in {"redriven", "lost"}) -> "redriven"
    [] m \notin Stored \cup carried /\ fate[m] = "none" -> "away"
    [] OTHER -> fate[m]

Contract == INSTANCE StoreContract WITH
  EmptyHandles <- TRUE,
  disturbed <- {},
  state <- [m \in Msg |->
    [place |-> Place(m), received |-> IF m \in Stored THEN table[m].count ELSE 0,
     holder |-> IF m \in Stored THEN table[m].handle ELSE 0]]

\* Both stores keep the contract of the one in memory, over failures, crashes
\* and restarts, but for the deletes with an empty handle that they accept.
KeepsContract == Contract!Spec
=============================================================================
