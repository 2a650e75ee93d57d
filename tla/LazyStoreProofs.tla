-------------------------- MODULE LazyStoreProofs --------------------------
(***************************************************************************)
(* Theorems about LazyStore, for all constants satisfying LazyAssumption.  *)
(***************************************************************************)
EXTENDS LazyStore, FiniteSetTheorems, SequenceTheorems, TLAPS

USE DEF Stored, Without, NoHandle, conf, memory, ghosts

(***************************************************************************)
(* Types                                                                   *)
(***************************************************************************)
\* Cleaning the deduplication cache, or emptying it, leaves a cache.
LEMMA CleanType ==
  ASSUME TypeOK
  PROVE  CleanExpiredDedupEntries \in [DedupIds -> Nat] /\ NoEntries \in [DedupIds -> Nat]
BY DEF TypeOK, CleanExpiredDedupEntries, NoEntries

\* What NumberMessage leaves in memory.
LEMMA NumberType ==
  ASSUME TypeOK, NEW m \in Msg, NumberMessage(m)
  PROVE  sequenceCounter' \in Nat /\ dedupCache' \in [DedupIds -> Nat]
<1>1. CASE isFifo
  <2>1. /\ sequenceCounter' = sequenceCounter + 1
        /\ dedupCache' = [d \in DedupIds |-> IF d = DedupOf[m] THEN now + DedupWindow
                                             ELSE CleanExpiredDedupEntries[d]]
    BY <1>1 DEF NumberMessage
  <2>2. now + DedupWindow \in Nat /\ sequenceCounter + 1 \in Nat
    BY LazyAssumption DEF TypeOK
  <2>3. \A d \in DedupIds : CleanExpiredDedupEntries[d] \in Nat
    BY CleanType
  <2> QED BY <2>1, <2>2, <2>3
<1>2. CASE ~isFifo
  BY <1>2 DEF NumberMessage, TypeOK
<1> QED BY <1>1, <1>2

\* A send stores a row of the right type.
LEMMA SendType ==
  ASSUME TypeOK, NEW m \in Msg, NEW delay \in Delays, SendMessage(m, delay)
  PROVE  TypeOK'
<1>1. sequenceCounter' \in Nat /\ dedupCache' \in [DedupIds -> Nat]
  BY NumberType DEF SendMessage
<1>2. now \in Nat /\ now + delay \in Nat
  BY LazyAssumption DEF TypeOK
<1>3. Stored' = Stored \cup {m} /\ table' \in [Stored \cup {m} -> Row]
  BY <1>1, <1>2 DEF SendMessage, TypeOK, Row
<1>4. accepted' \in Seq(Msg)
  BY AppendProperties DEF SendMessage, TypeOK
<1>5. window' \in [DedupIds -> Nat]
  <2>1. now + DedupWindow \in Nat /\ window \in [DedupIds -> Nat]
    BY LazyAssumption DEF TypeOK
  <2> QED BY <2>1 DEF SendMessage
<1> QED BY <1>1, <1>2, <1>3, <1>4, <1>5 DEF SendMessage, TypeOK

\* The rows a receive leaves: the expired ones are gone, some others received.
LEMMA ReceiveEffect ==
  ASSUME NEW n \in Batches, NEW vt \in Timeouts, ReceiveReturns(n, vt)
  PROVE  \E gone \in SUBSET Stored :
           \E C \in Selections(Stored \ gone, n), t \in {vt, DefaultVisibility} :
             \E U \in SUBSET C :
               /\ table' = [m \in Stored \ gone |->
                              IF m \in U THEN ReceivedRow(table[m], t) ELSE table[m]]
               /\ fate' = [m \in Msg |-> IF m \in gone THEN "expired" ELSE fate[m]]
               /\ revived' = revived \ (U \cup gone)
<1> DEFINE t == IF vt = 0 THEN DefaultVisibility ELSE vt
           Leaves(gone, U) ==
             /\ table' = [m \in Stored \ gone |->
                            IF m \in U THEN ReceivedRow(table[m], t) ELSE table[m]]
             /\ fate' = [m \in Msg |-> IF m \in gone THEN "expired" ELSE fate[m]]
             /\ revived' = revived \ (U \cup gone)
<1>1. PICK gone \in {{}, Expired} :
      \E C \in Selections(Stored \ gone, n) : \E U \in SUBSET C : Leaves(gone, U)
  <2>1. PICK gone \in {{}, Expired} : \E C \in Selections(Stored \ gone, n) :
          \E U \in IF backend = "sqlite" THEN SUBSET C ELSE {{}, C} : Leaves(gone, U)
    BY ZenonT(30) DEF ReceiveReturns
  <2>2. PICK C \in Selections(Stored \ gone, n) :
          \E U \in IF backend = "sqlite" THEN SUBSET C ELSE {{}, C} : Leaves(gone, U)
    BY <2>1
  <2>3. PICK U \in IF backend = "sqlite" THEN SUBSET C ELSE {{}, C} : Leaves(gone, U)
    BY <2>2
  <2>4. U \in SUBSET C
    BY <2>3
  <2> QED BY <2>1, <2>2, <2>3, <2>4
<1>2. gone \in SUBSET Stored /\ t \in {vt, DefaultVisibility}
  BY DEF Expired
<1>3. PICK C \in Selections(Stored \ gone, n) : \E U \in SUBSET C : Leaves(gone, U)
  BY <1>1
<1>4. PICK U \in SUBSET C : Leaves(gone, U)
  BY <1>3
<1> QED BY <1>2, <1>3, <1>4

\* A receive leaves rows of the right type, whatever it updates.
LEMMA ReceiveType ==
  ASSUME TypeOK, NEW n \in Batches, NEW vt \in Timeouts, ReceiveReturns(n, vt)
  PROVE  TypeOK'
<1>0. PICK gone \in SUBSET Stored :
        \E C \in Selections(Stored \ gone, n), t \in {vt, DefaultVisibility} : \E U \in SUBSET C :
          /\ table' = [m \in Stored \ gone |-> IF m \in U THEN ReceivedRow(table[m], t) ELSE table[m]]
          /\ fate' = [m \in Msg |-> IF m \in gone THEN "expired" ELSE fate[m]]
          /\ revived' = revived \ (U \cup gone)
  BY ReceiveEffect
<1>a. PICK t \in {vt, DefaultVisibility} : \E U :
          /\ table' = [m \in Stored \ gone |-> IF m \in U THEN ReceivedRow(table[m], t) ELSE table[m]]
          /\ fate' = [m \in Msg |-> IF m \in gone THEN "expired" ELSE fate[m]]
          /\ revived' = revived \ (U \cup gone)
  BY <1>0
<1>1. PICK U :
          /\ table' = [m \in Stored \ gone |-> IF m \in U THEN ReceivedRow(table[m], t) ELSE table[m]]
          /\ fate' = [m \in Msg |-> IF m \in gone THEN "expired" ELSE fate[m]]
          /\ revived' = revived \ (U \cup gone)
  BY <1>a
<1>2. now + t \in Nat
  BY LazyAssumption DEF TypeOK
<1>3. \A m \in Stored : ReceivedRow(table[m], t) \in Row
  BY <1>2 DEF TypeOK, ReceivedRow, Row
<1>4. Stored' = Stored \ gone /\ table' \in [Stored \ gone -> Row]
  BY <1>1, <1>3 DEF TypeOK
<1>5. fate' \in [Msg -> Fates] /\ revived' \subseteq Stored'
  BY <1>1, <1>4 DEF TypeOK, Fates
<1> QED BY <1>4, <1>5 DEF ReceiveReturns, TypeOK

\* Every action preserves the types.
LEMMA NextType == ASSUME TypeOK, [Next]_vars PROVE TypeOK'
<1>1. CASE Open
  <2>1. dedupCache' \in [DedupIds -> Nat] /\ window' \in [DedupIds -> Nat]
    BY <1>1, CleanType DEF Open
  <2>2. sequenceCounter' \in Nat
    <3>1. sequenceCounter' \in 0..MaxSequence
      BY <1>1 DEF Open
    <3> QED BY <3>1, LazyAssumption
  <2>3. opens' = opens + 1 /\ closed' = FALSE
        /\ UNCHANGED <<conf, now, table, receiving, carried, accepted, fate, revived>>
    BY <1>1 DEF Open
  <2>4. opens' \in Nat
    BY <2>3 DEF TypeOK
  <2>5. closed' \in BOOLEAN
    BY <2>3
  <2>6. /\ Stored' \subseteq Msg /\ table' \in [Stored' -> Row] /\ revived' \subseteq Stored'
        /\ backend' \in Backends /\ isFifo' \in Kinds /\ now' \in Nat /\ receiving' \in BOOLEAN
        /\ carried' \subseteq Msg /\ accepted' \in Seq(Msg) /\ fate' \in [Msg -> Fates]
    BY <2>3 DEF TypeOK
  <2> QED BY <2>1, <2>2, <2>4, <2>5, <2>6 DEF TypeOK
<1>2. ASSUME NEW m \in Msg, SendDuplicate(m) PROVE TypeOK'
  BY <1>2, CleanType DEF SendDuplicate, TypeOK
<1>3. ASSUME NEW m \in Msg, NEW delay \in Delays, SendMessage(m, delay) PROVE TypeOK'
  BY <1>3, SendType
<1>4. ASSUME NEW m \in Msg, SendFails(m) PROVE TypeOK'
  BY <1>4, NumberType DEF SendFails, TypeOK
<1>5. CASE ReceiveRedrive
  BY <1>5 DEF ReceiveRedrive, RedriveCommit, Redrivable, TypeOK
<1>6. ASSUME NEW m \in Msg, RedriveCall(m) PROVE TypeOK'
  BY <1>6 DEF RedriveCall, TypeOK, Fates
<1>7. ASSUME NEW n \in Batches, NEW vt \in Timeouts, ReceiveReturns(n, vt) PROVE TypeOK'
  BY <1>7, ReceiveType
<1>8. ASSUME NEW m \in Msg, DeleteMessage(m) PROVE TypeOK'
  BY <1>8 DEF DeleteMessage, TypeOK, Fates
<1>9. CASE DeleteEmptyHandle
  <2>1. PICK hit : /\ table' = Without(hit)
                   /\ \A m \in hit : m \in Stored /\ table[m].handle = NoHandle
                   /\ fate' = [m \in Msg |-> IF m \in hit THEN "deleted" ELSE fate[m]]
                   /\ revived' = revived \ hit
    BY <1>9 DEF DeleteEmptyHandle
  <2> QED BY <1>9, <2>1 DEF DeleteEmptyHandle, TypeOK, Fates
<1>10. ASSUME NEW m \in Msg, ChangeMessageVisibilityZero(m) PROVE TypeOK'
  BY <1>10 DEF ChangeMessageVisibilityZero, GivenBack, HasHandle, TypeOK, Row
<1>11. ASSUME NEW m \in Msg, NEW vt \in Timeouts, ChangeMessageVisibility(m, vt) PROVE TypeOK'
  <2>1. now + vt \in Nat
    BY LazyAssumption DEF TypeOK
  <2> QED BY <1>11, <2>1 DEF ChangeMessageVisibility, Extended, HasHandle, TypeOK, Row
<1>12. CASE Purge
  BY <1>12, CleanType DEF Purge, TypeOK, Fates
<1>13. CASE Close
  BY <1>13 DEF Close, TypeOK
<1>14. CASE Crash
  BY <1>14 DEF Crash, TypeOK, Fates
<1>15. CASE Tick
  BY <1>15 DEF Tick, TypeOK
<1>16. CASE UNCHANGED vars
  BY <1>16 DEF vars, TypeOK
<1> QED
  BY <1>1, <1>2, <1>3, <1>4, <1>5, <1>6, <1>7, <1>8, <1>9, <1>10, <1>11, <1>12, <1>13, <1>14, <1>15, <1>16
  DEF Next

\* A new store has the types.
LEMMA InitType == Init => TypeOK
<1> SUFFICES ASSUME Init PROVE TypeOK
  OBVIOUS
<1>1. Stored = {} /\ table \in [Stored -> Row]
  BY DEF Init
<1>2. accepted \in Seq(Msg)
  BY EmptySeq DEF Init
<1> QED BY <1>1, <1>2 DEF Init, TypeOK, NoEntries, Fates

\* Every variable of a SQLite or Badger store keeps its type.
THEOREM TypeCorrect == Spec => []TypeOK
BY InitType, NextType, PTL DEF Spec

(***************************************************************************)
(* One place for every message                                             *)
(***************************************************************************)
\* Only accepted messages are stored or carried, and only a receive carries any.
PlaceInv ==
  /\ OnePlace
  /\ Stored \subseteq Accepted /\ carried \subseteq Accepted
  /\ ~receiving => carried = {}

\* What appending to the history of inserts means for its set and its indices.
LEMMA AcceptedAppend ==
  ASSUME accepted \in Seq(Msg), NEW m \in Msg, accepted' = Append(accepted, m)
  PROVE  /\ Accepted' = Accepted \cup {m}
         /\ DOMAIN accepted' = 1..(Len(accepted) + 1)
         /\ accepted'[Len(accepted) + 1] = m
         /\ \A i \in DOMAIN accepted : i \in 1..Len(accepted) /\ accepted'[i] = accepted[i]
<1>1. /\ DOMAIN accepted = 1..Len(accepted) /\ DOMAIN accepted' = 1..(Len(accepted) + 1)
      /\ Len(accepted) \in Nat
      /\ accepted'[Len(accepted) + 1] = m
      /\ \A i \in 1..Len(accepted) : accepted'[i] = accepted[i]
  BY AppendProperties, LenProperties
<1>2. Accepted' = {accepted'[i] : i \in DOMAIN accepted'}
  BY DEF Accepted
<1> QED BY <1>1, <1>2 DEF Accepted

\* A send puts its message in one place: it was in none.
LEMMA SendPlace ==
  ASSUME TypeOK, PlaceInv, NEW m \in Msg, NEW delay \in Delays, SendMessage(m, delay)
  PROVE  PlaceInv'
<1>1. Accepted' = Accepted \cup {m}
  BY AcceptedAppend DEF SendMessage, TypeOK
<1>2. Stored' = Stored \cup {m} /\ UNCHANGED <<carried, fate, receiving>>
  BY DEF SendMessage
<1>3. carried = {} /\ fate[m] = "none"
  BY DEF SendMessage, Free, PlaceInv
<1> QED BY <1>1, <1>2, <1>3 DEF PlaceInv, OnePlace

\* A step that removes the messages S and gives each of them a fate.
LEMMA LeavingKeepsPlace ==
  ASSUME TypeOK, PlaceInv, NEW S \in SUBSET Stored, NEW f \in Fates \ {"none"},
         Stored' = Stored \ S, fate' = [m \in Msg |-> IF m \in S THEN f ELSE fate[m]],
         UNCHANGED <<accepted, carried>>, carried = {}
  PROVE  PlaceInv'
<1>1. Accepted' = Accepted /\ Accepted \subseteq Msg
  BY DEF Accepted, TypeOK
<1> QED BY <1>1 DEF PlaceInv, OnePlace, TypeOK

\* Every action preserves PlaceInv.
LEMMA NextPlace == ASSUME TypeOK, PlaceInv, [Next]_vars PROVE PlaceInv'
<1>1. CASE UNCHANGED <<table, carried, receiving, fate, accepted>>
  BY <1>1 DEF PlaceInv, OnePlace, Accepted
<1>2. ASSUME NEW m \in Msg, NEW delay \in Delays, SendMessage(m, delay) PROVE PlaceInv'
  BY <1>2, SendPlace
<1>3. CASE ReceiveRedrive
  <2>1. Accepted' = Accepted /\ carried = {} /\ fate' = fate /\ receiving' = TRUE
    BY <1>3 DEF ReceiveRedrive, Accepted, Free, PlaceInv
  <2>2. CASE RedriveCommit(Redrivable)
    <3>1. carried' \subseteq Stored /\ Stored' = Stored \ carried'
      BY <2>2 DEF RedriveCommit, Redrivable
    <3> QED BY <2>1, <3>1 DEF PlaceInv, OnePlace
  <2>3. CASE UNCHANGED <<table, carried>>
    BY <2>1, <2>3 DEF PlaceInv, OnePlace
  <2> QED BY <1>3, <2>2, <2>3 DEF ReceiveRedrive
<1>4. ASSUME NEW m \in Msg, RedriveCall(m) PROVE PlaceInv'
  <2>1. Accepted' = Accepted /\ m \notin Stored /\ table' = table /\ receiving'
    BY <1>4 DEF RedriveCall, Accepted, PlaceInv, OnePlace
  <2>2. carried' = carried \ {m} /\ fate' = [fate EXCEPT ![m] = "redriven"]
    BY <1>4 DEF RedriveCall
  <2> QED BY <2>1, <2>2 DEF PlaceInv, OnePlace, TypeOK
<1>5. ASSUME NEW n \in Batches, NEW vt \in Timeouts, ReceiveReturns(n, vt) PROVE PlaceInv'
  <2>1. PICK gone \in SUBSET Stored :
          Stored' = Stored \ gone /\ fate' = [m \in Msg |-> IF m \in gone THEN "expired" ELSE fate[m]]
    BY <1>5, ReceiveEffect
  <2>2. carried = {} /\ UNCHANGED <<accepted, carried>>
    BY <1>5 DEF ReceiveReturns
  <2> QED BY <2>1, <2>2, LeavingKeepsPlace DEF Fates
<1>6. ASSUME NEW m \in Msg, DeleteMessage(m) PROVE PlaceInv'
  <2>1. /\ carried = {} /\ {m} \in SUBSET Stored /\ Stored' = Stored \ {m}
        /\ fate' = [fate EXCEPT ![m] = "deleted"] /\ UNCHANGED <<accepted, carried>>
    BY <1>6 DEF DeleteMessage, HasHandle, Free, PlaceInv
  <2>2. fate' = [k \in Msg |-> IF k \in {m} THEN "deleted" ELSE fate[k]]
    BY <2>1 DEF TypeOK
  <2> QED BY <2>1, <2>2, LeavingKeepsPlace DEF Fates
<1>7. CASE DeleteEmptyHandle
  <2>1. PICK hit \in SUBSET Stored :
          Stored' = Stored \ hit /\ fate' = [m \in Msg |-> IF m \in hit THEN "deleted" ELSE fate[m]]
    BY <1>7 DEF DeleteEmptyHandle
  <2>2. carried = {} /\ UNCHANGED <<accepted, carried>>
    BY <1>7 DEF DeleteEmptyHandle, Free, PlaceInv
  <2> QED BY <2>1, <2>2, LeavingKeepsPlace DEF Fates
<1>8. ASSUME NEW m \in Msg, NEW r \in {GivenBack(table[m])} \cup {Extended(table[m], vt) : vt \in Timeouts},
             m \in Stored, table' = [table EXCEPT ![m] = r],
             UNCHANGED <<carried, receiving, fate, accepted>>
      PROVE  PlaceInv'
  <2>1. Stored' = Stored /\ Accepted' = Accepted
    BY <1>8 DEF Accepted
  <2> QED BY <1>8, <2>1 DEF PlaceInv, OnePlace
<1>9. CASE Purge
  <2>1. /\ Stored' = Stored \ Stored /\ carried = {} /\ UNCHANGED <<accepted, carried>>
        /\ fate' = [m \in Msg |-> IF m \in Stored THEN "purged" ELSE fate[m]]
    BY <1>9 DEF Purge, Free, PlaceInv
  <2> QED BY <2>1, LeavingKeepsPlace DEF Fates
<1>10. CASE Crash
  <2>1. /\ Accepted' = Accepted /\ Stored' = Stored /\ carried' = {}
        /\ fate' = [m \in Msg |-> IF m \in carried THEN "lost" ELSE fate[m]]
    BY <1>10 DEF Crash, Accepted
  <2>2. Accepted \subseteq Msg
    BY DEF Accepted, TypeOK
  <2> QED BY <2>1, <2>2 DEF PlaceInv, OnePlace
<1> QED
  BY <1>1, <1>2, <1>3, <1>4, <1>5, <1>6, <1>7, <1>8, <1>9, <1>10
  DEF Next, vars, Open, SendDuplicate, SendFails, ChangeMessageVisibilityZero,
      ChangeMessageVisibility, HasHandle, Close, Tick

\* A message accepted by a SQLite or Badger store is in one place at any time,
\* through failed transactions, crashes inside a redrive and reopening.
THEOREM EveryMessageInOnePlace == Spec => []OnePlace
<1>1. Init => PlaceInv
  BY DEF Init, PlaceInv, OnePlace, Accepted
<1> QED BY <1>1, InitType, NextType, NextPlace, PTL DEF Spec, PlaceInv

(***************************************************************************)
(* FIFO exclusion and order over SQLite                                    *)
(***************************************************************************)
\* What the query and the loop after it select: visible rows of groups that
\* have nothing in flight, one for each group, and the oldest.
LEMMA SelectionFacts ==
  ASSUME TypeOK, backend = "sqlite", NEW S \in SUBSET Stored, NEW n, NEW C \in Selections(S, n)
  PROVE  /\ C \subseteq S
         /\ \A m \in C : Visible(m)
         /\ \A m \in C, k \in S : SameGroup(m, k) => ~InFlight(k)
         /\ \A m, k \in C : SameGroup(m, k) => m = k
         /\ \A m \in C, k \in S : SameGroup(m, k) /\ Visible(k) => table[m].sent <= table[k].sent
<1>1. PICK L \in Oldest(SQLiteReady(S), n) :
        /\ C \in SUBSET L
        /\ \A m \in L : m \in C \/ \E k \in C : SameGroup(m, k) /\ table[k].sent <= table[m].sent
        /\ \A m \in L : m \in C => ~\E k \in C \ {m} : SameGroup(m, k)
  BY DEF Selections, SQLiteSelections
<1>2. L \subseteq SQLiteReady(S) /\ \A m \in L, k \in SQLiteReady(S) \ L : table[m].sent <= table[k].sent
  BY DEF Oldest
<1>3. \A m \in SQLiteReady(S), k \in S : SameGroup(m, k) => ~InFlight(k)
  BY DEF SQLiteReady, SameGroup, Grouped
<1>4. \A m \in SQLiteReady(S), k \in S : SameGroup(m, k) /\ Visible(k) => k \in SQLiteReady(S)
  BY DEF SQLiteReady, SameGroup, Grouped
<1>5. C \subseteq S /\ \A m \in C : m \in SQLiteReady(S) /\ Visible(m)
  BY <1>1, <1>2 DEF SQLiteReady
<1>6. \A m, k \in C : SameGroup(m, k) => m = k
  BY <1>1
<1>7. ASSUME NEW m \in C, NEW k \in S, SameGroup(m, k), Visible(k)
      PROVE  table[m].sent <= table[k].sent
  <2>1. k \in SQLiteReady(S)
    BY <1>4, <1>5, <1>7
  <2>2. CASE k \notin L
    BY <1>1, <1>2, <2>1, <2>2
  <2>3. CASE k \in C
    <3>1. m = k
      BY <1>6, <1>7, <2>3
    <3>2. table[k].sent \in Nat
      BY <1>7 DEF TypeOK, Row
    <3> QED BY <3>1, <3>2
  <2>4. ASSUME k \in L, NEW c \in C, SameGroup(k, c), table[c].sent <= table[k].sent
        PROVE  table[m].sent <= table[k].sent
    <3>1. c = m
      BY <1>6, <1>7, <2>4 DEF SameGroup
    <3> QED BY <2>4, <3>1
  <2> QED BY <1>1, <2>2, <2>3, <2>4
<1> QED BY <1>3, <1>5, <1>6, <1>7

\* A step after which fewer messages are in flight, none of them newly extended.
LEMMA FewerInFlight ==
  ASSUME OneInFlightPerGroup, UNCHANGED conf, Stored' \subseteq Stored,
         \A m \in Stored' : InFlight(m)' => InFlight(m) /\ (m \in revived => m \in revived')
  PROVE  OneInFlightPerGroup'
BY DEF OneInFlightPerGroup, SameGroup, Grouped

\* Every action preserves OneInFlightPerGroup.
LEMMA NextInFlight == ASSUME TypeOK, OneInFlightPerGroup, [Next]_vars PROVE OneInFlightPerGroup'
<1>1. CASE UNCHANGED <<conf, now, table, revived>>
  BY <1>1, FewerInFlight DEF InFlight, Visible
<1>2. ASSUME NEW m \in Msg, NEW delay \in Delays, SendMessage(m, delay) PROVE OneInFlightPerGroup'
  <2>1. /\ UNCHANGED <<conf, revived, now>> /\ Stored' = Stored \cup {m}
        /\ table'[m].handle = NoHandle
        /\ \A k \in Stored : k # m => table'[k] = table[k]
    BY <1>2 DEF SendMessage
  <2>2. \A k \in Stored' : InFlight(k)' => k \in Stored /\ InFlight(k)
    BY <2>1 DEF InFlight, Visible
  <2> QED BY <2>1, <2>2 DEF OneInFlightPerGroup, SameGroup, Grouped
<1>3. CASE ReceiveRedrive
  <2>1. /\ UNCHANGED <<conf, now>> /\ revived' = revived \cap Stored'
        /\ Stored' \subseteq Stored /\ \A m \in Stored' : table'[m] = table[m]
    BY <1>3 DEF ReceiveRedrive, RedriveCommit
  <2> QED BY <2>1, FewerInFlight DEF InFlight, Visible
<1>4. ASSUME NEW n \in Batches, NEW vt \in Timeouts, ReceiveReturns(n, vt) PROVE OneInFlightPerGroup'
  <2>1. SUFFICES ASSUME backend = "sqlite" PROVE OneInFlightPerGroup'
    BY <1>4 DEF OneInFlightPerGroup, ReceiveReturns
  <2>2. UNCHANGED <<conf, now>>
    BY <1>4 DEF ReceiveReturns
  <2>3. PICK gone \in SUBSET Stored : \E C \in Selections(Stored \ gone, n), t \in {vt, DefaultVisibility} :
          \E U \in SUBSET C :
            /\ table' = [m \in Stored \ gone |-> IF m \in U THEN ReceivedRow(table[m], t) ELSE table[m]]
            /\ fate' = [m \in Msg |-> IF m \in gone THEN "expired" ELSE fate[m]]
            /\ revived' = revived \ (U \cup gone)
    BY <1>4, ReceiveEffect
  <2>4. PICK C \in Selections(Stored \ gone, n), t \in {vt, DefaultVisibility} :
          \E U \in SUBSET C :
            /\ table' = [m \in Stored \ gone |-> IF m \in U THEN ReceivedRow(table[m], t) ELSE table[m]]
            /\ revived' = revived \ (U \cup gone)
    BY <2>3
  <2>5. PICK U \in SUBSET C :
            /\ Stored' = Stored \ gone
            /\ \A m \in Stored' \ U : table'[m] = table[m]
            /\ revived' = revived \ (U \cup gone)
    <3>1. PICK U \in SUBSET C :
            /\ table' = [m \in Stored \ gone |-> IF m \in U THEN ReceivedRow(table[m], t) ELSE table[m]]
            /\ revived' = revived \ (U \cup gone)
      BY <2>4
    <3>2. Stored' = Stored \ gone /\ \A m \in Stored' \ U : table'[m] = table[m]
      BY <3>1
    <3> QED BY <3>1, <3>2
  <2>6. /\ C \subseteq Stored'
        /\ \A m \in C, k \in Stored' : SameGroup(m, k) => ~InFlight(k)
        /\ \A m, k \in C : SameGroup(m, k) => m = k
    BY <2>1, <2>5, SelectionFacts
  <2>7. \A m \in Stored' \ U : InFlight(m)' => InFlight(m)
    BY <2>2, <2>5 DEF InFlight, Visible
  <2> SUFFICES ASSUME NEW m \in Stored' \ revived', NEW k \in Stored' \ revived',
                      SameGroup(m, k), InFlight(m)', InFlight(k)'
               PROVE  m = k
    BY <2>2 DEF OneInFlightPerGroup, SameGroup, Grouped
  <2>8. SameGroup(k, m)
    BY DEF SameGroup
  <2>9. CASE m \in U \/ k \in U
    BY <2>5, <2>6, <2>7, <2>8, <2>9
  <2>10. CASE m \notin U /\ k \notin U
    BY <2>1, <2>5, <2>7, <2>10 DEF OneInFlightPerGroup
  <2> QED BY <2>9, <2>10
<1>5. ASSUME NEW m \in Msg, DeleteMessage(m) PROVE OneInFlightPerGroup'
  BY <1>5, FewerInFlight DEF DeleteMessage, InFlight, Visible
<1>6. CASE DeleteEmptyHandle
  <2>1. PICK hit : table' = Without(hit) /\ revived' = revived \ hit
    BY <1>6 DEF DeleteEmptyHandle
  <2>2. UNCHANGED <<conf, now>>
    BY <1>6 DEF DeleteEmptyHandle
  <2> QED BY <2>1, <2>2, FewerInFlight DEF InFlight, Visible
<1>7. ASSUME NEW m \in Msg, ChangeMessageVisibilityZero(m) PROVE OneInFlightPerGroup'
  <2>1. /\ UNCHANGED <<conf, now>> /\ Stored' = Stored /\ revived' = revived \ {m}
        /\ \A k \in Stored : k # m => table'[k] = table[k]
        /\ table'[m].handle = NoHandle
    BY <1>7 DEF ChangeMessageVisibilityZero, HasHandle, GivenBack
  <2> QED BY <2>1, FewerInFlight DEF InFlight, Visible
<1>8. ASSUME NEW m \in Msg, NEW vt \in Timeouts, ChangeMessageVisibility(m, vt) PROVE OneInFlightPerGroup'
  <2>1. /\ UNCHANGED <<conf, now>> /\ Stored' = Stored
        /\ \A k \in Stored : k # m => table'[k] = table[k]
        /\ table[m].handle # NoHandle
        /\ revived' = IF Visible(m) THEN revived \cup {m} ELSE revived
    BY <1>8 DEF ChangeMessageVisibility, HasHandle
  <2>2. \A k \in Stored' \ revived' : InFlight(k)' => InFlight(k)
    BY <2>1 DEF InFlight, Visible
  <2> QED BY <2>1, <2>2 DEF OneInFlightPerGroup, SameGroup, Grouped
<1>9. CASE Purge
  BY <1>9, FewerInFlight DEF Purge
<1>10. CASE Tick
  <2>1. now' = now + 1 /\ UNCHANGED <<conf, table, revived>>
    BY <1>10 DEF Tick
  <2>2. \A m \in Stored : Visible(m) => Visible(m)'
    BY <2>1 DEF Visible, TypeOK, Row
  <2> QED BY <2>1, <2>2, FewerInFlight DEF InFlight
<1> QED
  BY <1>1, <1>2, <1>3, <1>4, <1>5, <1>6, <1>7, <1>8, <1>9, <1>10
  DEF Next, vars, Open, SendDuplicate, SendFails, RedriveCall, Close, Crash

\* Over SQLite two messages of a group are in flight together only after the
\* lapsed handle of one was extended, whatever else happens.
THEOREM SQLiteGroupsAreExclusive == Spec => []OneInFlightPerGroup
<1>1. Init => OneInFlightPerGroup
  BY DEF Init, OneInFlightPerGroup
<1> QED BY <1>1, InitType, NextType, NextInFlight, PTL DEF Spec

\* Only a receive raises a receive count, and it does so for what it selected.
LEMMA NextGroupOrder ==
  ASSUME TypeOK, [Next]_vars, backend = "sqlite",
         NEW m \in Stored, m \in Stored', table'[m].count > table[m].count,
         NEW k \in Stored, k \in Stored', SameGroup(m, k), table[k].sent < table[m].sent
  PROVE  k \in Delayed
<1>1. table[m].count \in Nat /\ table[k].sent \in Nat /\ table[m].sent \in Nat
  BY DEF TypeOK, Row
<1>2. CASE table'[m].count = table[m].count
  BY <1>1, <1>2
<1>3. ASSUME NEW n \in Batches, NEW vt \in Timeouts, ReceiveReturns(n, vt) PROVE k \in Delayed
  <2>1. PICK gone \in SUBSET Stored : \E C \in Selections(Stored \ gone, n), t \in {vt, DefaultVisibility} :
          \E U \in SUBSET C :
            /\ table' = [i \in Stored \ gone |-> IF i \in U THEN ReceivedRow(table[i], t) ELSE table[i]]
            /\ fate' = [i \in Msg |-> IF i \in gone THEN "expired" ELSE fate[i]]
            /\ revived' = revived \ (U \cup gone)
    BY <1>3, ReceiveEffect
  <2>2. PICK C \in Selections(Stored \ gone, n) : \E U \in SUBSET C :
            Stored' = Stored \ gone /\ \A i \in Stored' \ U : table'[i] = table[i]
    BY <2>1
  <2>3. CASE m \in C
    <3>1. k \in Stored \ gone
      BY <2>2
    <3>2. /\ \A i \in C, j \in Stored \ gone : SameGroup(i, j) => ~InFlight(j)
          /\ \A i \in C, j \in Stored \ gone :
               SameGroup(i, j) /\ Visible(j) => table[i].sent <= table[j].sent
      BY <2>2, SelectionFacts
    <3>3. ~InFlight(k) /\ ~Visible(k)
      BY <1>1, <2>3, <3>1, <3>2
    <3> QED BY <3>3 DEF Delayed, InFlight
  <2>4. CASE m \notin C
    BY <1>2, <2>2, <2>4
  <2> QED BY <2>3, <2>4
<1>4. CASE UNCHANGED table
  BY <1>2, <1>4
<1>5. ASSUME NEW i \in Msg, NEW delay \in Delays, SendMessage(i, delay) PROVE table'[m] = table[m]
  BY <1>5 DEF SendMessage
<1>6. ASSUME ReceiveRedrive PROVE table'[m] = table[m]
  BY <1>6 DEF ReceiveRedrive, RedriveCommit
<1>7. ASSUME NEW i \in Msg, DeleteMessage(i) PROVE table'[m] = table[m]
  BY <1>7 DEF DeleteMessage
<1>8. ASSUME DeleteEmptyHandle PROVE table'[m] = table[m]
  BY <1>8 DEF DeleteEmptyHandle
<1>9. ASSUME NEW i \in Msg, ChangeMessageVisibilityZero(i) PROVE table'[m].count = table[m].count
  BY <1>9 DEF ChangeMessageVisibilityZero, GivenBack, TypeOK
<1>10. ASSUME NEW i \in Msg, NEW vt \in Timeouts, ChangeMessageVisibility(i, vt)
       PROVE  table'[m].count = table[m].count
  BY <1>10 DEF ChangeMessageVisibility, Extended, TypeOK
<1>11. CASE Purge
  BY <1>11 DEF Purge
<1> QED
  BY <1>2, <1>3, <1>4, <1>5, <1>6, <1>7, <1>8, <1>9, <1>10, <1>11
  DEF Next, vars, Open, SendDuplicate, SendFails, RedriveCall, Close, Crash, Tick

\* Over SQLite no message of a group overtakes an older one, but for its delay.
THEOREM SQLiteGroupsAreOrdered == Spec => GroupOrder
<1>1. TypeOK /\ [Next]_vars =>
        [\A m \in Stored \cap Stored' :
          backend = "sqlite" /\ table'[m].count > table[m].count =>
            \A k \in Stored \cap Stored' :
              SameGroup(m, k) /\ table[k].sent < table[m].sent => k \in Delayed]_vars
  <2> SUFFICES ASSUME TypeOK, [Next]_vars, NEW m \in Stored, m \in Stored',
                      backend = "sqlite", table'[m].count > table[m].count,
                      NEW k \in Stored, k \in Stored', SameGroup(m, k), table[k].sent < table[m].sent
               PROVE  k \in Delayed
    OBVIOUS
  <2> QED BY NextGroupOrder
<1> QED BY <1>1, InitType, NextType, PTL DEF Spec, GroupOrder

(***************************************************************************)
(* Sequence numbers                                                        *)
(***************************************************************************)
\* No message is accepted twice, and while the store is open no stored number is
\* above its counter.
SequenceInv ==
  /\ SequenceOrder
  /\ \A i, j \in DOMAIN accepted : accepted[i] = accepted[j] => i = j
  /\ isFifo /\ ~closed => \A m \in Stored : table[m].seq <= sequenceCounter

\* Apart from sending, a step stores nothing and changes no row's number.
LEMMA RowsKeepNumbers ==
  ASSUME TypeOK, [Next]_vars
  PROVE  \/ \E m \in Msg, delay \in Delays : SendMessage(m, delay)
         \/ /\ UNCHANGED <<conf, accepted>> /\ Stored' \subseteq Stored
            /\ \A m \in Stored' : table'[m].seq = table[m].seq
<1> DEFINE Keeps == /\ UNCHANGED <<conf, accepted>> /\ Stored' \subseteq Stored
                    /\ \A m \in Stored' : table'[m].seq = table[m].seq
<1>1. CASE UNCHANGED <<conf, table, accepted>>
  BY <1>1
<1>2. CASE ReceiveRedrive
  BY <1>2 DEF ReceiveRedrive, RedriveCommit
<1>3. ASSUME NEW n \in Batches, NEW vt \in Timeouts, ReceiveReturns(n, vt) PROVE Keeps
  <2>1. PICK gone \in SUBSET Stored : \E C \in Selections(Stored \ gone, n), t \in {vt, DefaultVisibility} :
          \E U \in SUBSET C :
            /\ table' = [i \in Stored \ gone |-> IF i \in U THEN ReceivedRow(table[i], t) ELSE table[i]]
            /\ fate' = [i \in Msg |-> IF i \in gone THEN "expired" ELSE fate[i]]
            /\ revived' = revived \ (U \cup gone)
    BY <1>3, ReceiveEffect
  <2>2. Stored' \subseteq Stored /\ \A m \in Stored' : table'[m].seq = table[m].seq
    BY <2>1 DEF ReceivedRow
  <2> QED BY <1>3, <2>2 DEF ReceiveReturns
<1>4. ASSUME NEW m \in Msg, DeleteMessage(m) PROVE Keeps
  BY <1>4 DEF DeleteMessage
<1>5. CASE DeleteEmptyHandle
  BY <1>5 DEF DeleteEmptyHandle
<1>6. ASSUME NEW m \in Msg, ChangeMessageVisibilityZero(m) PROVE Keeps
  BY <1>6 DEF ChangeMessageVisibilityZero, GivenBack, TypeOK
<1>7. ASSUME NEW m \in Msg, NEW vt \in Timeouts, ChangeMessageVisibility(m, vt) PROVE Keeps
  BY <1>7 DEF ChangeMessageVisibility, Extended, TypeOK
<1>8. CASE Purge
  BY <1>8 DEF Purge
<1> QED
  BY <1>1, <1>2, <1>3, <1>4, <1>5, <1>6, <1>7, <1>8
  DEF Next, vars, Open, SendDuplicate, SendFails, RedriveCall, Close, Crash, Tick

\* A send gives its message a number above all that are stored.
LEMMA SendSequence ==
  ASSUME TypeOK, PlaceInv, SequenceInv, NEW m \in Msg, NEW delay \in Delays, SendMessage(m, delay)
  PROVE  SequenceInv'
<1>1. /\ m \notin Accepted /\ m \notin Stored
  BY DEF SendMessage, Free, PlaceInv, OnePlace
<1>2. /\ DOMAIN accepted' = 1..(Len(accepted) + 1) /\ Len(accepted) \in Nat
      /\ accepted'[Len(accepted) + 1] = m
      /\ \A i \in DOMAIN accepted : i \in 1..Len(accepted) /\ accepted'[i] = accepted[i]
      /\ DOMAIN accepted = 1..Len(accepted)
  BY AcceptedAppend, LenProperties DEF SendMessage, TypeOK
<1>3. \A i \in DOMAIN accepted' : i \in DOMAIN accepted \/ i = Len(accepted) + 1
  BY <1>2
<1>4. \A i \in DOMAIN accepted : accepted[i] # m
  BY <1>1 DEF Accepted
<1>5. Stored' = Stored \cup {m} /\ UNCHANGED <<conf, closed>> /\ ~closed
      /\ \A k \in Stored : table'[k] = table[k]
  BY <1>1 DEF SendMessage, Free
<1>6. isFifo => table'[m].seq = sequenceCounter + 1 /\ sequenceCounter' = sequenceCounter + 1
  BY DEF SendMessage, NumberMessage
<1>7. \A k \in Stored : table[k].seq \in Nat
  BY DEF TypeOK, Row
<1>8. (\A i, j \in DOMAIN accepted : accepted[i] = accepted[j] => i = j)'
  BY <1>2, <1>3, <1>4 DEF SequenceInv
<1>9. ASSUME isFifo PROVE \A k \in Stored' : table'[k].seq <= sequenceCounter'
  BY <1>5, <1>6, <1>7, <1>9 DEF SequenceInv, TypeOK
<1>10. ASSUME isFifo, NEW i \in DOMAIN accepted', NEW j \in DOMAIN accepted', i < j,
              accepted'[i] \in Stored', accepted'[j] \in Stored'
       PROVE  table'[accepted'[i]].seq < table'[accepted'[j]].seq
  <2>1. i \in DOMAIN accepted
    BY <1>2, <1>3, <1>10
  <2>2. accepted[i] \in Stored /\ accepted'[i] = accepted[i] /\ table'[accepted[i]] = table[accepted[i]]
    BY <1>2, <1>4, <1>5, <1>10, <2>1
  <2>3. CASE j = Len(accepted) + 1
    <3>1. table[accepted[i]].seq <= sequenceCounter
      BY <1>5, <1>10, <2>2 DEF SequenceInv
    <3>2. table'[accepted'[j]].seq = sequenceCounter + 1
      BY <1>2, <1>6, <1>10, <2>3
    <3> QED BY <1>7, <2>2, <3>1, <3>2 DEF TypeOK
  <2>4. CASE j \in DOMAIN accepted
    <3>1. accepted[j] \in Stored /\ accepted'[j] = accepted[j] /\ table'[accepted[j]] = table[accepted[j]]
      BY <1>2, <1>4, <1>5, <1>10, <2>4
    <3> QED BY <1>10, <2>1, <2>2, <2>4, <3>1 DEF SequenceInv, SequenceOrder
  <2> QED BY <1>3, <2>3, <2>4
<1> QED BY <1>5, <1>8, <1>9, <1>10 DEF SequenceInv, SequenceOrder

\* Every action preserves SequenceInv.
LEMMA NextSequence == ASSUME TypeOK, PlaceInv, SequenceInv, [Next]_vars PROVE SequenceInv'
<1>1. ASSUME NEW m \in Msg, NEW delay \in Delays, SendMessage(m, delay) PROVE SequenceInv'
  BY <1>1, SendSequence
<1>2. ASSUME UNCHANGED <<conf, accepted>>, Stored' \subseteq Stored,
             \A m \in Stored' : table'[m].seq = table[m].seq
      PROVE  SequenceInv'
  <2>1. SequenceOrder' /\ (\A i, j \in DOMAIN accepted : accepted[i] = accepted[j] => i = j)'
    BY <1>2 DEF SequenceInv, SequenceOrder
  <2>2. CASE Open
    <3>1. isFifo => \A m \in Stored : table[m].seq <= sequenceCounter'
      BY <2>2 DEF Open, LoadsSequenceCounter
    <3> QED BY <1>2, <2>1, <3>1 DEF SequenceInv
  <2>3. CASE UNCHANGED sequenceCounter /\ (closed => closed')
    BY <1>2, <2>1, <2>3 DEF SequenceInv
  <2>4. ASSUME NEW m \in Msg, SendFails(m) PROVE SequenceInv'
    <3>1. isFifo => sequenceCounter' = sequenceCounter + 1
      BY <2>4 DEF SendFails, NumberMessage
    <3>2. UNCHANGED <<closed, table>>
      BY <2>4 DEF SendFails
    <3>3. isFifo /\ ~closed => \A k \in Stored : table[k].seq <= sequenceCounter'
      BY <3>1 DEF SequenceInv, TypeOK, Row
    <3> QED BY <1>2, <2>1, <3>2, <3>3 DEF SequenceInv
  <2>5. CASE UNCHANGED <<sequenceCounter, closed>>
    BY <2>3, <2>5
  <2>6. CASE Close \/ Crash
    BY <2>3, <2>6 DEF Close, Crash
  <2>7. ASSUME NEW m \in Msg, SendDuplicate(m) PROVE UNCHANGED <<sequenceCounter, closed>>
    BY <2>7 DEF SendDuplicate
  <2>8. CASE ReceiveRedrive
    BY <2>5, <2>8 DEF ReceiveRedrive
  <2>9. ASSUME NEW m \in Msg, RedriveCall(m) PROVE UNCHANGED <<sequenceCounter, closed>>
    BY <2>9 DEF RedriveCall
  <2>10. ASSUME NEW n \in Batches, NEW vt \in Timeouts, ReceiveReturns(n, vt)
         PROVE  UNCHANGED <<sequenceCounter, closed>>
    BY <2>10 DEF ReceiveReturns
  <2>11. ASSUME NEW m \in Msg, \/ DeleteMessage(m) \/ ChangeMessageVisibilityZero(m)
                              \/ \E vt \in Timeouts : ChangeMessageVisibility(m, vt)
         PROVE  UNCHANGED <<sequenceCounter, closed>>
    BY <2>11 DEF DeleteMessage, ChangeMessageVisibilityZero, ChangeMessageVisibility
  <2>12. CASE DeleteEmptyHandle \/ Purge \/ Tick \/ UNCHANGED vars
    BY <2>5, <2>12 DEF DeleteEmptyHandle, Purge, Tick, vars
  <2> QED
    BY <1>1, <2>2, <2>4, <2>5, <2>6, <2>7, <2>8, <2>9, <2>10, <2>11, <2>12 DEF Next
<1> QED BY <1>1, <1>2, RowsKeepNumbers

\* The sequence numbers of stored messages grow in the order of their inserts,
\* though the counter is only in memory and is reloaded from what is left.
THEOREM SequenceNumbersGrow == Spec => []SequenceOrder
<1>1. Init => PlaceInv /\ SequenceInv
  BY DEF Init, PlaceInv, OnePlace, Accepted, SequenceInv, SequenceOrder
<1> QED BY <1>1, InitType, NextType, NextPlace, NextSequence, PTL DEF Spec, SequenceInv

(***************************************************************************)
(* Deduplication window                                                    *)
(***************************************************************************)
\* No window reaches further than the next insert's would, and one that is not
\* over is covered by the entry in the cache.
WindowInv ==
  \A d \in DedupIds :
    /\ window[d] <= now + DedupWindow
    /\ window[d] = 0 \/ window[d] < now \/ window[d] <= dedupCache[d]

\* An entry that was cleaned away was over.
LEMMA CleanCovers ==
  ASSUME TypeOK, WindowInv, NEW d \in DedupIds
  PROVE  /\ window[d] = 0 \/ window[d] < now \/ window[d] <= CleanExpiredDedupEntries[d]
         /\ window[d] <= now + DedupWindow
         /\ window[d] \in Nat /\ now \in Nat /\ now + DedupWindow \in Nat
         /\ CleanExpiredDedupEntries[d] \in Nat
<1>1. window[d] \in Nat /\ dedupCache[d] \in Nat /\ now \in Nat /\ now + DedupWindow \in Nat
  BY LazyAssumption DEF TypeOK
<1> QED BY <1>1 DEF WindowInv, CleanExpiredDedupEntries

\* Numbering a message, whether its insert succeeds or not, covers its window.
LEMMA NumberCovers ==
  ASSUME TypeOK, WindowInv, NEW m \in Msg, NumberMessage(m), isFifo, NEW d \in DedupIds
  PROVE  /\ d = DedupOf[m] => dedupCache'[d] = now + DedupWindow
         /\ window[d] = 0 \/ window[d] < now \/ window[d] <= dedupCache'[d]
<1>1. dedupCache' = [e \in DedupIds |-> IF e = DedupOf[m] THEN now + DedupWindow
                                         ELSE CleanExpiredDedupEntries[e]]
  BY DEF NumberMessage
<1> QED BY <1>1, CleanCovers

\* Every action preserves WindowInv.
LEMMA NextWindow == ASSUME TypeOK, WindowInv, [Next]_vars PROVE WindowInv'
<1>1. CASE UNCHANGED <<now, dedupCache, window>>
  BY <1>1 DEF WindowInv
<1>2. CASE (Open \/ Purge) /\ window' = NoEntries
  <2>1. UNCHANGED now
    BY <1>2 DEF Open, Purge
  <2>2. \A d \in DedupIds : window'[d] = 0
    BY <1>2 DEF NoEntries
  <2>3. 0 <= now + DedupWindow
    BY LazyAssumption DEF TypeOK
  <2> QED BY <2>1, <2>2, <2>3 DEF WindowInv
<1>3. ASSUME NEW m \in Msg, SendDuplicate(m) PROVE WindowInv'
  <2>1. UNCHANGED <<now, window>> /\ dedupCache' = CleanExpiredDedupEntries
    BY <1>3 DEF SendDuplicate
  <2> QED BY <2>1, CleanCovers DEF WindowInv
<1>4. ASSUME NEW m \in Msg, NumberMessage(m), UNCHANGED now,
             \/ UNCHANGED window
             \/ window' = [d \in DedupIds |-> IF isFifo /\ d = DedupOf[m] THEN now + DedupWindow
                                               ELSE window[d]]
      PROVE  WindowInv'
  <2>1. CASE isFifo
    <3> SUFFICES ASSUME NEW d \in DedupIds
                 PROVE  /\ window'[d] <= now + DedupWindow
                        /\ window'[d] = 0 \/ window'[d] < now \/ window'[d] <= dedupCache'[d]
      BY <1>4 DEF WindowInv
    <3>1. CASE window'[d] = window[d]
      BY <1>4, <2>1, <3>1, NumberCovers, CleanCovers
    <3>2. CASE window'[d] = now + DedupWindow /\ d = DedupOf[m]
      BY <1>4, <2>1, <3>2, NumberCovers, CleanCovers
    <3> QED BY <1>4, <2>1, <3>1, <3>2
  <2>2. CASE ~isFifo
    <3>1. \A d \in DedupIds : window'[d] = window[d]
      BY <1>4, <2>2
    <3>2. UNCHANGED dedupCache
      BY <1>4, <2>2 DEF NumberMessage
    <3> QED BY <1>4, <3>1, <3>2 DEF WindowInv
  <2> QED BY <2>1, <2>2
<1>5. ASSUME NEW m \in Msg, NEW delay \in Delays, SendMessage(m, delay) PROVE WindowInv'
  BY <1>4, <1>5 DEF SendMessage
<1>6. ASSUME NEW m \in Msg, SendFails(m) PROVE WindowInv'
  BY <1>4, <1>6 DEF SendFails
<1>7. CASE Tick
  <2>1. now' = now + 1 /\ UNCHANGED <<dedupCache, window>>
    BY <1>7 DEF Tick
  <2>2. now \in Nat /\ DedupWindow \in Nat /\ \A d \in DedupIds : window[d] \in Nat
    BY LazyAssumption DEF TypeOK
  <2>3. ASSUME NEW d \in DedupIds
        PROVE  /\ window[d] <= now + DedupWindow => window[d] <= now + 1 + DedupWindow
               /\ window[d] < now => window[d] < now + 1
    BY <2>2
  <2> QED BY <2>1, <2>3 DEF WindowInv
<1>8. CASE Open
  BY <1>2, <1>8 DEF Open
<1>9. CASE Purge
  BY <1>2, <1>9 DEF Purge
<1> QED
  BY <1>1, <1>3, <1>5, <1>6, <1>7, <1>8, <1>9
  DEF Next, vars, ReceiveRedrive, RedriveCall, ReceiveReturns, DeleteMessage, DeleteEmptyHandle,
      ChangeMessageVisibilityZero, ChangeMessageVisibility, Close, Crash

\* A message that an action stores was not a duplicate within its window.
LEMMA NextDedup ==
  ASSUME TypeOK, WindowInv, [Next]_vars, NEW m \in Stored' \ Stored, isFifo, DedupOf[m] # NoDedup
  PROVE  window[DedupOf[m]] = 0 \/ window[DedupOf[m]] < now
<1>1. PICK k \in Msg, delay \in Delays : SendMessage(k, delay)
  BY RowsKeepNumbers
<1>2. k = m
  BY <1>1 DEF SendMessage
<1>3. DedupOf[m] \in DedupIds
  BY <1>2, LazyAssumption
<1>4. CleanExpiredDedupEntries[DedupOf[m]] = 0
  BY <1>1, <1>2 DEF SendMessage, IsDuplicate
<1> QED BY <1>3, <1>4, CleanCovers

\* A store inserts no message twice within the deduplication window of one life
\* of its cache, failed inserts included.
THEOREM DeduplicationHolds == Spec => DedupWindowHolds
<1>1. Init => WindowInv
  <2> SUFFICES ASSUME Init PROVE WindowInv
    OBVIOUS
  <2>1. now = 0 /\ \A d \in DedupIds : window[d] = 0
    BY DEF Init, NoEntries
  <2> QED BY <2>1, LazyAssumption DEF WindowInv
<1>2. TypeOK /\ WindowInv /\ [Next]_vars =>
        [\A m \in Stored' \ Stored :
          isFifo /\ DedupOf[m] # NoDedup =>
            window[DedupOf[m]] = 0 \/ window[DedupOf[m]] < now]_vars
  BY NextDedup
<1> QED BY <1>1, <1>2, InitType, NextType, NextWindow, PTL DEF Spec, DedupWindowHolds

(***************************************************************************)
(* Counters and availability                                               *)
(***************************************************************************)
\* A receive that selects nothing had nothing to select: the query has a LIMIT
\* of at least one, and the loop after it keeps the first row.
LEMMA EmptySelection ==
  ASSUME TypeOK, backend = "sqlite", NEW n \in Batches, {} \in Selections(Stored, n)
  PROVE  SQLiteReady(Stored) = {}
<1>1. PICK L \in Oldest(SQLiteReady(Stored), n) :
        \A m \in L : m \in {} \/ \E k \in {} : SameGroup(m, k) /\ table[k].sent <= table[m].sent
  BY DEF Selections, SQLiteSelections
<1>2. L = {}
  BY <1>1
<1>3. Cardinality(L) = 0
  BY <1>2, FS_EmptySet
<1>4. Cardinality(L) = IF Cardinality(SQLiteReady(Stored)) < n
                       THEN Cardinality(SQLiteReady(Stored)) ELSE n
  BY DEF Oldest
<1>5. n \in Nat \ {0}
  BY LazyAssumption
<1>6. Cardinality(SQLiteReady(Stored)) = 0
  BY <1>3, <1>4, <1>5
<1>7. IsFiniteSet(SQLiteReady(Stored))
  <2>1. SQLiteReady(Stored) \subseteq Msg
    BY DEF SQLiteReady, TypeOK
  <2> QED BY <2>1, FS_Subset, LazyAssumption
<1> QED BY <1>6, <1>7, FS_EmptySet

\* Over SQLite a receive comes back empty only when each visible message waits
\* for one of its group in flight: nothing that lapsed stays hidden.
THEOREM LapsedMessagesComeBack == Spec => []LapsedComesBack
<1>1. TypeOK => LapsedComesBack
  <2> SUFFICES ASSUME TypeOK, backend = "sqlite", NEW n \in Batches,
                      {} \in Selections(Stored, n), NEW m \in Stored, Visible(m)
               PROVE  isFifo /\ \E k \in Stored : GroupOf[k] = GroupOf[m] /\ InFlight(k)
    BY DEF LapsedComesBack, NothingHeldBack
  <2>1. m \notin SQLiteReady(Stored)
    BY EmptySelection
  <2> QED BY <2>1 DEF SQLiteReady
<1> QED BY <1>1, InitType, NextType, PTL DEF Spec

\* Every action preserves DelayedNeverReceived.
LEMMA NextDelayed == ASSUME TypeOK, DelayedNeverReceived, [Next]_vars PROVE DelayedNeverReceived'
<1>1. ASSUME UNCHANGED now, \A m \in Stored' : m \in Stored /\ table'[m] = table[m]
      PROVE  DelayedNeverReceived'
  BY <1>1 DEF DelayedNeverReceived, Delayed, Visible
<1>2. CASE UNCHANGED <<now, table>>
  BY <1>1, <1>2
<1>3. ASSUME NEW k \in Msg, UNCHANGED now,
             \A m \in Stored' : m # k => m \in Stored /\ table'[m] = table[m],
             \/ table'[k].count = 0 \/ table'[k].handle # NoHandle \/ table'[k].visible <= now
      PROVE  DelayedNeverReceived'
  BY <1>3 DEF DelayedNeverReceived, Delayed, Visible
<1>4. ASSUME NEW m \in Msg, NEW delay \in Delays, SendMessage(m, delay) PROVE DelayedNeverReceived'
  BY <1>3, <1>4 DEF SendMessage
<1>5. CASE ReceiveRedrive
  BY <1>1, <1>5 DEF ReceiveRedrive, RedriveCommit
<1>6. ASSUME NEW n \in Batches, NEW vt \in Timeouts, ReceiveReturns(n, vt)
      PROVE  DelayedNeverReceived'
  <2>1. PICK gone \in SUBSET Stored : \E C \in Selections(Stored \ gone, n), t \in {vt, DefaultVisibility} :
          \E U \in SUBSET C :
            /\ table' = [i \in Stored \ gone |-> IF i \in U THEN ReceivedRow(table[i], t) ELSE table[i]]
            /\ fate' = [i \in Msg |-> IF i \in gone THEN "expired" ELSE fate[i]]
            /\ revived' = revived \ (U \cup gone)
    BY <1>6, ReceiveEffect
  <2>2. \A m \in Stored : table[m].count + 1 # NoHandle
    BY DEF TypeOK, Row
  <2>3. \A m \in Stored' : m \in Stored /\ (table'[m] = table[m] \/ table'[m].handle # NoHandle)
    BY <2>1, <2>2 DEF ReceivedRow
  <2>4. UNCHANGED now
    BY <1>6 DEF ReceiveReturns
  <2> QED BY <2>3, <2>4 DEF DelayedNeverReceived, Delayed, Visible
<1>7. ASSUME NEW m \in Msg, DeleteMessage(m) PROVE DelayedNeverReceived'
  BY <1>1, <1>7 DEF DeleteMessage
<1>8. CASE DeleteEmptyHandle
  BY <1>1, <1>8 DEF DeleteEmptyHandle
<1>9. ASSUME NEW m \in Msg, ChangeMessageVisibilityZero(m) PROVE DelayedNeverReceived'
  <2>1. table'[m].visible = now
    BY <1>9 DEF ChangeMessageVisibilityZero, HasHandle, GivenBack
  <2>2. now <= now
    BY DEF TypeOK
  <2> QED BY <1>3, <1>9, <2>1, <2>2 DEF ChangeMessageVisibilityZero
<1>10. ASSUME NEW m \in Msg, NEW vt \in Timeouts, ChangeMessageVisibility(m, vt)
       PROVE  DelayedNeverReceived'
  <2>1. table'[m].handle # NoHandle
    BY <1>10 DEF ChangeMessageVisibility, HasHandle, Extended
  <2> QED BY <1>3, <1>10, <2>1 DEF ChangeMessageVisibility
<1>11. CASE Purge
  BY <1>1, <1>11 DEF Purge
<1>12. CASE Tick
  <2>1. now' = now + 1 /\ UNCHANGED table
    BY <1>12 DEF Tick
  <2>2. \A m \in Stored : Visible(m) => Visible(m)'
    BY <2>1 DEF Visible, TypeOK, Row
  <2> QED BY <2>1, <2>2 DEF DelayedNeverReceived, Delayed
<1> QED
  BY <1>2, <1>4, <1>5, <1>6, <1>7, <1>8, <1>9, <1>10, <1>11, <1>12
  DEF Next, vars, Open, SendDuplicate, SendFails, RedriveCall, Close, Crash

\* The counter of delayed messages never counts one that was received: receiving
\* leaves a handle, and giving back makes the message visible at once.
THEOREM DelayedWereNeverReceived == Spec => []DelayedNeverReceived
<1>1. Init => DelayedNeverReceived
  BY DEF Init, DelayedNeverReceived, Delayed
<1> QED BY <1>1, InitType, NextType, NextDelayed, PTL DEF Spec

(***************************************************************************)
(* The contract of a store (StoreContract)                                 *)
(***************************************************************************)
\* A message as the contract sees it.
Seen(m) ==
  [place |-> Place(m), received |-> IF m \in Stored THEN table[m].count ELSE 0,
   holder |-> IF m \in Stored THEN table[m].handle ELSE 0]

\* What the step made of the message m is a step of the contract.
Keeps(m) == Contract!Step(Seen(m), Seen(m)', m \in {})

LEMMA StutterKeeps == ASSUME NEW m \in Msg, UNCHANGED Seen(m) PROVE Keeps(m)
BY DEF Keeps, Contract!Step

\* A step that keeps the contract for each message is a step of the contract.
LEMMA StepsMakeNext == ASSUME \A m \in Msg : Keeps(m) PROVE Contract!Next
<1>1. [m \in Msg |-> Seen(m)]' = [m \in Msg |-> Seen(m)']
  OBVIOUS
<1>2. \A m \in Msg : \E s \in {[k \in Msg |-> Seen(k)][m]}, t \in {[k \in Msg |-> Seen(k)]'[m]} :
        Contract!Step(s, t, m \in {})
  BY <1>1 DEF Keeps
<1> QED BY <1>2 DEF Contract!Next, Seen

\* Where a message is seen.
LEMMA SeenPlaces ==
  ASSUME NEW m \in Msg
  PROVE  /\ Seen(m).place = Place(m)
         /\ m \in Stored => /\ Place(m) = IF Visible(m) THEN "visible" ELSE "hidden"
                            /\ Seen(m).received = table[m].count /\ Seen(m).holder = table[m].handle
         /\ m \notin Stored => /\ Place(m) = IF m \in carried \/ fate[m] \in {"redriven", "lost"}
                                             THEN "redriven" ELSE IF fate[m] = "none" THEN "away" ELSE fate[m]
                               /\ Seen(m).received = 0 /\ Seen(m).holder = 0
<1>1. CASE m \in Stored
  BY <1>1 DEF Place, Seen
<1>2. CASE m \notin Stored /\ (m \in carried \/ fate[m] \in {"redriven", "lost"})
  BY <1>2 DEF Place, Seen
<1>3. CASE m \notin Stored /\ ~(m \in carried \/ fate[m] \in {"redriven", "lost"})
  BY <1>3 DEF Place, Seen
<1> QED BY <1>1, <1>2, <1>3

\* The same after the step.
LEMMA SeenPlacesNext ==
  ASSUME NEW m \in Msg
  PROVE  /\ Seen(m)'.place = Place(m)'
         /\ m \in Stored' => /\ Place(m)' = IF Visible(m)' THEN "visible" ELSE "hidden"
                             /\ Seen(m)'.received = table'[m].count /\ Seen(m)'.holder = table'[m].handle
         /\ m \notin Stored' => /\ Place(m)' = IF m \in carried' \/ fate'[m] \in {"redriven", "lost"}
                                               THEN "redriven" ELSE IF fate'[m] = "none" THEN "away" ELSE fate'[m]
                                /\ Seen(m)'.received = 0 /\ Seen(m)'.holder = 0
<1>1. CASE m \in Stored'
  BY <1>1 DEF Place, Seen
<1>2. CASE m \notin Stored' /\ (m \in carried' \/ fate'[m] \in {"redriven", "lost"})
  BY <1>2 DEF Place, Seen
<1>3. CASE m \notin Stored' /\ ~(m \in carried' \/ fate'[m] \in {"redriven", "lost"})
  BY <1>3 DEF Place, Seen
<1> QED BY <1>1, <1>2, <1>3

\* A message of which nothing changed.
LEMMA UntouchedKeeps ==
  ASSUME NEW m \in Msg, UNCHANGED now,
         \/ m \in Stored /\ m \in Stored' /\ table'[m] = table[m]
         \/ m \notin Stored /\ m \notin Stored' /\ Place(m)' = Place(m)
  PROVE  Keeps(m)
<1>1. Place(m)' = Place(m)
  BY SeenPlaces, SeenPlacesNext DEF Visible
<1> QED BY <1>1, StutterKeeps DEF Seen

\* A message that leaves by a delete, a purge or its age.
LEMMA LeavingKeeps ==
  ASSUME NEW m \in Stored, m \in Msg, m \notin Stored', m \notin carried',
         fate'[m] \in {"deleted", "purged", "expired"}
  PROVE  Keeps(m)
<1>1. Seen(m).place \in {"visible", "hidden"}
  BY SeenPlaces
<1>2. Seen(m)'.place = fate'[m] /\ Seen(m)'.received = 0 /\ Seen(m)'.holder = 0
  BY SeenPlacesNext
<1> QED BY <1>1, <1>2
  DEF Keeps, Contract!Step, Contract!Acknowledge, Contract!Drop, Contract!InQueue, Contract!Ended

\* A row of a message that stays: received, given back or extended.
LEMMA RowKeeps ==
  ASSUME TypeOK, NEW m \in Stored, m \in Msg, m \in Stored', UNCHANGED now,
         \/ /\ Visible(m) /\ table'[m].count = table[m].count + 1
            /\ table'[m].handle = table[m].count + 1
         \/ /\ table[m].handle # NoHandle /\ table'[m].count = table[m].count
            /\ \/ table'[m].handle = NoHandle /\ table'[m].visible <= now
               \/ table'[m].handle = table[m].handle /\ ~(table'[m].visible <= now)
  PROVE  Keeps(m)
<1>1. Seen(m).received = table[m].count /\ Seen(m).holder = table[m].handle
      /\ Seen(m).place = IF Visible(m) THEN "visible" ELSE "hidden"
  BY SeenPlaces
<1>2. Seen(m)'.received = table'[m].count /\ Seen(m)'.holder = table'[m].handle
      /\ Seen(m)'.place = IF table'[m].visible <= now THEN "visible" ELSE "hidden"
  BY SeenPlacesNext DEF Visible
<1> QED BY <1>1, <1>2
  DEF Keeps, Contract!Step, Contract!Deliver, Contract!GiveBack, Contract!Extend, Contract!Kept, Contract!InQueue

\* What a receive selects is visible.
LEMMA SelectedVisible ==
  ASSUME NEW S \in SUBSET Stored, NEW n, NEW C \in Selections(S, n), NEW m \in C
  PROVE  Visible(m)
<1>1. CASE backend = "sqlite"
  <2>1. PICK L \in Oldest(SQLiteReady(S), n) : C \in SUBSET L
    BY <1>1 DEF Selections, SQLiteSelections
  <2> QED BY <2>1 DEF Oldest, SQLiteReady
<1>2. CASE backend # "sqlite"
  BY <1>2 DEF Selections, BadgerSelection, BadgerReady
<1> QED BY <1>1, <1>2

\* Every step keeps the contract for every message.
LEMMA NextKeeps == ASSUME TypeOK, PlaceInv, [Next]_vars, NEW k \in Msg PROVE Keeps(k)
<1> USE SeenPlaces, SeenPlacesNext
<1>0. k \in Stored => fate[k] = "none"
  BY DEF PlaceInv, OnePlace
<1>1. CASE UNCHANGED <<now, table, carried, fate>>
  BY <1>1, UntouchedKeeps
<1>2. ASSUME NEW m \in Msg, NEW delay \in Delays, SendMessage(m, delay) PROVE Keeps(k)
  <2>1. /\ carried = {} /\ m \notin Stored /\ fate[m] = "none" /\ UNCHANGED <<now, carried, fate>>
        /\ Stored' = Stored \cup {m} /\ \A i \in Stored : table'[i] = table[i]
        /\ table'[m].count = 0 /\ table'[m].handle = 0
    BY <1>2 DEF SendMessage, Free, PlaceInv
  <2>2. CASE k # m
    BY <2>1, <2>2, UntouchedKeeps
  <2>3. CASE k = m
    <3>1. Seen(m) = Contract!Away
      BY <2>1 DEF Seen, Place, Contract!Away
    <3>2. Seen(m)'.place \in {"visible", "hidden"} /\ Seen(m)'.received = 0 /\ Seen(m)'.holder = 0
      BY <2>1
    <3> QED BY <2>3, <3>1, <3>2
      DEF Keeps, Contract!Step, Contract!Accept, Contract!Kept, Contract!InQueue, Contract!Away
  <2> QED BY <2>2, <2>3
<1>3. CASE ReceiveRedrive
  <2>1. carried = {} /\ UNCHANGED <<now, fate>>
    BY <1>3 DEF ReceiveRedrive, Free, PlaceInv
  <2>2. CASE RedriveCommit(Redrivable)
    <3>1. /\ carried' = Redrivable /\ Stored' = Stored \ Redrivable
          /\ \A i \in Stored' : table'[i] = table[i]
      BY <2>2 DEF RedriveCommit
    <3>2. CASE k \in Redrivable
      <4>1. k \in Stored /\ Visible(k) /\ table[k].handle # 0
        BY <3>2 DEF Redrivable
      <4>2. Seen(k)'.place = "redriven" /\ Seen(k)'.received = 0 /\ Seen(k)'.holder = 0
        BY <3>1, <3>2
      <4>3. Seen(k).place = "visible" /\ Seen(k).holder # 0
        BY <4>1
      <4> QED BY <4>2, <4>3 DEF Keeps, Contract!Step, Contract!Redrive, Contract!Overdue, Contract!Ended
    <3>3. CASE k \notin Redrivable
      BY <2>1, <3>1, <3>3, UntouchedKeeps
    <3> QED BY <3>2, <3>3
  <2>3. CASE UNCHANGED <<table, carried>>
    BY <1>1, <2>1, <2>3
  <2> QED BY <1>3, <2>2, <2>3 DEF ReceiveRedrive
<1>4. ASSUME NEW m \in Msg, RedriveCall(m) PROVE Keeps(k)
  <2>1. /\ carried' = carried \ {m} /\ fate' = [fate EXCEPT ![m] = "redriven"] /\ UNCHANGED <<now, table>>
        /\ m \in carried
    BY <1>4 DEF RedriveCall
  <2>2. fate'[k] = IF k = m THEN "redriven" ELSE fate[k]
    BY <2>1 DEF TypeOK
  <2> QED BY <2>1, <2>2, UntouchedKeeps
<1>5. ASSUME NEW n \in Batches, NEW vt \in Timeouts, ReceiveReturns(n, vt) PROVE Keeps(k)
  <2>1. PICK gone \in SUBSET Stored : \E C \in Selections(Stored \ gone, n), t \in {vt, DefaultVisibility} :
          \E U \in SUBSET C :
            /\ table' = [i \in Stored \ gone |-> IF i \in U THEN ReceivedRow(table[i], t) ELSE table[i]]
            /\ fate' = [i \in Msg |-> IF i \in gone THEN "expired" ELSE fate[i]]
            /\ revived' = revived \ (U \cup gone)
    BY <1>5, ReceiveEffect
  <2>2. carried = {} /\ UNCHANGED <<carried, now>>
    BY <1>5 DEF ReceiveReturns
  <2>3. CASE k \in gone
    BY <2>1, <2>2, <2>3, LeavingKeeps
  <2>4. CASE k \notin Stored
    <3>1. k \notin gone /\ k \notin Stored' /\ fate'[k] = fate[k]
      BY <2>1, <2>4
    <3> QED BY <2>2, <2>4, <3>1, UntouchedKeeps
  <2>5. CASE k \in Stored \ gone
    <3>1. \A C \in Selections(Stored \ gone, n) : k \in C => Visible(k)
      BY SelectedVisible
    <3>A. \E C \in Selections(Stored \ gone, n), t \in {vt, DefaultVisibility} : \E U \in SUBSET C :
            table'[k] = IF k \in U THEN ReceivedRow(table[k], t) ELSE table[k]
      BY <2>1, <2>5
    <3>B. table'[k] = table[k] \/ (Visible(k) /\ \E t : table'[k] = ReceivedRow(table[k], t))
      BY <3>A, <3>1
    <3>2. \/ table'[k] = table[k]
          \/ /\ Visible(k) /\ table'[k].count = table[k].count + 1
             /\ table'[k].handle = table[k].count + 1
      <4>1. ASSUME NEW t, table'[k] = ReceivedRow(table[k], t)
            PROVE  table'[k].count = table[k].count + 1 /\ table'[k].handle = table[k].count + 1
        BY <4>1 DEF ReceivedRow
      <4> QED BY <3>B, <4>1
    <3>3. k \in Stored'
      BY <2>1, <2>5
    <3> QED BY <2>2, <2>5, <3>2, <3>3, UntouchedKeeps, RowKeeps
  <2> QED BY <2>3, <2>4, <2>5
<1>6. ASSUME NEW m \in Msg, DeleteMessage(m) PROVE Keeps(k)
  <2>1. /\ carried = {} /\ m \in Stored /\ UNCHANGED <<carried, now>>
        /\ Stored' = Stored \ {m} /\ \A i \in Stored' : table'[i] = table[i]
        /\ fate' = [fate EXCEPT ![m] = "deleted"]
    BY <1>6 DEF DeleteMessage, HasHandle, Free, PlaceInv
  <2>2. fate'[k] = IF k = m THEN "deleted" ELSE fate[k]
    BY <2>1 DEF TypeOK
  <2> QED BY <2>1, <2>2, UntouchedKeeps, LeavingKeeps
<1>7. CASE DeleteEmptyHandle
  <2>0. PICK hit : /\ table' = Without(hit) /\ \A i \in hit : i \in Stored
                   /\ fate' = [i \in Msg |-> IF i \in hit THEN "deleted" ELSE fate[i]]
                   /\ revived' = revived \ hit
    BY <1>7 DEF DeleteEmptyHandle
  <2>1. hit \in SUBSET Stored /\ Stored' = Stored \ hit /\ \A i \in Stored' : table'[i] = table[i]
    BY <2>0
  <2>2. carried = {} /\ UNCHANGED <<carried, now>>
    BY <1>7 DEF DeleteEmptyHandle, Free, PlaceInv
  <2>3. fate'[k] = IF k \in hit THEN "deleted" ELSE fate[k]
    BY <2>0
  <2> QED BY <2>1, <2>2, <2>3, UntouchedKeeps, LeavingKeeps
<1>8. ASSUME NEW m \in Msg, ChangeMessageVisibilityZero(m) PROVE Keeps(k)
  <2>1. /\ UNCHANGED <<carried, now, fate>> /\ m \in Stored /\ table[m].handle # NoHandle
        /\ table' = [table EXCEPT ![m] = GivenBack(table[m])]
    BY <1>8 DEF ChangeMessageVisibilityZero, HasHandle
  <2>2. Stored' = Stored /\ \A i \in Stored : table'[i] = IF i = m THEN GivenBack(table[m]) ELSE table[i]
    BY <2>1
  <2>3. now <= now
    BY DEF TypeOK
  <2>4. CASE k = m
    BY <2>1, <2>2, <2>3, <2>4, RowKeeps DEF GivenBack
  <2>5. CASE k # m
    BY <2>1, <2>2, <2>5, UntouchedKeeps
  <2> QED BY <2>4, <2>5
<1>9. ASSUME NEW m \in Msg, NEW vt \in Timeouts, ChangeMessageVisibility(m, vt) PROVE Keeps(k)
  <2>1. /\ UNCHANGED <<carried, now, fate>> /\ m \in Stored /\ table[m].handle # NoHandle /\ vt > 0
        /\ table' = [table EXCEPT ![m] = Extended(table[m], vt)]
    BY <1>9 DEF ChangeMessageVisibility, HasHandle
  <2>2. Stored' = Stored /\ \A i \in Stored : table'[i] = IF i = m THEN Extended(table[m], vt) ELSE table[i]
    BY <2>1
  <2>3. ~(now + vt <= now)
    BY <2>1, LazyAssumption DEF TypeOK
  <2>4. CASE k = m
    BY <2>1, <2>2, <2>3, <2>4, RowKeeps DEF Extended
  <2>5. CASE k # m
    BY <2>1, <2>2, <2>5, UntouchedKeeps
  <2> QED BY <2>4, <2>5
<1>10. CASE Purge
  <2>1. /\ carried = {} /\ UNCHANGED <<carried, now>> /\ Stored' = {}
        /\ fate' = [i \in Msg |-> IF i \in Stored THEN "purged" ELSE fate[i]]
    BY <1>10 DEF Purge, Free, PlaceInv
  <2>2. fate'[k] = IF k \in Stored THEN "purged" ELSE fate[k]
    BY <2>1
  <2> QED BY <2>1, <2>2, UntouchedKeeps, LeavingKeeps
<1>11. CASE Crash
  <2>1. carried' = {} /\ UNCHANGED <<now, table>>
        /\ fate' = [i \in Msg |-> IF i \in carried THEN "lost" ELSE fate[i]]
    BY <1>11 DEF Crash
  <2>2. fate'[k] = IF k \in carried THEN "lost" ELSE fate[k]
    BY <2>1
  <2> QED BY <2>1, <2>2, UntouchedKeeps
<1>12. CASE Tick
  <2>1. now' = now + 1 /\ UNCHANGED <<table, carried, fate>>
    BY <1>12 DEF Tick
  <2>2. k \in Stored /\ Visible(k) => Visible(k)'
    BY <2>1 DEF Visible, TypeOK, Row
  <2>3. Seen(k)'.received = Seen(k).received /\ Seen(k)'.holder = Seen(k).holder
    BY <2>1
  <2>4. CASE Place(k)' = Place(k)
    BY <2>1, <2>4, StutterKeeps DEF Seen
  <2>5. CASE Place(k)' # Place(k)
    <3>1. Seen(k).place = "hidden" /\ Seen(k)'.place = "visible"
      BY <2>1, <2>2, <2>5
    <3> QED BY <2>3, <3>1 DEF Keeps, Contract!Step, Contract!Elapse, Contract!Kept
  <2> QED BY <2>4, <2>5
<1> QED
  BY <1>1, <1>2, <1>3, <1>4, <1>5, <1>6, <1>7, <1>8, <1>9, <1>10, <1>11, <1>12
  DEF Next, vars, Open, SendDuplicate, SendFails, Close

\* The SQLite and the Badger store implement the contract of a store, message by
\* message, through failed transactions, crashes and reopening.
THEOREM StoresKeepContract == Spec => KeepsContract
<1>1. Init => PlaceInv
  BY DEF Init, PlaceInv, OnePlace, Accepted
<1>2. Init => Contract!Init
  BY DEF Init, Contract!Init, Contract!Away, Place
<1>3. TypeOK /\ PlaceInv /\ [Next]_vars => [Contract!Next]_(Contract!vars)
  BY NextKeeps, StepsMakeNext
<1> QED BY <1>1, <1>2, <1>3, InitType, NextType, NextPlace, PTL DEF Spec, KeepsContract, Contract!Spec
=============================================================================
