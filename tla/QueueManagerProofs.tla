------------------------- MODULE QueueManagerProofs -------------------------
(***************************************************************************)
(* Theorems about QueueManager, for all constants satisfying               *)
(* ManagerAssumption: any number of names, generations, goroutines and     *)
(* messages, and any redrive policies.                                     *)
(***************************************************************************)
EXTENDS QueueManager, TLAPS

USE DEF mgrVars, ghosts, msgVars, locals

(***************************************************************************)
(* Types                                                                   *)
(***************************************************************************)
\* The markers of a message are no stores, and differ from each other.
LEMMA Markers ==
  /\ Unsent \notin Stores /\ Moving \notin Stores /\ Lost \notin Stores
  /\ Dropped \notin Stores /\ Removed \notin Stores
  /\ Moving # Unsent /\ Moving # Lost /\ Moving # Dropped /\ Moving # Removed
  /\ Lost # Unsent /\ Lost # Dropped /\ Lost # Removed /\ Dropped # Unsent
<1>1. 0 \notin 1..MaxGen
  BY ManagerAssumption
<1> QED BY <1>1 DEF Stores, Unsent, Moving, Lost, Dropped, Removed

\* The store of a name that has a queue is a store, with the name in front.
LEMMA MappedStore ==
  ASSUME TypeOK, NEW q \in queues
  PROVE  /\ StoreOf(q) \in Stores /\ StoreOf(q)[1] = q /\ StoreOf(q)[2] = gen[q]
         /\ q \in Queues
<1>1. q \in Queues /\ gen[q] \in 0..MaxGen /\ gen[q] > 0
  BY DEF TypeOK
<1>2. gen[q] \in 1..MaxGen
  BY <1>1, ManagerAssumption
<1> QED BY <1>1, <1>2 DEF StoreOf, Stores

\* A store has a name and a generation.
LEMMA StoreParts ==
  ASSUME NEW s \in Stores
  PROVE  s[1] \in Queues /\ s[2] \in 1..MaxGen /\ s = <<s[1], s[2]>>
BY DEF Stores

\* The values of variables that hold nothing have the types.
LEMMA Any == AnyStore \in Stores /\ AnyMsg \in Msg
<1>1. 1 \in 1..MaxGen
  BY ManagerAssumption
<1>2. PICK q : q \in Queues
  BY ManagerAssumption
<1>3. <<q, 1>> \in Stores
  BY <1>1, <1>2 DEF Stores
<1>4. \E s : s \in Stores
  BY <1>3
<1>5. \E m : m \in Msg
  BY ManagerAssumption
<1> QED BY <1>4, <1>5 DEF AnyStore, AnyMsg

\* A goroutine that returns is idle, and the others keep what they had.
LEMMA Returned ==
  ASSUME TypeOK, NEW p \in Procs, Return(p)
  PROVE  /\ pc' \in [Procs -> ProcStates] /\ tgt' \in [Procs -> Stores]
         /\ home' \in [Procs -> Stores] /\ msg' \in [Procs -> Msg]
         /\ pc'[p] = "idle"
         /\ \A k \in Procs : k # p =>
              pc'[k] = pc[k] /\ tgt'[k] = tgt[k] /\ home'[k] = home[k] /\ msg'[k] = msg[k]
BY Any DEF Return, TypeOK, ProcStates

\* What a send may do with its message and with the ids.
LEMMA Sent ==
  ASSUME TypeOK, NEW s \in Stores, NEW m \in Msg, NEW r \in {Unsent, Lost}, SendMessage(s, m, r)
  PROVE  /\ \E w \in {s, Dropped, r} :
              /\ where' = [where EXCEPT ![m] = w]
              /\ w = Dropped => KnownAs[s[1]][m] \in seen[s]
              /\ w = r => s \notin open \/ s \in Fallible
         /\ seen' \in [Stores -> SUBSET DedupIds] /\ kept' \in [Stores -> SUBSET DedupIds]
         /\ \A t \in Stores : t \in Fallible \/ seen[t] \subseteq kept[t] =>
              t \in Fallible \/ seen'[t] \subseteq kept'[t]
<1> DEFINE id == KnownAs[s[1]][m]
           more == {id} \cap DedupIds
<1>1. more \subseteq DedupIds
  OBVIOUS
<1>2. Dropped # r /\ s # r /\ s # Dropped
  BY Markers
<1>3. CASE s \notin open /\ where' = [where EXCEPT ![m] = r] /\ UNCHANGED <<seen, kept>>
  BY <1>2, <1>3 DEF TypeOK
<1>4. CASE id \in seen[s] /\ where' = [where EXCEPT ![m] = Dropped] /\ UNCHANGED <<seen, kept>>
  BY <1>2, <1>4 DEF TypeOK
<1>5. CASE /\ seen' = [seen EXCEPT ![s] = @ \cup more] /\ kept' = [kept EXCEPT ![s] = @ \cup more]
           /\ where' = [where EXCEPT ![m] = s]
  <2> HIDE DEF id, more
  <2>1. seen' \in [Stores -> SUBSET DedupIds] /\ kept' \in [Stores -> SUBSET DedupIds]
    BY <1>1, <1>5 DEF TypeOK
  <2>2. \A t \in Stores : seen[t] \subseteq kept[t] => seen'[t] \subseteq kept'[t]
    BY <1>5 DEF TypeOK
  <2> QED BY <1>2, <1>5, <2>1, <2>2
<1>6. CASE /\ s \in Fallible /\ where' = [where EXCEPT ![m] = r]
           /\ seen' = [seen EXCEPT ![s] = @ \cup more] /\ UNCHANGED kept
  <2> HIDE DEF id, more
  <2>1. seen' \in [Stores -> SUBSET DedupIds]
    BY <1>1, <1>6 DEF TypeOK
  <2>2. \A t \in Stores : t # s => seen'[t] = seen[t]
    BY <1>6 DEF TypeOK
  <2> QED BY <1>2, <1>6, <2>1, <2>2 DEF TypeOK
<1> QED BY <1>3, <1>4, <1>5, <1>6 DEF SendMessage, Keep

\* A new manager has the types.
LEMMA InitType == Init => TypeOK
<1> SUFFICES ASSUME Init PROVE TypeOK
  OBVIOUS
<1>4. tgt \in [Procs -> Stores] /\ home \in [Procs -> Stores] /\ msg \in [Procs -> Msg]
  BY Any DEF Init
<1>5. gen \in [Queues -> 0..MaxGen]
  <2>1. 0 \in 0..MaxGen
    BY ManagerAssumption
  <2> QED BY <2>1 DEF Init
<1> QED BY <1>4, <1>5 DEF Init, TypeOK, ProcStates, MsgStates

\* Every action preserves the types.
LEMMA NextType == ASSUME TypeOK, [Next]_vars PROVE TypeOK'
<1>1. ASSUME NEW p \in Procs, NEW q \in Queues, CreateQueue(p, q) PROVE TypeOK'
  <2>1. gen[q] + 1 \in 1..MaxGen /\ gen[q] + 1 > 0
    BY <1>1, ManagerAssumption DEF CreateQueue, TypeOK
  <2>2. <<q, gen[q] + 1>> \in Stores
    BY <2>1 DEF Stores
  <2>3. gen' = [gen EXCEPT ![q] = gen[q] + 1]
    BY <1>1 DEF CreateQueue
  <2>4. gen[q] + 1 \in 0..MaxGen
    BY <2>1
  <2>5. gen' \in [Queues -> 0..MaxGen]
    BY <2>3, <2>4 DEF TypeOK
  <2>6. \A k \in queues' : gen'[k] > 0
    BY <1>1, <2>1, <2>3 DEF CreateQueue, TypeOK
  <2> QED BY <1>1, <2>2, <2>5, <2>6 DEF CreateQueue, TypeOK
<1>2. ASSUME NEW p \in Procs, NEW q \in Queues, LookupQueue(p, q) PROVE TypeOK'
  <2>1. StoreOf(q) \in Stores
    BY <1>2, MappedStore DEF LookupQueue
  <2> QED BY <1>2, <2>1 DEF LookupQueue, TypeOK, ProcStates
<1>3. ASSUME NEW p \in Procs, UseStore(p) PROVE TypeOK'
  <2>1. tgt[p] \in Stores
    BY DEF TypeOK
  <2>2. where' \in [Msg -> MsgStates] /\ seen' \in [Stores -> SUBSET DedupIds]
        /\ kept' \in [Stores -> SUBSET DedupIds]
    <3>1. ASSUME NEW m \in Msg, SendMessage(tgt[p], m, Unsent)
          PROVE  /\ where' \in [Msg -> MsgStates] /\ seen' \in [Stores -> SUBSET DedupIds]
                 /\ kept' \in [Stores -> SUBSET DedupIds]
      <4>1. PICK w \in {tgt[p], Dropped, Unsent} : where' = [where EXCEPT ![m] = w]
        BY <2>1, <3>1, Sent
      <4>2. w \in MsgStates
        BY <2>1 DEF MsgStates
      <4> QED BY <2>1, <3>1, <4>1, <4>2, Sent DEF TypeOK
    <3>2. CASE UNCHANGED <<seen, kept>> /\ \E S : where' = [m \in Msg |-> IF m \in S THEN Removed ELSE where[m]]
      BY <3>2 DEF TypeOK, MsgStates
    <3>3. CASE UNCHANGED msgVars
      BY <3>3 DEF TypeOK
    <3> QED BY <1>3, <3>1, <3>2, <3>3 DEF UseStore
  <2>3. Return(p) /\ UNCHANGED <<mgrVars, qmu, smu, pending, ghosts>>
    BY <1>3 DEF UseStore
  <2> QED BY <2>2, <2>3, Returned DEF TypeOK
<1>4. ASSUME NEW p \in Procs, NEW q \in Deletable, DeleteQueue(p, q) PROVE TypeOK'
  <2>1. StoreOf(q) \in Stores
    BY <1>4, MappedStore DEF DeleteQueue
  <2> QED BY <1>4, <2>1 DEF DeleteQueue, TypeOK, ProcStates
<1>5. ASSUME NEW p \in Procs, DeleteClose(p) PROVE TypeOK'
  <2>1. tgt[p][1] \in Queues
    BY StoreParts DEF TypeOK
  <2> QED BY <1>5, <2>1, Returned DEF DeleteClose, TypeOK
<1>6. ASSUME NEW p \in Procs, NEW s \in Stores, NEW m \in Msg, RedriveStart(p, s, m) PROVE TypeOK'
  BY <1>6 DEF RedriveStart, TypeOK, ProcStates, MsgStates
<1>7. ASSUME NEW p \in Procs, RedriveLookup(p) PROVE TypeOK'
  <2>1. CASE Dlq[home[p][1]] \in queues
    <3>1. StoreOf(Dlq[home[p][1]]) \in Stores
      BY <2>1, MappedStore
    <3> QED BY <1>7, <2>1, <3>1 DEF RedriveLookup, TypeOK, ProcStates
  <2>2. CASE Dlq[home[p][1]] \notin queues
    BY <1>7, <2>2, Returned DEF RedriveLookup, ReleaseHome, TypeOK, MsgStates
  <2> QED BY <2>1, <2>2
<1>8. ASSUME NEW p \in Procs, RedriveSend(p) PROVE TypeOK'
  <2>1. tgt[p] \in Stores /\ msg[p] \in Msg /\ SendMessage(tgt[p], msg[p], Lost)
    BY <1>8 DEF RedriveSend, TypeOK
  <2>2. where' \in [Msg -> MsgStates] /\ seen' \in [Stores -> SUBSET DedupIds]
        /\ kept' \in [Stores -> SUBSET DedupIds]
    <3>1. PICK w \in {tgt[p], Dropped, Lost} : where' = [where EXCEPT ![msg[p]] = w]
      BY <2>1, Sent
    <3>2. w \in MsgStates
      BY <2>1 DEF MsgStates
    <3> QED BY <2>1, <3>1, <3>2, Sent DEF TypeOK
  <2> QED BY <1>8, <2>2, Returned DEF RedriveSend, ReleaseHome, TypeOK
<1>9. ASSUME NEW p \in Procs, Shutdown(p) PROVE TypeOK'
  <2>1. {StoreOf(q) : q \in queues} \in SUBSET Stores
    BY MappedStore
  <2> QED BY <1>9, <2>1 DEF Shutdown, TypeOK, ProcStates
<1>10. ASSUME NEW p \in Procs, NEW s \in Stores, ShutdownClose(p, s) PROVE TypeOK'
  BY <1>10 DEF ShutdownClose, TypeOK
<1>11. ASSUME NEW p \in Procs, ShutdownReturn(p) PROVE TypeOK'
  BY <1>11, Returned DEF ShutdownReturn, TypeOK
<1>12. CASE UNCHANGED vars
  BY <1>12 DEF vars, TypeOK
<1> QED
  BY <1>1, <1>2, <1>3, <1>4, <1>5, <1>6, <1>7, <1>8, <1>9, <1>10, <1>11, <1>12 DEF Next

\* Every variable of the manager keeps its type; a name in the map has a store.
THEOREM TypeCorrect == Spec => []TypeOK
BY InitType, NextType, PTL DEF Spec

(***************************************************************************)
(* Stores and names                                                        *)
(***************************************************************************)
\* Exactly the DeleteQueue that is about to close a store holds qm.mu, and the
\* store is still the one of its name.
MutexInv ==
  \A p \in Procs :
    /\ pc[p] = "dclose" <=> qmu = p
    /\ pc[p] = "dclose" => tgt[p][1] \in queues /\ tgt[p] = StoreOf(tgt[p][1])

\* What a Shutdown still has to close is no longer the store of any name, even
\* of one that was created again.
PendingInv ==
  /\ \A p \in Procs : pc[p] # "sclose" => pending[p] = {}
  /\ \A p \in Procs : \A s \in pending[p] :
       /\ s[1] \in deleted /\ s[2] <= gen[s[1]]
       /\ s[1] \in queues => s[2] < gen[s[1]]

\* Every action preserves MutexInv: the map changes only under qm.mu.
LEMMA NextMutex == ASSUME TypeOK, MutexInv, [Next]_vars PROVE MutexInv'
<1> USE ManagerAssumption
<1>1. ASSUME NEW p \in Procs, NEW q \in Queues, CreateQueue(p, q) PROVE MutexInv'
  <2>1. \A k \in Procs : pc[k] # "dclose"
    BY <1>1 DEF CreateQueue, MutexInv
  <2> QED BY <1>1, <2>1 DEF CreateQueue, MutexInv
<1>2. ASSUME NEW p \in Procs, NEW q \in Queues, LookupQueue(p, q) PROVE MutexInv'
  BY <1>2 DEF LookupQueue, MutexInv, TypeOK, StoreOf
<1>3. ASSUME NEW p \in Procs, UseStore(p) PROVE MutexInv'
  BY <1>3, Returned DEF UseStore, MutexInv, StoreOf
<1>4. ASSUME NEW p \in Procs, NEW q \in Deletable, DeleteQueue(p, q) PROVE MutexInv'
  <2>1. \A k \in Procs : pc[k] # "dclose"
    BY <1>4 DEF DeleteQueue, MutexInv
  <2>2. StoreOf(q)[1] = q /\ q \in queues
    BY <1>4, MappedStore DEF DeleteQueue
  <2> QED BY <1>4, <2>1, <2>2 DEF DeleteQueue, MutexInv, TypeOK, StoreOf
<1>5. ASSUME NEW p \in Procs, DeleteClose(p) PROVE MutexInv'
  <2>1. \A k \in Procs : pc[k] = "dclose" => k = p
    BY <1>5 DEF DeleteClose, MutexInv
  <2>2. Return(p) /\ qmu' = NoProc
    BY <1>5 DEF DeleteClose
  <2>3. \A k \in Procs : pc'[k] # "dclose"
    BY <2>1, <2>2, Returned
  <2> QED BY <2>2, <2>3 DEF MutexInv
<1>6. ASSUME NEW p \in Procs, NEW s \in Stores, NEW m \in Msg, RedriveStart(p, s, m) PROVE MutexInv'
  BY <1>6 DEF RedriveStart, MutexInv, TypeOK, StoreOf
<1>7. ASSUME NEW p \in Procs, RedriveLookup(p) PROVE MutexInv'
  <2>1. CASE Dlq[home[p][1]] \in queues
    BY <1>7, <2>1 DEF RedriveLookup, MutexInv, TypeOK, StoreOf
  <2>2. CASE Dlq[home[p][1]] \notin queues
    BY <1>7, <2>2, Returned DEF RedriveLookup, ReleaseHome, MutexInv, StoreOf
  <2> QED BY <2>1, <2>2
<1>8. ASSUME NEW p \in Procs, RedriveSend(p) PROVE MutexInv'
  BY <1>8, Returned DEF RedriveSend, ReleaseHome, MutexInv, StoreOf
<1>9. ASSUME NEW p \in Procs, Shutdown(p) PROVE MutexInv'
  <2>1. \A k \in Procs : pc[k] # "dclose"
    BY <1>9 DEF Shutdown, MutexInv
  <2> QED BY <1>9, <2>1 DEF Shutdown, MutexInv, TypeOK
<1>10. ASSUME NEW p \in Procs, NEW s \in Stores, ShutdownClose(p, s) PROVE MutexInv'
  BY <1>10 DEF ShutdownClose, MutexInv, StoreOf
<1>11. ASSUME NEW p \in Procs, ShutdownReturn(p) PROVE MutexInv'
  BY <1>11, Returned DEF ShutdownReturn, MutexInv, StoreOf
<1>12. CASE UNCHANGED vars
  BY <1>12 DEF vars, MutexInv, StoreOf
<1> QED
  BY <1>1, <1>2, <1>3, <1>4, <1>5, <1>6, <1>7, <1>8, <1>9, <1>10, <1>11, <1>12 DEF Next

\* Every action preserves PendingInv.
LEMMA NextPending == ASSUME TypeOK, PendingInv, [Next]_vars PROVE PendingInv'
<1>1. ASSUME NEW p \in Procs, NEW q \in Queues, CreateQueue(p, q) PROVE PendingInv'
  <2>1. gen' = [gen EXCEPT ![q] = gen[q] + 1] /\ queues' = queues \cup {q}
        /\ UNCHANGED <<pc, pending, deleted>>
    BY <1>1 DEF CreateQueue
  <2>2. ASSUME NEW k \in Procs, NEW s \in pending[k]
        PROVE  s[2] <= gen'[s[1]] /\ (s[1] \in queues' => s[2] < gen'[s[1]])
    <3>1. s \in Stores
      BY DEF TypeOK
    <3>2. s[1] \in Queues /\ s[2] \in Nat
      BY <3>1, StoreParts, ManagerAssumption
    <3>3. gen[s[1]] \in Nat
      BY <3>2, ManagerAssumption DEF TypeOK
    <3>4. s[2] <= gen[s[1]] /\ (s[1] \in queues => s[2] < gen[s[1]])
      BY DEF PendingInv
    <3>5. CASE s[1] = q
      <4>1. gen'[s[1]] = gen[s[1]] + 1
        BY <2>1, <3>2, <3>5 DEF TypeOK
      <4> QED BY <3>2, <3>3, <3>4, <4>1
    <3>6. CASE s[1] # q
      BY <2>1, <3>2, <3>4, <3>6 DEF TypeOK
    <3> QED BY <3>5, <3>6
  <2> QED BY <2>1, <2>2 DEF PendingInv
<1>2. ASSUME UNCHANGED <<gen, queues, pending, deleted>>,
             \A k \in Procs : pc'[k] # "sclose" => pc[k] # "sclose"
      PROVE  PendingInv'
  BY <1>2 DEF PendingInv
<1>3. ASSUME NEW p \in Procs, DeleteClose(p) PROVE PendingInv'
  BY <1>3, Returned DEF DeleteClose, PendingInv, TypeOK
<1>4. ASSUME NEW p \in Procs, Shutdown(p) PROVE PendingInv'
  <2>1. pending' = [pending EXCEPT ![p] = {StoreOf(q) : q \in queues}]
        /\ pc' = [pc EXCEPT ![p] = "sclose"] /\ queues' = {} /\ deleted' = deleted \cup queues
        /\ UNCHANGED gen
    BY <1>4 DEF Shutdown
  <2>2. \A q \in queues : StoreOf(q)[1] = q /\ StoreOf(q)[2] = gen[q] /\ gen[q] <= gen[q]
    BY MappedStore, ManagerAssumption DEF TypeOK
  <2>3. \A s \in pending'[p] : s[1] \in deleted' /\ s[2] <= gen[s[1]]
    BY <2>1, <2>2 DEF TypeOK
  <2>4. \A k \in Procs : k # p => pending'[k] = pending[k] /\ pc'[k] = pc[k]
    BY <2>1 DEF TypeOK
  <2>5. pc'[p] = "sclose"
    BY <2>1 DEF TypeOK
  <2> QED BY <2>1, <2>3, <2>4, <2>5 DEF PendingInv
<1>5. ASSUME NEW p \in Procs, NEW s \in Stores, ShutdownClose(p, s) PROVE PendingInv'
  BY <1>5 DEF ShutdownClose, PendingInv, TypeOK
<1>6. ASSUME NEW p \in Procs, ShutdownReturn(p) PROVE PendingInv'
  BY <1>6, Returned DEF ShutdownReturn, PendingInv, TypeOK
<1>7. ASSUME NEW p \in Procs, NEW q \in Queues, LookupQueue(p, q) PROVE PendingInv'
  BY <1>2, <1>7 DEF LookupQueue, TypeOK
<1>8. ASSUME NEW p \in Procs, UseStore(p) PROVE PendingInv'
  BY <1>2, <1>8, Returned DEF UseStore
<1>9. ASSUME NEW p \in Procs, NEW q \in Deletable, DeleteQueue(p, q) PROVE PendingInv'
  BY <1>2, <1>9 DEF DeleteQueue, TypeOK
<1>10. ASSUME NEW p \in Procs, NEW s \in Stores, NEW m \in Msg, RedriveStart(p, s, m) PROVE PendingInv'
  BY <1>2, <1>10 DEF RedriveStart, TypeOK
<1>11. ASSUME NEW p \in Procs, RedriveLookup(p) PROVE PendingInv'
  <2>1. CASE Dlq[home[p][1]] \in queues
    BY <1>2, <1>11, <2>1 DEF RedriveLookup, TypeOK
  <2>2. CASE Dlq[home[p][1]] \notin queues
    BY <1>2, <1>11, <2>2, Returned DEF RedriveLookup, ReleaseHome
  <2> QED BY <2>1, <2>2
<1>12. ASSUME NEW p \in Procs, RedriveSend(p) PROVE PendingInv'
  BY <1>2, <1>12, Returned DEF RedriveSend, ReleaseHome
<1>13. CASE UNCHANGED vars
  BY <1>2, <1>13 DEF vars
<1> QED
  BY <1>1, <1>3, <1>4, <1>5, <1>6, <1>7, <1>8, <1>9, <1>10, <1>11, <1>12, <1>13 DEF Next

\* A step that leaves the map and the open stores alone.
Quiet == UNCHANGED <<gen, queues, open>>

\* Which steps do not.
LEMMA ManagerSteps ==
  ASSUME [Next]_vars
  PROVE  \/ Quiet /\ UNCHANGED <<pending, ghosts>>
         \/ \E p \in Procs, q \in Queues : CreateQueue(p, q)
         \/ \E p \in Procs : DeleteClose(p)
         \/ \E p \in Procs : Shutdown(p)
         \/ \E p \in Procs, s \in Stores : ShutdownClose(p, s)
         \/ \E p \in Procs : ShutdownReturn(p)
BY DEF Next, vars, Quiet, LookupQueue, UseStore, DeleteQueue, RedriveStart, RedriveLookup, RedriveSend

\* Every action preserves MappedStoreOpen: what a delete or a shutdown closes is
\* not the store of a name that stays.
LEMMA NextMapped ==
  ASSUME TypeOK, MutexInv, PendingInv, MappedStoreOpen, [Next]_vars
  PROVE  MappedStoreOpen'
<1>1. CASE Quiet
  BY <1>1 DEF Quiet, MappedStoreOpen, StoreOf
<1>2. ASSUME NEW p \in Procs, NEW q \in Queues, CreateQueue(p, q) PROVE MappedStoreOpen'
  <2>1. gen' = [gen EXCEPT ![q] = gen[q] + 1] /\ queues' = queues \cup {q}
        /\ open' = open \cup {<<q, gen[q] + 1>>}
    BY <1>2 DEF CreateQueue
  <2>2. queues \subseteq Queues /\ gen'[q] = gen[q] + 1 /\ \A k \in Queues : k # q => gen'[k] = gen[k]
    BY <2>1 DEF TypeOK
  <2> QED BY <2>1, <2>2 DEF MappedStoreOpen, StoreOf
<1>3. ASSUME NEW p \in Procs, DeleteClose(p) PROVE MappedStoreOpen'
  <2>1. UNCHANGED gen /\ open' = open \ {tgt[p]} /\ queues' = queues \ {tgt[p][1]}
    BY <1>3 DEF DeleteClose
  <2>2. \A q \in queues' : StoreOf(q)[1] # tgt[p][1]
    BY <2>1, MappedStore
  <2> QED BY <2>1, <2>2 DEF MappedStoreOpen, StoreOf
<1>4. ASSUME NEW p \in Procs, Shutdown(p) PROVE MappedStoreOpen'
  BY <1>4 DEF Shutdown, MappedStoreOpen
<1>5. ASSUME NEW p \in Procs, NEW s \in Stores, ShutdownClose(p, s) PROVE MappedStoreOpen'
  <2>1. UNCHANGED <<gen, queues>> /\ open' = open \ {s} /\ s \in pending[p]
    BY <1>5 DEF ShutdownClose
  <2>2. ASSUME NEW q \in queues, StoreOf(q) = s PROVE FALSE
    <3>1. s[1] = q /\ s[2] = gen[q] /\ q \in Queues
      BY <2>2, MappedStore
    <3>2. s[2] < gen[s[1]]
      BY <2>1, <3>1 DEF PendingInv
    <3>3. gen[q] \in Nat
      BY <3>1, ManagerAssumption DEF TypeOK
    <3> QED BY <3>1, <3>2, <3>3
  <2> QED BY <2>1, <2>2 DEF MappedStoreOpen, StoreOf
<1>6. ASSUME NEW p \in Procs, ShutdownReturn(p) PROVE MappedStoreOpen'
  BY <1>1, <1>6 DEF ShutdownReturn, Quiet
<1> QED BY <1>1, <1>2, <1>3, <1>4, <1>5, <1>6, ManagerSteps

\* Every action preserves NoLeakedStore.
LEMMA NextLeak ==
  ASSUME TypeOK, MutexInv, PendingInv, NoLeakedStore, [Next]_vars
  PROVE  NoLeakedStore'
<1>1. CASE Quiet /\ UNCHANGED <<pending, ghosts>>
  BY <1>1 DEF Quiet, NoLeakedStore, StoreOf
<1>2. ASSUME NEW p \in Procs, NEW q \in Queues, CreateQueue(p, q) PROVE NoLeakedStore'
  <2>1. gen' = [gen EXCEPT ![q] = gen[q] + 1] /\ queues' = queues \cup {q} /\ q \notin queues
        /\ open' = open \cup {<<q, gen[q] + 1>>} /\ UNCHANGED <<pending, abandoned>>
    BY <1>2 DEF CreateQueue
  <2>2. queues \subseteq Queues /\ gen'[q] = gen[q] + 1 /\ \A k \in Queues : k # q => gen'[k] = gen[k]
    BY <2>1 DEF TypeOK
  <2>3. \A k \in queues : k # q /\ gen'[k] = gen[k]
    BY <2>1, <2>2
  <2> QED BY <2>1, <2>2, <2>3 DEF NoLeakedStore, StoreOf
<1>3. ASSUME NEW p \in Procs, DeleteClose(p) PROVE NoLeakedStore'
  <2>1. UNCHANGED <<gen, pending, abandoned>>
        /\ open' = open \ {tgt[p]} /\ queues' = queues \ {tgt[p][1]} /\ pc[p] = "dclose"
    BY <1>3 DEF DeleteClose
  <2>2. tgt[p] = StoreOf(tgt[p][1])
    BY <2>1 DEF MutexInv
  <2> QED BY <2>1, <2>2 DEF NoLeakedStore, StoreOf
<1>4. ASSUME NEW p \in Procs, Shutdown(p) PROVE NoLeakedStore'
  <2>1. UNCHANGED <<gen, open, abandoned>> /\ pc[p] = "idle"
        /\ pending' = [pending EXCEPT ![p] = {StoreOf(q) : q \in queues}]
    BY <1>4 DEF Shutdown
  <2>2. pending[p] = {}
    BY <2>1 DEF PendingInv
  <2>3. \A k \in Procs : k # p => pending'[k] = pending[k]
    BY <2>1 DEF TypeOK
  <2>4. pending'[p] = {StoreOf(q) : q \in queues}
    BY <2>1 DEF TypeOK
  <2>5. ASSUME NEW s \in open PROVE s \in abandoned \/ \E k \in Procs : s \in pending'[k]
    BY <2>2, <2>3, <2>4 DEF NoLeakedStore
  <2> QED BY <2>1, <2>5 DEF NoLeakedStore
<1>5. ASSUME NEW p \in Procs, NEW s \in Stores, ShutdownClose(p, s) PROVE NoLeakedStore'
  <2>1. UNCHANGED <<gen, queues, abandoned>> /\ open' = open \ {s}
        /\ \A k \in Procs : pending[k] \ {s} \subseteq pending'[k]
    BY <1>5 DEF ShutdownClose, TypeOK
  <2> QED BY <2>1 DEF NoLeakedStore, StoreOf
<1>6. ASSUME NEW p \in Procs, ShutdownReturn(p) PROVE NoLeakedStore'
  <2>1. UNCHANGED <<gen, queues, open>> /\ abandoned' = abandoned \cup pending[p]
        /\ \A k \in Procs : k # p => pending'[k] = pending[k]
    BY <1>6 DEF ShutdownReturn, TypeOK
  <2> QED BY <2>1 DEF NoLeakedStore, StoreOf
<1> QED BY <1>1, <1>2, <1>3, <1>4, <1>5, <1>6, ManagerSteps

\* A new manager has no stores, and nobody holds a mutex.
LEMMA InitStores == Init => MutexInv /\ PendingInv /\ MappedStoreOpen /\ NoLeakedStore
BY ManagerAssumption DEF Init, MutexInv, PendingInv, MappedStoreOpen, NoLeakedStore

\* A name of the map always leads to an open store, however creates, deletes and
\* shutdowns interleave.
THEOREM NamesLeadToOpenStores == Spec => []MappedStoreOpen
BY InitType, NextType, InitStores, NextMutex, NextPending, NextMapped, PTL DEF Spec

\* No open store is out of reach, but those an interrupted Shutdown leaves.
THEOREM NoStoreLeaks == Spec => []NoLeakedStore
BY InitType, NextType, InitStores, NextMutex, NextPending, NextLeak, PTL DEF Spec

(***************************************************************************)
(* Messages on their way to a dead-letter queue                            *)
(***************************************************************************)
\* Every action preserves MovingIsCarried.
LEMMA NextMoving == ASSUME TypeOK, MovingIsCarried, [Next]_vars PROVE MovingIsCarried'
<1>1. ASSUME UNCHANGED smu,
             \A p \in Procs : pc'[p] \in {"rlookup", "rsend"} <=> pc[p] \in {"rlookup", "rsend"},
             \A p \in Procs : pc[p] \in {"rlookup", "rsend"} => home'[p] = home[p] /\ msg'[p] = msg[p],
             \A m \in Msg : where'[m] = Moving <=> where[m] = Moving
      PROVE  MovingIsCarried'
  BY <1>1 DEF MovingIsCarried, Carriers
<1>2. ASSUME NEW p \in Procs, NEW q \in Queues, CreateQueue(p, q) PROVE MovingIsCarried'
  BY <1>1, <1>2 DEF CreateQueue
<1>3. ASSUME NEW p \in Procs, NEW q \in Queues, LookupQueue(p, q) PROVE MovingIsCarried'
  BY <1>1, <1>3 DEF LookupQueue, TypeOK
<1>4. ASSUME NEW p \in Procs, UseStore(p) PROVE MovingIsCarried'
  <2>1. tgt[p] \in Stores
    BY DEF TypeOK
  <2>2. \A m \in Msg : where'[m] = Moving <=> where[m] = Moving
    <3>1. ASSUME NEW k \in Msg, where[k] = Unsent, SendMessage(tgt[p], k, Unsent)
          PROVE  \A m \in Msg : where'[m] = Moving <=> where[m] = Moving
      <4>1. PICK w \in {tgt[p], Dropped, Unsent} : where' = [where EXCEPT ![k] = w]
        BY <2>1, <3>1, Sent
      <4> QED BY <2>1, <3>1, <4>1, Markers DEF TypeOK
    <3>2. CASE \E S \in SUBSET {m \in Msg : where[m] = tgt[p]} \ {{}} :
                 where' = [m \in Msg |-> IF m \in S THEN Removed ELSE where[m]]
      BY <2>1, <3>2, Markers DEF TypeOK
    <3> QED BY <1>4, <3>1, <3>2 DEF UseStore
  <2> QED BY <1>1, <1>4, <2>2, Returned DEF UseStore
<1>5. ASSUME NEW p \in Procs, NEW q \in Deletable, DeleteQueue(p, q) PROVE MovingIsCarried'
  BY <1>1, <1>5 DEF DeleteQueue, TypeOK
<1>6. ASSUME NEW p \in Procs, DeleteClose(p) PROVE MovingIsCarried'
  BY <1>1, <1>6, Returned DEF DeleteClose
<1>7. ASSUME NEW p \in Procs, NEW s \in Stores, NEW m \in Msg, RedriveStart(p, s, m)
      PROVE  MovingIsCarried'
  <2>1. /\ pc[p] = "idle" /\ smu[s] = NoProc /\ where[m] = s
        /\ \A t \in Stores : smu'[t] = IF t = s THEN p ELSE smu[t]
        /\ \A k \in Procs : /\ home'[k] = IF k = p THEN s ELSE home[k]
                            /\ msg'[k] = IF k = p THEN m ELSE msg[k]
                            /\ pc'[k] = IF k = p THEN "rlookup" ELSE pc[k]
        /\ \A i \in Msg : where'[i] = IF i = m THEN Moving ELSE where[i]
    BY <1>7 DEF RedriveStart, TypeOK
  <2>2. Carriers(m) = {}
    BY <2>1, Markers DEF MovingIsCarried
  <2>3. Carriers(m)' = {p}
    BY <2>1, <2>2 DEF Carriers
  <2>4. \A i \in Msg : i # m => Carriers(i)' = Carriers(i)
    BY <2>1 DEF Carriers
  <2>5. \A i \in Msg : \A k \in Carriers(i) : k # p /\ home[k] \in Stores /\ smu[home[k]] = k /\ k # NoProc
    BY <2>1, ManagerAssumption DEF MovingIsCarried, Carriers, TypeOK
  <2>6. \A i \in Msg : \A k \in Carriers(i) : smu'[home'[k]] = k
    <3> SUFFICES ASSUME NEW i \in Msg, NEW k \in Carriers(i) PROVE smu'[home'[k]] = k
      OBVIOUS
    <3>1. k \in Procs /\ home'[k] = home[k]
      BY <2>1, <2>5 DEF Carriers
    <3>2. home[k] # s
      BY <2>1, <2>5
    <3> QED BY <2>1, <2>5, <3>1, <3>2
  <2>7. \A i \in Msg : i # m => where'[i] = where[i]
    BY <2>1
  <2>8. where'[m] = Moving /\ smu'[home'[p]] = p
    BY <2>1
  <2> SUFFICES ASSUME NEW i \in Msg
               PROVE  /\ \A k \in Carriers(i)' : where'[i] = Moving /\ smu'[home'[k]] = k
                                                /\ Carriers(i)' = {k}
                      /\ where'[i] = Moving => Carriers(i)' # {}
    BY DEF MovingIsCarried
  <2>9. CASE i = m
    BY <2>3, <2>8, <2>9
  <2>10. CASE i # m
    BY <2>4, <2>6, <2>7, <2>10 DEF MovingIsCarried
  <2> QED BY <2>9, <2>10
<1>8. ASSUME NEW p \in Procs, pc[p] \in {"rlookup", "rsend"}, ReleaseHome(p),
             NEW w, w # Moving, where' = [where EXCEPT ![msg[p]] = w]
      PROVE  MovingIsCarried'
  <2>1. /\ \A t \in Stores : smu'[t] = IF t = home[p] THEN NoProc ELSE smu[t]
        /\ pc'[p] = "idle"
        /\ \A k \in Procs : k # p => pc'[k] = pc[k] /\ home'[k] = home[k] /\ msg'[k] = msg[k]
        /\ \A i \in Msg : where'[i] = IF i = msg[p] THEN w ELSE where[i]
    <3>1. Return(p) /\ smu' = [smu EXCEPT ![home[p]] = NoProc]
      BY <1>8 DEF ReleaseHome
    <3> QED BY <1>8, <3>1, Returned DEF TypeOK
  <2>2. p \in Carriers(msg[p]) /\ msg[p] \in Msg
    BY <1>8 DEF Carriers, TypeOK
  <2>3. Carriers(msg[p]) = {p} /\ smu[home[p]] = p
    BY <2>2 DEF MovingIsCarried
  <2>4. \A i \in Msg : Carriers(i)' = Carriers(i) \ {p}
    BY <1>8, <2>1 DEF Carriers
  <2> SUFFICES ASSUME NEW i \in Msg
               PROVE  /\ \A k \in Carriers(i)' : where'[i] = Moving /\ smu'[home'[k]] = k
                                                /\ Carriers(i)' = {k}
                      /\ where'[i] = Moving => Carriers(i)' # {}
    BY DEF MovingIsCarried
  <2>5. CASE i = msg[p]
    BY <1>8, <2>1, <2>3, <2>4, <2>5
  <2>6. CASE i # msg[p]
    <3>1. Carriers(i)' = Carriers(i) /\ where'[i] = where[i]
      BY <2>1, <2>4, <2>6 DEF Carriers
    <3>2. ASSUME NEW k \in Carriers(i) PROVE smu'[home'[k]] = k
      <4>1. k \in Procs /\ k # p /\ smu[home[k]] = k /\ home[k] \in Stores
        BY <2>6, <3>2 DEF MovingIsCarried, Carriers, TypeOK
      <4>2. home[k] # home[p]
        BY <2>3, <4>1
      <4> QED BY <1>8, <2>1, <4>1, <4>2
    <3> QED BY <3>1, <3>2 DEF MovingIsCarried
  <2> QED BY <2>5, <2>6
<1>9. ASSUME NEW p \in Procs, RedriveLookup(p) PROVE MovingIsCarried'
  <2>1. CASE Dlq[home[p][1]] \in queues
    BY <1>1, <1>9, <2>1 DEF RedriveLookup, TypeOK
  <2>2. CASE Dlq[home[p][1]] \notin queues
    <3>1. /\ pc[p] = "rlookup" /\ ReleaseHome(p)
          /\ where' = [where EXCEPT ![msg[p]] = Lost]
      BY <1>9, <2>2 DEF RedriveLookup
    <3> QED BY <1>8, <3>1, Markers
  <2> QED BY <2>1, <2>2
<1>10. ASSUME NEW p \in Procs, RedriveSend(p) PROVE MovingIsCarried'
  <2>1. /\ pc[p] = "rsend" /\ ReleaseHome(p) /\ SendMessage(tgt[p], msg[p], Lost)
        /\ tgt[p] \in Stores /\ msg[p] \in Msg
    BY <1>10 DEF RedriveSend, TypeOK
  <2>2. PICK w \in {tgt[p], Dropped, Lost} : where' = [where EXCEPT ![msg[p]] = w]
    BY <2>1, Sent
  <2> QED BY <1>8, <2>1, <2>2, Markers
<1>11. ASSUME NEW p \in Procs, Shutdown(p) PROVE MovingIsCarried'
  BY <1>1, <1>11 DEF Shutdown, TypeOK
<1>12. ASSUME NEW p \in Procs, NEW s \in Stores, ShutdownClose(p, s) PROVE MovingIsCarried'
  BY <1>1, <1>12 DEF ShutdownClose
<1>13. ASSUME NEW p \in Procs, ShutdownReturn(p) PROVE MovingIsCarried'
  BY <1>1, <1>13, Returned DEF ShutdownReturn
<1>14. CASE UNCHANGED vars
  BY <1>1, <1>14 DEF vars
<1> QED
  BY <1>2, <1>3, <1>4, <1>5, <1>6, <1>7, <1>9, <1>10, <1>11, <1>12, <1>13, <1>14 DEF Next

\* A message that left its store for the dead-letter queue is in the hands of
\* one redrive, which holds the mutex of that store until it is done.
THEOREM MovingMessagesAreCarried == Spec => []MovingIsCarried
<1>1. Init => MovingIsCarried
  <2> SUFFICES ASSUME Init PROVE MovingIsCarried
    OBVIOUS
  <2>1. \A m \in Msg : where[m] # Moving /\ Carriers(m) = {}
    BY Markers DEF Init, Carriers
  <2> QED BY <2>1 DEF MovingIsCarried
<1> QED BY <1>1, InitType, NextType, NextMoving, PTL DEF Spec

\* A store that is closed belongs to a name that was deleted or shut down, and a
\* redrive that is about to send has a store its dead-letter queue had.
RedriveInv ==
  /\ \A s \in Stores : s[2] <= gen[s[1]] /\ s \notin open => s[1] \in deleted
  /\ \A p \in Procs : pc[p] = "rsend" => tgt[p][1] = Dlq[home[p][1]] /\ tgt[p][2] <= gen[tgt[p][1]]

\* Every action preserves RedriveInv.
LEMMA NextRedrive ==
  ASSUME TypeOK, MutexInv, PendingInv, RedriveInv, [Next]_vars
  PROVE  RedriveInv'
<1>1. ASSUME UNCHANGED <<gen, open>>, deleted \subseteq deleted',
             \A p \in Procs : pc'[p] = "rsend" =>
               pc[p] = "rsend" /\ tgt'[p] = tgt[p] /\ home'[p] = home[p]
      PROVE  RedriveInv'
  BY <1>1 DEF RedriveInv
<1>2. ASSUME NEW p \in Procs, NEW q \in Queues, CreateQueue(p, q) PROVE RedriveInv'
  <2>1. gen' = [gen EXCEPT ![q] = gen[q] + 1] /\ open' = open \cup {<<q, gen[q] + 1>>}
        /\ UNCHANGED <<pc, tgt, home, deleted>>
    BY <1>2 DEF CreateQueue
  <2>2. \A k \in Queues : gen[k] \in Nat /\ gen'[k] = IF k = q THEN gen[k] + 1 ELSE gen[k]
    BY <2>1, ManagerAssumption DEF TypeOK
  <2>3. ASSUME NEW s \in Stores, s[2] <= gen'[s[1]], s \notin open' PROVE s[1] \in deleted
    <3>1. s[1] \in Queues /\ s[2] \in Nat /\ s = <<s[1], s[2]>>
      BY StoreParts, ManagerAssumption
    <3>2. s[1] = q => s[2] # gen[q] + 1
      BY <2>1, <2>3, <3>1
    <3>3. s[2] <= gen[s[1]]
      BY <2>2, <2>3, <3>1, <3>2
    <3> QED BY <2>1, <2>3, <3>3 DEF RedriveInv
  <2>4. ASSUME NEW k \in Procs, pc[k] = "rsend" PROVE tgt[k][2] <= gen'[tgt[k][1]]
    <3>1. tgt[k][1] \in Queues /\ tgt[k][2] \in Nat
      BY StoreParts, ManagerAssumption DEF TypeOK
    <3>2. tgt[k][2] <= gen[tgt[k][1]]
      BY <2>4 DEF RedriveInv
    <3> QED BY <2>2, <3>1, <3>2
  <2> QED BY <2>1, <2>3, <2>4 DEF RedriveInv
<1>3. ASSUME NEW p \in Procs, NEW s \in Stores, UNCHANGED <<gen, home>>,
             tgt' = [tgt EXCEPT ![p] = s], open' = open, deleted' = deleted,
             pc'[p] # "rsend", \A k \in Procs : k # p => pc'[k] = pc[k]
      PROVE  RedriveInv'
  BY <1>3 DEF RedriveInv, TypeOK
<1>4. ASSUME NEW p \in Procs, NEW q \in Queues, LookupQueue(p, q) PROVE RedriveInv'
  BY <1>3, <1>4, MappedStore DEF LookupQueue, TypeOK
<1>5. ASSUME NEW p \in Procs, UseStore(p) PROVE RedriveInv'
  BY <1>1, <1>5, Returned DEF UseStore
<1>6. ASSUME NEW p \in Procs, NEW q \in Deletable, DeleteQueue(p, q) PROVE RedriveInv'
  BY <1>3, <1>6, MappedStore DEF DeleteQueue, TypeOK
<1>7. ASSUME NEW p \in Procs, DeleteClose(p) PROVE RedriveInv'
  <2>1. UNCHANGED gen /\ open' = open \ {tgt[p]} /\ deleted' = deleted \cup {tgt[p][1]}
    BY <1>7 DEF DeleteClose
  <2>2. \A k \in Procs : pc'[k] = "rsend" => pc[k] = "rsend" /\ tgt'[k] = tgt[k] /\ home'[k] = home[k]
    BY <1>7, Returned DEF DeleteClose
  <2> QED BY <2>1, <2>2 DEF RedriveInv
<1>8. ASSUME NEW p \in Procs, NEW s \in Stores, NEW m \in Msg, RedriveStart(p, s, m) PROVE RedriveInv'
  <2>1. UNCHANGED <<gen, open, tgt, deleted>>
        /\ \A k \in Procs : pc'[k] = "rsend" => pc[k] = "rsend" /\ home'[k] = home[k]
    BY <1>8 DEF RedriveStart, TypeOK
  <2> QED BY <2>1 DEF RedriveInv
<1>9. ASSUME NEW p \in Procs, RedriveLookup(p) PROVE RedriveInv'
  <2>1. CASE Dlq[home[p][1]] \in queues
    <3>1. UNCHANGED <<gen, open, home, deleted>>
          /\ tgt' = [tgt EXCEPT ![p] = StoreOf(Dlq[home[p][1]])]
          /\ pc' = [pc EXCEPT ![p] = "rsend"]
      BY <1>9, <2>1 DEF RedriveLookup
    <3>2. LET s == StoreOf(Dlq[home[p][1]]) IN s[1] = Dlq[home[p][1]] /\ s[2] <= gen[s[1]]
      BY <2>1, MappedStore, ManagerAssumption DEF TypeOK
    <3>3. tgt'[p] = StoreOf(Dlq[home[p][1]])
      BY <3>1 DEF TypeOK
    <3>4. \A k \in Procs : k # p => pc'[k] = pc[k] /\ tgt'[k] = tgt[k]
      BY <3>1 DEF TypeOK
    <3> QED BY <3>1, <3>2, <3>3, <3>4 DEF RedriveInv
  <2>2. CASE Dlq[home[p][1]] \notin queues
    BY <1>1, <1>9, <2>2, Returned DEF RedriveLookup, ReleaseHome
  <2> QED BY <2>1, <2>2
<1>10. ASSUME NEW p \in Procs, RedriveSend(p) PROVE RedriveInv'
  BY <1>1, <1>10, Returned DEF RedriveSend, ReleaseHome
<1>11. ASSUME NEW p \in Procs, Shutdown(p) PROVE RedriveInv'
  BY <1>1, <1>11 DEF Shutdown, TypeOK
<1>12. ASSUME NEW p \in Procs, NEW s \in Stores, ShutdownClose(p, s) PROVE RedriveInv'
  <2>1. UNCHANGED <<gen, pc, tgt, home, deleted>> /\ open' = open \ {s} /\ s[1] \in deleted
    BY <1>12 DEF ShutdownClose, PendingInv
  <2> QED BY <2>1 DEF RedriveInv
<1>13. ASSUME NEW p \in Procs, ShutdownReturn(p) PROVE RedriveInv'
  BY <1>1, <1>13, Returned DEF ShutdownReturn
<1>14. CASE UNCHANGED vars
  BY <1>1, <1>14 DEF vars
<1> QED
  BY <1>2, <1>4, <1>5, <1>6, <1>7, <1>8, <1>9, <1>10, <1>11, <1>12, <1>13, <1>14 DEF Next

\* An id a store remembers is one of a message it has kept, unless its inserts
\* may fail.
SeenInv == \A s \in Stores : s \in Fallible \/ seen[s] \subseteq kept[s]

\* Every action preserves SeenInv.
LEMMA NextSeen == ASSUME TypeOK, SeenInv, [Next]_vars PROVE SeenInv'
<1>1. CASE UNCHANGED <<seen, kept>>
  BY <1>1 DEF SeenInv
<1>2. ASSUME NEW p \in Procs, UseStore(p) PROVE SeenInv'
  <2>1. tgt[p] \in Stores
    BY DEF TypeOK
  <2>2. CASE \E m \in Msg : SendMessage(tgt[p], m, Unsent)
    BY <2>1, <2>2, Sent DEF SeenInv
  <2> QED BY <1>1, <1>2, <2>2 DEF UseStore
<1>3. ASSUME NEW p \in Procs, RedriveSend(p) PROVE SeenInv'
  <2>1. tgt[p] \in Stores /\ msg[p] \in Msg /\ SendMessage(tgt[p], msg[p], Lost)
    BY <1>3 DEF RedriveSend, TypeOK
  <2> QED BY <2>1, Sent DEF SeenInv
<1> QED
  BY <1>1, <1>2, <1>3
  DEF Next, vars, CreateQueue, LookupQueue, DeleteQueue, DeleteClose, RedriveStart, RedriveLookup,
      Shutdown, ShutdownClose, ShutdownReturn

\* A message leaves its store for the dead-letter queue and gets there, or ends
\* as MayEndAs says; a message is lost in no other way.
LEMMA NextArrives ==
  ASSUME TypeOK, RedriveInv, SeenInv, [Next]_vars, NEW m \in Msg,
         \/ where[m] = Moving /\ where'[m] # Moving
         \/ where[m] # Lost /\ where'[m] = Lost
  PROVE  \E p \in Carriers(m) : MayEndAs(p, m, where'[m])
<1>1. where'[m] # where[m]
  OBVIOUS
<1>2. ASSUME NEW p \in Procs, UseStore(p) PROVE FALSE
  <2>1. tgt[p] \in Stores
    BY DEF TypeOK
  <2>2. ASSUME NEW k \in Msg, where[k] = Unsent, SendMessage(tgt[p], k, Unsent) PROVE FALSE
    <3>1. PICK w \in {tgt[p], Dropped, Unsent} : where' = [where EXCEPT ![k] = w]
      BY <2>1, <2>2, Sent
    <3>2. k = m
      BY <1>1, <3>1 DEF TypeOK
    <3>3. where'[m] = w
      BY <3>1, <3>2 DEF TypeOK
    <3> QED BY <2>1, <2>2, <3>2, <3>3, Markers
  <2>3. ASSUME NEW S \in SUBSET {k \in Msg : where[k] = tgt[p]},
               where' = [k \in Msg |-> IF k \in S THEN Removed ELSE where[k]]
        PROVE  FALSE
    BY <1>1, <2>1, <2>3, Markers
  <2> QED BY <1>1, <1>2, <2>2, <2>3 DEF UseStore
<1>3. ASSUME NEW p \in Procs, NEW s \in Stores, NEW k \in Msg, RedriveStart(p, s, k) PROVE FALSE
  BY <1>1, <1>3, Markers DEF RedriveStart, TypeOK
<1>4. ASSUME NEW p \in Procs, RedriveLookup(p)
      PROVE  p \in Carriers(m) /\ MayEndAs(p, m, where'[m])
  <2>1. Dlq[home[p][1]] \notin queues /\ pc[p] = "rlookup" /\ where' = [where EXCEPT ![msg[p]] = Lost]
    BY <1>1, <1>4 DEF RedriveLookup
  <2>2. msg[p] = m /\ where'[m] = Lost
    BY <1>1, <2>1 DEF TypeOK
  <2> QED BY <2>1, <2>2 DEF Carriers, MayEndAs
<1>5. ASSUME NEW p \in Procs, RedriveSend(p)
      PROVE  p \in Carriers(m) /\ MayEndAs(p, m, where'[m])
  <2>1. /\ pc[p] = "rsend" /\ SendMessage(tgt[p], msg[p], Lost)
        /\ tgt[p] \in Stores /\ msg[p] \in Msg
    BY <1>5 DEF RedriveSend, TypeOK
  <2>2. PICK w \in {tgt[p], Dropped, Lost} :
          /\ where' = [where EXCEPT ![msg[p]] = w]
          /\ w = Dropped => KnownAs[tgt[p][1]][msg[p]] \in seen[tgt[p]]
          /\ w = Lost => tgt[p] \notin open \/ tgt[p] \in Fallible
    BY <2>1, Sent
  <2>3. msg[p] = m /\ where'[m] = w
    BY <1>1, <2>2 DEF TypeOK
  <2>4. tgt[p][1] = Dlq[home[p][1]] /\ (tgt[p] \notin open => tgt[p][1] \in deleted)
    BY <2>1 DEF RedriveInv
  <2>5. tgt[p] \in Fallible \/ seen[tgt[p]] \subseteq kept[tgt[p]]
    BY <2>1 DEF SeenInv
  <2>6. MayEndAs(p, m, w)
    BY <2>1, <2>2, <2>3, <2>4, <2>5 DEF MayEndAs
  <2> QED BY <2>1, <2>3, <2>6 DEF Carriers
<1> QED
  BY <1>1, <1>2, <1>3, <1>4, <1>5
  DEF Next, vars, CreateQueue, LookupQueue, DeleteQueue, DeleteClose, Shutdown, ShutdownClose,
      ShutdownReturn

\* A message a redrive took out of its store arrives in the dead-letter queue,
\* unless that queue is not there, its backend failed to insert, or it is a FIFO
\* queue that has kept a message with the same deduplication id.
THEOREM RedrivesArrive == Spec => RedriveArrives
<1>1. Init => RedriveInv /\ SeenInv
  <2> SUFFICES ASSUME Init PROVE RedriveInv /\ SeenInv
    OBVIOUS
  <2>1. \A s \in Stores : ~(s[2] <= gen[s[1]])
    <3> SUFFICES ASSUME NEW s \in Stores PROVE ~(s[2] <= gen[s[1]])
      OBVIOUS
    <3>1. s[1] \in Queues /\ s[2] \in 1..MaxGen /\ gen[s[1]] = 0
      BY StoreParts DEF Init
    <3> QED BY <3>1, ManagerAssumption
  <2> QED BY <2>1 DEF Init, RedriveInv, SeenInv
<1>2. TypeOK /\ RedriveInv /\ SeenInv /\ [Next]_vars =>
        [\A m \in Msg :
           \/ where[m] = Moving /\ where'[m] # Moving
           \/ where[m] # Lost /\ where'[m] = Lost
           => \E p \in Carriers(m) : MayEndAs(p, m, where'[m])]_vars
  BY NextArrives
<1> QED
  BY <1>1, <1>2, InitType, NextType, InitStores, NextMutex, NextPending, NextRedrive, NextSeen, PTL
  DEF Spec, RedriveArrives
=============================================================================
