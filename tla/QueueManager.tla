---------------------------- MODULE QueueManager ----------------------------
(***************************************************************************)
(* The queue manager (pkgs/v1/queue/manager.go) and the mutexes of the     *)
(* stores it owns: which store a name has, who waits for which mutex, and  *)
(* where a message goes when it is redriven.                               *)
(*                                                                         *)
(* Two kinds of mutex nest.  A redrive runs inside a store's critical      *)
(* section (a visibility callback of the memory store, ReceiveMessages of  *)
(* the SQLite and Badger stores) and asks for qm.mu and for the mutex of   *)
(* the dead-letter queue's store.  DeleteQueue holds qm.mu and asks for a  *)
(* store's mutex.  A section that takes no other mutex is one step: every  *)
(* reader of qm.queues (RLock, look up, RUnlock) and CreateQueue.          *)
(***************************************************************************)
EXTENDS Integers

CONSTANTS
  Queues,     \* queue names
  Dlq,        \* [Queues -> Queues \cup {NoQueue}]: target of the redrive policy
  NoQueue,
  Deletable,  \* names DeleteQueue is called with
  Msg,
  DedupIds, NoDedup,
  KnownAs,    \* the id a message is known by in a queue: its MessageDeduplicationId or
              \* the digest of its body in a FIFO queue, NoDedup without and elsewhere
  Fallible,   \* stores whose insert may fail: those of the SQLite and Badger backends
  Procs,      \* goroutines: request handlers, callbacks, the shutdown of main
  NoProc,
  MaxGen      \* bound: how often a name is created

ASSUME ManagerAssumption ==
  /\ NoQueue \notin Queues /\ NoProc \notin Procs
  /\ Dlq \in [Queues -> Queues \cup {NoQueue}]
  /\ Deletable \subseteq Queues /\ MaxGen \in Nat \ {0}
  /\ Queues # {} /\ Msg # {}
  /\ NoDedup \notin DedupIds
  /\ KnownAs \in [Queues -> [Msg -> DedupIds \cup {NoDedup}]]

\* A store: the name of its queue and how often that name was created before.
Stores == Queues \X (1..MaxGen)

VARIABLES
  gen,       \* generations of a name so far
  queues,    \* qm.queues: the names that have a queue; its store is the last one
  open,      \* stores that are not closed
  qmu,       \* holder of qm.mu for writing
  smu,       \* holder of a store's mutex
  pc, tgt,   \* where a goroutine is, and the store it is about to lock
  home,      \* the store whose mutex a redrive holds
  msg,       \* the message a redrive carries
  pending,   \* stores a Shutdown still has to close
  where,     \* a message: in a store, or Unsent, Moving, Lost, Dropped, Removed
  seen,      \* the deduplication ids a store remembered, the expired ones included
  \* for the properties
  kept,      \* the deduplication ids of the messages a store has kept
  deleted,   \* names that were deleted or shut down
  abandoned  \* stores an interrupted Shutdown left open

mgrVars == <<gen, queues, open>>
ghosts  == <<deleted, abandoned>>
msgVars == <<where, seen, kept>>
vars    == <<mgrVars, qmu, smu, pc, tgt, home, msg, pending, msgVars, ghosts>>

StoreOf(q) == <<q, gen[q]>>
Unsent     == <<"unsent", 0>>
Moving     == <<"moving", 0>>
Lost       == <<"lost", 0>>
Dropped    == <<"dropped", 0>>
Removed    == <<"removed", 0>>
MsgStates  == Stores \cup {Unsent, Moving, Lost, Dropped, Removed}
ProcStates == {"idle", "call", "dclose", "rlookup", "rsend", "sclose"}

\* What tgt, home and msg hold for a goroutine that has none.
AnyStore == CHOOSE s \in Stores : TRUE
AnyMsg   == CHOOSE m \in Msg : TRUE

Init ==
  /\ gen = [q \in Queues |-> 0] /\ queues = {} /\ open = {}
  /\ qmu = NoProc /\ smu = [s \in Stores |-> NoProc]
  /\ pc = [p \in Procs |-> "idle"]
  /\ tgt = [p \in Procs |-> AnyStore] /\ home = tgt
  /\ msg = [p \in Procs |-> AnyMsg]
  /\ pending = [p \in Procs |-> {}]
  /\ where = [m \in Msg |-> Unsent]
  /\ seen = [s \in Stores |-> {}] /\ kept = seen
  /\ deleted = {} /\ abandoned = {}

\* A goroutine is done with its call, and its variables are gone.
locals == <<tgt, home, msg>>
Return(p) ==
  /\ pc' = [pc EXCEPT ![p] = "idle"]
  /\ tgt' = [tgt EXCEPT ![p] = AnyStore]
  /\ home' = [home EXCEPT ![p] = AnyStore]
  /\ msg' = [msg EXCEPT ![p] = AnyMsg]

(***************************************************************************)
(* CreateQueue, and the calls that look a queue up and use its store       *)
(***************************************************************************)
\* An existing queue is returned, or refused for other attributes.
CreateQueue(p, q) ==
  /\ pc[p] = "idle" /\ qmu = NoProc
  /\ q \notin queues /\ gen[q] < MaxGen
  /\ gen' = [gen EXCEPT ![q] = @ + 1]
  /\ queues' = queues \cup {q}
  /\ open' = open \cup {<<q, gen[q] + 1>>}
  /\ UNCHANGED <<qmu, smu, pc, locals, pending, msgVars, ghosts>>

LookupQueue(p, q) ==
  /\ pc[p] = "idle" /\ qmu = NoProc /\ q \in queues
  /\ tgt' = [tgt EXCEPT ![p] = StoreOf(q)]
  /\ pc' = [pc EXCEPT ![p] = "call"]
  /\ UNCHANGED <<mgrVars, qmu, smu, home, msg, pending, msgVars, ghosts>>

\* A store that is open takes message m.
Keep(s, m) ==
  /\ where' = [where EXCEPT ![m] = s]
  /\ kept' = [kept EXCEPT ![s] = @ \cup ({KnownAs[s[1]][m]} \cap DedupIds)]

\* SendMessage of store s: a closed one refuses.  A FIFO store drops a message it
\* remembers the id of, with success; otherwise (or when the entry has expired,
\* or a purge cleared it) it remembers the id, and only then inserts.  A message
\* that is refused or not inserted ends as `refused`.
SendMessage(s, m, refused) ==
  LET id == KnownAs[s[1]][m]
      remember == seen' = [seen EXCEPT ![s] = @ \cup ({id} \cap DedupIds)]
      refuse == where' = [where EXCEPT ![m] = refused] /\ UNCHANGED kept
  IN
  \/ s \notin open /\ refuse /\ UNCHANGED seen
  \/ s \in open /\ id \in seen[s]
     /\ where' = [where EXCEPT ![m] = Dropped] /\ UNCHANGED <<seen, kept>>
  \/ s \in open /\ remember /\ Keep(s, m)
  \/ s \in open \cap Fallible /\ remember /\ refuse

\* The store call: it leaves the messages where they are, sends one, or removes
\* some (DeleteMessage, Purge, retention; the memory store does so when closed,
\* too).
UseStore(p) ==
  /\ pc[p] = "call" /\ smu[tgt[p]] = NoProc
  /\ \/ UNCHANGED msgVars
     \/ \E m \in Msg : where[m] = Unsent /\ SendMessage(tgt[p], m, Unsent)
     \/ /\ \E S \in SUBSET {m \in Msg : where[m] = tgt[p]} \ {{}} :
             where' = [m \in Msg |-> IF m \in S THEN Removed ELSE where[m]]
        /\ UNCHANGED <<seen, kept>>
  /\ Return(p)
  /\ UNCHANGED <<mgrVars, qmu, smu, pending, ghosts>>

(***************************************************************************)
(* DeleteQueue: qm.mu, then the store's mutex inside Close                 *)
(***************************************************************************)
DeleteQueue(p, q) ==
  /\ pc[p] = "idle" /\ qmu = NoProc /\ q \in queues
  /\ qmu' = p
  /\ tgt' = [tgt EXCEPT ![p] = StoreOf(q)]
  /\ pc' = [pc EXCEPT ![p] = "dclose"]
  /\ UNCHANGED <<mgrVars, smu, home, msg, pending, msgVars, ghosts>>

\* Mutants: the queue leaves the map with its store open; its store is closed
\* and it stays in the map.
DeleteWithoutClose(p) ==
  /\ pc[p] = "dclose"
  /\ queues' = queues \ {tgt[p][1]}
  /\ qmu' = NoProc /\ Return(p)
  /\ UNCHANGED <<gen, open, smu, pending, msgVars, ghosts>>

CloseWithoutDelete(p) ==
  /\ pc[p] = "dclose" /\ smu[tgt[p]] = NoProc
  /\ open' = open \ {tgt[p]}
  /\ qmu' = NoProc /\ Return(p)
  /\ UNCHANGED <<gen, queues, smu, pending, msgVars, ghosts>>

DeleteClose(p) ==
  /\ pc[p] = "dclose" /\ smu[tgt[p]] = NoProc
  /\ open' = open \ {tgt[p]}
  /\ queues' = queues \ {tgt[p][1]}
  /\ deleted' = deleted \cup {tgt[p][1]}
  /\ qmu' = NoProc /\ Return(p)
  /\ UNCHANGED <<gen, smu, pending, msgVars, abandoned>>

(***************************************************************************)
(* Redrive: inside the critical section of store s, then redriveMessage    *)
(***************************************************************************)
\* s may be closed: the callback ChangeMessageVisibility makes does not look.
RedriveStart(p, s, m) ==
  /\ pc[p] = "idle" /\ smu[s] = NoProc
  /\ where[m] = s /\ Dlq[s[1]] # NoQueue
  /\ smu' = [smu EXCEPT ![s] = p]
  /\ home' = [home EXCEPT ![p] = s] /\ msg' = [msg EXCEPT ![p] = m]
  /\ where' = [where EXCEPT ![m] = Moving]
  /\ pc' = [pc EXCEPT ![p] = "rlookup"]
  /\ UNCHANGED <<mgrVars, qmu, tgt, pending, seen, kept, ghosts>>

\* Mutant: the store's mutex is not given back.
KeepHome(p) == Return(p) /\ UNCHANGED smu

ReleaseHome(p) == smu' = [smu EXCEPT ![home[p]] = NoProc] /\ Return(p)

\* Mutant: TryRLock, and a busy manager is taken for a missing queue.
RedriveTryLookup(p) ==
  LET d == Dlq[home[p][1]]
      found == qmu = NoProc /\ d \in queues
  IN
  /\ pc[p] = "rlookup"
  /\ \/ /\ found
        /\ tgt' = [tgt EXCEPT ![p] = StoreOf(d)]
        /\ pc' = [pc EXCEPT ![p] = "rsend"]
        /\ UNCHANGED <<smu, where, home, msg>>
     \/ /\ ~found
        /\ where' = [where EXCEPT ![msg[p]] = Lost]
        /\ ReleaseHome(p)
  /\ UNCHANGED <<mgrVars, qmu, pending, seen, kept, ghosts>>

\* LookupQueueByArn; without the queue the message is logged as lost.
RedriveLookup(p) ==
  LET d == Dlq[home[p][1]] IN
  /\ pc[p] = "rlookup" /\ qmu = NoProc
  /\ \/ /\ d \in queues
        /\ tgt' = [tgt EXCEPT ![p] = StoreOf(d)]
        /\ pc' = [pc EXCEPT ![p] = "rsend"]
        /\ UNCHANGED <<smu, where, home, msg>>
     \/ /\ d \notin queues
        /\ where' = [where EXCEPT ![msg[p]] = Lost]
        /\ ReleaseHome(p)
  /\ UNCHANGED <<mgrVars, qmu, pending, seen, kept, ghosts>>

\* SendMessage of the dead-letter queue's store, with the deduplication id the
\* message was sent with; its error (the store is closed, the insert failed, the
\* five seconds are over) is only logged.
RedriveSend(p) ==
  /\ pc[p] = "rsend" /\ smu[tgt[p]] = NoProc
  /\ SendMessage(tgt[p], msg[p], Lost)
  /\ ReleaseHome(p)
  /\ UNCHANGED <<mgrVars, qmu, pending, ghosts>>

(***************************************************************************)
(* Shutdown: a snapshot under qm.mu, then the stores without it            *)
(***************************************************************************)
Shutdown(p) ==
  /\ pc[p] = "idle" /\ qmu = NoProc /\ queues # {}
  /\ pending' = [pending EXCEPT ![p] = {StoreOf(q) : q \in queues}]
  /\ queues' = {}
  /\ deleted' = deleted \cup queues
  /\ pc' = [pc EXCEPT ![p] = "sclose"]
  /\ UNCHANGED <<gen, open, qmu, smu, locals, msgVars, abandoned>>

ShutdownClose(p, s) ==
  /\ pc[p] = "sclose" /\ s \in pending[p] /\ smu[s] = NoProc
  /\ open' = open \ {s}
  /\ pending' = [pending EXCEPT ![p] = @ \ {s}]
  /\ UNCHANGED <<gen, queues, qmu, smu, pc, locals, msgVars, ghosts>>

\* All stores are closed, or the context's deadline has passed.
ShutdownReturn(p) ==
  /\ pc[p] = "sclose"
  /\ abandoned' = abandoned \cup pending[p]
  /\ pending' = [pending EXCEPT ![p] = {}]
  /\ Return(p)
  /\ UNCHANGED <<mgrVars, qmu, smu, msgVars, deleted>>

Step(p) ==
  \/ UseStore(p) \/ DeleteClose(p) \/ RedriveLookup(p) \/ RedriveSend(p)
  \/ (\E s \in Stores : ShutdownClose(p, s)) \/ (pending[p] = {} /\ ShutdownReturn(p))

Next ==
  \/ \E p \in Procs, q \in Queues : CreateQueue(p, q)
  \/ \E p \in Procs, q \in Queues : LookupQueue(p, q)
  \/ \E p \in Procs : UseStore(p)
  \/ \E p \in Procs, q \in Deletable : DeleteQueue(p, q)
  \/ \E p \in Procs : DeleteClose(p)
  \/ \E p \in Procs, s \in Stores, m \in Msg : RedriveStart(p, s, m)
  \/ \E p \in Procs : RedriveLookup(p)
  \/ \E p \in Procs : RedriveSend(p)
  \/ \E p \in Procs : Shutdown(p)
  \/ \E p \in Procs, s \in Stores : ShutdownClose(p, s)
  \/ \E p \in Procs : ShutdownReturn(p)

Spec == Init /\ [][Next]_vars

\* A goroutine gets a mutex that is free again and again: sync.Mutex hands over
\* to a waiter that starves, sync.RWMutex lets no new reader pass a writer.
FairSpec == Spec /\ \A p \in Procs : SF_vars(Step(p))

(***************************************************************************)
(* Properties                                                              *)
(***************************************************************************)
TypeOK ==
  /\ gen \in [Queues -> 0..MaxGen] /\ queues \subseteq Queues /\ open \subseteq Stores
  /\ qmu \in Procs \cup {NoProc} /\ smu \in [Stores -> Procs \cup {NoProc}]
  /\ pc \in [Procs -> ProcStates] /\ tgt \in [Procs -> Stores] /\ home \in [Procs -> Stores]
  /\ msg \in [Procs -> Msg] /\ pending \in [Procs -> SUBSET Stores]
  /\ where \in [Msg -> MsgStates]
  /\ seen \in [Stores -> SUBSET DedupIds] /\ kept \in [Stores -> SUBSET DedupIds]
  /\ deleted \subseteq Queues /\ abandoned \subseteq Stores
  /\ \A q \in queues : gen[q] > 0

\* No store is left open and out of reach: an open store belongs to a queue of
\* the map, or to a Shutdown that is closing it, or to one that ran out of time.
NoLeakedStore ==
  \A s \in open :
    \/ s[1] \in queues /\ s = StoreOf(s[1])
    \/ \E p \in Procs : s \in pending[p]
    \/ s \in abandoned

\* The store of a name in the map accepts messages, except between the Close and
\* the delete of the DeleteQueue that holds qm.mu (one step here): a lookup
\* never returns a closed store.
MappedStoreOpen == \A q \in queues : StoreOf(q) \in open

\* The goroutines inside redriveFunc with message m.
Carriers(m) == {p \in Procs : pc[p] \in {"rlookup", "rsend"} /\ msg[p] = m}

\* A message is in one place: while a redrive carries it, it is in no store, no
\* other redrive has it, and the mutex of the store it left is still held; and a
\* message that left its store is carried by someone.
MovingIsCarried ==
  \A m \in Msg :
    /\ \A p \in Carriers(m) : where[m] = Moving /\ smu[home[p]] = p /\ Carriers(m) = {p}
    /\ where[m] = Moving => Carriers(m) # {}

\* How redrive p may end for message m: in the dead-letter queue; lost, which
\* takes a queue that is not there or was deleted under it, or a backend that
\* failed to insert; or dropped by a FIFO store, which takes a message known by
\* the same id that this very store has kept, or one it failed to insert.
MayEndAs(p, m, end) ==
  LET d == Dlq[home[p][1]] IN
  \/ end \in Stores /\ end[1] = d
  \/ end = Lost /\ (d \in deleted \/ d \notin queues \/ tgt[p] \in Fallible)
  \/ /\ end = Dropped /\ tgt[p][1] = d
     /\ KnownAs[d][m] \in kept[tgt[p]] \/ tgt[p] \in Fallible

\* A message that leaves its store for the dead-letter queue gets there, whoever
\* deletes, creates and shuts down queues meanwhile, except as MayEndAs says; and
\* no message is lost in any other way.
RedriveArrives ==
  [][\A m \in Msg :
       \/ where[m] = Moving /\ where'[m] # Moving
       \/ where[m] # Lost /\ where'[m] = Lost
       => \E p \in Carriers(m) : MayEndAs(p, m, where'[m])]_vars

\* "redrive is a background operation that should not block indefinitely": a
\* redrive returns, and with it the critical section of its store.
RedriveReturns == \A p \in Procs : pc[p] \in {"rlookup", "rsend"} ~> pc[p] = "idle"

\* A DeleteQueue holds qm.mu and waits for a store's mutex, whose holder is a
\* redrive that waits for qm.mu.
DeleteMeetsRedrive ==
  \E p, r \in Procs : pc[p] = "dclose" /\ smu[tgt[p]] = r /\ pc[r] = "rlookup"

\* Every call returns, unless a DeleteQueue meets a redrive: with an acyclic
\* Dlq there is no other way to wait for ever.
CallsReturn == \A p \in Procs : pc[p] # "idle" ~> pc[p] = "idle" \/ DeleteMeetsRedrive
=============================================================================
