------------------------------ MODULE Handlers ------------------------------
(***************************************************************************)
(* The request handlers (apps/go/server/handlers) over the queue manager   *)
(* and its queues.  A call is a goroutine that runs one handler; a step is *)
(* what the handler does between two critical sections: looking its queue  *)
(* up, checking a limit on a copy, changing the queue, calling the store.  *)
(*                                                                         *)
(* A queue is an object: DeleteQueue takes its name out of the map and     *)
(* closes its store, and calls that looked it up before keep it.  A store  *)
(* is what StoreContract promises of it: messages that are visible or held *)
(* under a receipt handle, refused when it is closed, with the identifiers *)
(* a FIFO store remembers; over SQLite and Badger its calls may fail.      *)
(***************************************************************************)
EXTENDS QueueAttributes

CONSTANTS
  Names,      \* queue names
  FifoNames,  \* those that end in .fifo
  BadNames,   \* those VerifyQueueName refuses
  UIBadNames, \* those isValidQueueName of the web interface refuses
  Startup,    \* [name -> attributes]: the queues of the configuration
  Requests,   \* what clients ask for
  Procs,
  AutoCreate, \* the autoCreateQueues setting
  StoresFail, \* the calls and the factory of the stores may fail: SQLite, Badger
  Relaxed,    \* limits mode
  MaxTags,    \* tags per queue
  LongKeys,   \* tag keys that are too long
  Cooldown,   \* between two purges of a queue
  MaxObj, MaxCalls, MaxTime, MaxReceives  \* bounds

ASSUME HandlersAssumption ==
  /\ FifoNames \subseteq Names /\ BadNames \subseteq Names /\ UIBadNames \subseteq Names
  /\ DOMAIN Startup \subseteq Names
  /\ IsFiniteSet(DOMAIN Startup) /\ Cardinality(DOMAIN Startup) <= MaxObj
  /\ MaxTags \in Nat /\ Cooldown \in Nat \ {0}
  /\ MaxObj \in Nat /\ MaxCalls \in Nat /\ MaxTime \in Nat /\ MaxReceives \in Nat

VARIABLES
  queues,  \* qm.queues: a name to its object, or to 0
  objs,    \* the objects, in the order of their creation
  call,    \* what each goroutine is doing
  now,
  sent,    \* messages stored so far: a message is its number
  \* for the bounds and the properties
  calls,   \* calls so far
  answered, \* [object -> when a PurgeQueue that purged it last answered]
  strayed, \* objects a PurgeQueue purged that had looked up, and marked, another
  kept,    \* [object -> tag keys acknowledged, and not untagged since]
  raced,   \* objects whose tags changed between a check and its merge
  stored,  \* <<object, identifier>>: of the messages its FIFO store has kept
  failed   \* and of those it remembered and then failed to insert

vars == <<queues, objs, call, now, sent, calls, answered, strayed, kept, raced, stored, failed>>
dedups == <<stored, failed>>
ghosts == <<calls, answered, strayed, kept, raced, dedups>>

Never == -1

Object(q, attrs) ==
  [name |-> q, attrs |-> [attrs EXCEPT !.QueueArn = q], cfg |-> StoreConfig(attrs),
   tags |-> {}, purgedAt |-> Never, open |-> TRUE, msgs |-> {}, seen |-> {}]

NeverPurged == [o \in 1..MaxObj |-> Never]

\* What a call holds: the object it looked up, and what it read of it; found is
\* the object a purge by name found.  last, from and torn are for the
\* properties: answered when it looked its queue up, the attributes when it
\* began to read them, and whether they changed while it read.
Idle ==
  [at |-> "idle", req |-> [op |-> "none"], obj |-> 0, found |-> 0, tags |-> {}, size |-> 0,
   i |-> 1, ok |-> {}, bad |-> {}, read |-> <<>>,
   last |-> NeverPurged, from |-> Defaults, torn |-> FALSE]

SeqOfSet(S) == CHOOSE s \in [1..Cardinality(S) -> S] : \A x \in S : \E i \in DOMAIN s : s[i] = x

\* The start of main: the configured queues, before any request.
Init ==
  LET names == SeqOfSet(DOMAIN Startup) IN
  /\ objs = [i \in DOMAIN names |-> Object(names[i], With(Defaults, Startup[names[i]]))]
  /\ queues = [q \in Names |-> IF q \in DOMAIN Startup
                               THEN CHOOSE i \in DOMAIN names : names[i] = q ELSE 0]
  /\ call = [p \in Procs |-> Idle]
  /\ now = 0 /\ sent = 0 /\ calls = 0
  /\ answered = NeverPurged /\ strayed = {} /\ stored = {} /\ failed = {}
  /\ kept = [o \in 1..MaxObj |-> {}] /\ raced = {}

(***************************************************************************)
(* Helpers                                                                 *)
(***************************************************************************)
Obj == DOMAIN objs

MappedObj(q) == queues[q]

At(p, pc) == call[p].at = pc
Req(p)    == call[p].req
O(p)      == objs[call[p].obj]
Goto(p, pc) == call' = [call EXCEPT ![p].at = pc]
Reply(p)  == call' = [call EXCEPT ![p] = Idle]

Does(p, ops) == Req(p).op \in ops

\* The manager's CreateQueue, of a name that is free: the store is configured
\* here and never again.
NewQueue(q, attrs) ==
  /\ Len(objs) < MaxObj
  /\ objs' = Append(objs, Object(q, attrs))
  /\ queues' = [queues EXCEPT ![q] = Len(objs) + 1]

\* The identifier a FIFO store knows a message by: its MessageDeduplicationId, or
\* the digest of its body.
KnownAs(m, cfg) ==
  IF ~cfg.fifo THEN {} ELSE IF m.id # "" THEN {m.id} ELSE IF cfg.cbd THEN {m.body} ELSE {}

Ids(o, m) == KnownAs(m, objs[o].cfg)

Put(os, o, m)      == [os EXCEPT ![o].msgs = @ \cup {m}, ![o].seen = @ \cup Ids(o, m)]
Remember(os, o, m) == [os EXCEPT ![o].seen = @ \cup Ids(o, m)]

\* SendMessage of store o with message m, from objects os: it keeps the message,
\* drops a duplicate with success, or remembers the identifier and fails to
\* insert.  An entry that has expired is passed over, which nothing shows.
Keeps(os, o, m) ==
  /\ objs' = Put(os, o, m)
  /\ stored' = stored \cup ({o} \X Ids(o, m)) /\ UNCHANGED failed

Duplicate(o, m) == Ids(o, m) \cap objs[o].seen # {}

FailsToInsert(os, o, m) ==
  /\ StoresFail
  /\ objs' = Remember(os, o, m)
  /\ failed' = failed \cup ({o} \X Ids(o, m)) /\ UNCHANGED stored

\* What a store does with a handle, and on Purge.
Holding(o, n, rcv) == {m \in objs[o].msgs : m.n = n /\ m.rcv = rcv /\ m.held}
PurgedStore(o)     == [objs EXCEPT ![o].msgs = {}, ![o].seen = {}]

(***************************************************************************)
(* The start of a call, and resolveQueue                                   *)
(***************************************************************************)
ByName == {"CreateQueue", "DeleteQueue", "UICreate", "UIDelete"}

Begin(p, r) ==
  /\ At(p, "idle") /\ calls < MaxCalls
  /\ calls' = calls + 1
  /\ call' = [call EXCEPT ![p] =
       [Idle EXCEPT !.at = IF r.op \in ByName THEN "act" ELSE "resolve", !.req = r]]
  /\ UNCHANGED <<queues, objs, now, sent, answered, strayed, kept, raced, dedups>>

\* The operations that go through entries, one of them or a batch.
EntryStep ==
  [SendMessage |-> "send", SendMessageBatch |-> "send", UISend |-> "uisend",
   DeleteMessage |-> "delete", DeleteMessageBatch |-> "delete", UIDeleteMessage |-> "delete",
   ChangeMessageVisibility |-> "change", ChangeMessageVisibilityBatch |-> "change"]

Batches == {"SendMessageBatch", "DeleteMessageBatch", "ChangeMessageVisibilityBatch"}

\* What is decoded from a request: tags are a map, and a request that is no
\* batch has one entry.
ASSUME RequestsAssumption ==
  \A r \in Requests :
    /\ r.q \in Names
    /\ r.op = "TagQueue" => IsFiniteSet(r.tags)
    /\ r.op \in DOMAIN EntryStep =>
         /\ Len(r.entries) \in Nat /\ DOMAIN r.entries = 1..Len(r.entries)
         /\ r.op \notin Batches => Len(r.entries) = 1

\* Where a handler goes once it has its queue; the other operations only read.
AfterResolve(op) ==
  CASE op = "TagQueue" -> "tagcheck" [] op = "UntagQueue" -> "untag"
    [] op = "PurgeQueue" -> "cooldown" [] op = "SetQueueAttributes" -> "set"
    [] op \in DOMAIN EntryStep -> "entries"
    [] op = "ReceiveMessage" -> "receive" [] op = "UIPeek" -> "peek" [] op = "UIPurge" -> "uipurge"
    [] op = "GetQueueAttributes" -> "get"
    [] OTHER -> "answer"

\* A key an UntagQueue is about to remove is no longer kept.
Resolved(p, o) ==
  /\ call' = [call EXCEPT ![p].obj = o, ![p].at = AfterResolve(Req(p).op),
                          ![p].last = IF Does(p, {"PurgeQueue"}) THEN answered ELSE @]
  /\ kept' = IF Does(p, {"UntagQueue"}) THEN [kept EXCEPT ![o] = @ \ Req(p).tags] ELSE kept

\* The web interface looks up without creating.
UI == {"UISend", "UIPeek", "UIPurge", "UIDeleteMessage"}

ResolveQueue(p) ==
  LET q == Req(p).q IN
  /\ At(p, "resolve")
  /\ \/ queues[q] # 0 /\ Resolved(p, queues[q])
     \/ queues[q] = 0 /\ AutoCreate /\ ~Does(p, UI) /\ Goto(p, "autocreate") /\ UNCHANGED kept
     \/ queues[q] = 0 /\ (~AutoCreate \/ Does(p, UI)) /\ Reply(p) /\ UNCHANGED kept
  /\ UNCHANGED <<queues, objs, now, sent, calls, answered, strayed, raced, dedups>>

\* With autoCreate any action on a queue that does not exist creates it, with
\* the default attributes and without a look at its name.  Who created it
\* meanwhile may have used others; then, and when its store cannot be made, the
\* queue still does not exist for the caller.
AutoCreateQueue(p) ==
  LET q == Req(p).q IN
  /\ At(p, "autocreate")
  /\ \/ /\ queues[q] = 0
        /\ NewQueue(q, Defaults) /\ Resolved(p, Len(objs) + 1)
     \/ /\ queues[q] # 0 /\ AttributesMatch(objs[queues[q]].attrs, Defaults)
        /\ Resolved(p, queues[q]) /\ UNCHANGED <<queues, objs>>
     \/ /\ queues[q] # 0 /\ ~AttributesMatch(objs[queues[q]].attrs, Defaults)
        /\ Reply(p) /\ UNCHANGED <<queues, objs, kept>>
     \/ /\ queues[q] = 0 /\ StoresFail
        /\ Reply(p) /\ UNCHANGED <<queues, objs, kept>>
  /\ UNCHANGED <<now, sent, calls, answered, strayed, raced, dedups>>

\* GetQueueUrl, ListQueueTags, AddPermission, RemovePermission and the like.
Answer(p) ==
  /\ At(p, "answer") /\ Reply(p)
  /\ UNCHANGED <<queues, objs, now, sent, ghosts>>

(***************************************************************************)
(* CreateQueue and DeleteQueue: one critical section of the manager each   *)
(***************************************************************************)
\* attributesMatch, then the queue there is or QueueNameExists; or a new queue,
\* unless the factory has no store for it.
CreateOr(p, q, attrs) ==
  \/ queues[q] = 0 /\ NewQueue(q, attrs) /\ Reply(p)
  \/ (queues[q] # 0 \/ StoresFail) /\ Reply(p) /\ UNCHANGED <<queues, objs>>

CreateQueue(p) ==
  LET r == Req(p) IN
  /\ At(p, "act") /\ Does(p, {"CreateQueue"})
  /\ IF r.q \in BadNames \/ ~AllValid(r.attrs) \/
        (With(Defaults, r.attrs).FifoQueue = "true" /\ r.q \notin FifoNames)
     THEN Reply(p) /\ UNCHANGED <<queues, objs>>
     ELSE CreateOr(p, r.q, With(Defaults, r.attrs))
  /\ UNCHANGED <<now, sent, ghosts>>

DeleteQueue(p) ==
  LET q == Req(p).q IN
  /\ At(p, "act") /\ Does(p, {"DeleteQueue", "UIDelete"})
  /\ IF queues[q] = 0 THEN UNCHANGED <<queues, objs>>
     ELSE /\ objs' = [objs EXCEPT ![queues[q]].open = FALSE]
          /\ queues' = [queues EXCEPT ![q] = 0]
  /\ Reply(p)
  /\ UNCHANGED <<now, sent, ghosts>>

(***************************************************************************)
(* Attributes and tags                                                     *)
(***************************************************************************)
\* The immutable attributes never change, so that comparing them and setting
\* the others under the lock of the attributes is one step.  The store keeps
\* the configuration it was created with.
SetQueueAttributes(p) ==
  LET req == Req(p).attrs IN
  /\ At(p, "set") /\ Reply(p)
  /\ objs' = IF ChangesImmutable(O(p).attrs, req) THEN objs
             ELSE [objs EXCEPT ![call[p].obj].attrs = SetAttributes(@, Settable(req))]
  /\ UNCHANGED <<queues, now, sent, ghosts>>

\* GetAttribute takes the lock for each name: the answer is read piece by piece.
GetQueueAttribute(p) ==
  LET names == Req(p).names
      c     == call[p]
      start == IF c.read = <<>> THEN O(p).attrs ELSE c.from
  IN
  /\ At(p, "get")
  /\ IF Len(c.read) < Len(names)
     THEN call' = [call EXCEPT ![p] = [c EXCEPT
                     !.read = Append(@, O(p).attrs[names[Len(@) + 1]]),
                     !.from = start, !.torn = @ \/ O(p).attrs # start]]
     ELSE Reply(p)
  /\ UNCHANGED <<queues, objs, now, sent, ghosts>>

\* The limit is checked on a copy of the tags, and counts a key twice that is
\* set again.
TagCheck(p) ==
  LET r == Req(p) IN
  /\ At(p, "tagcheck")
  /\ IF Cardinality(O(p).tags) + Cardinality(r.tags) > MaxTags \/ r.tags \cap LongKeys # {}
     THEN Reply(p)
     ELSE call' = [call EXCEPT ![p].at = "tag", ![p].tags = O(p).tags]
  /\ UNCHANGED <<queues, objs, now, sent, ghosts>>

Untagging(o) == UNION {Req(p).tags : p \in {p \in Procs : At(p, "untag") /\ call[p].obj = o}}

\* Mutant: SetTags of the copy, with the new tags.
MergedIntoCopy(p) == call[p].tags \cup Req(p).tags

\* UpdateTags merges into the tags of the moment.
Merged(p) == O(p).tags \cup Req(p).tags

TagMerge(p) ==
  LET o == call[p].obj IN
  /\ At(p, "tag") /\ Reply(p)
  /\ objs' = [objs EXCEPT ![o].tags = Merged(p)]
  /\ kept' = [kept EXCEPT ![o] = @ \cup (Req(p).tags \ Untagging(o))]
  /\ raced' = IF O(p).tags # call[p].tags THEN raced \cup {o} ELSE raced
  /\ UNCHANGED <<queues, now, sent, calls, answered, strayed, dedups>>

UntagQueue(p) ==
  /\ At(p, "untag") /\ Reply(p)
  /\ objs' = [objs EXCEPT ![call[p].obj].tags = @ \ Req(p).tags]
  /\ UNCHANGED <<queues, now, sent, ghosts>>

(***************************************************************************)
(* PurgeQueue                                                              *)
(***************************************************************************)
CoolingDown(p) == O(p).purgedAt # Never /\ now - O(p).purgedAt < Cooldown

CheckPurgeCooldown(p) ==
  /\ At(p, "cooldown")
  /\ IF CoolingDown(p) THEN Reply(p) ELSE Goto(p, "purge")
  /\ UNCHANGED <<queues, objs, now, sent, ghosts>>

\* manager.PurgeQueue looks the name up again: the queue may be another one.
PurgeQueue(p) ==
  LET o == MappedObj(Req(p).q) IN
  /\ At(p, "purge")
  /\ IF o = 0 THEN Reply(p)
     ELSE call' = [call EXCEPT ![p].at = "purging", ![p].found = o]
  /\ UNCHANGED <<queues, objs, now, sent, ghosts>>

\* Purge of the store that was found, which may be closed by now.
PurgeStore(p) ==
  /\ At(p, "purging")
  /\ \/ objs' = PurgedStore(call[p].found) /\ Goto(p, "mark")
     \/ StoresFail /\ Reply(p) /\ UNCHANGED objs
  /\ UNCHANGED <<queues, now, sent, ghosts>>

Answered(p) ==
  LET o == call[p].found IN
  /\ At(p, "mark") /\ Reply(p)
  /\ answered' = [answered EXCEPT ![o] = now]
  /\ strayed' = IF o = call[p].obj THEN strayed ELSE strayed \cup {o}
  /\ UNCHANGED <<queues, now, sent, calls, kept, raced, dedups>>

\* Mutant: the purge is not recorded.
ForgetPurge(p) == Answered(p) /\ UNCHANGED objs

\* What is marked is the queue the handler looked up, purged or not.
MarkPurged(p) ==
  /\ Answered(p)
  /\ objs' = [objs EXCEPT ![call[p].obj].purgedAt = now]

(***************************************************************************)
(* Entries: SendMessage, DeleteMessage, ChangeMessageVisibility, batches   *)
(***************************************************************************)
\* A batch is refused as a whole, or its entries are taken one by one; the
\* limit of the size is read once for all of them.
CheckEntries(p) ==
  LET r == Req(p) IN
  /\ At(p, "entries")
  /\ IF r.op \in Batches /\ BatchRefused(r.entries) THEN Reply(p)
     ELSE call' = [call EXCEPT ![p].at = EntryStep[r.op],
                               ![p].size = O(p).attrs.MaximumMessageSize]
  /\ UNCHANGED <<queues, objs, now, sent, ghosts>>

Entry(p) == Req(p).entries[call[p].i]

EntryVerdict(p) ==
  Verdict(Entry(p), call[p].size, O(p).attrs.FifoQueue = "true",
          O(p).attrs.ContentBasedDeduplication = "true", Relaxed)

\* A message carries a deduplication id only in a FIFO queue.
Message(p) ==
  [n |-> sent + 1, rcv |-> 0, held |-> FALSE, body |-> Entry(p).body,
   id |-> IF O(p).attrs.FifoQueue = "true" /\ Entry(p).dedup # 0 THEN Entry(p).key ELSE ""]

\* Mutant: without the continue after a store's error the entry succeeds, too.
FailedGoesOn(p) ==
  call' = [call EXCEPT ![p].bad = @ \cup {Entry(p).id}, ![p].ok = @ \cup {Entry(p).id},
                       ![p].i = @ + 1]

\* The lists of a batch: results and errors.
Failed(p) == call' = [call EXCEPT ![p].bad = @ \cup {Entry(p).id}, ![p].i = @ + 1]

Succeeded(p) == call' = [call EXCEPT ![p].ok = @ \cup {Entry(p).id}, ![p].i = @ + 1]

HasEntry(p) == call[p].i <= Len(Req(p).entries)

\* The store is asked to send; a duplicate has a result like a new message.
StoreEntry(p) ==
  LET o == call[p].obj IN
  \/ O(p).open /\ Keeps(objs, o, Message(p)) /\ sent' = sent + 1 /\ Succeeded(p)
  \/ O(p).open /\ Duplicate(o, Message(p)) /\ Succeeded(p) /\ UNCHANGED <<objs, sent, dedups>>
  \/ O(p).open /\ FailsToInsert(objs, o, Message(p)) /\ Failed(p) /\ UNCHANGED sent
  \/ ~O(p).open /\ Failed(p) /\ UNCHANGED <<objs, sent, dedups>>

SendEntry(p) ==
  /\ At(p, "send") /\ HasEntry(p)
  /\ \/ EntryVerdict(p) = "ok" /\ StoreEntry(p)
     \/ EntryVerdict(p) # "ok" /\ Failed(p) /\ UNCHANGED <<objs, sent, dedups>>
  /\ UNCHANGED <<queues, now, calls, answered, strayed, kept, raced>>

EntriesDone(p) ==
  /\ call[p].at \in {"send", "uisend", "delete", "change"} /\ ~HasEntry(p) /\ Reply(p)
  /\ UNCHANGED <<queues, objs, now, sent, ghosts>>

(***************************************************************************)
(* ReceiveMessage and what a receipt handle is good for                    *)
(***************************************************************************)
\* ReceiveMessages of a store: some of the visible messages, at most max, are
\* held under new handles.
Receive(p, max) ==
  LET o == call[p].obj IN
  \E S \in SUBSET {m \in objs[o].msgs : ~m.held /\ m.rcv < MaxReceives} :
    /\ Cardinality(S) <= max /\ (S = {} => \A m \in objs[o].msgs : m.held \/ m.rcv = MaxReceives)
    /\ objs' = [objs EXCEPT ![o].msgs = (@ \ S) \cup
         {[m EXCEPT !.rcv = @ + 1, !.held = TRUE] : m \in S}]

\* A count or a timeout out of range is refused, and so is a default that the
\* attributes got past their limits.  The two defaults are read one by one.
ReceiveMessage(p) ==
  LET r == Req(p)
      visibility == IF r.visibility < 0 THEN O(p).attrs.VisibilityTimeout ELSE r.visibility
  IN
  /\ At(p, "receive")
  /\ IF r.max \in 1..10 /\ visibility \in Bounds.VisibilityTimeout THEN Goto(p, "wait") ELSE Reply(p)
  /\ UNCHANGED <<queues, objs, now, sent, ghosts>>

ReceiveWaitTime(p) ==
  LET wait == IF Req(p).wait < 0 THEN O(p).attrs.ReceiveMessageWaitTimeSeconds ELSE Req(p).wait IN
  /\ At(p, "wait")
  /\ IF wait \in Bounds.ReceiveMessageWaitTimeSeconds THEN Goto(p, "poll") ELSE Reply(p)
  /\ UNCHANGED <<queues, objs, now, sent, ghosts>>

\* The store's answer: at once, or whenever a long poll ends; a closed store has
\* an error.
Poll(p) ==
  /\ At(p, "poll") /\ Reply(p)
  /\ \/ O(p).open /\ Receive(p, Req(p).max)
     \/ (~O(p).open \/ StoresFail) /\ UNCHANGED objs
  /\ UNCHANGED <<queues, now, sent, ghosts>>

Held(p) == Holding(call[p].obj, Entry(p).n, Entry(p).rcv)

\* The empty handle, a handle the message has no longer: the entry fails.
DeleteEntry(p) ==
  LET o == call[p].obj IN
  /\ At(p, "delete") /\ HasEntry(p)
  /\ \/ (Held(p) = {} \/ StoresFail) /\ UNCHANGED objs /\ Failed(p)
     \/ Held(p) # {} /\ objs' = [objs EXCEPT ![o].msgs = @ \ Held(p)] /\ Succeeded(p)
  /\ UNCHANGED <<queues, now, sent, ghosts>>

\* In a batch a negative timeout is the queue's default; alone it is refused.
ChangeEntry(p) ==
  LET o == call[p].obj
      t == IF Entry(p).visibility < 0 /\ Does(p, {"ChangeMessageVisibilityBatch"})
           THEN O(p).attrs.VisibilityTimeout ELSE Entry(p).visibility
      GivenBack(m) == [m EXCEPT !.held = t > 0]
  IN
  /\ At(p, "change") /\ HasEntry(p)
  /\ \/ /\ Held(p) = {} \/ t \notin Bounds.VisibilityTimeout \/ StoresFail
        /\ UNCHANGED objs /\ Failed(p)
     \/ /\ Held(p) # {} /\ t \in Bounds.VisibilityTimeout
        /\ objs' = [objs EXCEPT ![o].msgs = (@ \ Held(p)) \cup {GivenBack(m) : m \in Held(p)}]
        /\ Succeeded(p)
  /\ UNCHANGED <<queues, now, sent, ghosts>>

(***************************************************************************)
(* The environment: time, and visibility timeouts with their redrives      *)
(***************************************************************************)
Tick == now < MaxTime /\ now' = now + 1 /\ UNCHANGED <<queues, objs, call, sent, ghosts>>

\* The policy of the store's configuration counts, not the one of the
\* attributes.  A message with a queue to go to is kept there, dropped as a
\* duplicate or not inserted; one without is lost.
VisibilityExpires(o, m) ==
  LET policy == objs[o].cfg.policy
      due    == policy.max > 0 /\ m.rcv >= policy.max
      target == IF policy.target \in Names THEN queues[policy.target] ELSE 0
      Moved  == [m EXCEPT !.rcv = 0, !.held = FALSE]
      Left   == [objs EXCEPT ![o].msgs = @ \ {m}]
  IN
  /\ m.held
  /\ \/ /\ ~due
        /\ objs' = [objs EXCEPT ![o].msgs = (@ \ {m}) \cup {[m EXCEPT !.held = FALSE]}]
        /\ UNCHANGED dedups
     \/ due /\ target # 0 /\ Keeps(Left, target, Moved)
     \/ due /\ target # 0 /\ FailsToInsert(Left, target, Moved)
     \/ /\ due /\ (target # 0 => Duplicate(target, Moved))
        /\ objs' = Left /\ UNCHANGED dedups
  /\ UNCHANGED <<queues, call, now, sent, calls, answered, strayed, kept, raced>>

Handle(p) ==
  \/ ResolveQueue(p) \/ AutoCreateQueue(p) \/ Answer(p) \/ CreateQueue(p) \/ DeleteQueue(p)
  \/ SetQueueAttributes(p) \/ GetQueueAttribute(p)
  \/ TagCheck(p) \/ TagMerge(p) \/ UntagQueue(p)
  \/ CheckPurgeCooldown(p) \/ PurgeQueue(p) \/ PurgeStore(p) \/ MarkPurged(p)
  \/ CheckEntries(p) \/ SendEntry(p) \/ DeleteEntry(p) \/ ChangeEntry(p) \/ EntriesDone(p)
  \/ ReceiveMessage(p) \/ ReceiveWaitTime(p) \/ Poll(p)

Next ==
  \/ \E p \in Procs, r \in Requests : Begin(p, r)
  \/ \E p \in Procs : Handle(p)
  \/ \E o \in Obj : \E m \in objs[o].msgs : VisibilityExpires(o, m)
  \/ Tick

Spec == Init /\ [][Next]_vars

(***************************************************************************)
(* Properties                                                              *)
(***************************************************************************)
IsMessage(m) ==
  /\ DOMAIN m = {"n", "rcv", "held", "body", "id"}
  /\ m.n \in 1..sent /\ m.rcv \in 0..MaxReceives /\ m.held \in BOOLEAN

\* Every variable keeps its type; a name leads to an open queue of that name.
TypeOK ==
  /\ queues \in [Names -> 0..Len(objs)] /\ Len(objs) <= MaxObj
  /\ \A o \in Obj :
       /\ objs[o].name \in Names /\ DOMAIN objs[o].attrs = Attribute
       /\ objs[o].purgedAt \in {Never} \cup 0..now
       /\ \A m \in objs[o].msgs : IsMessage(m)
  /\ \A p \in Procs : At(p, "idle") => call[p] = Idle
  /\ \A q \in Names : queues[q] # 0 => objs[queues[q]].name = q /\ objs[queues[q]].open

\* A tag that was acknowledged stays until it is untagged: UpdateTags "prevents
\* the get-modify-set race" of two TagQueue calls on one queue.  And a queue has
\* more tags than the limit only after a TagQueue merged into tags that were no
\* longer those it had checked.
TagsHold ==
  \A o \in Obj :
    /\ kept[o] \subseteq objs[o].tags
    /\ Cardinality(objs[o].tags) > MaxTags => o \in raced

\* A store is not purged by a PurgeQueue within the cooldown after another one
\* that purged it was answered, if that was before the later one looked its
\* queue up.  The store of a strayed object is excused: its queue was created
\* between the check and the purge of a call that marked the queue before it.
PurgesAreApart ==
  \A p \in Procs :
    LET o == call[p].found IN
    At(p, "purging") /\ o \notin strayed /\ call[p].last[o] # Never =>
      now - call[p].last[o] >= Cooldown

\* The two immutable attributes a store is configured with, its kind and its
\* deduplication, are the ones its queue shows for ever.  The redrive policy and
\* the retention, which may be set, part from the store and are not compared.
StoreAgreesWithAttributes ==
  \A o \in Obj :
    /\ objs[o].cfg.fifo = (objs[o].attrs.FifoQueue = "true")
    /\ objs[o].cfg.cbd = (objs[o].attrs.ContentBasedDeduplication = "true")

\* Names, queue objects and the stores inside them fit together, whatever calls
\* still hold objects that were deleted.
ObjectsAgree == TypeOK /\ StoreAgreesWithAttributes

\* The attributes a queue is given in one go: by the configuration, when it is
\* created, and by a SetQueueAttributes that is not refused.
Given ==
  {Startup[q] : q \in DOMAIN Startup}
  \cup {r.attrs : r \in {r \in Requests : r.op \in {"CreateQueue", "UICreate"}}}
  \cup {Settable(r.attrs) :
          r \in {r \in Requests : r.op = "SetQueueAttributes" /\ AllValid(Settable(r.attrs))}}

\* A setting is a name and a value.
Settings == UNION {{<<a, g[a]>> : a \in Numbers \cap DOMAIN g} : g \in Given}

Has(attrs, s) == attrs[s[1]] = s[2]

\* Two settings no queue is given one without the other.
Together ==
  {st \in Settings \X Settings :
    /\ Has(Defaults, st[1]) <=> Has(Defaults, st[2])
    /\ \A g \in Given :
         /\ st[1][1] \in DOMAIN g <=> st[2][1] \in DOMAIN g
         /\ st[1][1] \in DOMAIN g => (Has(g, st[1]) <=> Has(g, st[2]))}

Whole(attrs) == \A st \in Together : Has(attrs, st[1]) <=> Has(attrs, st[2])

\* SetQueueAttributes changes all the attributes it names or none, and no invalid
\* value leaves the others behind: settings that only come together are read
\* together by a GetQueueAttributes, unless the attributes changed between two
\* of its reads, each of which takes the lock of its own: such a reader does see
\* the "partially-updated state" of actions_queue.go:160-161.
ReadsAreWhole ==
  \A p \in Procs : At(p, "get") /\ ~call[p].torn =>
    \A st \in Together, i, j \in DOMAIN call[p].read :
      Req(p).names[i] = st[1][1] /\ Req(p).names[j] = st[2][1] =>
        (call[p].read[i] = st[1][2] <=> call[p].read[j] = st[2][2])

\* What a result says the store did: the message is there, or was taken for one
\* with an identifier this store has kept or failed to insert; the handle is
\* used up; the message is held, or given back.
TookEffect(p) ==
  LET o == call[p].obj IN
  \/ /\ call[p].at \in {"send", "uisend"}
     /\ \/ \E m \in objs'[o].msgs : m.n = sent' /\ sent' = sent + 1
        \/ \E id \in Ids(o, Message(p)) : <<o, id>> \in stored \cup failed
  \/ At(p, "delete") /\ objs'[o].msgs = objs[o].msgs \ Held(p) /\ Held(p) # {}
  \/ /\ At(p, "change") /\ Held(p) # {}
     /\ \E b \in BOOLEAN :
          objs'[o].msgs = (objs[o].msgs \ Held(p)) \cup {[m EXCEPT !.held = b] : m \in Held(p)}

\* Each entry of a batch becomes a result or an error and not both: an error only
\* if the store is as it was, but for an identifier; a result only if the store
\* did what the entry asks for, now, or for an earlier message it takes for it.
BatchAccounts ==
  [][\A p \in Procs : call[p].at \in {"send", "uisend", "delete", "change"}
                       /\ call'[p].i = call[p].i + 1 =>
       LET id == Entry(p).id
           o  == call[p].obj
       IN
       /\ id \notin call[p].ok \cup call[p].bad
       /\ \/ /\ call'[p].ok = call[p].ok \cup {id} /\ call'[p].bad = call[p].bad
             /\ TookEffect(p)
          \/ /\ call'[p].bad = call[p].bad \cup {id} /\ call'[p].ok = call[p].ok
             /\ objs'[o].msgs = objs[o].msgs]_vars
=============================================================================
