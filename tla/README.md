# A verification development for OpenSQS

OpenSQS is an SQS-compatible message queue server in Go. This directory holds
TLA+ models of its core, the TLC configurations that check them on small
instances, and theorems that TLAPS proves for every instance. Paths below are
relative to `src/`.

## 1. The system

| Component | State | Operations | Talks to |
|---|---|---|---|
| Message store, in memory (`pkgs/v1/queue/store/memory`) | slice of messages, dedup cache, in-flight groups, sequence counter, notify channel, closed flag, one timer per message | Send, Receive (long poll), Delete, ChangeVisibility, Purge, Close, three counters, timer callbacks | calls `redriveFunc` of the manager from a timer callback, holding its mutex |
| Message store, SQLite / Badger (`store/sqlite`, `store/badger`) | rows or keys, plus in memory: dedup cache, sequence counter, closed flag | the same interface; visibility is decided lazily, at each receive | the same `redriveFunc`, from ReceiveMessages |
| Queue manager (`pkgs/v1/queue/manager.go`) | map from names to queues under `qm.mu` | Create, Delete, Lookup, List, Purge, redriveMessage, Shutdown | creates and closes stores; redrives into the dead-letter queue's store |
| Queue (`queue.go`, `attributes.go`, `limits.go`) | attributes, tags, time of the last purge | get and set, purge cooldown, tag merge | used by the handlers |
| Move tasks (`dlq/move_task.go`) | map of tasks; per task a status, a completion time, a channel | StartTask, CancelTask, ListTasks, the task's goroutine, hourly cleanup | receives, sends and deletes through two stores |
| Redrive policies (`dlq/redrive.go`) | none | parse and check JSON | used by manager and move tasks |
| Handlers (`apps/go/server/handlers`) | none | one per API action, ten-entry batches | manager, queues, stores, move tasks |
| Protocol (`apps/go/server/protocol`, `handlers/marshal.go`) | none | query and JSON protocols to requests and back | handlers |
| Middleware (`apps/go/server/middleware`) | map of rate limiters | authentication, a shared limit or one per queue with its cleanup, logging | wraps the handlers |
| Credentials (`store/credentials`) | access keys in memory, SQLite or Badger | create, import, get by key, list, delete | authentication, start-up, web pages |
| Web UI (`apps/go/server/ui`) | none | pages and forms for queues, messages and credentials | manager, queues, stores and credential stores, past the handlers' checks |
| Start-up and configuration (`apps/go/server`) | configuration | wiring; seeding of credentials and queues | everything above |
| Metrics, health, TLS (`apps/go/server`) | counters | input and output | store counters |

How the parts meet:

* A request handler looks a queue up under `qm.mu.RLock`, drops it, and then
  uses the store: the queue may have been deleted, and created again, between.
* A redrive nests mutexes the other way round: it starts inside a store's
  critical section and takes `qm.mu` and the dead-letter store's mutex.
* `DeleteQueue` holds `qm.mu` while it closes a store; `Shutdown` does not.
* Authentication reads the body of a request and puts it back for the handler;
  the limiter's `Allow` runs outside the mutex of the map it was taken from.
* The web interface shares queues, stores and credentials with the API, with
  checks of its own.
* Each memory-store message has a timer whose callback waits for the store's
  mutex, and `Timer.Stop` cannot stop a callback that has fired.
* The move task's goroutine shares a status and a channel with API calls, but
  not their mutex, and its batch with everyone else who receives.

What is hard here: callbacks racing API calls, two flags that cache facts about
messages (`inFlightGroups`, the empty receipt handle), one wake-up token for
any number of pollers, lock nesting across components, and the windows between
a store's commit and the call that follows it, between a handler's check and its
update, and between the two protocols and what the handlers are told. `PROJECT.json` lists each of
these under `hazards`, at its line, with the properties that watch it.

What makes each component correct:

* stores: an accepted message is never lost or stranded in flight, meets one
  fate, keeps its group's order and exclusion, is redriven on time, is
  accepted once per deduplication window; pollers are woken and return;
* manager: no store leaks, no name leads to a closed store, a redriven message
  arrives unless its target is gone or does not take it, calls return;
* move tasks: no message is lost between the queues, a cancelled task stops,
  the cleanup forgets only tasks that stopped;
* handlers: tags, limits, cooldown and attributes hold under concurrent calls
  and under the deletion of their queue; each batch entry is accounted for;
* authentication: it lets through what was signed with a key's secret, as far as
  the canonical request tells requests apart, and no more;
* protocols: handlers get what was meant, clients read what was answered, and what
  is lost on the way is known;
* limiter: the limit is kept, and only who spent it is refused;
* credentials: one credential per access key, the configured ones are there once
  the server is up, a deleted one is refused.

## 2. The modules

| Module | What it is |
|---|---|
| `MemoryStore` | the in-memory store: state, one action per method body and callback, properties |
| `MCMemoryStore` | constants and symmetry for its runs |
| `MemoryStoreProofs` | theorems about `MemoryStore` |
| `LazyStore` | the SQLite and the Badger store, through failures, crashes and reopening |
| `MCLazyStore` | constants for its runs |
| `LazyStoreProofs` | theorems about `LazyStore` |
| `MoveTask` | move tasks over a source and a destination queue, for each backend |
| `MCMoveTask` | constants and symmetry for its runs |
| `MoveTaskProofs` | theorems about `MoveTask` |
| `QueueManager` | names, stores, and the mutexes a redrive, a delete and a shutdown take |
| `QueueManagerProofs` | theorems about `QueueManager` |
| `MCQueueManager` | constants for its runs |
| `StoreContract` | what any store promises, message by message; the abstract specification of `MemoryStore` and `LazyStore` |
| `MemoryStoreFifoProofs` | theorems about order, groups, deduplication and wake-ups of `MemoryStore` |
| `QueueAttributes` | attributes, their ranges and flags, limits, what a message is refused for |
| `Handlers` | the request handlers, batches included, over the queues of a manager; extends `QueueAttributes` |
| `WebUI` | the web interface beside them; extends `Handlers` |
| `MCServer` | queues, requests and bounds for the run of `WebUI` |
| `Authentication` | what is read, cut, sorted and signed of a request, and the verdict |
| `Credentials` | the three credential stores, start-up, crash and restart, the credential pages; extends `Authentication` |
| `RateLimiter` | the map of limiters, the token buckets, the cleanup |
| `Protocol`, `Replies` | what handlers are given for a form or a JSON text; how answers are written in both protocols |
| `Clients` | how clients say what they mean and read those answers (external: code outside the repository) |
| `Front` | the chain from listener to handler and back, composed of the six modules above |
| `MCFront` | client libraries that build requests, five configurations, bounds |
| `HandlersProofs` | theorems about `Handlers` and `WebUI` together |
| `FrontLemmas` | lemmas about the parts of `Front`: credentials, limiters and protocols |
| `FrontProofs` | theorems about `Front` |

Definitions beginning with "Mutant:" in their comment are plausible bugs, used
to show that the properties notice them; no specification refers to them.
Variables under "for the properties" record history; no action reads them.

### MemoryStore

| Code | Model |
|---|---|
| `s.messages` | `messages`, a set, ordered by `order` (the slice is only appended to and filtered) |
| `mm.visibleAt`, `receiptHandle`, `receiveCount`, `msg.SentTimestamp`, `SequenceNumber` | functions on messages; the handle of a message is the number of the receive that made it, 0 is `""` |
| `s.dedupCache` | `dedupCache`: expiry per identifier, 0 when absent |
| `s.inFlightGroups`, `sequenceCounter`, `closed` | the same names |
| `mm.visibilityTimer` | `timers`, armed; `fired`, callbacks that wait for `s.mu` |
| `s.notify` (capacity 1) | `notify` |
| a call of `ReceiveMessages` | `rcv[c]`: `scan` (about to lock), `wait` (in the select) |
| `store.Now()` | `now`, in ticks, up to `MaxTime` |

A method body that holds `s.mu` throughout is one action, with everything it
calls: `deleteExpiredMessagesLocked` is part of `ReceiveScan`,
`cleanExpiredDedupEntries` of both send actions, `removeMessage` of the delete
and the redrive. The two kinds of callback differ in the code (the one armed by
`ChangeMessageVisibility` looks neither at `closed` nor clears the timer in the
same order) and so do they in `SkipsCallback` and `CallbackRedrives`.

`late` holds the messages of which a callback had fired and was waiting for the
mutex when a call that should have stopped it (delete, extend, purge, expiry)
ran, with the handle unchanged. The code does not defend against this window.
Properties that it breaks are stated for `late = {}`; section 5 says what
happens otherwise.

### StoreContract

A message is `[place, received, holder]`, and a step of a store is a step of some
of its messages: `Accept`, `Deliver`, `Elapse`, `Extend`, `GiveBack`, `Release`,
`Redrive`, `Acknowledge`, `Drop`. `Place` and `Contract` in `MemoryStore` and in
`LazyStore` are the refinement mappings, and `KeepsContract` is the contract's
specification under them. A memory-store message is visible when the clock has
reached its `visibleAt`; over SQLite and Badger the handle stays after that, as
the contract allows, since `Release` is a step of its own. Two parameters say
where implementations differ: `EmptyHandles`, whether a delete with the empty
handle finds messages (SQLite and Badger: yes), and `disturbed`, the messages a
late callback may take from their holder too early (`late` in the memory store,
always empty in the others).

### LazyStore

| Code | Model |
|---|---|
| the SQLite table, the Badger keys of a queue | `table`, from stored messages to rows `sent`, `visible`, `handle`, `count`, `seq` |
| `s.dedupCache`, `sequenceCounter`, `closed` | the same names; `closed` is also the state of a process that is down |
| a call of `ReceiveMessages` that holds `s.mu` | `receiving`; `carried` are the messages its redrive deleted and has not handed over |
| which backend, and `s.isFifo` | `backend`, `isFifo`, chosen at the start, so that one run covers the four stores |

Both stores keep no timers and decide visibility when someone receives. They
share their operations and differ in three places: how a receive selects
(`SQLiteSelections` is the query with its `LIMIT` and the loop after it,
`BadgerSelection` the scan in key order), how its updates fail (row by row, or
all together), and what a delete by the empty handle hits. A message is a
natural number, as its random id is its place in Badger's key order.

A method body is one action, except `ReceiveMessages`: `ReceiveRedrive` ends
with the commit of the redrive transaction or with the error that abandons it,
`RedriveCall` is one call of `redriveFunc`, and `ReceiveReturns` is the rest:
expiry, selection, updates. The process may crash and the clock may advance
between them. The clock matters: the redrive's query reads the time before the
selection does, so a message that lapses between the two is received once more
than `maxReceiveCount` allows. A long poll is a sequence of such receives; it
keeps nothing between them. Failures of the database are choices: `SendFails`,
the second disjunct of `ReceiveRedrive`, and the subsets in `ReceiveReturns`. A
failed delete, visibility change or purge changes nothing and is no step.

`Open` is a queue created again under its name, after `Close` or a crash, with
the table it left. `Crash` loses the messages a redrive carries: fate `lost`.
Only move tasks delete by the empty handle (`DeleteEmptyHandle`).

`revived` holds the messages whose visibility lapsed and was extended
afterwards with the old handle, which both stores allow: only such a message
can be in flight beside another of its group over SQLite.

### MoveTask

`runTask` is a program counter: `top` (select on the channel), `receive`,
`each` (the inner select), `send`, `delete`, `finish` and `stamp` (the two
stores of `setTaskStatus`). `CancelTask` is three steps under `mtm.mu`: read the
status, store `CANCELLING`, close the channel. `removeStaleTasks` is one step.
The stores are seen from outside: a source message is absent, `fresh`, `held`
or `lapsed`; `DeleteEmptyHandle` is what each backend does when it is asked to
delete by the empty handle, which is what `runTask` does, as `PrepareForRedrive`
has just cleared it. Real time is replaced by ages: `recent`, then `old` when
`taskTTL` has passed.

### QueueManager

A store is a name and a generation, so a queue created again has another store.
A section that takes only one mutex is one step. Three nest: `DeleteQueue`
(`qm.mu`, then a store's), a redrive (a store's, then `qm.mu`, then the
dead-letter store's) and none in `Shutdown`, which takes each store's mutex
alone. Messages are only followed as far as where they are. A closed memory
store may still start a redrive, as the `ChangeMessageVisibility` callback does.

A send, of a client or at the end of a redrive, has the outcomes of
`SendMessage` in a store: a closed one refuses it; one that remembers the
identifier drops it and reports success (`Dropped`); a backend that can fail
(`Fallible`, SQLite and Badger) remembers the identifier and loses a redriven
message, of which the manager only logs the error; any other keeps it (`Keep`).
`KnownAs` is the identifier a message has in a queue, which can differ between
the two queues of a redrive. `seen` is what a store remembers: an entry that
expires is passed over, so a send of a remembered identifier may be dropped or
kept.

### Handlers and WebUI

| Code | Model |
|---|---|
| `qm.queues` | `queues`, from names to objects, 0 without one |
| a `*queue.Queue` with its store | `objs[o]`: `attrs`, `tags`, `purgedAt`, the store's configuration `cfg`, its messages `msgs`, `open` |
| a goroutine that runs a handler | `call[p]`: what it was asked, where it is (`at`), the object it looked up, the entry of the batch, the results so far |

A step is what happens between two critical sections. A handler keeps the queue
it looked up, so that a call may work on an object whose name leads to another
one by then, or to none; only `PurgeQueue` looks up again, and then purges in a
step of its own (`PurgeStore`), so that it may purge another queue than the one
it marks. `ResolveQueue` and the `CreateQueue` of `autoCreateQueues`
(`AutoCreateQueue`) are two critical sections, the second of which may find a
queue with other attributes or fail. The store inside an object does what
`StoreContract` promises with messages that are visible or held: `Receive` takes
some of the visible ones, `VisibilityExpires` gives one back, redrives it by the
store's own policy, or loses it.

A FIFO store knows messages by their identifiers (`KnownAs`): it drops a
duplicate and the entry has a result all the same, and an insert that fails
leaves its identifier behind, so that a retry has a result without a message
(`StoreEntry`, with `StoresFail`). A receive reads the two default timeouts in
two steps, then waits in the store (`ReceiveMessage`, `ReceiveWaitTime`, `Poll`).

`SetAttributes` is one step under its lock, while `GetQueueAttribute` reads name
by name. The handlers read single settings of a queue
(`q.Attributes().VisibilityTimeout`) without that lock: a data race on a word,
of which a reader sees the old or the new value, as here. Names, keys and bodies
are members of small sets, some of them out of the limits (`BadNames`,
`UIBadNames`, `LongKeys`, sizes).

`WebUI` adds the forms and the page that shows messages; its delete of a message
is `DeleteEntry` and its delete of a queue `DeleteQueue`, as in the code.

### Front and its parts

A request goes through `auth`, `limit`, `allow`, `handle`, `write`, one step
between two accesses to what goroutines share. `setup` is the configuration:
with or without authentication, no limiter, a shared one or one for each queue,
the credential backend, the configured credentials, the web interface.

* `Authentication` is a function of the request and the credential found: legacy
  parameters, or the canonical request of Signature Version 4. `Hash` and `HMAC`
  are free constructors: equal results mean equal arguments. Nothing is assumed
  of `EncodeURI` and `Join`, which write the path, the query and the headers into
  the canonical request: in the code neither is injective, and `MCFront` gives
  them values that are not. A body says whether it can be parsed, as a whole and
  when it is cut. `RestoredBody` is what is put back for the handler.
* `Credentials` has a phase: `down`, `seeding` (the next configured key),
  `import` (the lookup of `Import`), `insert`, `up`. Databases may fail, up to
  `MaxFaults` times, and the process may stop between any two steps; what the
  memory backend held is gone then.
* `RateLimiter` separates taking a limiter from the map, under its mutex, from
  `Allow`, outside. `sweep` is the cleanup, which looks at one limiter after the
  other and deletes the full ones. The token bucket of `golang.org/x/time/rate`
  is whole tokens, refilled at ticks, written from how the code uses it. `ideal`
  and `strayed` are for the properties: the bucket a queue would have without any
  cleanup, and what was taken from buckets the map had lost.
* `Protocol` takes a form as a function from keys to texts, a key being a path of
  words and numbers split at its dots, and a JSON value as a tagged record.
  `QueryRequest` and `JSONRequest` are the request a handler sees. `Replies` has
  for each action the document in each protocol, with what is omitted when
  empty and, in XML, what is inside the `Result` element and what beside it, or
  right under `ErrorResponse`. `Clients` looks for each element where the
  protocol and docs/api-reference.md have it. `IsResponse` says which fields of
  `Response` a handler fills in for its action. `Readable` has the forms and
  texts that do not parse and the bodies that are too long, each with its error.
* What a client means is a record of `MeaningFields`. `FormSays` and `ObjectSays`
  are relations: which forms and which objects say it, without a way to build
  one. A parameter may have any of its spellings, a list any increasing numbers,
  a table any numbers with or without gaps, an empty field may be left out, a
  binary may be text that is no base64. What they ask of a client is little:
  entries are under one prefix, a flat attribute does not have the name of a
  parameter. What of it a handler gets is `ObjectKept` and `FormKept`, which name
  what is lost (section 5). A request of `MCFront` with the meaning of another, where handlers
  tell the two apart, does not satisfy `Conveys`.
* What clients are is an assumption of `Front`, not a definition
  (`ClientsAssumption`, `MeaningsAssumption`, both evaluated for the requests of
  `MCFront`): a request comes with what its client meant (`meant`), which
  `Conveys` relates to what it sends, and with what it
  signed (`signedAs`), of which `Presents` says that the
  signature in it, if it is complete, is one over that, with the secret the
  client has. `Covered` is what a signature vouches for on the server's side: the
  method, the body that a handler reads and the date as they are, the path, the
  query and the headers in canonical form. Between the two anything may have been
  changed, and `AuthenticationIsRight` compares them. A client whose own encoding
  of bytes that are not UTF-8 differs from `encodeURI` is refused, which follows.

What a handler does is in `Handlers`; in `Front` it answers anything of `Answers`
or fails with one of `Errors`.

## 3. The runs

| Run | Question | Bounds, and why they are enough |
|---|---|---|
| `memory_standard` | Does a standard queue with redrive lose, strand or duplicate a fate of a message? | 2 messages, delays {0,1}, visibility {1,2}, retention 1, 2 ticks, 3 receives per message, redrive at 2: a timer, its late callback, a newer timer for the same message, and expiry all coexist |
| `memory_fifo` | Is the contract kept; are groups in order (and so exclusive), redriven on time, and is the poller woken? | 2 messages of one group, waits {0,1}, 2 ticks, 3 receives, redrive at 2: extension, giving back, redrive and late callbacks of a group, each with a poller |
| `memory_dedup` | Does deduplication cover the window across purges, and does retention leave no group marked for nothing? | 3 messages, two with one identifier, two in one group, window 1, retention 1, 3 ticks: before, at and after the last instant of the window, and messages that age out in flight |
| `memory_liveness` | Do long polls return and handles end? | 1 message, 2 receivers, 3 ticks, waits {0,2} |
| `move_tasks` | Do two tasks racing each other, cancellations and the cleanup lose a message or forget a live task? | 2 tasks, 2 messages of which the destination drops one, batches of 2, memory backend |
| `move_liveness` | Does a cancelled task end? | 1 task, 2 messages, SQLite backend |
| `queue_manager` | Do creates, deletes, redrives and shutdown leak stores, does a redriven message arrive but for the named exceptions, and does every call return unless a `DeleteQueue` waits for a redrive from the same queue? | a queue and its dead-letter queue, 2 generations, the second dead-letter queue over a backend that can fail, 2 goroutines, 2 messages with one identifier: each pair of the nestings at once, a duplicate and a failed insert |
| `lazy_store` | Is the contract kept; do failures, crashes and reopening lose or duplicate a message, its number or its deduplication; are groups exclusive and ordered over SQLite? | 3 messages of one group, two with one identifier, both backends, standard and FIFO, delays {0,1}, visibility 1 (0 stands for the default, here 1 too), batches {1,2}, retention 1, window 1, redrive at 2, 2 ticks, 2 receives per message, 3 sequence numbers, 1 reopening: expiry, lapse, redrive, crash and a reused number all fit |
| `handlers` | Do overlapping calls of the API and the web interface keep tags, cooldown, attributes and the results of batches right while queues come and go and stores fail? | 3 names (one FIFO, one invalid), 3 queue objects, 2 goroutines, 4 calls, at most 1 tag of 3 keys (one too long), cooldown 2, 2 ticks, 2 receives per message: each check-then-act window with one racing call, a third to set it up, a fourth to look |
| `front` | Who is authenticated, what do handlers get and clients read, what is let through, and which credentials are there? | five configurations, below; 2 goroutines, 3 buckets, burst 2, refill 1, 2 ticks, 4 credentials, 2 starts, 1 database failure |
| `doc_*` | two disagreements, section 5 | as small as shows them |

The configurations of `front`: a server without checks, to which all actions
come in both protocols, built as a client library builds them, and odd requests
besides (gaps in the numbering of attributes and of entries, binaries that are
no base64, forms and texts that do not parse, bodies too long, wrong types); one
with authentication, with requests signed in both ways and variants that tamper
with each signed part, some of which `EncodeURI` or `Join` cannot tell apart; one with the three credential backends, the web interface,
two starts and a failure; one with a limit per queue; one with a shared limit.

The bounds on counters are guards: `MaxTime` and `MaxTicks` of the clocks,
`MaxDeliveries` and `MaxReceives` of receives, `MaxGen`, `MaxObj` and `MaxOpens`
of creating and opening queues, `MaxSequence` of `NumberMessage`, `MaxCalls` and
`setup.calls` of `Begin`, `MaxId`, `MaxBoots` and `MaxFaults` of credentials,
starts and failures, `MaxBuckets` of `GetLimiter`. A long poll that would outlast
the clock is not started. Symmetry is used over messages that
share a group, over tasks and over goroutines, and never with a liveness
property.

Deadlock is checked in the memory-store runs. It is not in the runs of
`MoveTask` (all tasks may have ended with both queues deleted), `LazyStore` (a
store closed for the last time), `QueueManager` (every generation used up, or
the deadlock of section 5), `WebUI` and `Front` (every call used up).

The type invariants are proved (section 4) and not run again, except the one
of `Handlers`, which is part of `ObjectsAgree`. `TagsHold` joins two facts about
tags: acknowledged ones stay, and the limit is exceeded only by merging into tags
that changed since the check.

`late`, `revived`, `strayed`, `raced`, `torn`, `MayEndAs`, and the losses in
`ObjectKept`, `FormKept` and `RepliesCarryTheAnswer` are the exceptions some
properties make. Each is the exact window or loss the code has (section 5),
recorded when it is entered or named where it happens, so that the property
still says that there is no other. A property with such a name does not say that
the hazard is harmless; `PROJECT.json` has a note at each hazard that is excused
in part.

Each property of a passing run is paired, in `PROJECT.json`, with a mutant of
the code that breaks it in that run.

### Fairness

* `MemoryStore!FairSpec`: weak fairness of time, of firing an expired timer, of
  callbacks and of receivers at a mutex or a ready select. `sync.Mutex` hands
  over to a starving waiter, and no section here waits for anything else. The
  caller's cancellation and all API calls are unfair.
* `MoveTask!FairSpec`: weak fairness of each task's goroutine and of a
  `CancelTask` that has begun. The queues around them may change at will.
* `QueueManager!FairSpec`: strong fairness of each goroutine's step, since the
  mutex it needs may be taken and released for ever; Go's mutexes do not starve
  waiters, and an `RWMutex` admits no new reader before a waiting writer. The
  return of an interrupted shutdown is not assumed.

`PollReturns` makes an exception once a message has reached `MaxDeliveries`,
because the bound then blocks a scan the code would perform.
`InFlightReleased` makes one for a visibility that ends after the clock stops.

## 4. The theorems

Those of `MemoryStoreProofs` hold for all constants satisfying
`ConstantsAssumption` (typing of the constants; windows positive):

* `TypeCorrect`: `Spec => []TypeOK`; `TypeOK` is inductive. One lemma for each
  group of actions, then `NextTypeOK`. It includes that stored messages were
  sent, which the next theorem needs.
* `NoAcceptedMessageLost`: `Spec => []NothingLost`, inductive with `TypeOK`. The
  cases that matter are the ones that shrink `messages`.
* `BusyGroupsHaveHolders`: `Spec => []BusyGroupHasHolder`. Inductive together
  with `StandardHasNoGroups` (a standard queue marks no group): releasing a
  group is by a message that holds a handle, so the other groups' holders stay
  (`ReleaseKeepsHolders`); a scan marks only groups of messages it gives handles
  to (`ScanKeepsHolders`); an expired holder goes to `expiredInFlight`.
* `InFlightMessagesHaveTimers`: `Spec => []InFlightHasTimer`. Inductive together
  with `UnsentHasNoHandle` (sending does not overwrite a live handle). An action
  on one message leaves the timers of the others alone (`OneMessageStep`,
  `UntouchedHasTimer`); a timer that fires becomes the callback that replaces it
  (`FiringKeepsCallback`); a scan arms what it hands out (`ScanArmsTimers`).

* `DelayedWereNeverReceived` and `StoreKeepsContract`: from `CallbackInv`, that
  each timer and each fired callback fits its message (`TimerFits`,
  `CallbackFits`): it is for the handle and the deadline the message has, or its
  message is in `late`. Every action is first shown to do one of a few things to
  each message (`Rests`, `Enters`, `Taken`, `Prolonged`, `Returned`, `Released`,
  `Leaves`); those, not the actions, are then mapped to the steps of the contract.

Those of `MemoryStoreFifoProofs` build on them; with them every safety property
of the memory store is proved:

* `MessagesHaveOneFate`: from `LiveInv`: until a Stop comes too late, a message
  has at most one live timer or callback, and none once it has left.
* `SequenceFollowsOrder`: `OrderInv`, that the slice's last number is at most the
  counter, which a purge resets only together with the slice.
* `DeduplicationHolds`: `WindowInv`, that an accepted identifier whose window is
  not over has its entry in the cache.
* `GroupsAreExclusive`: `HolderInv`, that a message in flight has its group marked
  and is the only one; the converse of `BusyGroupHasHolder`.
* `GroupsAreOrdered`: `HeadInv`; without delays a scan that may take a message of
  a group finds every older one visible, so it takes the oldest.
* `RedrivesAreBounded`: `BoundInv`, which bounds the count of a message at rest
  and in flight separately.
* `SleepersMissNothing`: `WakeInv`. The case that matters is the scan that finds
  nothing: no message was deliverable (`EmptyScan`), as a visible group that is
  not marked has an oldest visible member. That there is an oldest is the
  well-founded order of the naturals (`HasLeast`).

Those of `LazyStoreProofs` hold for all constants satisfying `LazyAssumption`
(typing; finitely many messages; a positive window; batches of at least one).
They cover every safety property of `lazy_store`, both backends at once:

* `TypeCorrect`: `TypeOK` is inductive; `ReceiveEffect` says what a receive
  leaves in the table and is what every later proof uses of it.
* `EveryMessageInOnePlace`: `Spec => []OnePlace`. Inductive as `PlaceInv`, which
  adds that only accepted messages are stored or carried, and that nothing is
  carried outside a receive. `LeavingKeepsPlace` covers every step by which
  messages leave with a fate; the redrive's two steps are the other cases.
* `SQLiteGroupsAreExclusive` and `SQLiteGroupsAreOrdered`: both rest on
  `SelectionFacts`, what the query, its `LIMIT` and the loop after it select: one
  row for each group, of groups with nothing in flight, the oldest visible one.
* `SequenceNumbersGrow`: `SequenceOrder` is inductive only with `SequenceInv`:
  while a store is open its counter bounds the numbers it has stored, which
  `loadSequenceCounter` re-establishes from the rows that are left.
* `DeduplicationHolds`: an action property, from `WindowInv`: a window that is
  not over is covered by the cache entry, whatever was cleaned or failed.
* `LapsedMessagesComeBack`: an empty selection means that no row was ready
  (`EmptySelection`, by cardinality), so every visible one waits for its group.
* `DelayedWereNeverReceived`: inductive with `TypeOK`.
* `StoresKeepContract`: each action's effect on one row or on a carried message is
  a step of the contract, crashes and abandoned redrives included.

Those of `QueueManagerProofs` hold for all constants satisfying
`ManagerAssumption`, so for any number of names, generations, goroutines and
messages and any redrive policies, cycles included. They cover every safety
property of `queue_manager`:

* `TypeCorrect`: inductive.
* `NamesLeadToOpenStores` and `NoStoreLeaks`: `MappedStoreOpen` and
  `NoLeakedStore` are inductive with `MutexInv` (the DeleteQueue about to close a
  store holds `qm.mu`, so the store is still the one of its name) and `PendingInv`
  (what a Shutdown still closes is older than any store of the map).
* `MovingMessagesAreCarried`: `MovingIsCarried` is inductive with `TypeOK`.
* `RedrivesArrive`: an action property, from `RedriveInv`: a closed store
  belongs to a name that was deleted, and a redrive sends to a store its
  dead-letter queue had; and from `SeenInv`: a store whose inserts do not fail
  remembers only identifiers of messages it has kept, so that it drops nothing
  else as a duplicate.

Those of `MoveTaskProofs` hold for all constants satisfying `MoveAssumption`: any
number of tasks and messages, any batch size, any set of duplicates. They cover
every safety property of `move_tasks`:

* `TypeCorrect`: inductive.
* `CancelledTasksStopSending`: from `SendInv`, which adds that a task whose
  channel is open has sent nothing since, and one that used up its send is no
  longer about to send: only `RunEach` leads to a send, and it reads the channel.
* `CleanupSparesRunningTasks`: from `TaskInv`; a goroutine that has not stored its
  status has `RUNNING` or `CANCELLING` there, which `StaleTasks` leaves out.
* `TasksEndWithTheirStatus`: `EndedStatus` is inductive with `TypeOK`; the case
  that matters is `CancelStore` after `FinishStatus`.
* `MemoryMovesLoseNothing`: `NoMessageLost` assuming the memory backend, from
  `SourceKeeps`: deleting by the empty handle takes nothing there. For the other
  backends the run `doc_move_loss` refutes it.

Those of `FrontProofs` hold for all constants satisfying the assumptions of
`Front` and its parts: any requests, configurations, backends, queues, limits
and numbers of goroutines. The invariant is `FrontInv`, the conjunction of

* `CredInv` (`FrontLemmas`): identifiers are new and keys not empty (`IdsInv`),
  keys unique, and the configured entries before the current one are stored or
  were deleted (`SeedInv`). Uniqueness needs that nothing else creates a key
  between the lookup of `Import` and its insert: generated keys are new ones, and
  the web interface is not up before seeding ends. That keys are not empty is
  checked of the configuration (`Filled`), and authentication needs it: a request
  without a key and one with the empty key look alike.
* `LimiterInv` (`FrontLemmas`): no bucket of a name has fewer tokens than
  the ideal one, so that only spent names are refused; and the bucket in the map
  has at most those and what was taken from dropped buckets, so that the limit
  holds.
* `CallsInv`: what each goroutine holds is of its queue, and a credential it
  passed with was not revoked when it began.

`TypesAreKept`, `KeysAreUnique`, `SeedingCompletes`, `RevocationTakesEffect` and
`LimitIsKept` follow from it; `OnlySpentIsRefused` is an action property from
`LimiterInv`. The lemmas of parts are each stated about the actions of their part
and used by `StepKeeps`, one action of `Front` at a time. Four more are about the
functions that a request and an answer go through, for all of them:

* `AuthenticationHolds`: `Spec => []AuthenticationIsRight`, in both directions.
  It rests on `ClientsAssumption`: a client that signs does so over a date with
  the secret it has; without a signature it sends its secret. `Injective` takes
  equal signatures apart, constructor by constructor (`Hash` and `HMAC` are free);
  `SigningKeys` and `CanonicalFacts` then give the secret, the scope, the date and
  each part of the canonical request, and `SignatureIsRight` puts them together
  with the comparisons `verifySigV4` makes before. `EncodeURI` and `Join` are
  never taken apart: the theorem is about canonical forms of the path, the query
  and the headers, for whatever the two functions are. It holds whatever is
  changed on the way but the `Authorization` header itself, which the server can
  only check, not compare.
* `SignedIsIntact`: `Spec => []IntactInv`, inductive with `FrontInv`: from the
  verdict until the handler has it, what is `Covered` of a signed request is what
  its client signed. `RequestsAreRead` needs it: a body longer than the limit is cut
  when it is read for authentication, and only because no client signs a cut body
  does a cut form never reach a handler as if it were whole.
* `RequestsAreRead`: `Spec => []HandlerGetsWhatWasSent`, for every request that
  `Conveys` its meaning (`MeaningsAssumption`) and any numerals, spellings and
  texts that are not base64 (`ProtocolAssumption`: numerals stand for integers,
  and the empty text is none). `WholeBody` says when the body a handler reads is
  the one that was sent; `FormIsRead` and `ObjectIsRead` that the record it gets
  is then the one that was meant, but for what `FormKept` and `ObjectKept` name. Underneath there is
  one lemma for each kind of field. Those about lists, tables and entries rest on
  `SortedSequence` (sorting the elements of an increasing sequence gives the
  sequence) and on `KeyParts` (what is split off a key is what was joined), with
  `FieldSeen`: a number is collected exactly if it has a field.
* `AnswersAreRead`: `Spec => []RepliesCarryTheAnswer`, assuming that an answer has
  the fields of its action (`AnswersAssumption`, the struct `Response`). A field
  that is left out is read as empty (`OmittedFields`), a map written as a set of
  named elements is read back by its names (`ElementsByKey`), and so for each
  kind of value and each action (`JSONIsRead`, `XMLIsRead`). `XMLErrorIsRead` and
  `XMLBatchIsRead` are the two cases in which the nesting of XML decides.

Those of `HandlersProofs` hold for all constants satisfying `HandlersAssumption`
(names, limits and bounds; the queues of the configuration fit the bound) and
`RequestsAssumption` (a request names a queue, tags are finite, an operation that
is no batch has one entry): any number of queues, goroutines, calls, tags and
entries, any attributes. They cover every property of the run `handlers`, with
the web interface beside the handlers. `HandlersInv` is the conjunction of

* `ObjInv`: what each queue object is, and that a name leads to an open object of
  that name. `DeleteQueue` keeps it because no second name leads to the object
  (`Closed`); that a store agrees with its attributes needs that the immutable
  ones are never set.
* `CallInv`: where a call is and what it holds then. Objects are never taken
  away, so what a call looked up stays one, deleted or not. Its `EntriesOK` is
  `BatchAccounts` with what makes it inductive: identifiers differ in a batch that
  was not refused (`DistinctIds`), so the entry at hand is in no list yet.
* `TagInv`: a call between its check and its merge has a copy with room for the
  new tags, so exceeding the limit means that the tags changed since; an
  `UntagQueue` under way removes nothing that is still to be kept.
* `PurgeInv`: what was answered is not after the mark on the object, unless that
  was purged in place of another (`strayed`), and what a call found answered is
  not after what is answered now; a call that got past the check found the mark a
  cooldown old. Where the name leads to another object by then, that one was
  created after the call looked up, so it knows of no purge of it (`LastOK`).

Most steps touch neither tags nor marks nor what a call remembers of them:
`Quiet` says so, and `QuietKeeps` proves the last two parts for all of them at
once. The others (`TagMerge`, `MarkPurged`, ...) have a lemma each. From the
invariant follow `ObjectsAlwaysAgree`, `TagsAlwaysHold` and `PurgesAlwaysApart`;
`BatchesAlwaysAccount` is an action property (`SendAccounts`, `DeleteAccounts`,
`ChangeAccounts`), for which `ObjInv` adds that what a store remembers it has kept
or failed to insert. `ReadsAlwaysWhole` follows too: attributes change only by
what is given in one go (`WithIsWhole`), and a reader that no update overtook has
read one version of them (`ReadOK`).

Every invariant and every action property of the runs is the statement of a
theorem. Only model-checked: the liveness properties `PollReturns`,
`InFlightReleased`, `CancelEndsTask` and `CallsReturn`, which are out of the
prover's reach (fairness and `ENABLED`), and, in the sense that the assumptions
of a theorem are, that clients send what `Conveys` and `Presents` say: TLC
evaluates them for requests that `MCFront` builds as a client library does, and
the run compares what handlers get without using them.

## 5. Where the code and its documentation disagree

Shown by a run whose property is what the documentation says:

* `doc_move_loss`: over SQLite a move task deletes all messages never received
  whenever it deletes the one it has just moved.
* `doc_redrive_delete`: `DeleteQueue` and a redrive from the same queue wait for
  each other's mutex, and with them every call of the manager.

The rest was met while modelling and has no run of its own. Where a property
touches it, the property names the case as an exception.

In the memory store, move tasks and the manager:
a message deleted while its fired callback waits for the mutex is redriven to
the dead-letter queue all the same, since `removeMessage` leaves
`mm.receiptHandle` in place;
a late callback can release a group whose extended message is still in flight;
`ChangeMessageVisibility` with 0 gives a message back without looking at
`maxReceiveCount`; a message sent with a delay is overtaken within its group;
one token wakes one of several waiting pollers; the callback of
`ChangeMessageVisibility` redrives from a closed store; `CancelTask` can write
`CANCELLING` over a final status, for ever; the cleanup can drop a task between
the two stores of `setTaskStatus`; over the memory store a task ends COMPLETED
with its messages still in the source; a queue that is its own dead-letter
queue locks its own mutex twice; a redriven message is lost, with a line in the
log, when the insert into the dead-letter queue fails (manager.go:216), and
without one when a FIFO dead-letter queue takes it for a duplicate.

In the memory store retention drops an in-flight FIFO message without clearing
`inFlightGroups`: nothing unblocks its group but a purge (docs/queue-library.md:220
expects a deletion or an expiry to do it). In the SQLite and Badger stores: a
failed insert leaves its deduplication entry, and the caller's retry is accepted
as a duplicate of a message that was never stored; a deleted queue's rows are
found again by the next queue of its name (manager.go:100 says DeleteQueue
removes all messages); the crash window of the redrive loses messages; over
SQLite the `LIMIT` counts rows the loop then drops, so a receive returns fewer
groups than it could; messages without a group block each other while one is in
flight; over Badger two messages of a group can be in flight together when the
smaller key is not the first received, and groups keep no order.

Over Badger a FIFO message whose visibility timeout passed still has its
handle, is taken for one in flight, and neither it nor the rest of its group is
received again (docs/rfc-001-opensqs-server.md:61). Over both, a delete with the
empty handle finds messages: the contract has `EmptyHandles` for it.

In the handlers and the web interface:

* Two `TagQueue` calls together exceed the tag limit, and a key that is set again
  counts twice.
* Two purges that began together both run. `PurgeQueue` marks the queue it looked
  up first and purges by name: a queue created in between is purged without a
  mark, and the next purge of it runs at once.
* `GetQueueAttributes` takes the lock for each name, so it sees an update in part,
  where handlers/actions_queue.go:160 says that setting all under one lock is "to
  prevent other goroutines from seeing a partially-updated state".
* An entry of a batch, or a `SendMessage`, whose message a FIFO store drops as a
  duplicate has a result with the new message's id (memory.go:109 says that AWS
  returns the one of the first); so has the retry of one that failed to insert.
* `SetQueueAttributes` never reaches the store: a new `RedrivePolicy` or retention
  has no effect. The queue's `DelaySeconds` is not applied to messages
  (docs/rfc-001-opensqs-server.md:80, docs/api-reference.md:47).
* The web page that shows messages receives them: it counts receives and can send
  messages to the dead-letter queue (ui/handlers.go:447 and 747 call it
  non-destructive). Its purge knows no cooldown, its form for new queues no
  ranges, and it sends to FIFO queues without a group, where such messages block
  nobody and are blocked by nobody in the memory store.
* With `autoCreate` a name ending in `.fifo` makes a standard queue.

In front of them:

* docs/configuration.md:206 and the comments at startup_credentials.go:13 and
  config.go:177 say that an access key that exists already fails the start; the
  code skips it (startup_credentials.go:44 says so too). `ConfiguredKeysAreThere`
  is about the code: each key leads to a credential, not necessarily with the
  configured secret. A changed secret is not applied, silently, and a deleted key
  of the configuration is back after a restart.
* `encodeURI` (middleware/auth.go:466) goes through a text rune by rune, so that
  all bytes that are not UTF-8 are written as `%EF%BF%BD`: paths and queries that
  differ in such a byte have one signature, and a client that writes the byte
  itself is refused. The values of a header are joined with commas (l.427), so
  that two values and one with a comma have one signature.
* docs/api-reference.md:577 has the code of an XML error in `ErrorResponse`,
  `Error`, `Code`; protocol/errors.go:12 writes it without the `Error`. The
  `BatchResultErrorEntry` elements are beside the `Result` element instead of in
  it (protocol/marshal.go:126).
* JSON batch entries lose `MessageAttributes` and query batch entries their system
  attributes, both listed at docs/api-reference.md:352-353. Attributes with a gap in their numbering
  are dropped from the gap on. An attribute whose binary value is not base64 is
  kept without a value (the comment at handlers/message_builder.go:37 says it is
  skipped). The lower-case spelling `GetParam` falls back to is `queueurl`.
* A form above 1 MiB with its credentials inside is cut for the handler without
  an error.
* The limiter per queue lets requests to `/` through without a limit, and a
  cleanup that meets a request gives a queue a second full bucket.

## 6. Not modelled

* Metrics and health servers, logging, TLS, reading configuration files and
  flags, templates, security headers and the CSRF check, permissions (two stubs):
  input and output, or constant answers.
* Message attribute limits and checksums, listings with their tokens: functions
  of single values, with nothing that interferes.
* `Close` of the move-task manager, which only stops the cleanup; the choice of a
  move's destination from the policies of other queues.
* The tools of continuous integration, which are not part of the server.
* The `messageGroups` map of the memory store, which is written and never read.
* The zero ticker interval for rates above 1e9, one arithmetic expression.

## 7. Plan

Done, in this order: the memory store and its theorems; move tasks; the queue
manager; the SQLite and Badger stores; the store contract and the proofs that
all three keep it; handlers and web interface; authentication, credentials,
limiter, protocols and their composition, with the theorems about it; the rest
of the memory store's safety properties; the theorems about handlers and web
interface, authentication, requests and answers.

Left:

1. `MoveTask` over an instance of a store instead of its outside view, and
   `QueueManager` over stores that keep `StoreContract`.
2. The choice of a move task's destination, with the redrive policies of all
   queues read while they change.
