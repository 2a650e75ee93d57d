---------------------------- MODULE MemoryStore ----------------------------
(***************************************************************************)
(* The in-memory message store of one queue                                *)
(* (pkgs/v1/queue/store/memory/memory.go).                                 *)
(*                                                                         *)
(* Every exported method runs its body under the mutex s.mu, so one method *)
(* body is one action.  Two things run outside the mutex and are split:    *)
(*   - ReceiveMessages releases the mutex between a scan that finds        *)
(*     nothing and the select that waits for the notify channel;           *)
(*   - a visibility timer (time.AfterFunc) fires on its own goroutine and  *)
(*     only then asks for the mutex.  Timer.Stop cannot stop a callback    *)
(*     that has fired, so "armed" (timers) and "fired but not yet holding  *)
(*     the mutex" (fired) are different sets here.                         *)
(*                                                                         *)
(* A memoryMessage is a member of Msg; its MessageGroupId and its effective*)
(* deduplication id (the caller's, or the hash of the body) are given by   *)
(* GroupOf and DedupOf.  s.messages is only ever appended to and removed   *)
(* from, so the slice is the set messages ordered by order.  A receipt     *)
(* handle holds the message id and a random nonce: the handle of message m *)
(* is the number of the receive that made it, and 0 is the empty handle.   *)
(*                                                                         *)
(* Left out: the message's payload and timestamps nothing decides on, and  *)
(* s.messageGroups, which is written but never read.                       *)
(***************************************************************************)
EXTENDS Integers, FiniteSets

CONSTANTS
  Msg,               \* the messages callers send
  Groups,            \* the message group ids
  GroupOf,           \* [Msg -> Groups \cup {NoGroup}]
  NoGroup,           \* the empty MessageGroupId
  DedupIds,          \* the deduplication ids
  DedupOf,           \* [Msg -> DedupIds \cup {NoDedup}]
  NoDedup,           \* no deduplication id (and no content-based one)
  IsFifo,            \* s.isFifo
  MaxReceiveCount,   \* s.maxReceiveCount; 0: no redrive policy, no redriveFunc
  Retention,         \* s.messageRetentionPeriod after its default is applied
  DedupWindow,       \* the five minutes of SendMessage, in ticks
  DefaultVisibility, \* s.visibilityTimeout
  Receivers,         \* goroutines that call ReceiveMessages
  Delays,            \* DelaySeconds callers use
  Timeouts,          \* VisibilityTimeout callers use
  Waits,             \* WaitTimeSeconds callers use
  Batches,           \* MaxNumberOfMessages callers use
  MaxTime,           \* bound: last tick of the clock
  MaxDeliveries      \* bound: receives of one message

ASSUME ConstantsAssumption ==
  /\ NoGroup \notin Groups /\ NoDedup \notin DedupIds
  /\ GroupOf \in [Msg -> Groups \cup {NoGroup}]
  /\ DedupOf \in [Msg -> DedupIds \cup {NoDedup}]
  /\ IsFifo \in BOOLEAN
  /\ MaxReceiveCount \in Nat /\ Retention \in Nat /\ DedupWindow \in Nat \ {0}
  /\ DefaultVisibility \in Nat /\ MaxTime \in Nat /\ MaxDeliveries \in Nat
  /\ Delays \subseteq Nat /\ Timeouts \subseteq Nat /\ Waits \subseteq Nat
  /\ Batches \subseteq Nat \ {0}

VARIABLES
  now,              \* store.Now(), in ticks
  messages,         \* s.messages, ordered by order
  order,            \* position of a message in the order of the appends
  arrivals,         \* number of appends so far
  sentAt,           \* msg.SentTimestamp
  visibleAt,        \* mm.visibleAt
  handle,           \* mm.receiptHandle
  receiveCount,     \* mm.receiveCount
  seqNo,            \* msg.SequenceNumber
  sequenceCounter,  \* s.sequenceCounter
  dedupCache,       \* s.dedupCache: expiry of an id, 0 when absent
  inFlightGroups,   \* s.inFlightGroups
  timers,           \* armed visibility timers
  fired,            \* callbacks that have fired and wait for s.mu
  notify,           \* s.notify holds its one token
  closed,           \* s.closed
  rcv,              \* the calls of ReceiveMessages
  \* what happened, for the properties; no action reads these
  sent,             \* messages the store accepted
  era,              \* those accepted since the last Purge
  acked, purged, expired, nacked, \* deleted, purged, aged out, given back
  expiredInFlight,  \* aged out while a receipt handle was outstanding
  redriven,         \* how often redriveFunc was called with the message
  late              \* Stop came after the callback fired, handle unchanged

msgVars   == <<messages, order, arrivals, sentAt, seqNo, sequenceCounter>>
recvVars  == <<visibleAt, handle, receiveCount>>
groupVars == <<dedupCache, inFlightGroups>>
timerVars == <<timers, fired>>
ghostVars == <<sent, era, acked, purged, expired, nacked, expiredInFlight, redriven, late>>
vars == <<now, msgVars, recvVars, groupVars, timerVars, notify, closed, rcv, ghostVars>>

(***************************************************************************)
(* Types and helpers                                                       *)
(***************************************************************************)
NoHandle == 0

\* A pending time.AfterFunc: the message and handle its closure captured.
\* "receive" timers are made by receiveMessage, "change" timers by
\* ChangeMessageVisibility; their callbacks differ.
TimerKinds == {"receive", "change"}
Timer    == [msg : Msg, handle : Nat, at : Nat, kind : TimerKinds]
Callback == [msg : Msg, handle : Nat, kind : TimerKinds]

\* A call of ReceiveMessages: about to scan, or in the select.
\* deadline is 0 for a call that does not wait.
NoCall   == [pc |-> "idle", max |-> 1, vt |-> 0, deadline |-> 0]
CallType == [pc : {"idle", "scan", "wait"}, max : Nat \ {0}, vt : Nat, deadline : Nat]

Grouped(m) == IsFifo /\ GroupOf[m] # NoGroup

GroupsOf(S) == {GroupOf[m] : m \in {k \in S : Grouped(k)}}

\* Mutant: the group stays marked.
KeepGroup(m) == UNCHANGED inFlightGroups

\* delete(s.inFlightGroups, MessageGroupId)
ReleaseGroup(m) == inFlightGroups' = inFlightGroups \ GroupsOf({m})

\* Mutant: nobody is woken.
NotifyDropped == UNCHANGED notify

\* notifyWaiters: a token is put in the channel unless one is there.
NotifyWaiters == notify' = TRUE

\* Mutants: one timer for the whole store; Stop is forgotten.
StopAllTimers(S) == {}
StopNoTimers(S)  == timers

\* mm.visibilityTimer.Stop() for the messages of S.
StopTimers(S) == {t \in timers : t.msg \notin S}

\* The messages of S one of whose callbacks fired with the handle they still have.
FiredLive(S) == {m \in S : \E f \in fired : f.msg = m /\ f.handle = handle[m]}

\* Mutant: an entry is dropped one tick early.
CleanDedupEntriesEarly ==
  [d \in DedupIds |-> IF now >= dedupCache[d] THEN 0 ELSE dedupCache[d]]

CleanExpiredDedupEntries ==
  [d \in DedupIds |-> IF now > dedupCache[d] THEN 0 ELSE dedupCache[d]]

\* deleteExpiredMessagesLocked: the messages it drops.
ExpiredMessages == {m \in messages : sentAt[m] + Retention < now}

\* Mutant: the scan takes every visible message of a group at once.
DeliverableManyPerGroup(S) ==
  {m \in S : visibleAt[m] <= now /\ (Grouped(m) => GroupOf[m] \notin inFlightGroups)}

\* The messages the scan of s.messages would pick without a limit: visible,
\* and for a message group only its first visible message, and only when no
\* message of the group is in flight.
Deliverable(S) ==
  LET visible == {m \in S : visibleAt[m] <= now}
  IN  {m \in visible :
         Grouped(m) =>
           /\ GroupOf[m] \notin inFlightGroups
           /\ \A k \in visible : GroupOf[k] = GroupOf[m] => order[m] <= order[k]}

FirstN(S, n) == {m \in S : Cardinality({k \in S : order[k] < order[m]}) < n}

ApproximateNumberOfMessages == Cardinality({m \in messages : visibleAt[m] <= now})

NotVisible == {m \in messages : visibleAt[m] > now /\ handle[m] # NoHandle}
ApproximateNumberOfMessagesNotVisible == Cardinality(NotVisible)

Delayed == {m \in messages : visibleAt[m] > now /\ handle[m] = NoHandle}
ApproximateNumberOfMessagesDelayed == Cardinality(Delayed)

(***************************************************************************)
(* NewMemoryStore                                                          *)
(***************************************************************************)
Init ==
  /\ now = 0
  /\ messages = {} /\ arrivals = 0 /\ sequenceCounter = 0
  /\ order = [m \in Msg |-> 0] /\ seqNo = [m \in Msg |-> 0]
  /\ sentAt = [m \in Msg |-> 0] /\ visibleAt = [m \in Msg |-> 0]
  /\ handle = [m \in Msg |-> NoHandle] /\ receiveCount = [m \in Msg |-> 0]
  /\ dedupCache = [d \in DedupIds |-> 0] /\ inFlightGroups = {}
  /\ timers = {} /\ fired = {}
  /\ notify = FALSE /\ closed = FALSE
  /\ rcv = [c \in Receivers |-> NoCall]
  /\ sent = {} /\ era = {} /\ acked = {} /\ purged = {} /\ expired = {} /\ nacked = {}
  /\ expiredInFlight = {} /\ redriven = [m \in Msg |-> 0] /\ late = {}

(***************************************************************************)
(* SendMessage                                                             *)
(***************************************************************************)
\* A duplicate within the window is accepted and not enqueued.
SendDuplicate(m) ==
  /\ ~closed /\ IsFifo /\ m \notin sent
  /\ DedupOf[m] # NoDedup /\ CleanExpiredDedupEntries[DedupOf[m]] # 0
  /\ dedupCache' = CleanExpiredDedupEntries
  /\ UNCHANGED <<now, msgVars, recvVars, inFlightGroups, timerVars, notify, closed, rcv, ghostVars>>

SendMessage(m, delay) ==
  /\ ~closed /\ m \notin sent
  /\ \/ /\ ~IsFifo
        /\ UNCHANGED <<dedupCache, sequenceCounter, seqNo>>
     \/ /\ IsFifo
        /\ \/ /\ DedupOf[m] = NoDedup
              /\ dedupCache' = CleanExpiredDedupEntries
           \/ /\ DedupOf[m] # NoDedup /\ CleanExpiredDedupEntries[DedupOf[m]] = 0
              /\ dedupCache' = [CleanExpiredDedupEntries EXCEPT ![DedupOf[m]] = now + DedupWindow]
        /\ sequenceCounter' = sequenceCounter + 1
        /\ seqNo' = [seqNo EXCEPT ![m] = sequenceCounter + 1]
  /\ visibleAt' = [visibleAt EXCEPT ![m] = now + delay]
  /\ sentAt' = [sentAt EXCEPT ![m] = now]
  /\ messages' = messages \cup {m}
  /\ arrivals' = arrivals + 1 /\ order' = [order EXCEPT ![m] = arrivals + 1]
  /\ IF delay = 0 THEN NotifyWaiters ELSE UNCHANGED notify
  /\ sent' = sent \cup {m} /\ era' = era \cup {m}
  /\ UNCHANGED <<now, handle, receiveCount, inFlightGroups, timerVars, closed, rcv,
                 acked, purged, expired, nacked, expiredInFlight, redriven, late>>

(***************************************************************************)
(* ReceiveMessages                                                         *)
(***************************************************************************)
\* The call, up to its first Lock: the defaults and the deadline.
ReceiveMessages(c, max, vt, wait) ==
  /\ rcv[c].pc = "idle" /\ now + wait <= MaxTime
  /\ rcv' = [rcv EXCEPT ![c] =
       [pc |-> "scan", max |-> max,
        vt |-> IF vt = 0 THEN DefaultVisibility ELSE vt,
        deadline |-> IF wait > 0 THEN now + wait ELSE 0]]
  /\ UNCHANGED <<now, msgVars, recvVars, groupVars, timerVars, notify, closed, ghostVars>>

\* What receiveMessage does to the messages a scan picked.
Receive(picked, vt, kept) ==
  /\ receiveCount' = [m \in Msg |-> IF m \in picked THEN receiveCount[m] + 1 ELSE receiveCount[m]]
  /\ visibleAt' = [m \in Msg |-> IF m \in picked THEN now + vt ELSE visibleAt[m]]
  /\ handle' = [m \in Msg |-> IF m \in picked THEN receiveCount[m] + 1 ELSE handle[m]]
  /\ inFlightGroups' = inFlightGroups \cup GroupsOf(picked)
  /\ timers' = StopTimers((messages \ kept) \cup picked) \cup
       {[msg |-> m, handle |-> receiveCount[m] + 1, at |-> now + vt, kind |-> "receive"] : m \in picked}

\* One pass of the loop while holding the mutex: retention, then the scan.
\* A pass that finds nothing returns, or goes on to wait.
ReceiveScan(c) ==
  LET kept   == messages \ ExpiredMessages
      picked == FirstN(Deliverable(kept), rcv[c].max)
  IN
  /\ rcv[c].pc = "scan" /\ ~closed
  /\ \A m \in picked : receiveCount[m] < MaxDeliveries
  /\ messages' = kept
  /\ Receive(picked, rcv[c].vt, kept)
  /\ rcv' = [rcv EXCEPT ![c] = IF picked = {} /\ rcv[c].deadline > now
                               THEN [rcv[c] EXCEPT !.pc = "wait"] ELSE NoCall]
  /\ expired' = expired \cup ExpiredMessages
  /\ expiredInFlight' = expiredInFlight \cup {m \in ExpiredMessages : handle[m] # NoHandle}
  /\ late' = late \cup FiredLive(ExpiredMessages)
  /\ UNCHANGED <<now, order, arrivals, sentAt, seqNo, sequenceCounter, dedupCache, fired, notify,
                 closed, sent, era, acked, purged, nacked, redriven>>

\* The loop finds the store closed and returns an error.
ReceiveClosed(c) ==
  /\ rcv[c].pc = "scan" /\ closed
  /\ rcv' = [rcv EXCEPT ![c] = NoCall]
  /\ UNCHANGED <<now, msgVars, recvVars, groupVars, timerVars, notify, closed, ghostVars>>

\* The three cases of the select: a token, the deadline, ctx.Done().
ReceiveNotified(c) ==
  /\ rcv[c].pc = "wait" /\ notify
  /\ notify' = FALSE
  /\ rcv' = [rcv EXCEPT ![c].pc = "scan"]
  /\ UNCHANGED <<now, msgVars, recvVars, groupVars, timerVars, closed, ghostVars>>

\* Mutant: the deadline is looked at only after a token.
TimedOutOnWakeup(c) ==
  /\ rcv[c].pc = "wait" /\ rcv[c].deadline <= now /\ notify
  /\ rcv' = [rcv EXCEPT ![c] = NoCall]
  /\ UNCHANGED <<now, msgVars, recvVars, groupVars, timerVars, notify, closed, ghostVars>>

ReceiveTimedOut(c) ==
  /\ rcv[c].pc = "wait" /\ rcv[c].deadline <= now
  /\ rcv' = [rcv EXCEPT ![c] = NoCall]
  /\ UNCHANGED <<now, msgVars, recvVars, groupVars, timerVars, notify, closed, ghostVars>>

ReceiveCancelled(c) ==
  /\ rcv[c].pc = "wait"
  /\ rcv' = [rcv EXCEPT ![c] = NoCall]
  /\ UNCHANGED <<now, msgVars, recvVars, groupVars, timerVars, notify, closed, ghostVars>>

(***************************************************************************)
(* Visibility timers                                                       *)
(***************************************************************************)
\* The runtime starts the callback's goroutine; it does not have s.mu yet.
FireTimer(t) ==
  /\ t.at <= now
  /\ timers' = timers \ {t}
  /\ fired' = fired \cup {[msg |-> t.msg, handle |-> t.handle, kind |-> t.kind]}
  /\ UNCHANGED <<now, msgVars, recvVars, groupVars, notify, closed, rcv, ghostVars>>

\* Mutants: the callback compares no handle; it compares it the wrong way round.
SkipsOnlyClosed(f)    == f.kind = "receive" /\ closed
SkipsLiveCallbacks(f) == handle[f.msg] = f.handle \/ (f.kind = "receive" /\ closed)

\* The callback returns early.  Only the receive callback looks at s.closed.
SkipsCallback(f) == handle[f.msg] # f.handle \/ (f.kind = "receive" /\ closed)

\* Mutant: one receive too many.
ShouldRedriveLate(m) == MaxReceiveCount > 0 /\ receiveCount[m] > MaxReceiveCount

ShouldRedrive(m) == MaxReceiveCount > 0 /\ receiveCount[m] >= MaxReceiveCount

CallbackSkipped(f) ==
  /\ SkipsCallback(f)
  /\ fired' = fired \ {f}
  /\ UNCHANGED <<now, msgVars, recvVars, groupVars, timers, notify, closed, rcv, ghostVars>>

\* removeMessage, PrepareForRedrive, redriveFunc: only the change callback
\* clears the handle afterwards.
CallbackRedrives(f) ==
  /\ ~SkipsCallback(f) /\ ShouldRedrive(f.msg)
  /\ fired' = fired \ {f}
  /\ messages' = messages \ {f.msg}
  /\ timers' = StopTimers({f.msg})
  /\ ReleaseGroup(f.msg)
  /\ handle' = IF f.kind = "change" THEN [handle EXCEPT ![f.msg] = NoHandle] ELSE handle
  /\ redriven' = [redriven EXCEPT ![f.msg] = @ + 1]
  /\ NotifyWaiters
  /\ UNCHANGED <<now, order, arrivals, sentAt, seqNo, sequenceCounter, visibleAt, receiveCount,
                 dedupCache, closed, rcv, sent, era, acked, purged, expired, nacked,
                 expiredInFlight, late>>

\* Mutant: removeMessage runs before maxReceiveCount is checked.
CallbackRemovesFirst(f) ==
  /\ ~SkipsCallback(f) /\ ~ShouldRedrive(f.msg)
  /\ fired' = fired \ {f}
  /\ messages' = messages \ {f.msg}
  /\ handle' = [handle EXCEPT ![f.msg] = NoHandle]
  /\ UNCHANGED <<now, order, arrivals, sentAt, seqNo, sequenceCounter, visibleAt, receiveCount,
                 groupVars, timers, notify, closed, rcv, ghostVars>>

CallbackMakesVisible(f) ==
  /\ ~SkipsCallback(f) /\ ~ShouldRedrive(f.msg)
  /\ fired' = fired \ {f}
  /\ handle' = [handle EXCEPT ![f.msg] = NoHandle]
  /\ ReleaseGroup(f.msg)
  /\ NotifyWaiters
  /\ UNCHANGED <<now, msgVars, visibleAt, receiveCount, dedupCache, timers, closed, rcv, ghostVars>>

(***************************************************************************)
(* DeleteMessage, ChangeMessageVisibility: the caller presents the handle  *)
(* of any receive of m so far.  A handle the store does not have is        *)
(* refused, with no effect.                                                *)
(***************************************************************************)
HasHandle(m, h) == m \in messages /\ handle[m] = h /\ h # NoHandle

DeleteMessage(m, h) ==
  /\ HasHandle(m, h)
  /\ messages' = messages \ {m}
  /\ timers' = StopTimers({m})
  /\ ReleaseGroup(m)
  /\ NotifyWaiters
  /\ acked' = acked \cup {m} /\ late' = late \cup FiredLive({m})
  /\ UNCHANGED <<now, order, arrivals, sentAt, seqNo, sequenceCounter, recvVars, dedupCache, fired,
                 closed, rcv, sent, era, purged, expired, nacked, expiredInFlight, redriven>>

ChangeMessageVisibilityZero(m, h) ==
  /\ HasHandle(m, h)
  /\ timers' = StopTimers({m})
  /\ visibleAt' = [visibleAt EXCEPT ![m] = now]
  /\ handle' = [handle EXCEPT ![m] = NoHandle]
  /\ ReleaseGroup(m)
  /\ NotifyWaiters
  /\ nacked' = nacked \cup {m}
  /\ UNCHANGED <<now, msgVars, receiveCount, dedupCache, fired, closed, rcv, sent, era, acked,
                 purged, expired, expiredInFlight, redriven, late>>

ChangeMessageVisibility(m, h, vt) ==
  /\ HasHandle(m, h)
  /\ visibleAt' = [visibleAt EXCEPT ![m] = now + vt]
  /\ timers' = StopTimers({m}) \cup {[msg |-> m, handle |-> h, at |-> now + vt, kind |-> "change"]}
  /\ late' = late \cup FiredLive({m})
  /\ UNCHANGED <<now, msgVars, handle, receiveCount, groupVars, fired, notify, closed, rcv, sent,
                 era, acked, purged, expired, nacked, expiredInFlight, redriven>>

(***************************************************************************)
(* Purge, Close, time                                                      *)
(***************************************************************************)
Purge ==
  /\ timers' = StopTimers(messages)
  /\ messages' = {}
  /\ dedupCache' = [d \in DedupIds |-> 0]
  /\ inFlightGroups' = {}
  /\ sequenceCounter' = 0
  /\ NotifyWaiters
  /\ purged' = purged \cup messages /\ era' = {} /\ late' = late \cup FiredLive(messages)
  /\ UNCHANGED <<now, order, arrivals, sentAt, seqNo, recvVars, fired, closed, rcv, sent, acked,
                 expired, nacked, expiredInFlight, redriven>>

Close ==
  /\ closed' = TRUE
  /\ timers' = StopTimers(messages)
  /\ UNCHANGED <<now, msgVars, recvVars, groupVars, fired, notify, rcv, ghostVars>>

Tick ==
  /\ now < MaxTime
  /\ now' = now + 1
  /\ UNCHANGED <<msgVars, recvVars, groupVars, timerVars, notify, closed, rcv, ghostVars>>

Next ==
  \/ \E m \in Msg : SendDuplicate(m)
  \/ \E m \in Msg, d \in Delays : SendMessage(m, d)
  \/ \E c \in Receivers, n \in Batches, vt \in Timeouts, w \in Waits : ReceiveMessages(c, n, vt, w)
  \/ \E c \in Receivers : ReceiveScan(c)
  \/ \E c \in Receivers : ReceiveClosed(c)
  \/ \E c \in Receivers : ReceiveNotified(c)
  \/ \E c \in Receivers : ReceiveTimedOut(c)
  \/ \E c \in Receivers : ReceiveCancelled(c)
  \/ \E t \in timers : FireTimer(t)
  \/ \E f \in fired : CallbackSkipped(f)
  \/ \E f \in fired : CallbackRedrives(f)
  \/ \E f \in fired : CallbackMakesVisible(f)
  \/ \E m \in Msg, h \in 1..MaxDeliveries : DeleteMessage(m, h)
  \/ \E m \in Msg, h \in 1..MaxDeliveries : ChangeMessageVisibilityZero(m, h)
  \/ \E m \in Msg, h \in 1..MaxDeliveries, vt \in Timeouts \ {0} : ChangeMessageVisibility(m, h, vt)
  \/ Purge
  \/ Close
  \/ Tick

Spec == Init /\ [][Next]_vars

\* What the Go runtime gives: time passes, an expired timer fires, a goroutine
\* waiting for s.mu gets it, a ready select proceeds.  Callers owe nothing.
FairSpec ==
  /\ Spec
  /\ WF_vars(Tick)
  /\ WF_vars(\E t \in timers : FireTimer(t))
  /\ WF_vars(\E f \in fired : CallbackSkipped(f) \/ CallbackRedrives(f) \/ CallbackMakesVisible(f))
  /\ \A c \in Receivers :
       /\ WF_vars(ReceiveScan(c) \/ ReceiveClosed(c))
       /\ WF_vars(ReceiveNotified(c) \/ ReceiveTimedOut(c))

(***************************************************************************)
(* Properties                                                              *)
(***************************************************************************)
\* Every field keeps its type; positions and counters count what they should.
TypeOK ==
  /\ now \in Nat /\ arrivals \in Nat /\ sequenceCounter \in Nat
  /\ messages \subseteq sent /\ sent \subseteq Msg /\ era \subseteq sent
  /\ order \in [Msg -> Nat] /\ sentAt \in [Msg -> Nat] /\ visibleAt \in [Msg -> Nat]
  /\ handle \in [Msg -> Nat] /\ receiveCount \in [Msg -> Nat] /\ seqNo \in [Msg -> Nat]
  /\ dedupCache \in [DedupIds -> Nat] /\ inFlightGroups \subseteq Groups
  /\ timers \subseteq Timer /\ fired \subseteq Callback
  /\ notify \in BOOLEAN /\ closed \in BOOLEAN /\ rcv \in [Receivers -> CallType]
  /\ acked \subseteq Msg /\ purged \subseteq Msg /\ expired \subseteq Msg /\ nacked \subseteq Msg
  /\ expiredInFlight \subseteq expired /\ redriven \in [Msg -> Nat] /\ late \subseteq Msg

\* At-least-once: a message the store accepted is still in s.messages unless it
\* was deleted with its handle, purged, aged out or handed to redriveFunc.
NothingLost ==
  sent \ messages \subseteq acked \cup purged \cup expired \cup {m \in Msg : redriven[m] > 0}

\* A callback that will give message m back for the handle it has now.
HasPendingCallback(m) ==
  \/ \E t \in timers : t.msg = m /\ t.handle = handle[m] /\ t.at = visibleAt[m]
  \/ \E f \in fired : f.msg = m /\ f.handle = handle[m]

\* No message is stranded in flight: while the store is open, a message with an
\* outstanding receipt handle always has a timer armed for the end of its
\* visibility, or a fired callback, that will act on exactly that handle.
InFlightHasTimer ==
  ~closed => \A m \in messages : handle[m] # NoHandle => HasPendingCallback(m)

\* A message group stays marked in flight only while one of its messages holds
\* a receipt handle, or because retention dropped such a message
\* (deleteExpiredMessagesLocked does not clear inFlightGroups).
BusyGroupHasHolder ==
  \A g \in inFlightGroups :
    \E m \in messages \cup expiredInFlight : GroupOf[m] = g /\ handle[m] # NoHandle

\* FIFO exclusion: unless a Stop came too late for a callback, at most one
\* message of a group is in flight.
OneInFlightPerGroup ==
  late = {} =>
    \A m, k \in messages :
      /\ Grouped(m) /\ GroupOf[m] = GroupOf[k]
      /\ handle[m] # NoHandle /\ handle[k] # NoHandle
      => m = k

\* Only the oldest stored message of a group has ever been received, as long as
\* nobody sends with a delay and no Stop came too late.
GroupHeadOnly ==
  late = {} /\ Delays = {0} =>
    \A m, k \in messages :
      Grouped(m) /\ GroupOf[m] = GroupOf[k] /\ order[m] < order[k] => receiveCount[k] = 0

\* A message leaves the store one way only and is redriven at most once, unless
\* a Stop came too late: a deleted, purged or aged-out message is not redriven.
OneFate ==
  late = {} =>
    \A m \in Msg :
      /\ redriven[m] <= 1
      /\ (redriven[m] = 1) => m \notin acked \cup purged \cup expired \cup messages
      /\ m \in messages => m \notin acked \cup purged \cup expired
      /\ m \in acked => m \notin purged \cup expired
      /\ m \in purged => m \notin expired

\* A FIFO message nobody gave back with a zero visibility timeout is delivered
\* at most MaxReceiveCount times before its redrive.
RedriveBound ==
  MaxReceiveCount > 0 /\ late = {} =>
    \A m \in messages : Grouped(m) /\ m \notin nacked => receiveCount[m] <= MaxReceiveCount

\* Two messages with the same deduplication id are both accepted only when more
\* than the deduplication window lies between them, or a Purge.
DedupWindowHolds ==
  IsFifo =>
    \A m, k \in era :
      /\ m # k /\ DedupOf[m] = DedupOf[k] /\ DedupOf[m] # NoDedup
      => sentAt[m] + DedupWindow < sentAt[k] \/ sentAt[k] + DedupWindow < sentAt[m]

\* The stored messages' sequence numbers grow in slice order, across Purge too.
SequenceOrder ==
  IsFifo => \A m, k \in messages : order[m] < order[k] => seqNo[m] < seqNo[k]

\* ApproximateNumberOfMessagesDelayed counts messages sent with a delay: one
\* that was received before is never counted, unless a Stop came too late.
DelayedNeverReceived ==
  late = {} => \A m \in Delayed : receiveCount[m] = 0

\* m became visible without a notifyWaiters: the end of its send delay, or its
\* visibility ended and the callback has not run yet.
SilentlyVisible(m) ==
  \/ receiveCount[m] = 0 /\ visibleAt[m] > sentAt[m]
  \/ handle[m] # NoHandle

\* Long polling: a single receiver does not sleep in the select while a message
\* it could take is in the store and no token waits in the notify channel.
NoMissedWakeup ==
  (\A c, d \in Receivers : c = d) /\ late = {} =>
    \A c \in Receivers :
      rcv[c].pc = "wait" /\ ~notify => \A m \in Deliverable(messages) : SilentlyVisible(m)

\* Every call of ReceiveMessages returns, however often it is woken for nothing,
\* even after Close, which does not notify (but see the bound on deliveries).
PollReturns ==
  \A c \in Receivers :
    rcv[c].pc # "idle" ~> rcv[c].pc = "idle" \/ \E m \in Msg : receiveCount[m] = MaxDeliveries

\* A receipt handle does not stay valid forever: the message is deleted, purged,
\* redriven or given back, unless its visibility outlasts the modelled clock.
InFlightReleased ==
  \A m \in Msg, h \in 1..MaxDeliveries :
    HasHandle(m, h) ~> ~HasHandle(m, h) \/ closed \/ visibleAt[m] > MaxTime

(***************************************************************************)
(* What the store promises (StoreContract)                                 *)
(***************************************************************************)
Place(m) ==
  CASE m \in messages -> IF visibleAt[m] > now THEN "hidden" ELSE "visible"
    [] m \in sent \ messages ->
         (CASE m \in acked -> "deleted" [] m \in purged -> "purged" [] m \in expired -> "expired"
            [] OTHER -> "redriven")
    [] OTHER -> "away"

Contract == INSTANCE StoreContract WITH
  EmptyHandles <- FALSE,
  disturbed <- late,
  state <- [m \in Msg |->
    [place |-> Place(m), received |-> IF m \in messages THEN receiveCount[m] ELSE 0,
     holder |-> IF m \in messages THEN handle[m] ELSE 0]]

\* The store keeps the contract, timers, callbacks and all: a callback takes a
\* message from its holder, or redrives it, only when its visibility has ended
\* or ended just before the holder extended it.
KeepsContract == Contract!Spec
=============================================================================
