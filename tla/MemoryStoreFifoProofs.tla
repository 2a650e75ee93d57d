----------------------- MODULE MemoryStoreFifoProofs -----------------------
(***************************************************************************)
(* More theorems about MemoryStore, for every value of its constants:      *)
(* what holds as long as no Stop comes too late for a callback (late is    *)
(* empty), message groups, deduplication and sequence numbers.             *)
(***************************************************************************)
EXTENDS MemoryStoreProofs, FiniteSetTheorems, WellFoundedInduction

(***************************************************************************)
(* One live timer or callback for each message in flight                   *)
(***************************************************************************)
\* A timer or a callback that would act: the message has its handle.
Live(x) == handle[x.msg] = x.handle

LiveInv ==
  late = {} =>
    /\ \A x \in timers \cup fired : Live(x) => x.msg \in messages
    /\ \A t, u \in timers : Live(t) /\ Live(u) /\ t.msg = u.msg => t = u
    /\ \A t \in timers, f \in fired : Live(t) /\ Live(f) => t.msg # f.msg
    /\ \A f, g \in fired : Live(f) /\ Live(g) /\ f.msg = g.msg => f = g

\* No step makes an old timer or callback live: a new handle is a new number.
LEMMA LiveBefore ==
  ASSUME CallbackInv, [Next]_vars, NEW x \in timers \cup fired, Live(x)'
  PROVE  Live(x)
<1>1. x.msg \in Msg /\ x.handle \in Nat /\ x.handle # NoHandle /\ x.handle <= receiveCount[x.msg]
  BY DEF CallbackInv, TypeOK, Timer, Callback, TimerFits, CallbackFits
<1> DEFINE k == x.msg
<1>2. handle[k] \in Nat /\ receiveCount[k] \in Nat
  BY <1>1 DEF CallbackInv, TypeOK
<1>3. Calm(k) \/ Prolonged(k)
  BY <1>1, NextKinds
<1>4. handle'[k] = handle[k] \/ handle'[k] = NoHandle \/ handle'[k] = receiveCount[k] + 1
  BY <1>3 DEF Calm, Prolonged, Rests, Enters, Taken, Returned, Released, Leaves
<1> QED BY <1>1, <1>2, <1>4 DEF Live

\* A step that adds no timer and no callback, and leaves none that is live for a
\* message that is gone.
LEMMA LiveStep ==
  ASSUME CallbackInv, LiveInv, [Next]_vars, timers' \subseteq timers, fired' \subseteq fired,
         late = {} => \A x \in timers' \cup fired' : Live(x)' => x.msg \in messages' \/ late' # {}
  PROVE  LiveInv'
<1> SUFFICES ASSUME late' = {} PROVE LiveInv'
  BY DEF LiveInv
<1>1. late = {}
  <2>1. CASE Msg = {}
    BY <2>1 DEF CallbackInv, TypeOK
  <2>2. CASE Msg # {}
    BY <2>2, NextKinds
  <2> QED BY <2>1, <2>2
<1>2. \A x \in timers \cup fired : Live(x)' => Live(x)
  BY LiveBefore
<1> QED BY <1>1, <1>2 DEF LiveInv

LEMMA NextLiveInv == ASSUME CallbackInv, LiveInv, [Next]_vars PROVE LiveInv'
<1>0. /\ TypeOK /\ messages \subseteq Msg /\ handle \in [Msg -> Nat] /\ receiveCount \in [Msg -> Nat]
      /\ 1..MaxDeliveries \subseteq Nat
      /\ \A x \in timers \cup fired : x.msg \in Msg /\ x.handle \in Nat /\ x.handle <= receiveCount[x.msg]
                                      /\ x.handle # NoHandle
  BY ConstantsAssumption DEF CallbackInv, TypeOK, Timer, Callback, TimerFits, CallbackFits
<1>1. CASE timers' \subseteq timers /\ fired' \subseteq fired /\ handle' = handle /\ messages \subseteq messages'
  BY <1>1, LiveStep DEF LiveInv, Live
<1>2. ASSUME NEW c \in Receivers, ReceiveScan(c) PROVE LiveInv'
  <2> DEFINE kept   == messages \ ExpiredMessages
             picked == FirstN(Deliverable(kept), rcv[c].max)
             New(m) == [msg |-> m, handle |-> receiveCount[m] + 1, at |-> now + rcv[c].vt, kind |-> "receive"]
  <2> SUFFICES ASSUME late' = {} PROVE LiveInv'
    BY DEF LiveInv
  <2>1. /\ late = {} /\ FiredLive(ExpiredMessages) = {} /\ fired' = fired /\ messages' = kept
        /\ timers' = StopTimers((messages \ kept) \cup picked) \cup {New(m) : m \in picked}
        /\ handle' = [m \in Msg |-> IF m \in picked THEN receiveCount[m] + 1 ELSE handle[m]]
    BY <1>2 DEF ReceiveScan, Receive
  <2>2. picked \subseteq kept /\ kept \subseteq messages
    BY PickedFromKept
  <2>3. \A m \in messages \ kept : m \in ExpiredMessages
    OBVIOUS
  <2> HIDE DEF picked, kept
  <2>4. ASSUME NEW x \in timers \cup fired, x \in fired \/ x \in StopTimers((messages \ kept) \cup picked)
        PROVE  Live(x)' => Live(x) /\ x.msg \in kept /\ x.msg \notin picked
    <3>1. x.msg \in picked => ~Live(x)'
      BY <1>0, <2>1 DEF Live
    <3>2. x.msg \notin picked => (Live(x)' <=> Live(x))
      BY <1>0, <2>1 DEF Live
    <3>3. x \in fired /\ Live(x) => x.msg \notin messages \ kept
      BY <2>1, <2>3 DEF Live, FiredLive
    <3>4. x \in StopTimers((messages \ kept) \cup picked) => x.msg \notin messages \ kept
      BY DEF StopTimers
    <3> QED BY <2>1, <2>4, <3>1, <3>2, <3>3, <3>4 DEF LiveInv
  <2>5. \A t \in timers' : t \in StopTimers((messages \ kept) \cup picked) \/ \E m \in picked : t = New(m)
    BY <2>1
  <2>6. \A t \in StopTimers((messages \ kept) \cup picked) : t \in timers
    BY DEF StopTimers
  <2>7. \A m \in picked : New(m).msg = m
    OBVIOUS
  <2> HIDE DEF New
  <2>8. \A t \in timers' : Live(t)' => (t.msg \in picked /\ t = New(t.msg)) \/ (t \in timers /\ Live(t) /\ t.msg \in kept \ picked)
    BY <2>4, <2>5, <2>6, <2>7
  <2>9. \A f \in fired' : Live(f)' => f \in fired /\ Live(f) /\ f.msg \in kept \ picked
    BY <2>1, <2>4
  <2>10. \A x \in timers' \cup fired' : Live(x)' => x.msg \in messages'
    BY <2>1, <2>2, <2>8, <2>9
  <2>11. \A t, u \in timers' : Live(t)' /\ Live(u)' /\ t.msg = u.msg => t = u
    BY <2>1, <2>8 DEF LiveInv
  <2>12. \A t \in timers', f \in fired' : Live(t)' /\ Live(f)' => t.msg # f.msg
    BY <2>1, <2>8, <2>9 DEF LiveInv
  <2>13. \A f, g \in fired' : Live(f)' /\ Live(g)' /\ f.msg = g.msg => f = g
    BY <2>1, <2>9 DEF LiveInv
  <2> QED BY <2>10, <2>11, <2>12, <2>13 DEF LiveInv
<1>3. ASSUME NEW t \in timers, FireTimer(t) PROVE LiveInv'
  <2> DEFINE new == [msg |-> t.msg, handle |-> t.handle, kind |-> t.kind]
  <2>1. /\ timers' = timers \ {t} /\ fired' = fired \cup {new}
        /\ UNCHANGED <<handle, messages, late>>
    BY <1>3 DEF FireTimer, msgVars, recvVars, ghostVars
  <2>2. new.msg = t.msg /\ (Live(new) <=> Live(t))
    BY DEF Live
  <2> HIDE DEF new
  <2>3. \A x : Live(x)' <=> Live(x)
    BY <2>1 DEF Live
  <2> QED BY <2>1, <2>2, <2>3 DEF LiveInv
<1>4. ASSUME NEW f \in fired, CallbackRedrives(f) \/ CallbackMakesVisible(f) PROVE LiveInv'
  <2>1. /\ timers' \subseteq timers /\ fired' = fired \ {f} /\ Live(f) /\ late' = late
        /\ messages' \subseteq messages /\ \A m \in messages : m # f.msg => m \in messages'
    BY <1>4 DEF CallbackRedrives, CallbackMakesVisible, SkipsCallback, StopTimers, Live, msgVars, ghostVars
  <2>2. \A x \in timers' \cup fired' : x.msg = f.msg /\ late = {} => ~Live(x)'
    BY <2>1, LiveBefore DEF LiveInv
  <2>3. \A x \in timers' \cup fired' : Live(x)' => Live(x)
    BY <2>1, LiveBefore
  <2> QED BY <2>1, <2>2, <2>3, LiveStep DEF LiveInv
<1>5. ASSUME NEW m \in Msg, NEW h \in Nat, DeleteMessage(m, h) \/ ChangeMessageVisibilityZero(m, h)
      PROVE  LiveInv'
  <2>1. /\ timers' = StopTimers({m}) /\ fired' = fired
        /\ \A k \in messages : k # m => k \in messages'
    BY <1>5 DEF DeleteMessage, ChangeMessageVisibilityZero, msgVars
  <2>2. late' = late \cup FiredLive({m}) \/ handle' = [handle EXCEPT ![m] = NoHandle]
    BY <1>5 DEF DeleteMessage, ChangeMessageVisibilityZero
  <2>3. \A x \in timers' \cup fired' : x \in timers \cup fired /\ (Live(x)' => Live(x))
    BY <2>1, LiveBefore DEF StopTimers
  <2>4. \A x \in timers' \cup fired' : x.msg = m /\ late' = {} => ~Live(x)'
    BY <1>0, <2>1, <2>2, <2>3 DEF StopTimers, FiredLive, Live
  <2> QED BY <2>1, <2>3, <2>4, LiveStep DEF LiveInv, StopTimers
<1>6. ASSUME NEW m \in Msg, NEW h \in Nat, NEW vt \in Timeouts \ {0}, ChangeMessageVisibility(m, h, vt)
      PROVE  LiveInv'
  <2> DEFINE new == [msg |-> m, handle |-> h, at |-> now + vt, kind |-> "change"]
  <2> SUFFICES ASSUME late' = {} PROVE LiveInv'
    BY DEF LiveInv
  <2>1. /\ timers' = StopTimers({m}) \cup {new} /\ fired' = fired /\ late = {} /\ FiredLive({m}) = {}
        /\ m \in messages /\ UNCHANGED <<messages, handle>>
    BY <1>6 DEF ChangeMessageVisibility, HasHandle, msgVars
  <2>2. new.msg = m
    OBVIOUS
  <2>3. \A x : Live(x)' <=> Live(x)
    BY <2>1 DEF Live
  <2>4. \A f \in fired : Live(f) => f.msg # m
    BY <2>1 DEF FiredLive, Live
  <2> HIDE DEF new
  <2>5. \A t \in timers' : t = new \/ (t \in timers /\ t.msg # m)
    BY <2>1 DEF StopTimers
  <2> QED BY <2>1, <2>2, <2>3, <2>4, <2>5 DEF LiveInv
<1>7. CASE Purge
  <2>1. timers' = StopTimers(messages) /\ fired' = fired /\ late' = late \cup FiredLive(messages) /\ handle' = handle
    BY <1>7 DEF Purge, recvVars
  <2>2. \A x \in timers' \cup fired' : Live(x)' /\ late' = {} => x.msg \notin messages
    BY <2>1 DEF StopTimers, FiredLive, Live
  <2>3. \A x \in timers' \cup fired' : x \in timers \cup fired /\ (Live(x)' <=> Live(x))
    BY <2>1 DEF StopTimers, Live
  <2> QED BY <2>1, <2>2, <2>3, LiveStep DEF LiveInv, StopTimers
<1>8. ASSUME \/ \E m \in Msg : SendDuplicate(m)
             \/ \E m \in Msg, d \in Delays : SendMessage(m, d)
             \/ \E c \in Receivers, n \in Batches, vt \in Timeouts, w \in Waits : ReceiveMessages(c, n, vt, w)
             \/ \E c \in Receivers : ReceiveClosed(c) \/ ReceiveNotified(c) \/ ReceiveTimedOut(c) \/ ReceiveCancelled(c)
             \/ \E f \in fired : CallbackSkipped(f)
             \/ Close \/ Tick \/ UNCHANGED vars
      PROVE  LiveInv'
  <2>1. timers' \subseteq timers /\ fired' \subseteq fired /\ handle' = handle /\ messages \subseteq messages'
    BY <1>8 DEF SendDuplicate, SendMessage, ReceiveMessages, ReceiveClosed, ReceiveNotified, ReceiveTimedOut,
       ReceiveCancelled, CallbackSkipped, Close, Tick, StopTimers, vars, msgVars, recvVars, timerVars
  <2> QED BY <1>1, <2>1
<1> QED BY <1>0, <1>2, <1>3, <1>4, <1>5, <1>6, <1>7, <1>8 DEF Next

LEMMA InitLiveInv == Init => LiveInv
BY DEF Init, LiveInv

\* A step forgets no late Stop, and makes late only what a Stop came too late for.
LEMMA LateGrows == ASSUME CallbackInv, [Next]_vars PROVE late \subseteq late'
<1>1. CASE Msg = {}
  BY <1>1 DEF CallbackInv, TypeOK
<1>2. CASE Msg # {}
  BY <1>2, NextKinds
<1> QED BY <1>1, <1>2

(***************************************************************************)
(* One fate                                                                *)
(***************************************************************************)
\* A redriven message was redriven once, is gone, and left in no other way.
RedrivenOnce ==
  late = {} =>
    \A k \in Msg : redriven[k] > 0 => /\ redriven[k] = 1 /\ k \in sent /\ k \notin messages
                                      /\ k \notin acked \cup purged \cup expired

LEMMA NextRedrivenOnce ==
  ASSUME CallbackInv, LiveInv, RedrivenOnce, [Next]_vars
  PROVE  RedrivenOnce'
<1> SUFFICES ASSUME late' = {}, NEW k \in Msg, redriven'[k] > 0
    PROVE  /\ redriven'[k] = 1 /\ k \in sent' /\ k \notin messages'
           /\ k \notin acked' \cup purged' \cup expired'
  BY DEF RedrivenOnce
<1>0. /\ late = {} /\ redriven \in [Msg -> Nat] /\ messages \subseteq sent /\ Sound(k)
      /\ redriven[k] > 0 => /\ redriven[k] = 1 /\ k \in sent /\ k \notin messages
                            /\ k \notin acked \cup purged \cup expired
  BY LateGrows DEF CallbackInv, TypeOK, RedrivenOnce
<1>1. CASE redriven' = redriven
  <2>1. Calm(k) \/ Prolonged(k)
    BY NextKinds
  <2>2. k \in sent /\ k \notin messages
    BY <1>0, <1>1
  <2>3. Rests(k)
    BY <2>1, <2>2 DEF Calm, Prolonged, Enters, Taken, Returned, Released, Leaves, Stays
  <2> QED BY <1>0, <1>1, <2>3 DEF Rests, SameFate
<1>2. ASSUME NEW f \in fired, CallbackRedrives(f)
      PROVE  /\ redriven'[k] = 1 /\ k \in sent' /\ k \notin messages'
             /\ k \notin acked' \cup purged' \cup expired'
  <2>1. /\ f.msg \in messages /\ f.msg \in Msg
        /\ messages' = messages \ {f.msg} /\ redriven' = [redriven EXCEPT ![f.msg] = @ + 1]
        /\ UNCHANGED <<sent, acked, purged, expired>>
    BY <1>0, <1>2 DEF CallbackRedrives, SkipsCallback, LiveInv, Live, CallbackInv, TypeOK, Callback
  <2>2. CASE k = f.msg
    BY <1>0, <2>1, <2>2 DEF Sound
  <2>3. CASE k # f.msg
    BY <1>0, <2>1, <2>3
  <2> QED BY <2>2, <2>3
<1>3. ASSUME \A f \in fired : ~CallbackRedrives(f) PROVE redriven' = redriven
  BY <1>3 DEF Next, vars, ghostVars, SendDuplicate, SendMessage, ReceiveMessages, ReceiveScan, ReceiveClosed,
     ReceiveNotified, ReceiveTimedOut, ReceiveCancelled, FireTimer, CallbackSkipped, CallbackMakesVisible,
     DeleteMessage, ChangeMessageVisibilityZero, ChangeMessageVisibility, Purge, Close, Tick
<1> QED BY <1>1, <1>2, <1>3

\* A message leaves the store in one way and is redriven at most once, unless a
\* Stop came too late for one of its callbacks.
THEOREM MessagesHaveOneFate == Spec => []OneFate
<1>1. CallbackInv /\ RedrivenOnce => OneFate
  <2> SUFFICES ASSUME CallbackInv, RedrivenOnce, late = {}, NEW m \in Msg
      PROVE  /\ redriven[m] <= 1
             /\ redriven[m] = 1 => m \notin acked \cup purged \cup expired \cup messages
             /\ m \in messages => m \notin acked \cup purged \cup expired
             /\ m \in acked => m \notin purged \cup expired
             /\ m \in purged => m \notin expired
    BY DEF OneFate
  <2>1. redriven[m] \in Nat /\ Sound(m)
    BY DEF CallbackInv, TypeOK
  <2> QED BY <2>1 DEF RedrivenOnce, Sound
<1>2. Init => RedrivenOnce
  BY DEF Init, RedrivenOnce
<1> QED BY <1>1, <1>2, InitCallbackInv, NextCallbackInv, InitLiveInv, NextLiveInv, NextRedrivenOnce, PTL DEF Spec

(***************************************************************************)
(* Positions and sequence numbers                                          *)
(***************************************************************************)
\* Positions are given out in order, and with them sequence numbers.
OrderInv ==
  /\ \A m \in messages : order[m] <= arrivals
  /\ \A m, k \in messages : order[m] = order[k] => m = k
  /\ IsFifo => \A m \in messages : seqNo[m] <= sequenceCounter
  /\ SequenceOrder

LEMMA NextOrderInv == ASSUME TypeOK, OrderInv, [Next]_vars PROVE OrderInv'
<1>1. CASE messages' \subseteq messages /\ UNCHANGED <<order, arrivals, seqNo, sequenceCounter>>
  BY <1>1 DEF OrderInv, SequenceOrder
<1>2. ASSUME NEW m \in Msg, NEW d \in Delays, SendMessage(m, d) PROVE OrderInv'
  <2>1. /\ m \notin messages /\ messages' = messages \cup {m} /\ messages \subseteq Msg
        /\ arrivals' = arrivals + 1 /\ order' = [order EXCEPT ![m] = arrivals + 1]
        /\ arrivals \in Nat /\ sequenceCounter \in Nat /\ order \in [Msg -> Nat] /\ seqNo \in [Msg -> Nat]
    BY <1>2 DEF SendMessage, TypeOK
  <2>2. IsFifo => sequenceCounter' = sequenceCounter + 1 /\ seqNo' = [seqNo EXCEPT ![m] = sequenceCounter + 1]
    BY <1>2 DEF SendMessage
  <2>3. /\ order'[m] = arrivals + 1 /\ \A k \in messages : k # m /\ order'[k] = order[k] /\ order[k] \in Nat
        /\ IsFifo => seqNo'[m] = sequenceCounter + 1 /\ \A k \in messages : seqNo'[k] = seqNo[k] /\ seqNo[k] \in Nat
    BY <2>1, <2>2
  <2>4. \A k \in messages' : order'[k] <= arrivals'
    BY <2>1, <2>3 DEF OrderInv
  <2>5. \A i, k \in messages' : order'[i] = order'[k] => i = k
    BY <2>1, <2>3 DEF OrderInv
  <2>6. IsFifo => \A k \in messages' : seqNo'[k] <= sequenceCounter'
    BY <2>1, <2>2, <2>3 DEF OrderInv
  <2>7. IsFifo => \A i, k \in messages' : order'[i] < order'[k] => seqNo'[i] < seqNo'[k]
    BY <2>1, <2>3 DEF OrderInv, SequenceOrder
  <2> QED BY <2>4, <2>5, <2>6, <2>7 DEF OrderInv, SequenceOrder
<1>3. CASE Purge
  BY <1>3 DEF Purge, OrderInv, SequenceOrder
<1>4. ASSUME NEW c \in Receivers, ReceiveScan(c) PROVE OrderInv'
  BY <1>1, <1>4 DEF ReceiveScan
<1>5. ASSUME NEW f \in fired, CallbackRedrives(f) PROVE OrderInv'
  BY <1>1, <1>5 DEF CallbackRedrives
<1>6. ASSUME NEW m \in Msg, NEW h \in 1..MaxDeliveries, DeleteMessage(m, h) PROVE OrderInv'
  BY <1>1, <1>6 DEF DeleteMessage
<1> QED
  BY <1>1, <1>2, <1>3, <1>4, <1>5, <1>6
  DEF Next, vars, msgVars, SendDuplicate, ReceiveMessages, ReceiveClosed, ReceiveNotified, ReceiveTimedOut,
      ReceiveCancelled, FireTimer, CallbackSkipped, CallbackMakesVisible, ChangeMessageVisibilityZero,
      ChangeMessageVisibility, Close, Tick

\* Sequence numbers follow the order of the slice, across purges: Purge resets
\* the counter and leaves no message behind.
THEOREM SequenceFollowsOrder == Spec => []SequenceOrder
<1>1. Init => OrderInv
  BY DEF Init, OrderInv, SequenceOrder
<1> QED BY <1>1, InitTypeOK, NextTypeOK, NextOrderInv, PTL DEF Spec, OrderInv

(***************************************************************************)
(* Deduplication                                                           *)
(***************************************************************************)
\* A window that is not over is covered by the cache entry of its identifier.
WindowInv ==
  /\ DedupWindowHolds
  /\ IsFifo => \A m \in era :
       /\ sentAt[m] <= now
       /\ DedupOf[m] # NoDedup =>
            sentAt[m] + DedupWindow < now \/ sentAt[m] + DedupWindow <= dedupCache[DedupOf[m]]

LEMMA NextWindowInv == ASSUME TypeOK, WindowInv, [Next]_vars PROVE WindowInv'
<1> SUFFICES ASSUME IsFifo PROVE WindowInv'
  BY DEF WindowInv, DedupWindowHolds
<1>0. /\ now \in Nat /\ sentAt \in [Msg -> Nat] /\ dedupCache \in [DedupIds -> Nat] /\ era \subseteq sent
      /\ sent \subseteq Msg /\ DedupWindow \in Nat /\ DedupWindow > 0 /\ \A m \in Msg : DedupOf[m] \in DedupIds \cup {NoDedup}
      /\ NoDedup \notin DedupIds
  BY ConstantsAssumption DEF TypeOK
<1>1. CASE UNCHANGED <<era, sentAt, now, dedupCache>>
  BY <1>1 DEF WindowInv, DedupWindowHolds
\* Cleaning removes only entries of windows that are over.
<1>2. \A m \in era : DedupOf[m] # NoDedup =>
        \/ sentAt[m] + DedupWindow < now
        \/ sentAt[m] + DedupWindow <= CleanExpiredDedupEntries[DedupOf[m]]
  BY <1>0 DEF WindowInv, CleanExpiredDedupEntries
<1>3. ASSUME NEW m \in Msg, SendDuplicate(m) PROVE WindowInv'
  <2>1. dedupCache' = CleanExpiredDedupEntries /\ UNCHANGED <<era, sentAt, now>>
    BY <1>3 DEF SendDuplicate, msgVars, ghostVars
  <2> QED BY <1>2, <2>1 DEF WindowInv, DedupWindowHolds
<1>4. ASSUME NEW m \in Msg, NEW d \in Delays, SendMessage(m, d) PROVE WindowInv'
  <2>1. /\ m \notin sent /\ era' = era \cup {m} /\ sentAt' = [sentAt EXCEPT ![m] = now] /\ now' = now
        /\ \/ DedupOf[m] = NoDedup /\ dedupCache' = CleanExpiredDedupEntries
           \/ /\ DedupOf[m] # NoDedup /\ CleanExpiredDedupEntries[DedupOf[m]] = 0
              /\ dedupCache' = [CleanExpiredDedupEntries EXCEPT ![DedupOf[m]] = now + DedupWindow]
    BY <1>4 DEF SendMessage
  <2>2. sentAt'[m] = now /\ \A k \in era : k # m /\ sentAt'[k] = sentAt[k] /\ sentAt[k] \in Nat /\ k \in Msg
    BY <1>0, <2>1
  <2>3. CleanExpiredDedupEntries \in [DedupIds -> Nat]
    BY CleanDedupType
  <2>4. ASSUME NEW k \in era, DedupOf[k] = DedupOf[m], DedupOf[m] # NoDedup
        PROVE  sentAt[k] + DedupWindow < now
    <3>1. CleanExpiredDedupEntries[DedupOf[k]] = 0
      BY <2>1, <2>4
    <3> QED BY <1>0, <1>2, <2>2, <2>4, <3>1
  <2>5. DedupWindowHolds'
    BY <1>0, <2>1, <2>2, <2>4 DEF WindowInv, DedupWindowHolds
  <2>6. \A k \in era' : sentAt'[k] <= now'
    BY <1>0, <2>1, <2>2 DEF WindowInv
  <2>7. ASSUME NEW k \in era', DedupOf[k] # NoDedup
        PROVE  sentAt'[k] + DedupWindow < now' \/ sentAt'[k] + DedupWindow <= dedupCache'[DedupOf[k]]
    <3>1. CASE DedupOf[m] = DedupOf[k]
      <4>1. dedupCache'[DedupOf[k]] = now + DedupWindow
        BY <1>0, <2>1, <2>3, <2>7, <3>1
      <4>2. sentAt'[k] <= now /\ sentAt'[k] \in Nat
        BY <1>0, <2>1, <2>2, <2>6
      <4> QED BY <1>0, <4>1, <4>2
    <3>2. CASE DedupOf[m] # DedupOf[k]
      <4>1. k \in era /\ dedupCache'[DedupOf[k]] = CleanExpiredDedupEntries[DedupOf[k]]
        BY <1>0, <2>1, <2>3, <2>7, <3>2
      <4> QED BY <1>2, <2>1, <2>2, <2>7, <4>1
    <3> QED BY <3>1, <3>2
  <2> QED BY <2>5, <2>6, <2>7 DEF WindowInv
<1>5. CASE Purge
  BY <1>5 DEF Purge, WindowInv, DedupWindowHolds
<1>6. CASE Tick
  <2>1. now' = now + 1 /\ UNCHANGED <<era, sentAt, dedupCache>>
    BY <1>6 DEF Tick, msgVars, groupVars, ghostVars
  <2>2. \A k \in era : sentAt[k] \in Nat
    BY <1>0
  <2>3. \A k \in era : sentAt[k] <= now' /\ (sentAt[k] + DedupWindow < now => sentAt[k] + DedupWindow < now')
    BY <1>0, <2>1, <2>2 DEF WindowInv
  <2> QED BY <2>1, <2>3 DEF WindowInv, DedupWindowHolds
<1> QED
  BY <1>1, <1>3, <1>4, <1>5, <1>6
  DEF Next, vars, msgVars, groupVars, ghostVars, ReceiveMessages, ReceiveScan, ReceiveClosed, ReceiveNotified,
      ReceiveTimedOut, ReceiveCancelled, FireTimer, CallbackSkipped, CallbackRedrives, CallbackMakesVisible,
      DeleteMessage, ChangeMessageVisibilityZero, ChangeMessageVisibility, Close

\* Two messages with one identifier are accepted only more than a window apart,
\* unless a purge emptied the cache between them.
THEOREM DeduplicationHolds == Spec => []DedupWindowHolds
<1>1. Init => WindowInv
  BY DEF Init, WindowInv, DedupWindowHolds
<1> QED BY <1>1, InitTypeOK, NextTypeOK, NextWindowInv, PTL DEF Spec, WindowInv

(***************************************************************************)
(* Message groups                                                          *)
(***************************************************************************)
\* While no Stop came too late: the group of a message in flight is marked, and
\* that message is the only one of the group in flight.
HolderInv ==
  late = {} =>
    \A m \in messages :
      Grouped(m) /\ handle[m] # NoHandle =>
        /\ GroupOf[m] \in inFlightGroups
        /\ \A k \in messages : GroupOf[k] = GroupOf[m] /\ handle[k] # NoHandle => k = m

\* A scan takes from a group that is not marked, and there the oldest visible message.
LEMMA PickedHeads ==
  ASSUME NEW S, NEW n, NEW m \in FirstN(Deliverable(S), n), Grouped(m)
  PROVE  /\ m \in S /\ GroupOf[m] \notin inFlightGroups
         /\ \A k \in S : visibleAt[k] <= now /\ GroupOf[k] = GroupOf[m] => order[m] <= order[k]
BY DEF FirstN, Deliverable

LEMMA GroupOfOne ==
  ASSUME NEW m
  PROVE  GroupsOf({m}) = IF Grouped(m) THEN {GroupOf[m]} ELSE {}
<1>1. CASE Grouped(m)
  <2>1. {k \in {m} : Grouped(k)} = {m}
    BY <1>1
  <2> QED BY <1>1, <2>1 DEF GroupsOf
<1>2. CASE ~Grouped(m)
  <2>1. {k \in {m} : Grouped(k)} = {}
    BY <1>2
  <2> QED BY <1>2, <2>1 DEF GroupsOf
<1> QED BY <1>1, <1>2

\* A step by which the message held lets go of its handle or leaves, and its group is released.
LEMMA ReleaseStep ==
  ASSUME TypeOK, HolderInv, late' = {} => late = {}, NEW held \in messages, handle[held] # NoHandle,
         ReleaseGroup(held), messages' \subseteq messages,
         held \notin messages' \/ handle'[held] = NoHandle,
         \A k \in messages : k # held => handle'[k] = handle[k]
  PROVE  HolderInv'
<1> SUFFICES ASSUME late' = {}, NEW m \in messages', Grouped(m), handle'[m] # NoHandle
    PROVE  /\ GroupOf[m] \in inFlightGroups'
           /\ \A k \in messages' : GroupOf[k] = GroupOf[m] /\ handle'[k] # NoHandle => k = m
  BY DEF HolderInv, Grouped
<1>1. m # held /\ m \in messages /\ handle[m] # NoHandle
  OBVIOUS
<1>2. GroupOf[held] # GroupOf[m] /\ GroupOf[m] \in inFlightGroups
  BY <1>1 DEF HolderInv
<1>3. GroupOf[m] \in inFlightGroups'
  BY <1>2, GroupOfOne DEF ReleaseGroup
<1> QED BY <1>1, <1>3 DEF HolderInv

LEMMA NextHolderInv ==
  ASSUME CallbackInv, LiveInv, OrderInv, HolderInv, [Next]_vars
  PROVE  HolderInv'
<1>0. /\ TypeOK /\ messages \subseteq Msg /\ handle \in [Msg -> Nat] /\ receiveCount \in [Msg -> Nat]
      /\ order \in [Msg -> Nat] /\ (late' = {} => late = {})
  BY LateGrows DEF CallbackInv, TypeOK
<1>1. CASE /\ messages' \subseteq messages /\ handle' = handle /\ inFlightGroups' = inFlightGroups
  BY <1>0, <1>1 DEF HolderInv, Grouped
<1>2. ASSUME NEW m \in Msg, NEW d \in Delays, SendMessage(m, d) PROVE HolderInv'
  <2>1. m \notin sent /\ messages' = messages \cup {m} /\ UNCHANGED <<handle, inFlightGroups, late>>
    BY <1>2 DEF SendMessage
  <2>2. handle[m] = NoHandle
    BY <1>0, <2>1 DEF CallbackInv, Sound, NoHandle
  <2> QED BY <2>1, <2>2 DEF HolderInv, Grouped
<1>3. ASSUME NEW c \in Receivers, ReceiveScan(c) PROVE HolderInv'
  <2> DEFINE kept   == messages \ ExpiredMessages
             picked == FirstN(Deliverable(kept), rcv[c].max)
  <2> SUFFICES ASSUME late' = {}, NEW m \in messages', Grouped(m), handle'[m] # NoHandle
      PROVE  /\ GroupOf[m] \in inFlightGroups'
             /\ \A k \in messages' : GroupOf[k] = GroupOf[m] /\ handle'[k] # NoHandle => k = m
    BY DEF HolderInv, Grouped
  <2>1. /\ messages' = kept /\ inFlightGroups' = inFlightGroups \cup GroupsOf(picked)
        /\ handle' = [k \in Msg |-> IF k \in picked THEN receiveCount[k] + 1 ELSE handle[k]]
    BY <1>3 DEF ReceiveScan, Receive
  <2>2. \A k \in picked : k \in kept /\ visibleAt[k] <= now
    BY DEF FirstN, Deliverable
  <2>3. \A k \in picked : Grouped(k) =>
          /\ GroupOf[k] \notin inFlightGroups
          /\ \A i \in kept : visibleAt[i] <= now /\ GroupOf[i] = GroupOf[k] => order[k] <= order[i]
    BY PickedHeads
  <2>4. \A k \in picked : Grouped(k) => GroupOf[k] \in GroupsOf(picked)
    BY DEF GroupsOf
  <2>5. kept \subseteq messages
    OBVIOUS
  <2> HIDE DEF kept, picked
  <2>6. m \in messages /\ m \in Msg /\ late = {}
    BY <1>0, <2>1, <2>5
  <2>7. CASE m \in picked
    <3>1. GroupOf[m] \in inFlightGroups'
      BY <2>1, <2>4, <2>7
    <3>2. ASSUME NEW k \in messages', GroupOf[k] = GroupOf[m], handle'[k] # NoHandle PROVE k = m
      <4>1. Grouped(k) /\ k \in messages /\ k \in Msg
        BY <1>0, <2>1, <2>5, <3>2 DEF Grouped
      <4>2. k \in picked
        BY <2>1, <2>3, <2>6, <2>7, <3>2, <4>1 DEF HolderInv
      <4>3. order[m] <= order[k] /\ order[k] <= order[m]
        BY <2>2, <2>3, <2>7, <3>2, <4>1, <4>2
      <4>4. order[m] \in Nat /\ order[k] \in Nat
        BY <1>0, <2>6, <4>1
      <4>5. order[m] = order[k]
        BY <4>3, <4>4
      <4> QED BY <2>6, <4>1, <4>5 DEF OrderInv
    <3> QED BY <3>1, <3>2
  <2>8. CASE m \notin picked
    <3>1. handle[m] # NoHandle /\ GroupOf[m] \in inFlightGroups
      BY <2>1, <2>6, <2>8 DEF HolderInv
    <3>2. ASSUME NEW k \in messages', GroupOf[k] = GroupOf[m], handle'[k] # NoHandle PROVE k = m
      <4>1. Grouped(k) /\ k \in messages /\ k \in Msg
        BY <1>0, <2>1, <2>5, <3>2 DEF Grouped
      <4>2. k \notin picked
        BY <2>3, <3>1, <3>2, <4>1
      <4>3. handle[k] # NoHandle
        BY <2>1, <3>2, <4>1, <4>2
      <4> QED BY <2>6, <3>1, <3>2, <4>1, <4>3 DEF HolderInv
    <3> QED BY <2>1, <3>1, <3>2
  <2> QED BY <2>7, <2>8
<1>4. ASSUME NEW f \in fired, CallbackRedrives(f) \/ CallbackMakesVisible(f) PROVE HolderInv'
  <2>1. CASE late' # {}
    BY <2>1 DEF HolderInv
  <2>2. CASE late' = {}
    <3>1. f.msg \in messages /\ f.msg \in Msg /\ handle[f.msg] # NoHandle
      BY <1>0, <1>4, <2>2 DEF CallbackRedrives, CallbackMakesVisible, SkipsCallback, LiveInv, Live, CallbackInv,
         CallbackFits
    <3>2. /\ ReleaseGroup(f.msg) /\ messages' \subseteq messages
          /\ f.msg \notin messages' \/ handle'[f.msg] = NoHandle
          /\ \A k \in messages : k # f.msg => handle'[k] = handle[k]
      BY <1>0, <1>4, <3>1 DEF CallbackRedrives, CallbackMakesVisible, msgVars
    <3> QED BY <1>0, <3>1, <3>2, ReleaseStep
  <2> QED BY <2>1, <2>2
<1>5. ASSUME NEW m \in Msg, NEW h, DeleteMessage(m, h) \/ ChangeMessageVisibilityZero(m, h) PROVE HolderInv'
  <2>1. /\ m \in messages /\ handle[m] # NoHandle /\ ReleaseGroup(m) /\ messages' \subseteq messages
        /\ m \notin messages' \/ handle'[m] = NoHandle
        /\ \A k \in messages : k # m => handle'[k] = handle[k]
    BY <1>0, <1>5 DEF DeleteMessage, ChangeMessageVisibilityZero, HasHandle, msgVars, recvVars
  <2> QED BY <1>0, <2>1, ReleaseStep
<1>6. CASE Purge
  BY <1>6 DEF Purge, HolderInv
<1> QED
  BY <1>1, <1>2, <1>3, <1>4, <1>5, <1>6
  DEF Next, vars, msgVars, recvVars, groupVars, SendDuplicate, ReceiveMessages, ReceiveClosed, ReceiveNotified,
      ReceiveTimedOut, ReceiveCancelled, FireTimer, CallbackSkipped, ChangeMessageVisibility, Close, Tick

FifoInv == CallbackInv /\ LiveInv /\ OrderInv /\ HolderInv

LEMMA FifoInvHolds == Spec => []FifoInv
<1>1. Init => FifoInv
  BY InitCallbackInv, InitLiveInv DEF FifoInv, Init, OrderInv, SequenceOrder, HolderInv
<1>2. FifoInv /\ [Next]_vars => FifoInv'
  BY NextCallbackInv, NextLiveInv, NextOrderInv, NextHolderInv DEF FifoInv, CallbackInv
<1> QED BY <1>1, <1>2, PTL DEF Spec

\* At most one message of a group is in flight, unless a Stop came too late for
\* a callback: inFlightGroups is cleared by nobody but the group's holder.
THEOREM GroupsAreExclusive == Spec => []OneInFlightPerGroup
<1>1. FifoInv => OneInFlightPerGroup
  BY DEF FifoInv, HolderInv, OneInFlightPerGroup
<1> QED BY <1>1, FifoInvHolds, PTL

\* While no Stop came too late: a FIFO message nobody gave back waits only
\* while it has receives left.
BoundInv ==
  MaxReceiveCount > 0 /\ late = {} =>
    \A m \in messages :
      Grouped(m) /\ m \notin nacked =>
        /\ receiveCount[m] <= MaxReceiveCount
        /\ handle[m] = NoHandle => receiveCount[m] < MaxReceiveCount

LEMMA NextBoundInv ==
  ASSUME FifoInv, BoundInv, [Next]_vars
  PROVE  BoundInv'
<1>0. /\ TypeOK /\ messages \subseteq Msg /\ handle \in [Msg -> Nat] /\ receiveCount \in [Msg -> Nat]
      /\ MaxReceiveCount \in Nat /\ (late' = {} => late = {})
  BY LateGrows, ConstantsAssumption DEF FifoInv, CallbackInv, TypeOK
<1>1. CASE messages' \subseteq messages /\ handle' = handle /\ receiveCount' = receiveCount /\ nacked' = nacked
  BY <1>0, <1>1 DEF BoundInv, Grouped
<1>2. ASSUME NEW m \in Msg, NEW d \in Delays, SendMessage(m, d) PROVE BoundInv'
  <2>1. m \notin sent /\ messages' = messages \cup {m} /\ UNCHANGED <<handle, receiveCount, nacked, late>>
    BY <1>2 DEF SendMessage
  <2>2. receiveCount[m] = 0
    BY <2>1 DEF FifoInv, CallbackInv, Sound
  <2> QED BY <1>0, <2>1, <2>2 DEF BoundInv, Grouped
<1>3. ASSUME NEW c \in Receivers, ReceiveScan(c) PROVE BoundInv'
  <2> DEFINE kept   == messages \ ExpiredMessages
             picked == FirstN(Deliverable(kept), rcv[c].max)
  <2> SUFFICES ASSUME MaxReceiveCount > 0, late' = {}, NEW m \in messages', Grouped(m), m \notin nacked'
      PROVE  /\ receiveCount'[m] <= MaxReceiveCount
             /\ handle'[m] = NoHandle => receiveCount'[m] < MaxReceiveCount
    BY DEF BoundInv, Grouped
  <2>1. /\ messages' = kept /\ nacked' = nacked
        /\ receiveCount' = [k \in Msg |-> IF k \in picked THEN receiveCount[k] + 1 ELSE receiveCount[k]]
        /\ handle' = [k \in Msg |-> IF k \in picked THEN receiveCount[k] + 1 ELSE handle[k]]
    BY <1>3 DEF ReceiveScan, Receive
  <2>2. m \in picked => GroupOf[m] \notin inFlightGroups
    BY PickedHeads
  <2>3. m \in messages /\ m \in Msg /\ receiveCount[m] \in Nat
    BY <1>0, <2>1
  <2> HIDE DEF kept, picked
  <2>4. m \in picked => handle[m] = NoHandle
    BY <1>0, <2>2, <2>3 DEF FifoInv, HolderInv
  <2> QED BY <1>0, <2>1, <2>3, <2>4 DEF BoundInv, NoHandle
<1>4. ASSUME NEW f \in fired, CallbackRedrives(f) \/ CallbackMakesVisible(f) PROVE BoundInv'
  <2>1. /\ f.msg \in Msg /\ messages' \subseteq messages /\ UNCHANGED <<receiveCount, nacked, late>>
        /\ f.msg \notin messages' \/ (MaxReceiveCount > 0 => ~(receiveCount[f.msg] >= MaxReceiveCount))
        /\ \A k \in messages : k # f.msg => handle'[k] = handle[k]
    BY <1>0, <1>4 DEF CallbackRedrives, CallbackMakesVisible, ShouldRedrive, msgVars, ghostVars, TypeOK, Callback
  <2>2. receiveCount[f.msg] \in Nat
    BY <1>0, <2>1
  <2> QED BY <1>0, <2>1, <2>2 DEF BoundInv, Grouped
<1>5. ASSUME NEW m \in Msg, NEW h, ChangeMessageVisibilityZero(m, h) PROVE BoundInv'
  <2>1. /\ messages' = messages /\ UNCHANGED <<receiveCount, late>> /\ nacked' = nacked \cup {m}
        /\ \A k \in messages : k # m => handle'[k] = handle[k]
    BY <1>0, <1>5 DEF ChangeMessageVisibilityZero, msgVars
  <2> QED BY <2>1 DEF BoundInv, Grouped
<1>6. ASSUME NEW m \in Msg, NEW h, DeleteMessage(m, h) PROVE BoundInv'
  BY <1>1, <1>6 DEF DeleteMessage, recvVars
<1>7. CASE Purge
  BY <1>7 DEF Purge, BoundInv
<1> QED
  BY <1>1, <1>2, <1>3, <1>4, <1>5, <1>6, <1>7
  DEF Next, vars, msgVars, recvVars, ghostVars, SendDuplicate, ReceiveMessages, ReceiveClosed, ReceiveNotified,
      ReceiveTimedOut, ReceiveCancelled, FireTimer, CallbackSkipped, ChangeMessageVisibility, Close, Tick

\* A message of a group is delivered at most MaxReceiveCount times before its
\* redrive, unless it was given back or a Stop came too late.
THEOREM RedrivesAreBounded == Spec => []RedriveBound
<1>1. Init => BoundInv
  BY DEF Init, BoundInv
<1>2. BoundInv => RedriveBound
  BY DEF BoundInv, RedriveBound
<1>3. BoundInv /\ FifoInv /\ [Next]_vars => BoundInv'
  BY NextBoundInv
<1> QED BY <1>1, <1>2, <1>3, FifoInvHolds, PTL DEF Spec

\* Without delays a message nobody received yet is visible, and the messages
\* behind the oldest one of a group were never received.
HeadInv ==
  /\ GroupHeadOnly
  /\ late = {} /\ Delays = {0} => \A m \in messages : receiveCount[m] = 0 => visibleAt[m] <= now

LEMMA NextHeadInv ==
  ASSUME FifoInv, HeadInv, [Next]_vars
  PROVE  HeadInv'
<1> SUFFICES ASSUME late' = {}, Delays = {0} PROVE HeadInv'
  BY DEF HeadInv, GroupHeadOnly
<1>0. /\ TypeOK /\ messages \subseteq Msg /\ handle \in [Msg -> Nat] /\ receiveCount \in [Msg -> Nat]
      /\ order \in [Msg -> Nat] /\ visibleAt \in [Msg -> Nat] /\ now \in Nat /\ arrivals \in Nat /\ late = {}
      /\ \A k \in messages : order[k] <= arrivals
  BY LateGrows DEF FifoInv, CallbackInv, TypeOK, OrderInv
<1>a. \A m \in messages : receiveCount[m] = 0 => visibleAt[m] <= now
  BY <1>0 DEF HeadInv
<1>1. CASE messages' \subseteq messages /\ UNCHANGED <<order, receiveCount, visibleAt, now>>
  BY <1>0, <1>a, <1>1 DEF HeadInv, GroupHeadOnly, Grouped
<1>2. ASSUME NEW m \in Msg, NEW d \in Delays, SendMessage(m, d) PROVE HeadInv'
  <2>1. /\ m \notin sent /\ messages' = messages \cup {m} /\ UNCHANGED <<receiveCount, now>> /\ m \notin messages
        /\ order' = [order EXCEPT ![m] = arrivals + 1]
        /\ visibleAt' = [visibleAt EXCEPT ![m] = now + d] /\ d = 0
    BY <1>0, <1>2 DEF SendMessage, TypeOK
  <2>2. receiveCount[m] = 0
    BY <2>1 DEF FifoInv, CallbackInv, Sound
  <2>3. /\ order'[m] = arrivals + 1 /\ visibleAt'[m] = now
        /\ \A k \in messages : k # m /\ order'[k] = order[k] /\ order[k] \in Nat /\ visibleAt'[k] = visibleAt[k]
    BY <1>0, <2>1
  <2>4. \A k \in messages' : receiveCount'[k] = 0 => visibleAt'[k] <= now'
    BY <1>0, <1>a, <2>1, <2>3
  <2>5. ASSUME NEW i \in messages', NEW k \in messages', Grouped(i), GroupOf[i] = GroupOf[k], order'[i] < order'[k]
        PROVE  receiveCount'[k] = 0
    <3>1. CASE k = m
      BY <2>1, <2>2, <3>1
    <3>2. CASE k # m
      <4>1. k \in messages /\ i \in messages
        BY <1>0, <2>1, <2>3, <2>5, <3>2
      <4> QED BY <1>0, <2>1, <2>3, <2>5, <4>1 DEF HeadInv, GroupHeadOnly
    <3> QED BY <3>1, <3>2
  <2> QED BY <2>4, <2>5 DEF HeadInv, GroupHeadOnly, Grouped
<1>3. ASSUME NEW c \in Receivers, ReceiveScan(c) PROVE HeadInv'
  <2> DEFINE kept   == messages \ ExpiredMessages
             picked == FirstN(Deliverable(kept), rcv[c].max)
  <2>1. /\ messages' = kept /\ UNCHANGED <<order, now>>
        /\ receiveCount' = [k \in Msg |-> IF k \in picked THEN receiveCount[k] + 1 ELSE receiveCount[k]]
        /\ visibleAt' = [k \in Msg |-> IF k \in picked THEN now + rcv[c].vt ELSE visibleAt[k]]
    BY <1>3 DEF ReceiveScan, Receive
  <2>2. \A k \in picked : Grouped(k) =>
          /\ GroupOf[k] \notin inFlightGroups
          /\ \A i \in kept : visibleAt[i] <= now /\ GroupOf[i] = GroupOf[k] => order[k] <= order[i]
    BY PickedHeads
  <2>3. kept \subseteq messages
    OBVIOUS
  <2> HIDE DEF kept, picked
  <2>4. \A k \in messages' : k \in messages /\ k \in Msg /\ receiveCount[k] \in Nat
    BY <1>0, <2>1, <2>3
  <2>5. \A k \in messages' : receiveCount'[k] = 0 => visibleAt'[k] <= now'
    BY <1>0, <1>a, <2>1, <2>4
  <2>6. ASSUME NEW i \in messages', NEW k \in messages', Grouped(i), GroupOf[i] = GroupOf[k], order[i] < order[k]
        PROVE  receiveCount'[k] = 0
    <3>1. receiveCount[k] = 0 /\ Grouped(k)
      BY <1>0, <2>4, <2>6 DEF HeadInv, GroupHeadOnly, Grouped
    <3>2. ASSUME k \in picked PROVE FALSE
      <4>1. GroupOf[i] \notin inFlightGroups /\ (visibleAt[i] <= now => order[k] <= order[i])
        BY <2>1, <2>2, <2>6, <3>1, <3>2
      <4>2. handle[i] = NoHandle
        BY <1>0, <2>4, <2>6, <4>1 DEF FifoInv, HolderInv
      <4>3. visibleAt[i] <= now
        <5>1. receiveCount[i] = 0 => visibleAt[i] <= now
          BY <1>a, <2>4
        <5>2. Sound(i) /\ visibleAt[i] \in Nat
          BY <1>0, <2>4 DEF FifoInv, CallbackInv
        <5> QED BY <1>0, <2>4, <4>2, <5>1, <5>2 DEF Sound
      <4>4. order[k] \in Nat /\ order[i] \in Nat
        BY <1>0, <2>4
      <4> QED BY <2>6, <4>1, <4>3, <4>4
    <3> QED BY <2>1, <2>4, <3>1, <3>2
  <2> QED BY <2>1, <2>5, <2>6 DEF HeadInv, GroupHeadOnly, Grouped
<1>4. ASSUME NEW m \in Msg, NEW h \in Nat, NEW vt \in Timeouts, ChangeMessageVisibility(m, h, vt) PROVE HeadInv'
  <2>1. /\ UNCHANGED <<messages, order, receiveCount, now>> /\ handle[m] # NoHandle
        /\ visibleAt' = [visibleAt EXCEPT ![m] = now + vt]
    BY <1>4 DEF ChangeMessageVisibility, HasHandle, msgVars
  <2>2. receiveCount[m] # 0
    BY <1>0, <2>1 DEF FifoInv, CallbackInv, Sound, NoHandle
  <2> QED BY <1>0, <1>a, <2>1, <2>2 DEF HeadInv, GroupHeadOnly, Grouped
<1>5. ASSUME NEW m \in Msg, NEW h \in Nat, ChangeMessageVisibilityZero(m, h) PROVE HeadInv'
  <2>1. UNCHANGED <<messages, order, receiveCount, now>> /\ visibleAt' = [visibleAt EXCEPT ![m] = now]
    BY <1>5 DEF ChangeMessageVisibilityZero, msgVars
  <2> QED BY <1>0, <1>a, <2>1 DEF HeadInv, GroupHeadOnly, Grouped
<1>6. CASE Tick
  <2>1. now' = now + 1 /\ UNCHANGED <<messages, order, receiveCount, visibleAt>>
    BY <1>6 DEF Tick, msgVars, recvVars
  <2>2. \A k \in messages : visibleAt[k] \in Nat
    BY <1>0
  <2> QED BY <1>0, <1>a, <2>1, <2>2 DEF HeadInv, GroupHeadOnly, Grouped
<1>7. ASSUME NEW f \in fired, CallbackRedrives(f) PROVE HeadInv'
  BY <1>1, <1>7 DEF CallbackRedrives
<1>8. ASSUME NEW m \in Msg, NEW h \in Nat, DeleteMessage(m, h) PROVE HeadInv'
  BY <1>1, <1>8 DEF DeleteMessage, recvVars
<1>9. CASE Purge
  BY <1>1, <1>9 DEF Purge, recvVars
<1>10. 1..MaxDeliveries \subseteq Nat
  BY ConstantsAssumption
<1> QED
  BY <1>1, <1>2, <1>3, <1>4, <1>5, <1>6, <1>7, <1>8, <1>9, <1>10
  DEF Next, vars, msgVars, recvVars, SendDuplicate, ReceiveMessages, ReceiveClosed, ReceiveNotified,
      ReceiveTimedOut, ReceiveCancelled, FireTimer, CallbackSkipped, CallbackMakesVisible, Close

\* When nobody sends with a delay, only the oldest stored message of a group has
\* been received, unless a Stop came too late.
THEOREM GroupsAreOrdered == Spec => []GroupHeadOnly
<1>1. Init => HeadInv
  BY DEF Init, HeadInv, GroupHeadOnly
<1>2. HeadInv /\ FifoInv /\ [Next]_vars => HeadInv'
  BY NextHeadInv
<1>3. HeadInv => GroupHeadOnly
  BY DEF HeadInv
<1> QED BY <1>1, <1>2, <1>3, FifoInvHolds, PTL DEF Spec

(***************************************************************************)
(* Long polling                                                            *)
(***************************************************************************)
LEMMA LessIsWellFounded == IsWellFoundedOn({p \in Nat \X Nat : p[1] < p[2]}, Nat)
BY NatLessThanWellFounded DEF OpToRel

LEMMA HasLeast ==
  ASSUME NEW S \in SUBSET Nat, S # {}
  PROVE  \E m \in S : \A k \in S : m <= k
<1> DEFINE R == {p \in Nat \X Nat : p[1] < p[2]}
<1>1. PICK m \in S : \A k \in S : <<k, m>> \notin R
  <2> HIDE DEF R
  <2>1. IsWellFoundedOn(R, Nat)
    BY LessIsWellFounded DEF R
  <2> QED BY <2>1, WFMin
<1>2. \A i, j \in Nat : i < j => <<i, j>> \in R
  OBVIOUS
<1> HIDE DEF R
<1>3. \A k \in S : ~(k < m)
  BY <1>1, <1>2
<1> QED BY <1>3

\* A scan that takes nothing finds nothing it could take.
LEMMA EmptyScan ==
  ASSUME TypeOK, NEW S \in SUBSET messages, NEW n \in Nat \ {0}, FirstN(Deliverable(S), n) = {}
  PROVE  Deliverable(S) = {}
<1> DEFINE D == Deliverable(S)
<1> SUFFICES ASSUME D # {} PROVE FALSE
  OBVIOUS
<1>1. D \subseteq Msg /\ order \in [Msg -> Nat]
  BY DEF Deliverable, TypeOK
<1>2. FirstN(D, n) = {}
  OBVIOUS
<1> HIDE DEF D
<1>3. {order[k] : k \in D} \in SUBSET Nat /\ {order[k] : k \in D} # {}
  BY <1>1
<1>4. PICK i \in {order[k] : k \in D} : \A j \in {order[k] : k \in D} : i <= j
  BY <1>3, HasLeast
<1>5. PICK m \in D : order[m] = i
  BY <1>4
<1>6. \A k \in D : order[m] <= order[k] /\ order[k] \in Nat /\ order[m] \in Nat
  BY <1>1, <1>4, <1>5
<1>7. {k \in D : order[k] < order[m]} = {}
  BY <1>6
<1>8. Cardinality({k \in D : order[k] < order[m]}) < n
  BY <1>7, FS_EmptySet
<1> QED BY <1>2, <1>5, <1>8 DEF FirstN

WakeInv == NoMissedWakeup /\ \A m \in messages : sentAt[m] <= now

LEMMA NextSentBefore ==
  ASSUME TypeOK, \A m \in messages : sentAt[m] <= now, [Next]_vars
  PROVE  \A m \in messages' : sentAt'[m] <= now'
<1>0. now \in Nat /\ sentAt \in [Msg -> Nat] /\ messages \subseteq Msg
  BY DEF TypeOK
<1>1. CASE messages' \subseteq messages /\ sentAt' = sentAt /\ now' = now
  BY <1>1
<1>2. ASSUME NEW m \in Msg, NEW d \in Delays, SendMessage(m, d) PROVE \A k \in messages' : sentAt'[k] <= now'
  BY <1>0, <1>2 DEF SendMessage
<1>3. CASE Tick
  BY <1>0, <1>3 DEF Tick, msgVars
<1>4. ASSUME NEW c \in Receivers, ReceiveScan(c) PROVE \A k \in messages' : sentAt'[k] <= now'
  BY <1>1, <1>4 DEF ReceiveScan
<1>5. ASSUME NEW f \in fired, CallbackRedrives(f) PROVE \A k \in messages' : sentAt'[k] <= now'
  BY <1>1, <1>5 DEF CallbackRedrives
<1>6. ASSUME NEW m \in Msg, NEW h, DeleteMessage(m, h) PROVE \A k \in messages' : sentAt'[k] <= now'
  BY <1>1, <1>6 DEF DeleteMessage
<1>7. CASE Purge
  BY <1>7 DEF Purge
<1> QED
  BY <1>1, <1>2, <1>3, <1>4, <1>5, <1>6, <1>7
  DEF Next, vars, msgVars, SendDuplicate, ReceiveMessages, ReceiveClosed, ReceiveNotified,
      ReceiveTimedOut, ReceiveCancelled, FireTimer, CallbackSkipped, CallbackMakesVisible,
      ChangeMessageVisibilityZero, ChangeMessageVisibility, Close

LEMMA NextWakeInv ==
  ASSUME FifoInv, WakeInv, [Next]_vars
  PROVE  WakeInv'
<1>0. /\ TypeOK /\ messages \subseteq Msg /\ handle \in [Msg -> Nat] /\ receiveCount \in [Msg -> Nat]
      /\ visibleAt \in [Msg -> Nat] /\ sentAt \in [Msg -> Nat] /\ now \in Nat /\ (late' = {} => late = {})
      /\ rcv \in [Receivers -> CallType]
  BY LateGrows DEF FifoInv, CallbackInv, TypeOK
<1> SUFFICES ASSUME \A c, d \in Receivers : c = d, late' = {}, NEW c \in Receivers, rcv'[c].pc = "wait", ~notify',
                    NEW m \in Deliverable(messages)'
             PROVE  SilentlyVisible(m)'
  BY <1>0, NextSentBefore DEF WakeInv, NoMissedWakeup
\* What was said of the messages before the step, when the call was waiting.
<1>1. rcv[c].pc = "wait" /\ ~notify => \A k \in Deliverable(messages) : SilentlyVisible(k)
  BY <1>0 DEF WakeInv, NoMissedWakeup
<1>2. CASE /\ UNCHANGED <<messages, order, visibleAt, now, inFlightGroups, receiveCount, sentAt, handle>>
           /\ rcv[c].pc = "wait" /\ ~notify
  <2>1. m \in Deliverable(messages) /\ SilentlyVisible(m)' = SilentlyVisible(m)
    BY <1>2 DEF Deliverable, SilentlyVisible
  <2> QED BY <1>1, <1>2, <2>1
<1>3. ASSUME NEW k \in Msg, NEW d \in Delays, SendMessage(k, d) PROVE SilentlyVisible(m)'
  <2>1. /\ d # 0 /\ messages' = messages \cup {k} /\ k \notin messages /\ rcv' = rcv /\ notify' = notify
        /\ UNCHANGED <<now, handle, receiveCount, inFlightGroups>>
        /\ visibleAt' = [visibleAt EXCEPT ![k] = now + d]
        /\ sentAt' = [sentAt EXCEPT ![k] = now] /\ order' = [order EXCEPT ![k] = arrivals + 1]
    BY <1>0, <1>3 DEF SendMessage, NotifyWaiters, TypeOK
  <2>2. d \in Nat /\ order \in [Msg -> Nat]
    BY <1>0, ConstantsAssumption DEF TypeOK
  <2>3. /\ ~(visibleAt'[k] <= now)
        /\ \A i \in messages : visibleAt'[i] = visibleAt[i] /\ order'[i] = order[i] /\ sentAt'[i] = sentAt[i]
    BY <1>0, <2>1, <2>2
  <2>4. m \in messages /\ m \in Deliverable(messages)
    BY <2>1, <2>3 DEF Deliverable, Grouped
  <2> QED BY <1>1, <2>1, <2>3, <2>4 DEF SilentlyVisible
<1>4. ASSUME NEW r \in Receivers, ReceiveScan(r) PROVE SilentlyVisible(m)'
  <2> DEFINE kept   == messages \ ExpiredMessages
             picked == FirstN(Deliverable(kept), rcv[r].max)
  <2>1. r = c
    OBVIOUS
  <2>2. /\ messages' = kept /\ UNCHANGED <<order, now>>
        /\ inFlightGroups' = inFlightGroups \cup GroupsOf(picked)
        /\ visibleAt' = [k \in Msg |-> IF k \in picked THEN now + rcv[r].vt ELSE visibleAt[k]]
        /\ rcv' = [rcv EXCEPT ![r] = IF picked = {} /\ rcv[r].deadline > now
                               THEN [rcv[r] EXCEPT !.pc = "wait"] ELSE NoCall]
    BY <1>4 DEF ReceiveScan, Receive
  <2>3. picked = {}
    BY <1>0, <2>1, <2>2 DEF NoCall
  <2>4. kept \in SUBSET messages /\ rcv[r].max \in Nat \ {0}
    BY <1>0 DEF CallType
  <2>5. Deliverable(kept) = {}
    BY <1>0, <2>3, <2>4, EmptyScan
  <2> HIDE DEF kept, picked
  <2>6. GroupsOf(picked) = {}
    BY <2>3 DEF GroupsOf
  <2>7. inFlightGroups' = inFlightGroups /\ \A k \in kept : visibleAt'[k] = visibleAt[k]
    BY <1>0, <2>2, <2>3, <2>4, <2>6
  <2>8. m \in Deliverable(kept)
    BY <2>2, <2>7 DEF Deliverable, Grouped
  <2> QED BY <2>5, <2>8
<1>5. ASSUME NEW k \in Msg, NEW h, NEW vt \in Timeouts \ {0}, ChangeMessageVisibility(k, h, vt)
      PROVE  SilentlyVisible(m)'
  <2>1. /\ UNCHANGED <<messages, order, sentAt, handle, receiveCount, inFlightGroups, now, notify, rcv>>
        /\ k \in messages /\ handle[k] # NoHandle /\ visibleAt' = [visibleAt EXCEPT ![k] = now + vt]
    BY <1>5 DEF ChangeMessageVisibility, HasHandle, msgVars, groupVars
  <2>2. vt \in Nat \ {0}
    BY ConstantsAssumption
  <2>3. ~(visibleAt'[k] <= now) /\ \A i \in messages : i # k => visibleAt'[i] = visibleAt[i]
    BY <1>0, <2>1, <2>2
  <2>4. m # k /\ m \in messages /\ visibleAt[m] <= now
    BY <2>1, <2>3 DEF Deliverable
  <2>5. Grouped(m) => GroupOf[m] # GroupOf[k]
    <3>1. Grouped(m) => GroupOf[m] \notin inFlightGroups
      BY <2>1 DEF Deliverable
    <3> QED BY <1>0, <2>1, <3>1 DEF FifoInv, HolderInv, Grouped
  <2>6. m \in Deliverable(messages)
    BY <2>1, <2>3, <2>4, <2>5 DEF Deliverable, Grouped
  <2> QED BY <1>1, <2>1, <2>3, <2>4, <2>6 DEF SilentlyVisible
<1>6. CASE Tick
  <2>1. /\ UNCHANGED <<messages, order, sentAt, handle, receiveCount, visibleAt, inFlightGroups, notify, rcv>>
        /\ now' = now + 1
    BY <1>6 DEF Tick, msgVars, recvVars, groupVars
  <2>2. m \in messages /\ m \in Msg
    BY <1>0, <2>1 DEF Deliverable
  <2>3. CASE visibleAt[m] <= now
    <3>1. \A i \in messages : visibleAt[i] <= now => visibleAt[i] <= now + 1
      BY <1>0
    <3>2. m \in Deliverable(messages)
      BY <2>1, <2>2, <2>3, <3>1 DEF Deliverable, Grouped
    <3> QED BY <1>1, <2>1, <3>2 DEF SilentlyVisible
  <2>4. CASE ~(visibleAt[m] <= now)
    <3>1. handle[m] = NoHandle => receiveCount[m] = 0
      BY <1>0, <2>2, <2>4 DEF FifoInv, CallbackInv, Sound
    <3>2. visibleAt[m] > sentAt[m]
      BY <1>0, <2>2, <2>4 DEF WakeInv
    <3> QED BY <2>1, <3>1, <3>2 DEF SilentlyVisible
  <2> QED BY <2>3, <2>4
<1>7. ASSUME NEW r \in Receivers,
             \/ \E n \in Batches, vt \in Timeouts, w \in Waits : ReceiveMessages(r, n, vt, w)
             \/ ReceiveClosed(r) \/ ReceiveNotified(r) \/ ReceiveTimedOut(r) \/ ReceiveCancelled(r)
      PROVE  FALSE
  BY <1>0, <1>7 DEF ReceiveMessages, ReceiveClosed, ReceiveNotified, ReceiveTimedOut, ReceiveCancelled, NoCall, CallType
<1>8. ASSUME NEW f \in fired, CallbackRedrives(f) \/ CallbackMakesVisible(f) PROVE FALSE
  BY <1>8 DEF CallbackRedrives, CallbackMakesVisible, NotifyWaiters
<1>9. ASSUME NEW k \in Msg, NEW h, DeleteMessage(k, h) \/ ChangeMessageVisibilityZero(k, h) PROVE FALSE
  BY <1>9 DEF DeleteMessage, ChangeMessageVisibilityZero, NotifyWaiters
<1>10. CASE Purge
  BY <1>10 DEF Purge, NotifyWaiters
<1>11. CASE \/ \E k \in Msg : SendDuplicate(k)
            \/ \E t \in timers : FireTimer(t)
            \/ \E f \in fired : CallbackSkipped(f)
            \/ Close \/ UNCHANGED vars
  BY <1>2, <1>11 DEF SendDuplicate, FireTimer, CallbackSkipped, Close, vars, msgVars, recvVars, groupVars
<1> QED
  BY <1>3, <1>4, <1>5, <1>6, <1>7, <1>8, <1>9, <1>10, <1>11 DEF Next

\* A lone receiver never sleeps over a message it could take, unless a Stop came
\* too late or the message became visible with nobody notified.
THEOREM SleepersMissNothing == Spec => []NoMissedWakeup
<1>1. Init => WakeInv
  BY DEF Init, WakeInv, NoMissedWakeup, NoCall
<1>2. WakeInv /\ FifoInv /\ [Next]_vars => WakeInv'
  BY NextWakeInv
<1>3. WakeInv => NoMissedWakeup
  BY DEF WakeInv
<1> QED BY <1>1, <1>2, <1>3, FifoInvHolds, PTL DEF Spec

=============================================================================
