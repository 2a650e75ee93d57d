------------------------- MODULE MemoryStoreProofs -------------------------
(***************************************************************************)
(* Theorems about MemoryStore, for every value of its constants.           *)
(***************************************************************************)
EXTENDS MemoryStore, TLAPS

\* The messages a scan picks are stored, visible and deliverable.
LEMMA PickedFromKept ==
  ASSUME NEW S, NEW n
  PROVE  FirstN(Deliverable(S), n) \subseteq S
BY DEF FirstN, Deliverable

\* The groups of messages are message group ids.
LEMMA GroupsOfType ==
  ASSUME NEW S \in SUBSET Msg
  PROVE  GroupsOf(S) \subseteq Groups
BY ConstantsAssumption DEF GroupsOf, Grouped

\* Cleaning the deduplication cache keeps its type.
LEMMA CleanDedupType ==
  ASSUME TypeOK
  PROVE  CleanExpiredDedupEntries \in [DedupIds -> Nat]
BY DEF TypeOK, CleanExpiredDedupEntries

\* A call that moves to another place is still a call.
LEMMA CallMoves ==
  ASSUME NEW r \in CallType, NEW p \in {"idle", "scan", "wait"}
  PROVE  [r EXCEPT !.pc = p] \in CallType
BY DEF CallType

LEMMA NoCallType == NoCall \in CallType
BY DEF NoCall, CallType

LEMMA InitTypeOK == Init => TypeOK
<1> SUFFICES ASSUME Init PROVE TypeOK
  OBVIOUS
<1>1. rcv \in [Receivers -> CallType]
  BY NoCallType DEF Init
<1>2. timers \subseteq Timer /\ fired \subseteq Callback /\ inFlightGroups \subseteq Groups
  BY DEF Init
<1>3. dedupCache \in [DedupIds -> Nat] /\ notify \in BOOLEAN /\ closed \in BOOLEAN
  BY DEF Init
<1>4. /\ order \in [Msg -> Nat] /\ sentAt \in [Msg -> Nat] /\ visibleAt \in [Msg -> Nat]
      /\ handle \in [Msg -> Nat] /\ receiveCount \in [Msg -> Nat] /\ seqNo \in [Msg -> Nat]
      /\ redriven \in [Msg -> Nat] /\ now \in Nat /\ arrivals \in Nat /\ sequenceCounter \in Nat
  BY DEF Init, NoHandle
<1>5. QED
  BY <1>1, <1>2, <1>3, <1>4 DEF Init, TypeOK

LEMMA SendDuplicateTypeOK ==
  ASSUME TypeOK, NEW m \in Msg, SendDuplicate(m)
  PROVE  TypeOK'
BY CleanDedupType DEF TypeOK, SendDuplicate, msgVars, recvVars, timerVars, ghostVars

LEMMA SendMessageTypeOK ==
  ASSUME TypeOK, NEW m \in Msg, NEW d \in Delays, SendMessage(m, d)
  PROVE  TypeOK'
<1>1. d \in Nat /\ now + d \in Nat /\ now + DedupWindow \in Nat
  BY ConstantsAssumption DEF TypeOK
<1>2. dedupCache' \in [DedupIds -> Nat]
  BY <1>1, CleanDedupType DEF TypeOK, SendMessage
<1>3. seqNo' \in [Msg -> Nat] /\ sequenceCounter' \in Nat
  BY DEF TypeOK, SendMessage
<1>4. notify' \in BOOLEAN
  BY DEF NotifyWaiters, TypeOK, SendMessage
<1>5. /\ order' \in [Msg -> Nat] /\ sentAt' \in [Msg -> Nat] /\ visibleAt' \in [Msg -> Nat]
      /\ arrivals' \in Nat
  BY <1>1 DEF TypeOK, SendMessage
<1>6. messages' \subseteq sent' /\ sent' \subseteq Msg /\ era' \subseteq sent'
  BY DEF TypeOK, SendMessage
<1>7. QED
  BY <1>2, <1>3, <1>4, <1>5, <1>6 DEF TypeOK, SendMessage, timerVars

LEMMA ReceiveMessagesTypeOK ==
  ASSUME TypeOK, NEW c \in Receivers, NEW n \in Batches, NEW vt \in Timeouts, NEW w \in Waits,
         ReceiveMessages(c, n, vt, w)
  PROVE  TypeOK'
<1>1. n \in Nat \ {0} /\ vt \in Nat /\ w \in Nat /\ now + w \in Nat
  BY ConstantsAssumption DEF TypeOK
<1>2. [pc |-> "scan", max |-> n, vt |-> IF vt = 0 THEN DefaultVisibility ELSE vt,
       deadline |-> IF w > 0 THEN now + w ELSE 0] \in CallType
  BY <1>1, ConstantsAssumption DEF CallType
<1>3. QED
  BY <1>2 DEF TypeOK, ReceiveMessages, msgVars, recvVars, groupVars, timerVars, ghostVars

LEMMA ReceiveScanTypeOK ==
  ASSUME TypeOK, NEW c \in Receivers, ReceiveScan(c)
  PROVE  TypeOK'
<1> DEFINE kept   == messages \ ExpiredMessages
           picked == FirstN(Deliverable(kept), rcv[c].max)
           vt     == rcv[c].vt
<1>1. picked \subseteq kept /\ kept \subseteq messages /\ picked \subseteq Msg
  BY PickedFromKept DEF TypeOK
<1>2. vt \in Nat /\ now + vt \in Nat
  BY DEF TypeOK, CallType
<1>3. /\ Receive(picked, vt, kept) /\ messages' = kept
      /\ rcv' = [rcv EXCEPT ![c] = IF picked = {} /\ rcv[c].deadline > now
                                   THEN [rcv[c] EXCEPT !.pc = "wait"] ELSE NoCall]
  BY DEF ReceiveScan
<1>4. ExpiredMessages \subseteq Msg /\ FiredLive(ExpiredMessages) \subseteq Msg
  BY DEF TypeOK, ExpiredMessages, FiredLive
<1>5. messages' \subseteq sent' /\ expired' \subseteq Msg /\ late' \subseteq Msg /\ expiredInFlight' \subseteq expired'
  BY <1>3, <1>4 DEF TypeOK, ReceiveScan
<1> HIDE DEF kept, picked, vt
<1>6. receiveCount' \in [Msg -> Nat] /\ visibleAt' \in [Msg -> Nat] /\ handle' \in [Msg -> Nat]
  BY <1>2, <1>3 DEF Receive, TypeOK
<1>7. inFlightGroups' \subseteq Groups
  BY <1>1, <1>3, GroupsOfType DEF Receive, TypeOK
<1>8. timers' \subseteq Timer
  <2>1. ASSUME NEW m \in picked
        PROVE  [msg |-> m, handle |-> receiveCount[m] + 1, at |-> now + vt, kind |-> "receive"] \in Timer
    <3>1. m \in Msg
      BY <1>1
    <3>2. receiveCount[m] + 1 \in Nat
      BY <3>1 DEF TypeOK
    <3>3. QED BY <3>1, <3>2, <1>2 DEF Timer, TimerKinds
  <2>2. StopTimers((messages \ kept) \cup picked) \subseteq Timer
    BY DEF StopTimers, TypeOK
  <2>3. QED BY <1>3, <2>1, <2>2 DEF Receive
<1>9. rcv' \in [Receivers -> CallType]
  <2>1. rcv[c] \in CallType
    BY DEF TypeOK
  <2> DEFINE next == IF picked = {} /\ rcv[c].deadline > now
                     THEN [rcv[c] EXCEPT !.pc = "wait"] ELSE NoCall
  <2>a. [rcv[c] EXCEPT !.pc = "wait"] \in CallType
    BY <2>1, CallMoves
  <2>2. next \in CallType
    BY <2>a, NoCallType
  <2>3. rcv' = [rcv EXCEPT ![c] = next]
    BY <1>3
  <2> HIDE DEF next
  <2>4. QED BY <2>2, <2>3 DEF TypeOK
<1>10. QED
  BY <1>6, <1>7, <1>8, <1>9, <1>5 DEF TypeOK, ReceiveScan

LEMMA ReceiveSelectTypeOK ==
  ASSUME TypeOK, NEW c \in Receivers,
         ReceiveClosed(c) \/ ReceiveNotified(c) \/ ReceiveTimedOut(c) \/ ReceiveCancelled(c)
  PROVE  TypeOK'
<1> DEFINE next == IF ReceiveNotified(c) THEN [rcv[c] EXCEPT !.pc = "scan"] ELSE NoCall
<1>a. next \in CallType
  BY CallMoves, NoCallType DEF TypeOK
<1>b. rcv' = [rcv EXCEPT ![c] = next] /\ notify' \in BOOLEAN
  <2>1. CASE ReceiveNotified(c)
    <3>1. next = [rcv[c] EXCEPT !.pc = "scan"]
      BY <2>1
    <3>2. rcv' = [rcv EXCEPT ![c].pc = "scan"] /\ notify' = FALSE
      BY <2>1 DEF ReceiveNotified
    <3> HIDE DEF next
    <3>3. QED BY <3>1, <3>2, Zenon
  <2>2. CASE ~ReceiveNotified(c)
    BY <2>2 DEF TypeOK, ReceiveClosed, ReceiveTimedOut, ReceiveCancelled
  <2>3. QED BY <2>1, <2>2
<1>1. rcv' \in [Receivers -> CallType] /\ notify' \in BOOLEAN
  <2> HIDE DEF next
  <2>1. QED BY <1>a, <1>b DEF TypeOK
<1>2. QED
  BY <1>1 DEF TypeOK, ReceiveClosed, ReceiveNotified, ReceiveTimedOut, ReceiveCancelled,
              msgVars, recvVars, groupVars, timerVars, ghostVars

LEMMA CallbackTypeOK ==
  ASSUME TypeOK, NEW f \in fired,
         CallbackSkipped(f) \/ CallbackRedrives(f) \/ CallbackMakesVisible(f)
  PROVE  TypeOK'
<1>1. f.msg \in Msg
  BY DEF TypeOK, Callback
<1>2. CASE CallbackSkipped(f)
  BY <1>2 DEF TypeOK, CallbackSkipped, msgVars, recvVars, groupVars, ghostVars
<1>3. CASE CallbackRedrives(f)
  BY <1>1, <1>3 DEF ReleaseGroup, NotifyWaiters, TypeOK, CallbackRedrives, StopTimers, NoHandle
<1>4. CASE CallbackMakesVisible(f)
  BY <1>1, <1>4 DEF ReleaseGroup, NotifyWaiters, TypeOK, CallbackMakesVisible, msgVars, ghostVars, NoHandle
<1>5. QED BY <1>2, <1>3, <1>4

LEMMA FireTimerTypeOK ==
  ASSUME TypeOK, NEW t \in timers, FireTimer(t)
  PROVE  TypeOK'
<1>1. [msg |-> t.msg, handle |-> t.handle, kind |-> t.kind] \in Callback
  BY DEF TypeOK, Timer, Callback
<1>2. QED
  BY <1>1 DEF TypeOK, FireTimer, msgVars, recvVars, groupVars, ghostVars

LEMMA HandleCallTypeOK ==
  ASSUME TypeOK, NEW m \in Msg, NEW h \in Nat,
         \/ DeleteMessage(m, h)
         \/ ChangeMessageVisibilityZero(m, h)
         \/ \E vt \in Timeouts \ {0} : ChangeMessageVisibility(m, h, vt)
  PROVE  TypeOK'
<1>1. FiredLive({m}) \subseteq Msg
  BY DEF FiredLive
<1>2. CASE DeleteMessage(m, h)
  BY <1>1, <1>2 DEF ReleaseGroup, NotifyWaiters, TypeOK, DeleteMessage, StopTimers, recvVars
<1>3. CASE ChangeMessageVisibilityZero(m, h)
  BY <1>3 DEF ReleaseGroup, NotifyWaiters, TypeOK, ChangeMessageVisibilityZero, StopTimers, msgVars, NoHandle
<1>4. ASSUME NEW vt \in Timeouts \ {0}, ChangeMessageVisibility(m, h, vt)
      PROVE  TypeOK'
  <2>1. vt \in Nat /\ now + vt \in Nat
    BY ConstantsAssumption DEF TypeOK
  <2>2. timers' \subseteq Timer
    BY <1>4, <2>1 DEF TypeOK, ChangeMessageVisibility, StopTimers, Timer, TimerKinds
  <2>3. QED
    BY <1>1, <1>4, <2>1, <2>2 DEF TypeOK, ChangeMessageVisibility, msgVars, groupVars
<1>5. QED BY <1>2, <1>3, <1>4

LEMMA PurgeCloseTypeOK ==
  ASSUME TypeOK, Purge \/ Close \/ Tick
  PROVE  TypeOK'
<1>1. FiredLive(messages) \subseteq Msg
  BY DEF FiredLive, TypeOK
<1>2. CASE Purge
  BY <1>1, <1>2 DEF NotifyWaiters, TypeOK, Purge, StopTimers, recvVars
<1>3. CASE Close
  BY <1>3 DEF TypeOK, Close, StopTimers, msgVars, recvVars, groupVars, ghostVars
<1>4. CASE Tick
  BY <1>4, ConstantsAssumption DEF TypeOK, Tick, msgVars, recvVars, groupVars, timerVars, ghostVars
<1>5. QED BY <1>2, <1>3, <1>4

LEMMA NextTypeOK == TypeOK /\ [Next]_vars => TypeOK'
<1> SUFFICES ASSUME TypeOK, [Next]_vars PROVE TypeOK'
  OBVIOUS
<1>1. CASE UNCHANGED vars
  BY <1>1 DEF TypeOK, vars, msgVars, recvVars, groupVars, timerVars, ghostVars
<1>2. CASE Next
  <2>1. 1..MaxDeliveries \subseteq Nat
    BY ConstantsAssumption
  <2>2. QED
    BY <1>2, <2>1, SendDuplicateTypeOK, SendMessageTypeOK, ReceiveMessagesTypeOK, ReceiveScanTypeOK,
       ReceiveSelectTypeOK, FireTimerTypeOK, CallbackTypeOK, HandleCallTypeOK, PurgeCloseTypeOK
       DEF Next
<1>3. QED BY <1>1, <1>2

\* Every variable of the store keeps its type.
THEOREM TypeCorrect == Spec => []TypeOK
<1>1. QED BY InitTypeOK, NextTypeOK, PTL DEF Spec

(***************************************************************************)
(* NothingLost is inductive once types are known: every action that takes  *)
(* a message out of s.messages accounts for it in the same step.           *)
(***************************************************************************)
LEMMA NextNothingLost ==
  ASSUME TypeOK, NothingLost, [Next]_vars
  PROVE  NothingLost'
<1>1. CASE UNCHANGED vars
  BY <1>1 DEF NothingLost, vars, msgVars, ghostVars
<1>2. ASSUME NEW m \in Msg, SendDuplicate(m) PROVE NothingLost'
  BY <1>2 DEF NothingLost, SendDuplicate, msgVars, ghostVars
<1>3. ASSUME NEW m \in Msg, NEW d \in Delays, SendMessage(m, d) PROVE NothingLost'
  BY <1>3 DEF NothingLost, SendMessage
<1>4. ASSUME NEW c \in Receivers, NEW n \in Batches, NEW vt \in Timeouts, NEW w \in Waits,
             ReceiveMessages(c, n, vt, w)
      PROVE  NothingLost'
  BY <1>4 DEF NothingLost, ReceiveMessages, msgVars, ghostVars
<1>5. ASSUME NEW c \in Receivers, ReceiveScan(c) PROVE NothingLost'
  <2>1. /\ messages' = messages \ ExpiredMessages /\ expired' = expired \cup ExpiredMessages
        /\ UNCHANGED <<sent, acked, purged, redriven>>
    BY <1>5 DEF ReceiveScan
  <2>2. QED BY <2>1 DEF NothingLost
<1>6. ASSUME NEW c \in Receivers,
             ReceiveClosed(c) \/ ReceiveNotified(c) \/ ReceiveTimedOut(c) \/ ReceiveCancelled(c)
      PROVE  NothingLost'
  <2>1. UNCHANGED <<messages, sent, acked, purged, expired, redriven>>
    BY <1>6 DEF ReceiveClosed, ReceiveNotified, ReceiveTimedOut, ReceiveCancelled, msgVars, ghostVars
  <2>2. QED BY <2>1 DEF NothingLost
<1>7. ASSUME NEW t \in timers, FireTimer(t) PROVE NothingLost'
  <2>1. UNCHANGED <<messages, sent, acked, purged, expired, redriven>>
    BY <1>7 DEF FireTimer, msgVars, ghostVars
  <2>2. QED BY <2>1 DEF NothingLost
<1>8. ASSUME NEW f \in fired, CallbackSkipped(f) \/ CallbackMakesVisible(f) PROVE NothingLost'
  <2>1. UNCHANGED <<messages, sent, acked, purged, expired, redriven>>
    BY <1>8 DEF CallbackSkipped, CallbackMakesVisible, msgVars, ghostVars
  <2>2. QED BY <2>1 DEF NothingLost
<1>9. ASSUME NEW f \in fired, CallbackRedrives(f) PROVE NothingLost'
  <2>1. /\ messages' = messages \ {f.msg} /\ redriven' = [redriven EXCEPT ![f.msg] = @ + 1]
        /\ UNCHANGED <<sent, acked, purged, expired>>
    BY <1>9 DEF CallbackRedrives
  <2>2. f.msg \in Msg /\ redriven \in [Msg -> Nat]
    BY DEF TypeOK, Callback
  <2>3. QED BY <2>1, <2>2 DEF NothingLost
<1>10. ASSUME NEW m \in Msg, NEW h \in Nat, DeleteMessage(m, h) PROVE NothingLost'
  BY <1>10 DEF NothingLost, DeleteMessage
<1>11. ASSUME NEW m \in Msg, NEW h \in Nat,
              \/ ChangeMessageVisibilityZero(m, h)
              \/ \E vt \in Timeouts \ {0} : ChangeMessageVisibility(m, h, vt)
       PROVE  NothingLost'
  <2>1. UNCHANGED <<messages, sent, acked, purged, expired, redriven>>
    BY <1>11 DEF ChangeMessageVisibilityZero, ChangeMessageVisibility, msgVars
  <2>2. QED BY <2>1 DEF NothingLost
<1>12. CASE Purge
  BY <1>12 DEF NothingLost, Purge
<1>13. CASE Close \/ Tick
  BY <1>13 DEF NothingLost, Close, Tick, msgVars, ghostVars
<1>14. 1..MaxDeliveries \subseteq Nat
  BY ConstantsAssumption
<1>15. QED
  BY <1>1, <1>2, <1>3, <1>4, <1>5, <1>6, <1>7, <1>8, <1>9, <1>10, <1>11, <1>12, <1>13, <1>14 DEF Next

\* At-least-once storage: whatever SendMessage accepted is still stored, or was
\* deleted with its handle, purged, aged out, or handed to redriveFunc.
THEOREM NoAcceptedMessageLost == Spec => []NothingLost
<1>1. Init => NothingLost
  BY DEF Init, NothingLost
<1>2. TypeOK /\ NothingLost /\ [Next]_vars => NothingLost'
  BY NextNothingLost
<1>3. QED
  BY <1>1, <1>2, TypeCorrect, PTL DEF Spec

(***************************************************************************)
(* BusyGroupHasHolder and InFlightHasTimer each need a fact of their own:  *)
(* a standard queue never marks a group, and a message that was never sent *)
(* has no handle (so that SendMessage adds none without a timer).          *)
(***************************************************************************)
StandardHasNoGroups == ~IsFifo => inFlightGroups = {}
UnsentHasNoHandle   == \A m \in Msg \ sent : handle[m] = NoHandle

GroupInv == TypeOK /\ StandardHasNoGroups /\ BusyGroupHasHolder
TimerInv == TypeOK /\ UnsentHasNoHandle /\ InFlightHasTimer

\* A step that only adds holders and messages, and marks no group.
LEMMA HoldersGrow ==
  ASSUME GroupInv, inFlightGroups' \subseteq inFlightGroups,
         messages \cup expiredInFlight \subseteq (messages \cup expiredInFlight)',
         UNCHANGED handle
  PROVE  StandardHasNoGroups' /\ BusyGroupHasHolder'
BY DEF GroupInv, StandardHasNoGroups, BusyGroupHasHolder

\* Releasing the group of one message leaves every other group its holder.
LEMMA ReleaseKeepsHolders ==
  ASSUME GroupInv, NEW m \in Msg,
         ReleaseGroup(m),
         messages \ {m} \subseteq messages', UNCHANGED expiredInFlight,
         \A k \in Msg \ {m} : handle'[k] = handle[k]
  PROVE  StandardHasNoGroups' /\ BusyGroupHasHolder'
<1>1. StandardHasNoGroups'
  BY DEF ReleaseGroup, GroupInv, StandardHasNoGroups
<1>2. ASSUME NEW g \in inFlightGroups'
      PROVE  \E k \in (messages \cup expiredInFlight)' : GroupOf[k] = g /\ handle'[k] # NoHandle
  <2>1. g \in inFlightGroups /\ g \notin GroupsOf({m}) /\ g \in Groups
    BY <1>2 DEF ReleaseGroup, GroupInv, TypeOK
  <2>2. IsFifo /\ g # NoGroup
    BY <2>1, ConstantsAssumption DEF GroupInv, StandardHasNoGroups
  <2>3. GroupOf[m] # g
    BY <2>1, <2>2 DEF GroupsOf, Grouped
  <2>4. PICK k \in messages \cup expiredInFlight : GroupOf[k] = g /\ handle[k] # NoHandle
    BY <2>1 DEF GroupInv, BusyGroupHasHolder
  <2>5. k \in Msg \ {m}
    BY <2>3, <2>4 DEF GroupInv, TypeOK
  <2>6. QED BY <2>4, <2>5
<1>3. QED BY <1>1, <1>2 DEF BusyGroupHasHolder

\* A scan marks the groups of the messages it gives a handle, and retention
\* leaves the holders it drops on record.
LEMMA ScanKeepsHolders ==
  ASSUME GroupInv, NEW c \in Receivers, ReceiveScan(c)
  PROVE  StandardHasNoGroups' /\ BusyGroupHasHolder'
<1> DEFINE kept   == messages \ ExpiredMessages
           picked == FirstN(Deliverable(kept), rcv[c].max)
<1>1. picked \subseteq kept /\ picked \subseteq Msg
  BY PickedFromKept DEF GroupInv, TypeOK
<1>2. /\ messages' = kept
      /\ handle' = [m \in Msg |-> IF m \in picked THEN receiveCount[m] + 1 ELSE handle[m]]
      /\ inFlightGroups' = inFlightGroups \cup GroupsOf(picked)
      /\ expiredInFlight' = expiredInFlight \cup {m \in ExpiredMessages : handle[m] # NoHandle}
  BY DEF ReceiveScan, Receive
<1>3. messages \cup expiredInFlight \subseteq Msg
  BY DEF GroupInv, TypeOK
<1>4. \A m \in picked : receiveCount[m] + 1 # NoHandle
  BY <1>1 DEF GroupInv, TypeOK, NoHandle
<1> HIDE DEF picked
<1>5. StandardHasNoGroups'
  BY <1>2 DEF GroupInv, StandardHasNoGroups, GroupsOf, Grouped
<1>6. ASSUME NEW g \in inFlightGroups'
      PROVE  \E k \in (messages \cup expiredInFlight)' : GroupOf[k] = g /\ handle'[k] # NoHandle
  <2>1. CASE g \in inFlightGroups
    <3>1. PICK k \in messages \cup expiredInFlight : GroupOf[k] = g /\ handle[k] # NoHandle
      BY <2>1 DEF GroupInv, BusyGroupHasHolder
    <3>2. k \in (messages \cup expiredInFlight)'
      BY <1>2, <3>1
    <3>3. handle'[k] # NoHandle
      BY <1>2, <1>3, <1>4, <3>1
    <3>4. QED BY <3>1, <3>2, <3>3
  <2>2. CASE g \in GroupsOf(picked)
    <3>1. PICK k \in picked : GroupOf[k] = g
      BY <2>2 DEF GroupsOf
    <3>2. k \in messages' /\ handle'[k] # NoHandle
      BY <1>1, <1>2, <1>4, <3>1
    <3>3. QED BY <3>1, <3>2
  <2>3. QED BY <1>2, <1>6, <2>1, <2>2
<1>7. QED BY <1>5, <1>6 DEF BusyGroupHasHolder

LEMMA NextGroupInv ==
  ASSUME GroupInv, [Next]_vars
  PROVE  GroupInv'
<1>a. TypeOK'
  BY NextTypeOK DEF GroupInv
<1> SUFFICES StandardHasNoGroups' /\ BusyGroupHasHolder'
  BY <1>a DEF GroupInv
<1> DEFINE Goal == StandardHasNoGroups' /\ BusyGroupHasHolder'
<1>1. CASE UNCHANGED vars
  BY <1>1, HoldersGrow DEF vars, msgVars, groupVars, recvVars, ghostVars
<1>2. ASSUME NEW m \in Msg, SendDuplicate(m) PROVE Goal
  BY <1>2, HoldersGrow DEF SendDuplicate, msgVars, recvVars, ghostVars
<1>3. ASSUME NEW m \in Msg, NEW d \in Delays, SendMessage(m, d) PROVE Goal
  BY <1>3, HoldersGrow DEF SendMessage
<1>4. ASSUME NEW c \in Receivers, NEW n \in Batches, NEW vt \in Timeouts, NEW w \in Waits,
             ReceiveMessages(c, n, vt, w)
      PROVE  Goal
  BY <1>4, HoldersGrow DEF ReceiveMessages, msgVars, recvVars, groupVars, ghostVars
<1>5. ASSUME NEW c \in Receivers, ReceiveScan(c) PROVE Goal
  BY <1>5, ScanKeepsHolders
<1>6. ASSUME NEW c \in Receivers,
             ReceiveClosed(c) \/ ReceiveNotified(c) \/ ReceiveTimedOut(c) \/ ReceiveCancelled(c)
      PROVE  Goal
  BY <1>6, HoldersGrow DEF ReceiveClosed, ReceiveNotified, ReceiveTimedOut, ReceiveCancelled,
                           msgVars, recvVars, groupVars, ghostVars
<1>7. ASSUME NEW t \in timers, FireTimer(t) PROVE Goal
  BY <1>7, HoldersGrow DEF FireTimer, msgVars, recvVars, groupVars, ghostVars
<1>8. ASSUME NEW f \in fired, CallbackSkipped(f) PROVE Goal
  BY <1>8, HoldersGrow DEF CallbackSkipped, msgVars, recvVars, groupVars, ghostVars
<1>9. ASSUME NEW f \in fired, CallbackRedrives(f) \/ CallbackMakesVisible(f) PROVE Goal
  <2>1. f.msg \in Msg /\ handle \in [Msg -> Nat]
    BY DEF GroupInv, TypeOK, Callback
  <2>2. /\ ReleaseGroup(f.msg)
        /\ messages \ {f.msg} \subseteq messages' /\ UNCHANGED expiredInFlight
        /\ \A k \in Msg \ {f.msg} : handle'[k] = handle[k]
    BY <1>9, <2>1 DEF CallbackRedrives, CallbackMakesVisible, msgVars, ghostVars
  <2>3. QED BY <2>1, <2>2, ReleaseKeepsHolders
<1>10. ASSUME NEW m \in Msg, NEW h \in Nat, DeleteMessage(m, h) PROVE Goal
  BY <1>10, ReleaseKeepsHolders DEF DeleteMessage, recvVars
<1>11. ASSUME NEW m \in Msg, NEW h \in Nat, ChangeMessageVisibilityZero(m, h) PROVE Goal
  <2>1. \A k \in Msg \ {m} : handle'[k] = handle[k]
    BY <1>11 DEF GroupInv, TypeOK, ChangeMessageVisibilityZero
  <2>2. QED BY <1>11, <2>1, ReleaseKeepsHolders DEF ChangeMessageVisibilityZero, msgVars
<1>12. ASSUME NEW m \in Msg, NEW h \in Nat, NEW vt \in Timeouts \ {0}, ChangeMessageVisibility(m, h, vt)
       PROVE  Goal
  BY <1>12, HoldersGrow DEF ChangeMessageVisibility, msgVars, groupVars
<1>13. CASE Purge
  BY <1>13 DEF Purge, StandardHasNoGroups, BusyGroupHasHolder
<1>14. CASE Close \/ Tick
  BY <1>14, HoldersGrow DEF Close, Tick, msgVars, recvVars, groupVars, ghostVars
<1>15. 1..MaxDeliveries \subseteq Nat
  BY ConstantsAssumption
<1>16. QED
  BY <1>1, <1>2, <1>3, <1>4, <1>5, <1>6, <1>7, <1>8, <1>9, <1>10, <1>11, <1>12, <1>13, <1>14, <1>15
  DEF Next

\* A group marked in flight has a member with an outstanding receipt handle, or
\* lost that member to retention: nothing else can block a message group.
THEOREM BusyGroupsHaveHolders == Spec => []BusyGroupHasHolder
<1>1. Init => GroupInv
  BY InitTypeOK DEF Init, GroupInv, StandardHasNoGroups, BusyGroupHasHolder
<1>2. GroupInv /\ [Next]_vars => GroupInv'
  BY NextGroupInv
<1>3. GroupInv => BusyGroupHasHolder
  BY DEF GroupInv
<1>4. QED
  BY <1>1, <1>2, <1>3, PTL DEF Spec

\* A message in flight that a step does not touch keeps its pending callback:
\* its timer stays armed or becomes a fired callback, its callback stays fired.
LEMMA UntouchedHasTimer ==
  ASSUME TimerInv, ~closed, NEW m \in messages,
         handle'[m] = handle[m], visibleAt'[m] = visibleAt[m], handle[m] # NoHandle,
         \A t \in timers : t.msg = m =>
           t \in timers' \/ \E f \in fired' : f.msg = m /\ f.handle = t.handle,
         \A f \in fired : f.msg = m /\ f.handle = handle[m] => f \in fired'
  PROVE  HasPendingCallback(m)'
<1>1. HasPendingCallback(m)
  BY DEF TimerInv, InFlightHasTimer
<1>2. CASE \E t \in timers : t.msg = m /\ t.handle = handle[m] /\ t.at = visibleAt[m]
  <2>1. PICK t \in timers : t.msg = m /\ t.handle = handle[m] /\ t.at = visibleAt[m]
    BY <1>2
  <2>2. t \in timers' \/ \E f \in fired' : f.msg = m /\ f.handle = t.handle
    BY <2>1
  <2>3. QED BY <2>1, <2>2 DEF HasPendingCallback
<1>3. CASE \E f \in fired : f.msg = m /\ f.handle = handle[m]
  BY <1>3 DEF HasPendingCallback
<1>4. QED BY <1>1, <1>2, <1>3 DEF HasPendingCallback

\* A step that leaves the handles, the timers and the callbacks alone.
LEMMA TimersUnchanged ==
  ASSUME TimerInv, messages' \subseteq messages, sent \subseteq sent', closed' = closed,
         UNCHANGED <<handle, visibleAt, timers, fired>>
  PROVE  UnsentHasNoHandle' /\ InFlightHasTimer'
BY DEF TimerInv, UnsentHasNoHandle, InFlightHasTimer, HasPendingCallback

\* A step about one message: it stops timers and drops callbacks of that
\* message only, and sees to it that the message itself is not stranded.
LEMMA OneMessageStep ==
  ASSUME TimerInv, NEW m \in Msg, messages' \subseteq messages, sent' = sent, closed' = closed,
         \A k \in Msg \ {m} : handle'[k] = handle[k] /\ visibleAt'[k] = visibleAt[k],
         handle'[m] = NoHandle \/ m \in messages,
         StopTimers({m}) \subseteq timers',
         \A f \in fired : f.msg # m => f \in fired',
         m \in messages' /\ handle'[m] # NoHandle => HasPendingCallback(m)'
  PROVE  UnsentHasNoHandle' /\ InFlightHasTimer'
<1>1. UnsentHasNoHandle'
  BY DEF TimerInv, UnsentHasNoHandle, TypeOK
<1>2. ASSUME ~closed', NEW k \in messages', handle'[k] # NoHandle
      PROVE  HasPendingCallback(k)'
  <2>1. CASE k = m
    BY <1>2, <2>1
  <2>2. CASE k # m
    <3>1. k \in messages /\ k \in Msg \ {m} /\ ~closed
      BY <1>2, <2>2 DEF TimerInv, TypeOK
    <3>2. handle'[k] = handle[k] /\ visibleAt'[k] = visibleAt[k] /\ handle[k] # NoHandle
      BY <1>2, <3>1
    <3>3. \A t \in timers : t.msg = k => t \in timers'
      BY <3>1 DEF StopTimers
    <3>4. \A f \in fired : f.msg = k => f \in fired'
      BY <3>1
    <3>5. QED BY <3>1, <3>2, <3>3, <3>4, UntouchedHasTimer
  <2>3. QED BY <2>1, <2>2
<1>3. QED BY <1>1, <1>2 DEF InFlightHasTimer

\* A scan arms a timer for every message it hands out, with the handle it hands
\* out, and stops only theirs and those of the messages retention drops.
LEMMA ScanArmsTimers ==
  ASSUME TimerInv, NEW c \in Receivers, ReceiveScan(c)
  PROVE  UnsentHasNoHandle' /\ InFlightHasTimer'
<1> DEFINE kept   == messages \ ExpiredMessages
           picked == FirstN(Deliverable(kept), rcv[c].max)
           vt     == rcv[c].vt
           New(m) == [msg |-> m, handle |-> receiveCount[m] + 1, at |-> now + vt, kind |-> "receive"]
<1>1. picked \subseteq kept /\ kept \subseteq messages /\ messages \subseteq Msg /\ messages \subseteq sent
  BY PickedFromKept DEF TimerInv, TypeOK
<1>2. /\ messages' = kept /\ sent' = sent /\ closed' = closed /\ fired' = fired
      /\ handle' = [m \in Msg |-> IF m \in picked THEN receiveCount[m] + 1 ELSE handle[m]]
      /\ visibleAt' = [m \in Msg |-> IF m \in picked THEN now + vt ELSE visibleAt[m]]
      /\ timers' = StopTimers((messages \ kept) \cup picked) \cup {New(m) : m \in picked}
  BY DEF ReceiveScan, Receive
<1> HIDE DEF kept, picked, vt
<1>3. UnsentHasNoHandle'
  BY <1>1, <1>2 DEF TimerInv, UnsentHasNoHandle
<1>4. ASSUME ~closed', NEW k \in messages', handle'[k] # NoHandle
      PROVE  HasPendingCallback(k)'
  <2>1. k \in kept /\ k \in messages /\ k \in Msg
    BY <1>1, <1>2
  <2>2. CASE k \in picked
    <3>1. New(k) \in timers'
      BY <1>2, <2>2
    <3>2. New(k).msg = k /\ New(k).handle = handle'[k] /\ New(k).at = visibleAt'[k]
      BY <1>2, <2>1, <2>2
    <3> HIDE DEF New
    <3>3. QED BY <3>1, <3>2 DEF HasPendingCallback
  <2>3. CASE k \notin picked
    <3>1. handle'[k] = handle[k] /\ visibleAt'[k] = visibleAt[k]
      BY <1>2, <2>1, <2>3
    <3>2. \A t \in timers : t.msg = k => t \in timers'
      BY <1>2, <2>1, <2>3 DEF StopTimers
    <3>3. ~closed /\ handle[k] # NoHandle
      BY <1>2, <1>4, <3>1
    <3>4. QED BY <1>2, <2>1, <3>1, <3>2, <3>3, UntouchedHasTimer
  <2>4. QED BY <2>2, <2>3
<1>5. QED BY <1>3, <1>4 DEF InFlightHasTimer

\* A timer that fires becomes a callback with the handle it captured.
LEMMA FiringKeepsCallback ==
  ASSUME TimerInv, NEW t \in timers, FireTimer(t)
  PROVE  UnsentHasNoHandle' /\ InFlightHasTimer'
<1>1. UNCHANGED <<messages, sent, handle, visibleAt, closed>>
  BY DEF FireTimer, msgVars, recvVars, ghostVars
<1>2. UnsentHasNoHandle'
  BY <1>1 DEF TimerInv, UnsentHasNoHandle
<1>3. ASSUME ~closed', NEW k \in messages', handle'[k] # NoHandle
      PROVE  HasPendingCallback(k)'
  <2>1. fired \subseteq fired'
    BY DEF FireTimer
  <2>2. \A u \in timers : u.msg = k =>
          u \in timers' \/ \E f \in fired' : f.msg = k /\ f.handle = u.handle
    <3>1. [msg |-> t.msg, handle |-> t.handle, kind |-> t.kind] \in fired'
      BY DEF FireTimer
    <3>2. timers' = timers \ {t}
      BY DEF FireTimer
    <3>3. QED BY <3>1, <3>2
  <2>3. QED BY <1>1, <1>3, <2>1, <2>2, UntouchedHasTimer
<1>4. QED BY <1>2, <1>3 DEF InFlightHasTimer

\* A new message has no handle, and the others keep theirs.
LEMMA SendKeepsTimers ==
  ASSUME TimerInv, NEW m \in Msg, NEW d \in Delays, SendMessage(m, d)
  PROVE  UnsentHasNoHandle' /\ InFlightHasTimer'
<1>1. /\ m \notin sent /\ messages' = messages \cup {m} /\ sent' = sent \cup {m}
      /\ visibleAt' = [visibleAt EXCEPT ![m] = now + d]
      /\ UNCHANGED <<handle, timers, fired, closed>>
  BY DEF SendMessage, timerVars
<1>2. handle[m] = NoHandle /\ m \notin messages
  BY <1>1 DEF TimerInv, UnsentHasNoHandle, TypeOK
<1>3. UnsentHasNoHandle'
  BY <1>1 DEF TimerInv, UnsentHasNoHandle
<1>4. ASSUME ~closed', NEW k \in messages', handle'[k] # NoHandle
      PROVE  HasPendingCallback(k)'
  <2>1. k \in messages /\ k # m /\ k \in Msg
    BY <1>1, <1>2, <1>4 DEF TimerInv, TypeOK
  <2>2. visibleAt'[k] = visibleAt[k]
    BY <1>1, <2>1 DEF TimerInv, TypeOK
  <2>3. QED BY <1>1, <1>4, <2>1, <2>2, UntouchedHasTimer
<1>5. QED BY <1>3, <1>4 DEF InFlightHasTimer

LEMMA NextTimerInv ==
  ASSUME TimerInv, [Next]_vars
  PROVE  TimerInv'
<1>a. TypeOK'
  BY NextTypeOK DEF TimerInv
<1> SUFFICES UnsentHasNoHandle' /\ InFlightHasTimer'
  BY <1>a DEF TimerInv
<1> DEFINE Goal == UnsentHasNoHandle' /\ InFlightHasTimer'
<1>1. CASE UNCHANGED vars
  BY <1>1, TimersUnchanged DEF vars, msgVars, timerVars, recvVars, ghostVars
<1>2. ASSUME NEW m \in Msg, SendDuplicate(m) PROVE Goal
  BY <1>2, TimersUnchanged DEF SendDuplicate, msgVars, recvVars, timerVars, ghostVars
<1>3. ASSUME NEW m \in Msg, NEW d \in Delays, SendMessage(m, d) PROVE Goal
  BY <1>3, SendKeepsTimers
<1>4. ASSUME NEW c \in Receivers, NEW n \in Batches, NEW vt \in Timeouts, NEW w \in Waits,
             ReceiveMessages(c, n, vt, w)
      PROVE  Goal
  BY <1>4, TimersUnchanged DEF ReceiveMessages, msgVars, recvVars, timerVars, ghostVars
<1>5. ASSUME NEW c \in Receivers, ReceiveScan(c) PROVE Goal
  BY <1>5, ScanArmsTimers
<1>6. ASSUME NEW c \in Receivers,
             ReceiveClosed(c) \/ ReceiveNotified(c) \/ ReceiveTimedOut(c) \/ ReceiveCancelled(c)
      PROVE  Goal
  BY <1>6, TimersUnchanged DEF ReceiveClosed, ReceiveNotified, ReceiveTimedOut, ReceiveCancelled,
                               msgVars, recvVars, timerVars, ghostVars
<1>7. ASSUME NEW t \in timers, FireTimer(t) PROVE Goal
  BY <1>7, FiringKeepsCallback
<1>8. ASSUME NEW f \in fired, CallbackSkipped(f) PROVE Goal
  <2>1. /\ UNCHANGED <<messages, sent, handle, visibleAt, closed, timers>>
        /\ fired' = fired \ {f} /\ (handle[f.msg] # f.handle \/ closed)
    BY <1>8 DEF CallbackSkipped, SkipsCallback, msgVars, recvVars, ghostVars
  <2>2. UnsentHasNoHandle'
    BY <2>1 DEF TimerInv, UnsentHasNoHandle
  <2>3. ASSUME ~closed', NEW k \in messages', handle'[k] # NoHandle
        PROVE  HasPendingCallback(k)'
    BY <2>1, <2>3, UntouchedHasTimer
  <2>4. QED BY <2>2, <2>3 DEF InFlightHasTimer
<1>9. ASSUME NEW f \in fired, CallbackRedrives(f) \/ CallbackMakesVisible(f) PROVE Goal
  <2>1. f.msg \in Msg /\ handle \in [Msg -> Nat]
    BY DEF TimerInv, TypeOK, Callback
  <2>2. /\ messages' \subseteq messages /\ sent' = sent /\ closed' = closed
        /\ \A k \in Msg \ {f.msg} : handle'[k] = handle[k] /\ visibleAt'[k] = visibleAt[k]
        /\ StopTimers({f.msg}) \subseteq timers' /\ fired' = fired \ {f}
    BY <1>9, <2>1 DEF CallbackRedrives, CallbackMakesVisible, msgVars, ghostVars, StopTimers
  <2>3. f.msg \in messages' => handle'[f.msg] = NoHandle
    BY <1>9, <2>1 DEF CallbackRedrives, CallbackMakesVisible
  <2>4. handle'[f.msg] = NoHandle \/ handle'[f.msg] = handle[f.msg]
    BY <1>9, <2>1 DEF CallbackRedrives, CallbackMakesVisible
  <2>5. UnsentHasNoHandle'
    BY <2>1, <2>2, <2>4 DEF TimerInv, UnsentHasNoHandle
  <2>6. ASSUME ~closed', NEW k \in messages', handle'[k] # NoHandle
        PROVE  HasPendingCallback(k)'
    <3>1. k \in messages /\ k \in Msg \ {f.msg} /\ ~closed
      BY <2>2, <2>3, <2>6 DEF TimerInv, TypeOK
    <3>2. \A t \in timers : t.msg = k => t \in timers'
      BY <2>2, <3>1 DEF StopTimers
    <3>3. QED BY <2>2, <2>6, <3>1, <3>2, UntouchedHasTimer
  <2>7. QED BY <2>5, <2>6 DEF InFlightHasTimer
<1>10. ASSUME NEW m \in Msg, NEW h \in Nat, DeleteMessage(m, h) PROVE Goal
  <2>1. /\ m \in messages /\ m \notin messages' /\ messages' \subseteq messages
        /\ StopTimers({m}) \subseteq timers'
        /\ UNCHANGED <<sent, closed, handle, visibleAt, fired>>
    BY <1>10 DEF DeleteMessage, HasHandle, recvVars
  <2>2. QED BY <2>1, OneMessageStep
<1>11. ASSUME NEW m \in Msg, NEW h \in Nat, ChangeMessageVisibilityZero(m, h) PROVE Goal
  <2>1. /\ UNCHANGED <<messages, sent, closed, fired>> /\ StopTimers({m}) \subseteq timers'
        /\ \A k \in Msg \ {m} : handle'[k] = handle[k] /\ visibleAt'[k] = visibleAt[k]
        /\ handle'[m] = NoHandle
    BY <1>11 DEF TimerInv, TypeOK, ChangeMessageVisibilityZero, msgVars
  <2>2. QED BY <2>1, OneMessageStep
<1>12. ASSUME NEW m \in Msg, NEW h \in Nat, NEW vt \in Timeouts \ {0}, ChangeMessageVisibility(m, h, vt)
       PROVE  Goal
  <2> DEFINE new == [msg |-> m, handle |-> h, at |-> now + vt, kind |-> "change"]
  <2>1. /\ UNCHANGED <<messages, sent, closed, fired, handle>> /\ StopTimers({m}) \subseteq timers'
        /\ m \in messages /\ handle[m] = h /\ new \in timers'
        /\ visibleAt' = [visibleAt EXCEPT ![m] = now + vt]
    BY <1>12 DEF ChangeMessageVisibility, HasHandle, msgVars
  <2>2. visibleAt'[m] = now + vt /\ \A k \in Msg \ {m} : visibleAt'[k] = visibleAt[k]
    BY <2>1 DEF TimerInv, TypeOK
  <2>3. HasPendingCallback(m)'
    <3>1. new.msg = m /\ new.handle = handle'[m] /\ new.at = visibleAt'[m]
      BY <2>1, <2>2
    <3> HIDE DEF new
    <3>2. QED BY <2>1, <3>1 DEF HasPendingCallback
  <2>4. QED BY <2>1, <2>2, <2>3, OneMessageStep
<1>13. CASE Purge
  BY <1>13 DEF Purge, TimerInv, UnsentHasNoHandle, InFlightHasTimer, recvVars
<1>14. CASE Close
  BY <1>14 DEF Close, TimerInv, UnsentHasNoHandle, InFlightHasTimer, recvVars, ghostVars
<1>15. CASE Tick
  BY <1>15, TimersUnchanged DEF Tick, msgVars, recvVars, timerVars, ghostVars
<1>16. 1..MaxDeliveries \subseteq Nat
  BY ConstantsAssumption
<1>17. QED
  BY <1>1, <1>2, <1>3, <1>4, <1>5, <1>6, <1>7, <1>8, <1>9, <1>10, <1>11, <1>12, <1>13, <1>14, <1>15, <1>16
  DEF Next

\* No message is stranded in flight: while the store is open, the end of every
\* visibility timeout has a timer or a fired callback that will act on it.
THEOREM InFlightMessagesHaveTimers == Spec => []InFlightHasTimer
<1>1. Init => TimerInv
  BY InitTypeOK DEF Init, TimerInv, UnsentHasNoHandle, InFlightHasTimer
<1>2. TimerInv /\ [Next]_vars => TimerInv'
  BY NextTimerInv
<1>3. TimerInv => InFlightHasTimer
  BY DEF TimerInv
<1>4. QED
  BY <1>1, <1>2, <1>3, PTL DEF Spec

(***************************************************************************)
(* The contract of a store (StoreContract).  What a step makes of one      *)
(* message is one of a few kinds; the invariant and the refinement are     *)
(* both proved from the kinds.                                             *)
(***************************************************************************)
SameFate(k) ==
  (k \in acked' <=> k \in acked) /\ (k \in purged' <=> k \in purged) /\ (k \in expired' <=> k \in expired)

\* A message that stays, with its number of receives.
Stays(k) ==
  SameFate(k) /\ k \in messages /\ k \in messages' /\ now' = now /\ receiveCount'[k] = receiveCount[k]

Rests(k) ==
  /\ SameFate(k) /\ now <= now' /\ receiveCount'[k] = receiveCount[k]
  /\ (k \in messages' <=> k \in messages) /\ (k \in sent' <=> k \in sent)
  /\ k \in messages => handle'[k] = handle[k] /\ visibleAt'[k] = visibleAt[k]
  /\ k \notin messages => handle'[k] \in {handle[k], NoHandle}

Enters(k) ==
  /\ SameFate(k) /\ now' = now /\ k \notin sent /\ k \in messages'
  /\ handle'[k] = handle[k] /\ receiveCount'[k] = receiveCount[k]

Taken(k) ==
  /\ SameFate(k) /\ now' = now /\ k \in messages /\ k \in messages' /\ visibleAt[k] <= now
  /\ receiveCount'[k] = receiveCount[k] + 1 /\ handle'[k] = receiveCount[k] + 1

Prolonged(k) ==
  Stays(k) /\ handle[k] # NoHandle /\ handle'[k] = handle[k] /\ visibleAt'[k] > now

Returned(k) ==
  Stays(k) /\ handle[k] # NoHandle /\ handle'[k] = NoHandle /\ visibleAt'[k] <= now

\* Its time is over, or its holder extended it too late to stop the callback.
Overdue(k) == handle[k] # NoHandle /\ (visibleAt[k] <= now \/ k \in late)

Released(k) == Stays(k) /\ Overdue(k) /\ handle'[k] = NoHandle /\ visibleAt'[k] = visibleAt[k]

Leaves(k) ==
  /\ now' = now /\ k \in messages /\ k \notin messages' /\ k \in sent'
  /\ receiveCount'[k] = receiveCount[k] /\ handle'[k] \in {handle[k], NoHandle}
  /\ \/ k \in acked' /\ k \notin purged' /\ k \notin expired' /\ handle[k] # NoHandle
     \/ k \notin acked' /\ k \in purged' /\ k \notin expired'
     \/ k \notin acked' /\ k \notin purged' /\ k \in expired'
     \/ k \notin acked' /\ k \notin purged' /\ k \notin expired' /\ Overdue(k)

\* Every kind but Prolonged, the one that gives an old handle a new deadline.
Calm(k) == Rests(k) \/ Enters(k) \/ Taken(k) \/ Returned(k) \/ Released(k) \/ Leaves(k)

\* What holds of a message: its handle is of one of its receives; it has one
\* fate at most, and none before it leaves; and if it waits without a handle it
\* was never received, unless a Stop came too late.
Sound(k) ==
  /\ handle[k] <= receiveCount[k]
  /\ k \notin sent => receiveCount[k] = 0
  /\ k \in messages \/ k \notin sent => k \notin acked /\ k \notin purged /\ k \notin expired
  /\ ~(k \in acked /\ k \in purged) /\ ~(k \in acked /\ k \in expired) /\ ~(k \in purged /\ k \in expired)
  /\ k \in messages /\ handle[k] = NoHandle /\ visibleAt[k] > now => receiveCount[k] = 0 \/ k \in late

\* A timer is for the deadline of its handle, a callback fired when that was over.
TimerFits(t) ==
  /\ t.handle # NoHandle /\ t.handle <= receiveCount[t.msg]
  /\ t.msg \in messages /\ handle[t.msg] = t.handle => t.at = visibleAt[t.msg]

CallbackFits(f) ==
  /\ f.handle # NoHandle /\ f.handle <= receiveCount[f.msg]
  /\ f.msg \in messages /\ handle[f.msg] = f.handle => visibleAt[f.msg] <= now \/ f.msg \in late

CallbackInv ==
  /\ TypeOK
  /\ \A k \in Msg : Sound(k)
  /\ \A t \in timers : TimerFits(t)
  /\ \A f \in fired : CallbackFits(f)

LEMMA KindSound ==
  ASSUME TypeOK, TypeOK', late \subseteq late', NEW k \in Msg, Sound(k), Calm(k) \/ Prolonged(k)
  PROVE  Sound(k)'
<1>1. /\ handle[k] \in Nat /\ handle'[k] \in Nat /\ receiveCount[k] \in Nat /\ receiveCount'[k] \in Nat
      /\ visibleAt[k] \in Nat /\ visibleAt'[k] \in Nat /\ now \in Nat /\ now' \in Nat
      /\ (k \in messages => k \in sent) /\ (k \in messages' => k \in sent')
  BY DEF TypeOK
<1> USE <1>1 DEF Sound, NoHandle, SameFate
<1>2. CASE Rests(k)
  BY <1>2 DEF Rests
<1>3. CASE Enters(k)
  BY <1>3 DEF Enters
<1>4. CASE Taken(k)
  BY <1>4 DEF Taken
<1>5. CASE Returned(k)
  BY <1>5 DEF Returned, Stays
<1>6. CASE Released(k)
  BY <1>6 DEF Released, Stays, Overdue
<1>7. CASE Leaves(k)
  BY <1>7 DEF Leaves
<1>8. CASE Prolonged(k)
  BY <1>8 DEF Prolonged, Stays
<1> QED BY <1>2, <1>3, <1>4, <1>5, <1>6, <1>7, <1>8 DEF Calm

\* A calm step leaves the timers and callbacks of its message fitting.
LEMMA CalmFits ==
  ASSUME TypeOK, TypeOK', late \subseteq late', NEW k \in Msg, Sound(k), Calm(k)
  PROVE  /\ \A t \in timers : t.msg = k /\ TimerFits(t) => TimerFits(t)'
         /\ \A f \in fired : f.msg = k /\ CallbackFits(f) => CallbackFits(f)'
<1>1. /\ handle[k] \in Nat /\ handle'[k] \in Nat /\ receiveCount[k] \in Nat /\ receiveCount'[k] \in Nat
      /\ visibleAt[k] \in Nat /\ visibleAt'[k] \in Nat /\ now \in Nat /\ now' \in Nat
      /\ (k \in messages => k \in sent) /\ (k \in messages' => k \in sent')
      /\ (\A t \in timers : t.handle \in Nat) /\ (\A f \in fired : f.handle \in Nat)
  BY DEF TypeOK, Timer, Callback
<1>2. receiveCount[k] <= receiveCount'[k] /\ now <= now'
  BY <1>1 DEF Calm, Rests, Enters, Taken, Returned, Released, Leaves, Stays
<1>3. \/ k \notin messages' \/ handle'[k] = NoHandle \/ handle'[k] = receiveCount[k] + 1
      \/ k \in messages /\ handle'[k] = handle[k] /\ visibleAt'[k] = visibleAt[k]
  BY <1>1 DEF Calm, Rests, Enters, Taken, Returned, Released, Leaves, Stays, Sound, NoHandle
<1>4. ASSUME NEW t \in timers, t.msg = k, TimerFits(t) PROVE TimerFits(t)'
  BY <1>1, <1>2, <1>3, <1>4 DEF TimerFits, NoHandle
<1>5. ASSUME NEW f \in fired, f.msg = k, CallbackFits(f) PROVE CallbackFits(f)'
  BY <1>1, <1>2, <1>3, <1>5 DEF CallbackFits, NoHandle
<1> QED BY <1>4, <1>5

\* A step that is calm for every message and adds no timer and no callback.
LEMMA CalmStep ==
  ASSUME CallbackInv, TypeOK', late \subseteq late', \A k \in Msg : Calm(k),
         timers' \subseteq timers, fired' \subseteq fired
  PROVE  CallbackInv'
<1>1. \A k \in Msg : Sound(k)'
  BY KindSound DEF CallbackInv
<1>2. (\A t \in timers : t.msg \in Msg) /\ \A f \in fired : f.msg \in Msg
  BY DEF CallbackInv, TypeOK, Timer, Callback
<1>3. (\A t \in timers : TimerFits(t)') /\ \A f \in fired : CallbackFits(f)'
  BY <1>2, CalmFits DEF CallbackInv
<1> QED BY <1>1, <1>3 DEF CallbackInv

\* A scan drops what aged out and hands out what was visible.
LEMMA ScanCalm ==
  ASSUME CallbackInv, NEW c \in Receivers, ReceiveScan(c), NEW k \in Msg
  PROVE  Calm(k)
<1> DEFINE kept   == messages \ ExpiredMessages
           picked == FirstN(Deliverable(kept), rcv[c].max)
<1>1. /\ messages' = kept /\ expired' = expired \cup ExpiredMessages
      /\ UNCHANGED <<now, sent, acked, purged>>
      /\ receiveCount' = [m \in Msg |-> IF m \in picked THEN receiveCount[m] + 1 ELSE receiveCount[m]]
      /\ visibleAt' = [m \in Msg |-> IF m \in picked THEN now + rcv[c].vt ELSE visibleAt[m]]
      /\ handle' = [m \in Msg |-> IF m \in picked THEN receiveCount[m] + 1 ELSE handle[m]]
  BY DEF ReceiveScan, Receive
<1>2. \A m \in picked : m \in kept /\ visibleAt[m] <= now
  BY DEF FirstN, Deliverable
<1>3. ExpiredMessages \subseteq messages /\ messages \subseteq sent /\ now <= now
  BY DEF ExpiredMessages, CallbackInv, TypeOK
<1>4. Sound(k)
  BY DEF CallbackInv
<1> HIDE DEF picked
<1>5. CASE k \in ExpiredMessages
  <2>1. k \notin picked
    BY <1>2, <1>5
  <2> QED BY <1>1, <1>3, <1>4, <1>5, <2>1 DEF Calm, Leaves, Sound
<1>6. CASE k \in picked
  BY <1>1, <1>2, <1>4, <1>6 DEF Calm, Taken, SameFate
<1>7. CASE k \notin ExpiredMessages /\ k \notin picked
  BY <1>1, <1>3, <1>7 DEF Calm, Rests, SameFate
<1> QED BY <1>5, <1>6, <1>7

\* A callback redrives or releases a message that is overdue, or comes for one
\* that is gone.
LEMMA CallbackCalm ==
  ASSUME CallbackInv, NEW f \in fired, CallbackRedrives(f) \/ CallbackMakesVisible(f), NEW k \in Msg
  PROVE  Calm(k)
<1>1. /\ f.msg \in Msg /\ handle[f.msg] = f.handle /\ CallbackFits(f) /\ Sound(k) /\ now <= now
      /\ handle \in [Msg -> Nat] /\ messages \subseteq sent
  BY DEF CallbackInv, CallbackRedrives, CallbackMakesVisible, SkipsCallback, TypeOK, Callback
<1>2. f.msg \in messages => Overdue(f.msg)
  BY <1>1 DEF CallbackFits, Overdue
<1>3. /\ handle' = [handle EXCEPT ![f.msg] = NoHandle] \/ handle' = handle
      /\ UNCHANGED <<now, sent, acked, purged, expired, visibleAt, receiveCount>>
  BY DEF CallbackRedrives, CallbackMakesVisible, msgVars, ghostVars
<1>4. handle'[k] \in {handle[k], NoHandle} /\ (k # f.msg => handle'[k] = handle[k])
  BY <1>1, <1>3
<1>5. CASE CallbackRedrives(f)
  <2>1. messages' = messages \ {f.msg}
    BY <1>5 DEF CallbackRedrives
  <2>2. CASE k = f.msg /\ k \in messages
    BY <1>1, <1>2, <1>3, <1>4, <2>1, <2>2 DEF Calm, Leaves, Sound
  <2>3. CASE k # f.msg \/ k \notin messages
    BY <1>1, <1>3, <1>4, <2>1, <2>3 DEF Calm, Rests, SameFate
  <2> QED BY <2>2, <2>3
<1>6. CASE CallbackMakesVisible(f)
  <2>1. messages' = messages /\ handle' = [handle EXCEPT ![f.msg] = NoHandle]
    BY <1>6 DEF CallbackMakesVisible, msgVars
  <2>2. CASE k = f.msg /\ k \in messages
    <3>1. handle'[k] = NoHandle
      BY <1>1, <2>1, <2>2
    <3> QED BY <1>2, <1>3, <2>1, <2>2, <3>1 DEF Calm, Released, Stays, SameFate
  <2>3. CASE k # f.msg \/ k \notin messages
    BY <1>1, <1>3, <1>4, <2>1, <2>3 DEF Calm, Rests, SameFate
  <2> QED BY <2>2, <2>3
<1> QED BY <1>5, <1>6

\* An accepted message was not there, and was never received.
LEMMA SendCalm ==
  ASSUME CallbackInv, NEW m \in Msg, NEW d \in Delays, SendMessage(m, d), NEW k \in Msg
  PROVE  Calm(k)
<1>1. /\ m \notin sent /\ messages' = messages \cup {m} /\ sent' = sent \cup {m}
      /\ visibleAt' = [visibleAt EXCEPT ![m] = now + d]
      /\ UNCHANGED <<now, handle, receiveCount, acked, purged, expired>>
  BY DEF SendMessage
<1>2. visibleAt \in [Msg -> Nat] /\ messages \subseteq sent /\ now <= now
  BY DEF CallbackInv, TypeOK
<1>3. CASE k = m
  BY <1>1, <1>3 DEF Calm, Enters, SameFate
<1>4. CASE k # m
  BY <1>1, <1>2, <1>4 DEF Calm, Rests, SameFate
<1> QED BY <1>3, <1>4

\* The holder deletes its message or gives it back; everything is purged.
LEMMA HolderCalm ==
  ASSUME CallbackInv, NEW m \in Msg, NEW h \in Nat,
         DeleteMessage(m, h) \/ ChangeMessageVisibilityZero(m, h), NEW k \in Msg
  PROVE  Calm(k)
<1>1. /\ m \in messages /\ handle[m] # NoHandle /\ now <= now /\ messages \subseteq sent /\ Sound(k)
      /\ handle \in [Msg -> Nat] /\ visibleAt \in [Msg -> Nat]
  BY DEF CallbackInv, TypeOK, DeleteMessage, ChangeMessageVisibilityZero, HasHandle
<1>2. CASE DeleteMessage(m, h)
  <2>1. /\ messages' = messages \ {m} /\ acked' = acked \cup {m}
        /\ UNCHANGED <<now, sent, purged, expired, visibleAt, handle, receiveCount>>
    BY <1>2 DEF DeleteMessage, recvVars
  <2>2. CASE k = m
    BY <1>1, <2>1, <2>2 DEF Calm, Leaves, Sound
  <2>3. CASE k # m
    BY <1>1, <2>1, <2>3 DEF Calm, Rests, SameFate
  <2> QED BY <2>2, <2>3
<1>3. CASE ChangeMessageVisibilityZero(m, h)
  <2>1. /\ visibleAt' = [visibleAt EXCEPT ![m] = now] /\ handle' = [handle EXCEPT ![m] = NoHandle]
        /\ UNCHANGED <<now, messages, sent, acked, purged, expired, receiveCount>>
    BY <1>3 DEF ChangeMessageVisibilityZero, msgVars
  <2>2. CASE k = m
    BY <1>1, <2>1, <2>2 DEF Calm, Returned, Stays, SameFate
  <2>3. CASE k # m
    BY <1>1, <2>1, <2>3 DEF Calm, Rests, SameFate
  <2> QED BY <2>2, <2>3
<1> QED BY <1>2, <1>3

LEMMA PurgeCalm == ASSUME CallbackInv, Purge, NEW k \in Msg PROVE Calm(k)
<1>1. /\ messages' = {} /\ purged' = purged \cup messages
      /\ UNCHANGED <<now, sent, acked, expired, visibleAt, handle, receiveCount>>
  BY DEF Purge, recvVars
<1>2. messages \subseteq sent /\ now <= now /\ Sound(k)
  BY DEF CallbackInv, TypeOK
<1> QED BY <1>1, <1>2 DEF Calm, Leaves, Rests, Sound, SameFate

\* An extension gives the holder's handle a new deadline.
LEMMA ChangeKinds ==
  ASSUME CallbackInv, NEW m \in Msg, NEW h \in Nat, NEW vt \in Timeouts \ {0},
         ChangeMessageVisibility(m, h, vt), NEW k \in Msg
  PROVE  IF k = m THEN Prolonged(k) ELSE Calm(k)
<1>1. /\ m \in messages /\ handle[m] # NoHandle /\ visibleAt' = [visibleAt EXCEPT ![m] = now + vt]
      /\ UNCHANGED <<now, messages, sent, acked, purged, expired, handle, receiveCount>>
  BY DEF ChangeMessageVisibility, HasHandle, msgVars
<1>2. now <= now /\ now + vt > now /\ visibleAt \in [Msg -> Nat]
  BY ConstantsAssumption DEF CallbackInv, TypeOK
<1>3. CASE k = m
  BY <1>1, <1>2, <1>3 DEF Prolonged, Stays, SameFate
<1>4. CASE k # m
  BY <1>1, <1>2, <1>4 DEF Calm, Rests, SameFate
<1> QED BY <1>3, <1>4

\* A step that leaves messages, handles and fates alone.
LEMMA IdleCalm ==
  ASSUME CallbackInv, now <= now',
         UNCHANGED <<messages, sent, acked, purged, expired, visibleAt, handle, receiveCount>>, NEW k \in Msg
  PROVE  Calm(k)
BY DEF Calm, Rests, SameFate

LEMMA NextCallbackInv == ASSUME CallbackInv, [Next]_vars PROVE CallbackInv'
<1>0. TypeOK' /\ TypeOK /\ now <= now /\ 1..MaxDeliveries \subseteq Nat
  BY NextTypeOK, ConstantsAssumption DEF CallbackInv, TypeOK
<1>1. CASE /\ now <= now' /\ timers' \subseteq timers /\ fired' \subseteq fired /\ late' = late
           /\ UNCHANGED <<messages, sent, acked, purged, expired, visibleAt, handle, receiveCount>>
  BY <1>0, <1>1, IdleCalm, CalmStep
<1>2. ASSUME NEW m \in Msg, NEW d \in Delays, SendMessage(m, d) PROVE CallbackInv'
  <2>1. UNCHANGED <<timers, fired, late>>
    BY <1>2 DEF SendMessage, timerVars
  <2> QED BY <1>0, <1>2, <2>1, SendCalm, CalmStep
<1>3. ASSUME NEW c \in Receivers, ReceiveScan(c) PROVE CallbackInv'
  <2> DEFINE kept   == messages \ ExpiredMessages
             picked == FirstN(Deliverable(kept), rcv[c].max)
             New(m) == [msg |-> m, handle |-> receiveCount[m] + 1, at |-> now + rcv[c].vt, kind |-> "receive"]
  <2>1. /\ late \subseteq late' /\ fired' = fired
        /\ timers' = StopTimers((messages \ kept) \cup picked) \cup {New(m) : m \in picked}
        /\ receiveCount' = [m \in Msg |-> IF m \in picked THEN receiveCount[m] + 1 ELSE receiveCount[m]]
        /\ visibleAt' = [m \in Msg |-> IF m \in picked THEN now + rcv[c].vt ELSE visibleAt[m]]
        /\ handle' = [m \in Msg |-> IF m \in picked THEN receiveCount[m] + 1 ELSE handle[m]]
    BY <1>3 DEF ReceiveScan, Receive
  <2>2. \A k \in Msg : Sound(k)' /\ Calm(k)
    BY <1>0, <1>3, <2>1, ScanCalm, KindSound DEF CallbackInv
  <2>3. (\A t \in timers : t.msg \in Msg) /\ \A f \in fired : f.msg \in Msg
    BY <1>0 DEF TypeOK, Timer, Callback
  <2>4. (\A t \in timers : TimerFits(t)') /\ \A f \in fired : CallbackFits(f)'
    BY <1>0, <2>1, <2>2, <2>3, CalmFits DEF CallbackInv
  <2>5. picked \subseteq Msg
    BY <1>0, PickedFromKept DEF TypeOK
  <2> HIDE DEF picked, kept
  <2>6. ASSUME NEW m \in picked, NEW t, t = New(m) PROVE TimerFits(t)'
    <3>1. receiveCount[m] \in Nat /\ receiveCount'[m] = receiveCount[m] + 1 /\ visibleAt'[m] = now + rcv[c].vt
      BY <1>0, <2>1, <2>5 DEF TypeOK
    <3>2. UNCHANGED now
      BY <1>3 DEF ReceiveScan
    <3>3. t.msg = m /\ t.handle = receiveCount[m] + 1 /\ t.at = now + rcv[c].vt
      BY <2>6
    <3> QED BY <3>1, <3>2, <3>3 DEF TimerFits, NoHandle
  <2> HIDE DEF New
  <2>7. \A t \in timers' : TimerFits(t)'
    BY <2>1, <2>4, <2>6 DEF StopTimers
  <2> QED BY <1>0, <2>1, <2>2, <2>4, <2>7 DEF CallbackInv
<1>4. ASSUME NEW t \in timers, FireTimer(t) PROVE CallbackInv'
  <2> DEFINE new == [msg |-> t.msg, handle |-> t.handle, kind |-> t.kind]
  <2>1. /\ timers' \subseteq timers /\ fired' = fired \cup {new} /\ t.at <= now
        /\ UNCHANGED <<now, messages, sent, acked, purged, expired, visibleAt, handle, receiveCount, late>>
    BY <1>4 DEF FireTimer, msgVars, recvVars, ghostVars
  <2>2. TimerFits(t)
    BY DEF CallbackInv
  <2>3. CallbackFits(new)
    BY <2>1, <2>2 DEF TimerFits, CallbackFits
  <2> HIDE DEF new
  <2>4. (\A k \in Msg : Sound(k)') /\ (\A u \in timers : TimerFits(u)') /\ \A f \in fired : CallbackFits(f)'
    BY <2>1 DEF CallbackInv, Sound, TimerFits, CallbackFits
  <2>5. CallbackFits(new)'
    BY <2>1, <2>3 DEF CallbackFits, new
  <2> QED BY <1>0, <2>1, <2>4, <2>5 DEF CallbackInv
<1>5. ASSUME NEW f \in fired, CallbackRedrives(f) \/ CallbackMakesVisible(f) PROVE CallbackInv'
  <2>1. timers' \subseteq timers /\ fired' \subseteq fired /\ late' = late
    BY <1>5 DEF CallbackRedrives, CallbackMakesVisible, StopTimers, ghostVars
  <2> QED BY <1>0, <1>5, <2>1, CallbackCalm, CalmStep
<1>6. ASSUME NEW m \in Msg, NEW h \in Nat, DeleteMessage(m, h) \/ ChangeMessageVisibilityZero(m, h)
      PROVE  CallbackInv'
  <2>1. timers' \subseteq timers /\ fired' \subseteq fired /\ late \subseteq late'
    BY <1>6 DEF DeleteMessage, ChangeMessageVisibilityZero, StopTimers
  <2> QED BY <1>0, <1>6, <2>1, HolderCalm, CalmStep
<1>7. ASSUME NEW m \in Msg, NEW h \in Nat, NEW vt \in Timeouts \ {0}, ChangeMessageVisibility(m, h, vt)
      PROVE  CallbackInv'
  <2> DEFINE new == [msg |-> m, handle |-> h, at |-> now + vt, kind |-> "change"]
  <2>1. /\ timers' = StopTimers({m}) \cup {new} /\ fired' = fired /\ late' = late \cup FiredLive({m})
        /\ handle[m] = h /\ h # NoHandle /\ visibleAt' = [visibleAt EXCEPT ![m] = now + vt]
        /\ UNCHANGED <<now, messages, handle, receiveCount>>
    BY <1>7 DEF ChangeMessageVisibility, HasHandle, msgVars
  <2>2. \A k \in Msg : Sound(k)' /\ (k # m => Calm(k))
    BY <1>0, <1>7, <2>1, ChangeKinds, KindSound DEF CallbackInv
  <2>3. (\A t \in timers : t.msg \in Msg) /\ (\A f \in fired : f.msg \in Msg) /\ visibleAt'[m] = now + vt
    BY <1>0, <2>1 DEF TypeOK, Timer, Callback
  <2>4. \A t \in timers : t.msg # m => TimerFits(t)'
    BY <1>0, <2>1, <2>2, <2>3, CalmFits DEF CallbackInv
  <2>5. \A f \in fired : f.msg # m => CallbackFits(f)'
    BY <1>0, <2>1, <2>2, <2>3, CalmFits DEF CallbackInv
  <2>6. ASSUME NEW f \in fired, f.msg = m PROVE CallbackFits(f)'
    <3>1. CallbackFits(f) /\ (f.handle = handle[m] => m \in late')
      BY <2>1, <2>6 DEF CallbackInv, FiredLive
    <3> QED BY <2>1, <2>6, <3>1 DEF CallbackFits
  <2>7. TimerFits(new)'
    <3>1. h <= receiveCount[m]
      BY <2>1 DEF CallbackInv, Sound
    <3>2. new'.msg = m /\ new'.handle = h /\ new'.at = now' + vt
      OBVIOUS
    <3> HIDE DEF new
    <3> QED BY <2>1, <2>3, <3>1, <3>2 DEF TimerFits
  <2> HIDE DEF new
  <2>8. \A t \in timers' : TimerFits(t)'
    BY <2>1, <2>4, <2>7 DEF StopTimers, new
  <2> QED BY <1>0, <2>1, <2>2, <2>5, <2>6, <2>8 DEF CallbackInv
<1>8. CASE Purge
  <2>1. timers' \subseteq timers /\ fired' \subseteq fired /\ late \subseteq late'
    BY <1>8 DEF Purge, StopTimers
  <2> QED BY <1>0, <1>8, <2>1, PurgeCalm, CalmStep
<1>9. CASE Tick
  <2>1. now <= now' /\ UNCHANGED <<messages, sent, acked, purged, expired, visibleAt, handle, receiveCount, timers, fired, late>>
    BY <1>0, <1>9 DEF Tick, TypeOK, msgVars, recvVars, timerVars, ghostVars
  <2> QED BY <1>1, <2>1
<1>10. ASSUME \/ \E m \in Msg : SendDuplicate(m)
              \/ \E c \in Receivers, n \in Batches, vt \in Timeouts, w \in Waits : ReceiveMessages(c, n, vt, w)
              \/ \E c \in Receivers : ReceiveClosed(c) \/ ReceiveNotified(c) \/ ReceiveTimedOut(c) \/ ReceiveCancelled(c)
              \/ \E f \in fired : CallbackSkipped(f)
              \/ Close \/ UNCHANGED vars
       PROVE  CallbackInv'
  <2>1. /\ UNCHANGED <<now, messages, sent, acked, purged, expired, visibleAt, handle, receiveCount, late>>
        /\ timers' \subseteq timers /\ fired' \subseteq fired
    BY <1>10 DEF SendDuplicate, ReceiveMessages, ReceiveClosed, ReceiveNotified, ReceiveTimedOut,
       ReceiveCancelled, CallbackSkipped, Close, StopTimers, vars, msgVars, recvVars, timerVars, ghostVars
  <2> QED BY <1>0, <1>1, <2>1
<1> QED
  BY <1>0, <1>2, <1>3, <1>4, <1>5, <1>6, <1>7, <1>8, <1>9, <1>10 DEF Next

\* A store without messages.
LEMMA InitCallbackInv == Init => CallbackInv
BY InitTypeOK DEF Init, CallbackInv, Sound, NoHandle

\* The counter of delayed messages counts none that was received: a callback
\* that clears a handle comes when the message is visible again, or too late to
\* be stopped.
THEOREM DelayedWereNeverReceived == Spec => []DelayedNeverReceived
<1>1. CallbackInv => DelayedNeverReceived
  BY DEF CallbackInv, Sound, TypeOK, DelayedNeverReceived, Delayed
<1> QED BY <1>1, InitCallbackInv, NextCallbackInv, PTL DEF Spec

\* A message as the contract sees it.
Seen(m) ==
  [place |-> Place(m), received |-> IF m \in messages THEN receiveCount[m] ELSE 0,
   holder |-> IF m \in messages THEN handle[m] ELSE 0]

\* What the step made of the message m is a step of the contract.
Keeps(m) == Contract!Step(Seen(m), Seen(m)', m \in late)

\* Where a message is seen.
Gone(m) ==
  CASE m \in acked -> "deleted" [] m \in purged -> "purged" [] m \in expired -> "expired"
    [] OTHER -> "redriven"

LEMMA SeenPlaces ==
  ASSUME NEW m \in Msg
  PROVE  /\ Seen(m).place = Place(m)
         /\ m \in messages => /\ Place(m) = IF visibleAt[m] > now THEN "hidden" ELSE "visible"
                              /\ Seen(m).received = receiveCount[m] /\ Seen(m).holder = handle[m]
         /\ m \notin messages => /\ Place(m) = IF m \in sent THEN Gone(m) ELSE "away"
                                 /\ Seen(m).received = 0 /\ Seen(m).holder = 0
<1>1. CASE m \in messages
  BY <1>1 DEF Place, Seen
<1>2. CASE m \in sent \ messages
  BY <1>2 DEF Place, Seen, Gone
<1>3. CASE m \notin messages /\ m \notin sent
  BY <1>3 DEF Place, Seen
<1> QED BY <1>1, <1>2, <1>3

\* The same after the step.
LEMMA SeenPlacesNext ==
  ASSUME NEW m \in Msg
  PROVE  /\ Seen(m)'.place = Place(m)'
         /\ m \in messages' => /\ Place(m)' = IF visibleAt'[m] > now' THEN "hidden" ELSE "visible"
                               /\ Seen(m)'.received = receiveCount'[m] /\ Seen(m)'.holder = handle'[m]
         /\ m \notin messages' => /\ Place(m)' = IF m \in sent' THEN Gone(m)' ELSE "away"
                                  /\ Seen(m)'.received = 0 /\ Seen(m)'.holder = 0
<1>1. CASE m \in messages'
  BY <1>1 DEF Place, Seen
<1>2. CASE m \in sent' /\ m \notin messages'
  BY <1>2 DEF Place, Seen, Gone
<1>3. CASE m \notin messages' /\ m \notin sent'
  BY <1>3 DEF Place, Seen
<1> QED BY <1>1, <1>2, <1>3

\* Every kind of step of a message is a step of the contract.
LEMMA KindKeeps ==
  ASSUME TypeOK, TypeOK', NEW k \in Msg, Sound(k), Sound(k)', Calm(k) \/ Prolonged(k)
  PROVE  Keeps(k)
<1> USE SeenPlaces, SeenPlacesNext DEF Keeps, Contract!Step
<1>1. /\ handle[k] \in Nat /\ handle'[k] \in Nat /\ receiveCount[k] \in Nat /\ receiveCount'[k] \in Nat
      /\ visibleAt[k] \in Nat /\ visibleAt'[k] \in Nat /\ now \in Nat /\ now' \in Nat
      /\ (k \in messages => k \in sent) /\ (k \in messages' => k \in sent')
  BY DEF TypeOK
<1>2. CASE Rests(k)
  <2>1. SameFate(k) => Gone(k)' = Gone(k)
    BY DEF SameFate, Gone
  <2>2. CASE Place(k)' = Place(k)
    BY <1>2, <2>2 DEF Seen, Rests
  <2>3. CASE Place(k)' # Place(k)
    <3>1. k \in messages /\ visibleAt[k] > now /\ ~(visibleAt'[k] > now')
      BY <1>1, <1>2, <2>1, <2>3 DEF Rests
    <3>2. k \in messages' /\ receiveCount'[k] = receiveCount[k] /\ handle'[k] = handle[k]
      BY <1>2, <3>1 DEF Rests
    <3>3. Contract!Elapse(Seen(k), Seen(k)')
      BY <3>1, <3>2 DEF Contract!Elapse, Contract!Kept
    <3> QED BY <3>3
  <2> QED BY <2>2, <2>3
<1>3. CASE Enters(k)
  <2>1. receiveCount[k] = 0 /\ handle[k] = 0 /\ k \notin messages
    BY <1>1, <1>3 DEF Enters, Sound
  <2>2. Seen(k) = Contract!Away
    BY <1>3, <2>1 DEF Enters, Seen, Contract!Away
  <2>3. Contract!Accept(Seen(k), Seen(k)')
    BY <1>1, <1>3, <2>1, <2>2 DEF Enters, Contract!Accept, Contract!Away, Contract!InQueue, Contract!Kept
  <2> QED BY <2>3
<1>4. CASE Taken(k)
  <2>1. Contract!Deliver(Seen(k), Seen(k)')
    BY <1>1, <1>4 DEF Taken, Contract!Deliver, Contract!InQueue
  <2> QED BY <2>1
<1>5. CASE Returned(k)
  <2>1. Contract!GiveBack(Seen(k), Seen(k)')
    BY <1>1, <1>5 DEF Returned, Stays, NoHandle, Contract!GiveBack, Contract!InQueue
  <2> QED BY <2>1
<1>6. CASE Released(k)
  <2>1. Contract!Release(Seen(k), Seen(k)', k \in late)
    BY <1>1, <1>6 DEF Released, Stays, Overdue, NoHandle, Contract!Release, Contract!Overdue
  <2> QED BY <2>1
<1>7. CASE Prolonged(k)
  <2>1. Contract!Extend(Seen(k), Seen(k)')
    BY <1>1, <1>7 DEF Prolonged, Stays, NoHandle, Contract!Extend, Contract!InQueue, Contract!Kept
  <2> QED BY <2>1
<1>8. CASE Leaves(k)
  <2>1. /\ Seen(k).place = IF visibleAt[k] > now THEN "hidden" ELSE "visible"
        /\ Seen(k).holder = handle[k]
        /\ Seen(k)'.place = Gone(k)' /\ Seen(k)'.received = 0 /\ Seen(k)'.holder = 0
    BY <1>8 DEF Leaves
  <2>2. CASE k \in acked' /\ k \notin purged' /\ k \notin expired' /\ handle[k] # NoHandle
    <3>1. Gone(k)' = "deleted"
      BY <2>2 DEF Gone
    <3>2. Contract!Acknowledge(Seen(k), Seen(k)')
      BY <2>1, <2>2, <3>1 DEF NoHandle, Contract!Acknowledge, Contract!InQueue, Contract!Ended
    <3> QED BY <3>2
  <2>3. CASE k \notin acked' /\ ((k \in purged' /\ k \notin expired') \/ (k \notin purged' /\ k \in expired'))
    <3>1. Gone(k)' \in {"purged", "expired"}
      BY <2>3 DEF Gone
    <3>2. Contract!Drop(Seen(k), Seen(k)')
      BY <2>1, <3>1 DEF Contract!Drop, Contract!InQueue, Contract!Ended
    <3> QED BY <3>2
  <2>4. CASE k \notin acked' /\ k \notin purged' /\ k \notin expired' /\ Overdue(k)
    <3>1. Gone(k)' = "redriven"
      BY <2>4 DEF Gone
    <3>2. Contract!Redrive(Seen(k), Seen(k)', k \in late)
      BY <1>1, <2>1, <2>4, <3>1 DEF Overdue, NoHandle, Contract!Redrive, Contract!Overdue, Contract!Ended
    <3> QED BY <3>2
  <2> QED BY <1>8, <2>2, <2>3, <2>4 DEF Leaves
<1> QED BY <1>2, <1>3, <1>4, <1>5, <1>6, <1>7, <1>8 DEF Calm

\* Every step is of a kind for every message, and forgets no late Stop.
LEMMA NextKinds ==
  ASSUME CallbackInv, [Next]_vars, NEW k \in Msg
  PROVE  (Calm(k) \/ Prolonged(k)) /\ late \subseteq late'
<1>0. TypeOK /\ now <= now /\ 1..MaxDeliveries \subseteq Nat
  BY ConstantsAssumption DEF CallbackInv, TypeOK
<1>1. ASSUME NEW m \in Msg, NEW d \in Delays, SendMessage(m, d) PROVE Calm(k) /\ late \subseteq late'
  BY <1>1, SendCalm DEF SendMessage
<1>2. ASSUME NEW c \in Receivers, ReceiveScan(c) PROVE Calm(k) /\ late \subseteq late'
  BY <1>2, ScanCalm DEF ReceiveScan
<1>3. ASSUME NEW f \in fired, CallbackRedrives(f) \/ CallbackMakesVisible(f)
      PROVE  Calm(k) /\ late \subseteq late'
  <2>1. late' = late
    BY <1>3 DEF CallbackRedrives, CallbackMakesVisible, ghostVars
  <2> QED BY <1>3, <2>1, CallbackCalm
<1>4. ASSUME NEW m \in Msg, NEW h \in Nat, DeleteMessage(m, h) \/ ChangeMessageVisibilityZero(m, h)
      PROVE  Calm(k) /\ late \subseteq late'
  <2>1. late \subseteq late'
    BY <1>4 DEF DeleteMessage, ChangeMessageVisibilityZero
  <2> QED BY <1>4, <2>1, HolderCalm
<1>5. ASSUME NEW m \in Msg, NEW h \in Nat, NEW vt \in Timeouts \ {0}, ChangeMessageVisibility(m, h, vt)
      PROVE  (Calm(k) \/ Prolonged(k)) /\ late \subseteq late'
  <2>1. late \subseteq late'
    BY <1>5 DEF ChangeMessageVisibility
  <2> QED BY <1>5, <2>1, ChangeKinds
<1>6. CASE Purge
  <2>1. late \subseteq late'
    BY <1>6 DEF Purge
  <2> QED BY <1>6, <2>1, PurgeCalm
<1>7. CASE Tick
  <2>1. now <= now' /\ UNCHANGED <<messages, sent, acked, purged, expired, visibleAt, handle, receiveCount, late>>
    BY <1>0, <1>7 DEF Tick, TypeOK, msgVars, recvVars, ghostVars
  <2> QED BY <2>1, IdleCalm
<1>8. ASSUME \/ \E m \in Msg : SendDuplicate(m)
             \/ \E c \in Receivers, n \in Batches, vt \in Timeouts, w \in Waits : ReceiveMessages(c, n, vt, w)
             \/ \E c \in Receivers : ReceiveClosed(c) \/ ReceiveNotified(c) \/ ReceiveTimedOut(c) \/ ReceiveCancelled(c)
             \/ \E t \in timers : FireTimer(t)
             \/ \E f \in fired : CallbackSkipped(f)
             \/ Close \/ UNCHANGED vars
      PROVE  Calm(k) /\ late \subseteq late'
  <2>1. UNCHANGED <<now, messages, sent, acked, purged, expired, visibleAt, handle, receiveCount, late>>
    BY <1>8 DEF SendDuplicate, ReceiveMessages, ReceiveClosed, ReceiveNotified, ReceiveTimedOut,
       ReceiveCancelled, FireTimer, CallbackSkipped, Close, vars, msgVars, recvVars, ghostVars
  <2> QED BY <1>0, <2>1, IdleCalm
<1> QED BY <1>0, <1>1, <1>2, <1>3, <1>4, <1>5, <1>6, <1>7, <1>8 DEF Next

\* A step that keeps the contract for each message is a step of the contract.
LEMMA StepsMakeNext ==
  ASSUME late \subseteq late', \A m \in Msg : Keeps(m)
  PROVE  Contract!Next
<1>1. [m \in Msg |-> Seen(m)]' = [m \in Msg |-> Seen(m)']
  OBVIOUS
<1>2. \A m \in Msg : \E s \in {[k \in Msg |-> Seen(k)][m]}, t \in {[k \in Msg |-> Seen(k)]'[m]} :
        Contract!Step(s, t, m \in late)
  BY <1>1 DEF Keeps
<1> QED BY <1>2 DEF Contract!Next, Seen

\* The in-memory store implements the contract of a store: its timers, and the
\* callbacks that race the holder's calls, do nothing the contract does not allow.
THEOREM StoreKeepsContract == Spec => KeepsContract
<1>1. Init => Contract!Init
  BY DEF Init, Contract!Init, Contract!Away, Place
<1>2. CallbackInv /\ CallbackInv' /\ [Next]_vars => [Contract!Next]_(Contract!vars)
  <2> SUFFICES ASSUME CallbackInv, CallbackInv', [Next]_vars PROVE Contract!Next
    OBVIOUS
  <2>1. CASE Msg = {}
    <3>1. late \subseteq late'
      BY <2>1 DEF CallbackInv, TypeOK
    <3> QED BY <2>1, <3>1, StepsMakeNext
  <2>2. CASE Msg # {}
    <3>1. late \subseteq late'
      BY <2>2, NextKinds
    <3>2. ASSUME NEW k \in Msg PROVE Keeps(k)
      <4>1. Calm(k) \/ Prolonged(k)
        BY NextKinds
      <4>2. TypeOK /\ TypeOK' /\ Sound(k) /\ Sound(k)'
        BY DEF CallbackInv
      <4> QED BY <4>1, <4>2, KindKeeps
    <3> QED BY <3>1, <3>2, StepsMakeNext
  <2> QED BY <2>1, <2>2
<1> QED BY <1>1, <1>2, InitCallbackInv, NextCallbackInv, PTL DEF Spec, KeepsContract, Contract!Spec
=============================================================================
