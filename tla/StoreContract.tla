--------------------------- MODULE StoreContract ---------------------------
(***************************************************************************)
(* What every message store promises to those who send and receive (the    *)
(* interface Store of pkgs/v1/queue/store/store.go), message by message: a *)
(* message comes in once, is received only when it is visible, is hidden   *)
(* until its time is over unless who holds it says otherwise, leaves in    *)
(* one way and does not come back.                                         *)
(*                                                                         *)
(* A message is [place, received, holder]: where it is, or how it left;    *)
(* the number of its receives; and the receive whose handle is good, 0 for *)
(* none.  A step of a store is a step of some of its messages.             *)
(***************************************************************************)
EXTENDS Naturals

CONSTANTS
  Msg,
  EmptyHandles  \* whether a delete with the empty receipt handle finds messages

VARIABLES
  state,     \* [Msg -> the message]
  disturbed  \* messages whose holder came just after their time was over

vars == <<state, disturbed>>

InQueue == {"hidden", "visible"}

Away == [place |-> "away", received |-> 0, holder |-> 0]

Init == state = [m \in Msg |-> Away] /\ disturbed = {}

(***************************************************************************)
(* The steps of a message, from s to t                                     *)
(***************************************************************************)
Kept(s, t) == t.received = s.received /\ t.holder = s.holder
Ended(t)   == t.received = 0 /\ t.holder = 0

Accept(s, t) == s = Away /\ t.place \in InQueue /\ Kept(s, t)

Deliver(s, t) ==
  /\ s.place = "visible" /\ t.place \in InQueue
  /\ t.received = s.received + 1 /\ t.holder = t.received

Elapse(s, t) == s.place = "hidden" /\ t.place = "visible" /\ Kept(s, t)

\* The holder of a message extends its time, or gives it back.
Extend(s, t) == s.holder # 0 /\ s.place \in InQueue /\ t.place = "hidden" /\ Kept(s, t)

GiveBack(s, t) ==
  s.holder # 0 /\ s.place \in InQueue /\ t.place = "visible" /\ t.received = s.received /\ t.holder = 0

\* The store takes a message from its holder only when its time is over.
Overdue(s, late) == s.holder # 0 /\ (s.place = "visible" \/ (s.place = "hidden" /\ late))

Release(s, t, late) ==
  Overdue(s, late) /\ t.place = s.place /\ t.received = s.received /\ t.holder = 0

Redrive(s, t, late) == Overdue(s, late) /\ t.place = "redriven" /\ Ended(t)

Acknowledge(s, t) ==
  (s.holder # 0 \/ EmptyHandles) /\ s.place \in InQueue /\ t.place = "deleted" /\ Ended(t)

Drop(s, t) == s.place \in InQueue /\ t.place \in {"purged", "expired"} /\ Ended(t)

Step(s, t, late) ==
  \/ t = s
  \/ Accept(s, t) \/ Deliver(s, t) \/ Elapse(s, t)
  \/ Extend(s, t) \/ GiveBack(s, t) \/ Release(s, t, late)
  \/ Redrive(s, t, late) \/ Acknowledge(s, t) \/ Drop(s, t)

Next ==
  /\ disturbed \subseteq disturbed'
  /\ \A m \in Msg : \E s \in {state[m]}, t \in {state'[m]} : Step(s, t, m \in disturbed)

Spec == Init /\ [][Next]_vars
=============================================================================
