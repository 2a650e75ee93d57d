-------------------------------- MODULE WebUI --------------------------------
(***************************************************************************)
(* The web interface (apps/go/server/ui/handlers.go) beside the request    *)
(* handlers.  It works on the same queues with checks of its own, and does *)
(* so past those of the handlers: a form sets attributes without looking   *)
(* at their range, a purge knows no cooldown, and a page that shows the    *)
(* messages of a queue receives them.                                      *)
(***************************************************************************)
EXTENDS Handlers

\* Numbers of the form go into the attributes as they are; the name is checked,
\* by rules of its own.
UICreateQueue(p) ==
  LET r == Req(p)
      policy == "RedrivePolicy" \in DOMAIN r.attrs => r.attrs.RedrivePolicy.max >= 1
      fifo   == "FifoQueue" \in DOMAIN r.attrs => r.q \in FifoNames
  IN
  /\ At(p, "act") /\ Does(p, {"UICreate"})
  /\ IF r.q \notin UIBadNames /\ policy /\ fifo THEN CreateOr(p, r.q, With(Defaults, r.attrs))
     ELSE Reply(p) /\ UNCHANGED <<queues, objs>>
  /\ UNCHANGED <<now, sent, ghosts>>

\* The purge of the store that was looked up; the queue is not marked.
UIPurgeQueue(p) ==
  /\ At(p, "uipurge") /\ Reply(p)
  /\ \/ objs' = PurgedStore(call[p].obj)
     \/ StoresFail /\ UNCHANGED objs
  /\ UNCHANGED <<queues, now, sent, ghosts>>

\* Only an empty body and a delay out of range are refused.
UISendMessage(p) ==
  /\ At(p, "uisend") /\ HasEntry(p)
  /\ \/ Entry(p).size > 0 /\ Entry(p).delay \in Bounds.DelaySeconds /\ StoreEntry(p)
     \/ /\ Entry(p).size = 0 \/ Entry(p).delay \notin Bounds.DelaySeconds
        /\ Failed(p) /\ UNCHANGED <<objs, sent, dedups>>
  /\ UNCHANGED <<queues, now, calls, answered, strayed, kept, raced>>

\* handleQueueDetail and handleAPIQueueMessages: ReceiveMessages of ten with a
\* visibility timeout of 0, whose timers are due at once; the error of a closed
\* store shows an empty page.
Peek(p) ==
  /\ At(p, "peek") /\ Reply(p)
  /\ \/ O(p).open /\ Receive(p, 10)
     \/ (~O(p).open \/ StoresFail) /\ UNCHANGED objs
  /\ UNCHANGED <<queues, now, sent, ghosts>>

UINext ==
  \/ Next
  \/ \E p \in Procs : UICreateQueue(p) \/ UIPurgeQueue(p) \/ UISendMessage(p) \/ Peek(p)

UISpec == Init /\ [][UINext]_vars
=============================================================================
