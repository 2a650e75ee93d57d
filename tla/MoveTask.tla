------------------------------ MODULE MoveTask ------------------------------
(***************************************************************************)
(* Message move tasks (pkgs/v1/queue/dlq/move_task.go): the goroutine      *)
(* runTask of every task, the API calls StartTask and CancelTask, and the  *)
(* hourly removeStaleTasks.                                                *)
(*                                                                         *)
(* mtm.mu orders the API calls and the cleanup among themselves.  runTask  *)
(* takes no lock: it and CancelTask meet on the atomic status and on the   *)
(* channel cancelled, so every access to those is a step of its own.       *)
(*                                                                         *)
(* The source queue is seen through its store.  runTask clears the         *)
(* message's receipt handle (PrepareForRedrive) before it deletes by that  *)
(* handle, so what the store does with the empty handle is part of the     *)
(* model: the memory store refuses it, SQLite deletes every row whose      *)
(* receipt_handle is empty, Badger the first such message.                 *)
(*                                                                         *)
(* Left out: the movedMessages counter and the other figures that are only *)
(* reported, and the choice of the destination.                            *)
(***************************************************************************)
EXTENDS Integers, FiniteSets

CONSTANTS
  Tasks,      \* tasks that may be started
  Msg,        \* messages of the source queue
  Backend,    \* "memory", "sqlite" or "badger"
  BatchSize,  \* messages one ReceiveMessages returns at most (10 in the code)
  DestDrops   \* messages a FIFO destination drops as duplicates

ASSUME MoveAssumption ==
  /\ Backend \in {"memory", "sqlite", "badger"}
  /\ BatchSize \in Nat \ {0} /\ Msg # {} /\ "none" \notin Tasks
  /\ DestDrops \subseteq Msg

VARIABLES
  tasks,        \* keys of mtm.tasks
  status,       \* task.status
  cancelled,    \* tasks whose channel cancelled is closed
  startedAt,    \* age of the task: "recent", or "old" once taskTTL has passed
  completedAt,  \* age of task.completedAt, "unset" before it is stored
  cancel,       \* the CancelTask holding mtm.mu: [task, step], or NoCancel
  pc,           \* where runTask is
  final,        \* the status setTaskStatus is called with
  batch, cur,   \* messages left of the batch, and the one being moved
  src,          \* a message in the source queue
  dst,          \* messages the destination has accepted
  srcOpen, dstOpen, \* the queues have not been deleted
  \* for the properties
  offered,      \* messages that were put in the source queue
  sentAfterCancel \* sends of a task since its channel was closed

taskVars == <<tasks, status, cancelled, startedAt, completedAt, cancel>>
runVars  == <<pc, final, batch, cur, sentAfterCancel>>
qVars    == <<src, dst, srcOpen, dstOpen, offered>>
vars     == <<taskVars, runVars, qVars>>

Terminal  == {"COMPLETED", "CANCELLED", "FAILED"}
Statuses  == Terminal \cup {"RUNNING", "CANCELLING"}
NoCancel  == [task |-> "none", step |-> "none"]
Ages      == {"unset", "recent", "old"}

\* "fresh": visible, empty handle; "held": in flight; "lapsed": visible again
\* but still with its last handle (SQLite and Badger never clear it).
SrcStates == {"absent", "fresh", "held", "lapsed"}
Visible   == {m \in Msg : src[m] \in {"fresh", "lapsed"}}
Fresh     == {m \in Msg : src[m] = "fresh"}

MuFree == cancel = NoCancel

Init ==
  /\ tasks = {} /\ cancelled = {} /\ cancel = NoCancel
  /\ status = [t \in Tasks |-> "RUNNING"] /\ final = [t \in Tasks |-> "COMPLETED"]
  /\ startedAt = [t \in Tasks |-> "unset"] /\ completedAt = [t \in Tasks |-> "unset"]
  /\ pc = [t \in Tasks |-> "off"]
  /\ batch = [t \in Tasks |-> {}] /\ cur = [t \in Tasks |-> CHOOSE m \in Msg : TRUE]
  /\ src \in [Msg -> {"absent", "fresh"}] /\ offered = {m \in Msg : src[m] # "absent"}
  /\ dst = {} /\ srcOpen = TRUE /\ dstOpen = TRUE
  /\ sentAfterCancel = [t \in Tasks |-> 0]

(***************************************************************************)
(* StartTask, CancelTask, removeStaleTasks                                 *)
(***************************************************************************)
\* A call that fails its validation changes nothing.
StartTask(t) ==
  /\ MuFree /\ pc[t] = "off" /\ srcOpen /\ dstOpen
  /\ tasks' = tasks \cup {t}
  /\ status' = [status EXCEPT ![t] = "RUNNING"]
  /\ startedAt' = [startedAt EXCEPT ![t] = "recent"]
  /\ pc' = [pc EXCEPT ![t] = "top"]
  /\ UNCHANGED <<cancelled, completedAt, cancel, final, batch, cur,
                 sentAfterCancel, qVars>>

\* CancelTask reads the status; a task that is not RUNNING is left alone.
CancelCheck(t) ==
  /\ MuFree /\ t \in tasks /\ status[t] = "RUNNING"
  /\ cancel' = [task |-> t, step |-> "store"]
  /\ UNCHANGED <<tasks, status, cancelled, startedAt, completedAt,
                 runVars, qVars>>

CancelStore(t) ==
  /\ cancel = [task |-> t, step |-> "store"]
  /\ status' = [status EXCEPT ![t] = "CANCELLING"]
  /\ cancel' = [task |-> t, step |-> "close"]
  /\ UNCHANGED <<tasks, cancelled, startedAt, completedAt, runVars, qVars>>

CancelClose(t) ==
  /\ cancel = [task |-> t, step |-> "close"]
  /\ cancelled' = cancelled \cup {t}
  /\ cancel' = NoCancel
  /\ UNCHANGED <<tasks, status, startedAt, completedAt, runVars, qVars>>

\* Mutant: only RUNNING tasks are kept.
StaleUnlessRunning ==
  {t \in tasks :
     /\ status[t] # "RUNNING"
     /\ IF completedAt[t] = "unset" THEN startedAt[t] = "old" ELSE completedAt[t] = "old"}

\* The reference is completedAt, or startedAt while completedAt is not stored.
StaleTasks ==
  {t \in tasks :
     /\ status[t] \notin {"RUNNING", "CANCELLING"}
     /\ IF completedAt[t] = "unset" THEN startedAt[t] = "old" ELSE completedAt[t] = "old"}

RemoveStaleTasks ==
  /\ MuFree /\ StaleTasks # {}
  /\ tasks' = tasks \ StaleTasks
  /\ UNCHANGED <<status, cancelled, startedAt, completedAt, cancel, runVars, qVars>>

\* taskTTL passes since the start, and later since the end, of a task.
StartAges(t) ==
  /\ startedAt[t] = "recent"
  /\ startedAt' = [startedAt EXCEPT ![t] = "old"]
  /\ UNCHANGED <<tasks, status, cancelled, completedAt, cancel, runVars, qVars>>

CompletionAges(t) ==
  /\ completedAt[t] = "recent" /\ startedAt[t] = "old"
  /\ completedAt' = [completedAt EXCEPT ![t] = "old"]
  /\ UNCHANGED <<tasks, status, cancelled, startedAt, cancel, runVars, qVars>>

(***************************************************************************)
(* runTask                                                                 *)
(***************************************************************************)
FinishWith(t, s) ==
  /\ final' = [final EXCEPT ![t] = s]
  /\ pc' = [pc EXCEPT ![t] = "finish"]

\* The select at the top of the loop.
RunTop(t) ==
  /\ pc[t] = "top"
  /\ \/ t \in cancelled /\ FinishWith(t, "CANCELLED")
     \/ t \notin cancelled /\ pc' = [pc EXCEPT ![t] = "receive"] /\ UNCHANGED final
  /\ UNCHANGED <<taskVars, batch, cur, sentAfterCancel, qVars>>

\* ReceiveMessages(ctx, 10, 30, 0): an error, nothing, or a batch.
RunReceive(t) ==
  /\ pc[t] = "receive"
  /\ \/ ~srcOpen /\ FinishWith(t, "FAILED") /\ UNCHANGED <<batch, src>>
     \/ srcOpen /\ Visible = {} /\ FinishWith(t, "COMPLETED") /\ UNCHANGED <<batch, src>>
     \/ /\ srcOpen /\ Visible # {}
        /\ \E S \in SUBSET Visible :
             /\ S # {} /\ Cardinality(S) <= BatchSize
             /\ Cardinality(S) = BatchSize \/ S = Visible
             /\ batch' = [batch EXCEPT ![t] = S]
             /\ src' = [m \in Msg |-> IF m \in S THEN "held" ELSE src[m]]
        /\ pc' = [pc EXCEPT ![t] = "each"] /\ UNCHANGED final
  /\ UNCHANGED <<taskVars, cur, sentAfterCancel, dst, srcOpen, dstOpen, offered>>

\* Mutant: the inner loop does not look at the channel.
RunEachUnchecked(t) ==
  /\ pc[t] = "each"
  /\ \/ batch[t] = {} /\ pc' = [pc EXCEPT ![t] = "top"] /\ UNCHANGED <<final, batch, cur>>
     \/ /\ \E m \in batch[t] :
             /\ cur' = [cur EXCEPT ![t] = m]
             /\ batch' = [batch EXCEPT ![t] = @ \ {m}]
        /\ pc' = [pc EXCEPT ![t] = "send"] /\ UNCHANGED final
  /\ UNCHANGED <<taskVars, sentAfterCancel, qVars>>

\* The inner loop: the next message, after a look at the channel.
RunEach(t) ==
  /\ pc[t] = "each"
  /\ \/ batch[t] = {} /\ pc' = [pc EXCEPT ![t] = "top"] /\ UNCHANGED <<final, batch, cur>>
     \/ batch[t] # {} /\ t \in cancelled /\ FinishWith(t, "CANCELLED") /\ UNCHANGED <<batch, cur>>
     \/ /\ t \notin cancelled
        /\ \E m \in batch[t] :
             /\ cur' = [cur EXCEPT ![t] = m]
             /\ batch' = [batch EXCEPT ![t] = @ \ {m}]
        /\ pc' = [pc EXCEPT ![t] = "send"] /\ UNCHANGED final
  /\ UNCHANGED <<taskVars, sentAfterCancel, qVars>>

\* Mutant: a failed send is tried again at once.
RunSendRetries(t) ==
  /\ pc[t] = "send"
  /\ \/ dstOpen /\ pc' = [pc EXCEPT ![t] = "delete"]
     \/ ~dstOpen /\ UNCHANGED pc
  /\ sentAfterCancel' = [sentAfterCancel EXCEPT ![t] = IF t \in cancelled /\ @ < 2 THEN @ + 1 ELSE @]
  /\ UNCHANGED <<taskVars, final, batch, cur, qVars>>

\* PrepareForRedrive and SendMessage to the destination.
RunSend(t) ==
  /\ pc[t] = "send"
  /\ \/ /\ dstOpen /\ cur[t] \notin DestDrops
        /\ dst' = dst \cup {cur[t]}
        /\ pc' = [pc EXCEPT ![t] = "delete"]
     \/ /\ dstOpen /\ cur[t] \in DestDrops
        /\ pc' = [pc EXCEPT ![t] = "delete"] /\ UNCHANGED dst
     \/ ~dstOpen /\ pc' = [pc EXCEPT ![t] = "each"] /\ UNCHANGED dst
  /\ sentAfterCancel' = [sentAfterCancel EXCEPT ![t] = IF t \in cancelled THEN @ + 1 ELSE @]
  /\ UNCHANGED <<taskVars, final, batch, cur, src, srcOpen, dstOpen, offered>>

\* Mutant: the memory store, too, takes the empty handle for a match.
DeleteAnyEmptyHandle(s) == {[m \in Msg |-> IF m \in Fresh THEN "absent" ELSE s[m]]}

\* The source queue after DeleteMessage with the empty handle.
DeleteEmptyHandle(s) ==
  CASE Backend = "memory" \/ ~srcOpen -> {s}
    [] Backend = "sqlite" /\ srcOpen  -> {[m \in Msg |-> IF m \in Fresh THEN "absent" ELSE s[m]]}
    [] Backend = "badger" /\ srcOpen  -> IF Fresh = {} THEN {s} ELSE {[s EXCEPT ![m] = "absent"] : m \in Fresh}

\* DeleteMessage(ctx, msg.ReceiptHandle); an error is only logged.
RunDelete(t) ==
  /\ pc[t] = "delete"
  /\ src' \in DeleteEmptyHandle(src)
  /\ pc' = [pc EXCEPT ![t] = "each"]
  /\ UNCHANGED <<tasks, status, cancelled, startedAt, completedAt, cancel, final, batch,
                 cur, sentAfterCancel, dst, srcOpen, dstOpen, offered>>

\* setTaskStatus stores the status, then the completion time.
FinishStatus(t) ==
  /\ pc[t] = "finish"
  /\ status' = [status EXCEPT ![t] = final[t]]
  /\ pc' = [pc EXCEPT ![t] = "stamp"]
  /\ UNCHANGED <<tasks, cancelled, startedAt, completedAt, cancel, final,
                 batch, cur, sentAfterCancel, qVars>>

FinishStamp(t) ==
  /\ pc[t] = "stamp"
  /\ completedAt' = [completedAt EXCEPT ![t] = "recent"]
  /\ pc' = [pc EXCEPT ![t] = "done"]
  /\ UNCHANGED <<tasks, status, cancelled, startedAt, cancel, final, batch,
                 cur, sentAfterCancel, qVars>>

(***************************************************************************)
(* The rest of the server, as far as the two queues show it                *)
(***************************************************************************)
SourceSend(m) ==
  /\ srcOpen /\ m \notin offered
  /\ src' = [src EXCEPT ![m] = "fresh"] /\ offered' = offered \cup {m}
  /\ UNCHANGED <<taskVars, runVars, dst, srcOpen, dstOpen>>

\* The thirty seconds of a received message pass.
VisibilityExpires(m) ==
  /\ srcOpen /\ src[m] = "held"
  /\ src' = [src EXCEPT ![m] = IF Backend = "memory" THEN "fresh" ELSE "lapsed"]
  /\ UNCHANGED <<taskVars, runVars, dst, srcOpen, dstOpen, offered>>

CloseSource == srcOpen /\ srcOpen' = FALSE /\ UNCHANGED <<taskVars, runVars, src, dst, dstOpen, offered>>
CloseDest   == dstOpen /\ dstOpen' = FALSE /\ UNCHANGED <<taskVars, runVars, src, dst, srcOpen, offered>>

Run(t) ==
  \/ RunTop(t) \/ RunReceive(t) \/ RunEach(t) \/ RunSend(t) \/ RunDelete(t)
  \/ FinishStatus(t) \/ FinishStamp(t)

Next ==
  \/ \E t \in Tasks : StartTask(t)
  \/ \E t \in Tasks : CancelCheck(t)
  \/ \E t \in Tasks : CancelStore(t)
  \/ \E t \in Tasks : CancelClose(t)
  \/ RemoveStaleTasks
  \/ \E t \in Tasks : StartAges(t)
  \/ \E t \in Tasks : CompletionAges(t)
  \/ \E t \in Tasks : Run(t)
  \/ \E m \in Msg : SourceSend(m)
  \/ \E m \in Msg : VisibilityExpires(m)
  \/ CloseSource
  \/ CloseDest

Spec == Init /\ [][Next]_vars

\* A goroutine that can run does, and CancelTask gets to its end.
FairSpec ==
  /\ Spec
  /\ \A t \in Tasks : WF_vars(Run(t)) /\ WF_vars(CancelStore(t)) /\ WF_vars(CancelClose(t))

(***************************************************************************)
(* Properties                                                              *)
(***************************************************************************)
TypeOK ==
  /\ tasks \subseteq Tasks /\ cancelled \subseteq Tasks
  /\ status \in [Tasks -> Statuses] /\ final \in [Tasks -> Terminal]
  /\ startedAt \in [Tasks -> Ages] /\ completedAt \in [Tasks -> Ages]
  /\ sentAfterCancel \in [Tasks -> Nat]
  /\ cancel \in [task : Tasks, step : {"store", "close"}] \cup {NoCancel}
  /\ pc \in [Tasks -> {"off", "top", "receive", "each", "send", "delete", "finish", "stamp", "done"}]
  /\ batch \in [Tasks -> SUBSET Msg] /\ cur \in [Tasks -> Msg]
  /\ src \in [Msg -> SrcStates] /\ dst \subseteq Msg /\ offered \subseteq Msg
  /\ srcOpen \in BOOLEAN /\ dstOpen \in BOOLEAN

\* "Send to destination first to avoid message loss": a message put in the
\* source queue is in the source or in the destination.
NoMessageLost == \A m \in offered : src[m] # "absent" \/ m \in dst

\* A cancelled task sends at most the message it was already committed to when
\* the channel was closed, including one that waits for the rate limiter.
CancelStopsSends == \A t \in Tasks : sentAfterCancel[t] <= 1

\* The cleanup never forgets a task whose goroutine still moves messages.
RemovedTasksStopped ==
  \A t \in Tasks : startedAt[t] # "unset" /\ t \notin tasks => pc[t] \in {"stamp", "done"}

\* A task's goroutine has ended with the status it stored, or CancelTask read
\* RUNNING before that store and wrote after it.
EndedStatus ==
  \A t \in Tasks : pc[t] \in {"stamp", "done"} =>
    status[t] = final[t] \/ (status[t] = "CANCELLING" /\ (t \in cancelled \/ cancel.task = t))

\* Once its channel is closed, the goroutine of a task ends.
CancelEndsTask == \A t \in Tasks : t \in cancelled ~> pc[t] = "done"
=============================================================================
