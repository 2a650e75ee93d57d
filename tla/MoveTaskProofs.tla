--------------------------- MODULE MoveTaskProofs ---------------------------
(***************************************************************************)
(* Theorems about MoveTask, for all constants satisfying MoveAssumption:   *)
(* any number of tasks and messages, any backend.                          *)
(***************************************************************************)
EXTENDS MoveTask, TLAPS

USE DEF taskVars, runVars, qVars

(***************************************************************************)
(* Types                                                                   *)
(***************************************************************************)
\* A manager without tasks has the types.
LEMMA InitType == Init => TypeOK
<1> SUFFICES ASSUME Init PROVE TypeOK
  OBVIOUS
<1>1. (CHOOSE m \in Msg : TRUE) \in Msg
  BY MoveAssumption
<1>2. cur \in [Tasks -> Msg]
  BY <1>1 DEF Init
<1>3. src \in [Msg -> SrcStates] /\ offered \subseteq Msg
  BY DEF Init, SrcStates
<1> QED BY <1>2, <1>3 DEF Init, TypeOK, Terminal, Statuses, Ages

\* The steps of runTask keep the types.
LEMMA RunType == ASSUME TypeOK, NEW t \in Tasks, Run(t) PROVE TypeOK'
<1>1. CASE RunTop(t)
  BY <1>1 DEF RunTop, FinishWith, TypeOK, Terminal
<1>2. CASE RunReceive(t)
  <2>1. CASE UNCHANGED <<batch, src>> /\ \E s \in {"FAILED", "COMPLETED"} : FinishWith(t, s)
    BY <1>2, <2>1 DEF RunReceive, FinishWith, TypeOK, Terminal
  <2>2. ASSUME NEW S \in SUBSET Visible, batch' = [batch EXCEPT ![t] = S],
               src' = [m \in Msg |-> IF m \in S THEN "held" ELSE src[m]],
               pc' = [pc EXCEPT ![t] = "each"], UNCHANGED final
        PROVE  TypeOK'
    <3>1. S \subseteq Msg
      BY DEF Visible
    <3>2. batch' \in [Tasks -> SUBSET Msg] /\ src' \in [Msg -> SrcStates]
      BY <2>2, <3>1 DEF TypeOK, SrcStates
    <3>3. pc' \in [Tasks -> {"off", "top", "receive", "each", "send", "delete", "finish", "stamp", "done"}]
      BY <2>2 DEF TypeOK
    <3> QED BY <1>2, <2>2, <3>2, <3>3 DEF RunReceive, TypeOK
  <2> QED BY <1>2, <2>1, <2>2 DEF RunReceive
<1>3. CASE RunEach(t)
  <2>1. batch'  \in [Tasks -> SUBSET Msg] /\ cur' \in [Tasks -> Msg]
    BY <1>3 DEF RunEach, FinishWith, TypeOK
  <2>2. final' \in [Tasks -> Terminal]
    BY <1>3 DEF RunEach, FinishWith, TypeOK, Terminal
  <2>3. pc' \in [Tasks -> {"off", "top", "receive", "each", "send", "delete", "finish", "stamp", "done"}]
    BY <1>3 DEF RunEach, FinishWith, TypeOK
  <2> QED BY <1>3, <2>1, <2>2, <2>3 DEF RunEach, TypeOK
<1>4. CASE RunSend(t)
  <2>1. dst' \subseteq Msg
    BY <1>4 DEF RunSend, TypeOK
  <2>2. sentAfterCancel' \in [Tasks -> Nat]
    BY <1>4 DEF RunSend, TypeOK
  <2>3. pc' \in [Tasks -> {"off", "top", "receive", "each", "send", "delete", "finish", "stamp", "done"}]
    BY <1>4 DEF RunSend, TypeOK
  <2> QED BY <1>4, <2>1, <2>2, <2>3 DEF RunSend, TypeOK
<1>5. CASE RunDelete(t)
  <2>1. src' \in [Msg -> SrcStates]
    <3>1. CASE Backend = "memory" \/ ~srcOpen
      BY <1>5, <3>1 DEF RunDelete, DeleteEmptyHandle, TypeOK
    <3>2. CASE Backend = "sqlite" /\ srcOpen
      BY <1>5, <3>2 DEF RunDelete, DeleteEmptyHandle, TypeOK, SrcStates
    <3>3. CASE Backend = "badger" /\ srcOpen
      BY <1>5, <3>3 DEF RunDelete, DeleteEmptyHandle, TypeOK, SrcStates
    <3> QED BY <3>1, <3>2, <3>3, MoveAssumption
  <2> QED BY <1>5, <2>1 DEF RunDelete, TypeOK
<1>6. CASE FinishStatus(t)
  BY <1>6 DEF FinishStatus, TypeOK, Statuses
<1>7. CASE FinishStamp(t)
  BY <1>7 DEF FinishStamp, TypeOK, Ages
<1> QED BY <1>1, <1>2, <1>3, <1>4, <1>5, <1>6, <1>7 DEF Run

\* Every action preserves the types.
LEMMA NextType == ASSUME TypeOK, [Next]_vars PROVE TypeOK'
<1>1. ASSUME NEW t \in Tasks, StartTask(t) PROVE TypeOK'
  BY <1>1 DEF StartTask, TypeOK, Statuses, Ages
<1>2. ASSUME NEW t \in Tasks, CancelCheck(t) PROVE TypeOK'
  BY <1>2 DEF CancelCheck, TypeOK
<1>3. ASSUME NEW t \in Tasks, CancelStore(t) PROVE TypeOK'
  BY <1>3 DEF CancelStore, TypeOK, Statuses
<1>4. ASSUME NEW t \in Tasks, CancelClose(t) PROVE TypeOK'
  BY <1>4 DEF CancelClose, TypeOK
<1>5. CASE RemoveStaleTasks
  BY <1>5 DEF RemoveStaleTasks, TypeOK
<1>6. ASSUME NEW t \in Tasks, StartAges(t) PROVE TypeOK'
  BY <1>6 DEF StartAges, TypeOK, Ages
<1>7. ASSUME NEW t \in Tasks, CompletionAges(t) PROVE TypeOK'
  BY <1>7 DEF CompletionAges, TypeOK, Ages
<1>8. ASSUME NEW t \in Tasks, Run(t) PROVE TypeOK'
  BY <1>8, RunType
<1>9. ASSUME NEW m \in Msg, SourceSend(m) PROVE TypeOK'
  BY <1>9 DEF SourceSend, TypeOK, SrcStates
<1>10. ASSUME NEW m \in Msg, VisibilityExpires(m) PROVE TypeOK'
  BY <1>10 DEF VisibilityExpires, TypeOK, SrcStates
<1>11. CASE CloseSource \/ CloseDest
  BY <1>11 DEF CloseSource, CloseDest, TypeOK
<1>12. CASE UNCHANGED vars
  BY <1>12 DEF vars, TypeOK
<1> QED
  BY <1>1, <1>2, <1>3, <1>4, <1>5, <1>6, <1>7, <1>8, <1>9, <1>10, <1>11, <1>12 DEF Next

\* Every variable of the move tasks keeps its type; a goroutine stores only
\* final statuses.
THEOREM TypeCorrect == Spec => []TypeOK
BY InitType, NextType, PTL DEF Spec

(***************************************************************************)
(* Cancelling                                                              *)
(***************************************************************************)
\* Only a send that the goroutine was committed to follows the closing of its
\* channel, and nothing commits it to another.
SendInv ==
  \A t \in Tasks :
    /\ t \notin cancelled => sentAfterCancel[t] = 0
    /\ sentAfterCancel[t] <= 1
    /\ sentAfterCancel[t] = 1 => pc[t] # "send"

\* Every action preserves SendInv.
LEMMA NextSend == ASSUME TypeOK, SendInv, [Next]_vars PROVE SendInv'
<1>1. ASSUME UNCHANGED sentAfterCancel, cancelled \subseteq cancelled',
             \A t \in Tasks : pc'[t] = "send" => pc[t] = "send" \/ t \notin cancelled
      PROVE  SendInv'
  <2>1. \A t \in Tasks : t \notin cancelled => sentAfterCancel[t] # 1
    BY DEF SendInv
  <2> QED BY <1>1, <2>1 DEF SendInv
<1>2. ASSUME NEW t \in Tasks, RunSend(t) PROVE SendInv'
  <2>1. /\ UNCHANGED cancelled /\ pc[t] = "send" /\ pc'[t] # "send"
        /\ sentAfterCancel' = [sentAfterCancel EXCEPT ![t] =
             IF t \in cancelled THEN sentAfterCancel[t] + 1 ELSE sentAfterCancel[t]]
        /\ \A k \in Tasks : k # t => pc'[k] = pc[k]
    BY <1>2 DEF RunSend, TypeOK
  <2>2. sentAfterCancel[t] \in Nat
    BY DEF TypeOK
  <2>3. sentAfterCancel[t] = 0
    BY <2>1, <2>2 DEF SendInv
  <2>4. sentAfterCancel'[t] = IF t \in cancelled THEN 1 ELSE 0
    BY <2>1, <2>3 DEF TypeOK
  <2>5. \A k \in Tasks : k # t => sentAfterCancel'[k] = sentAfterCancel[k]
    BY <2>1 DEF TypeOK
  <2> QED BY <2>1, <2>4, <2>5 DEF SendInv
<1>3. ASSUME NEW t \in Tasks, StartTask(t) PROVE SendInv'
  BY <1>1, <1>3 DEF StartTask, TypeOK
<1>4. ASSUME NEW t \in Tasks, CancelClose(t) PROVE SendInv'
  BY <1>1, <1>4 DEF CancelClose
<1>5. ASSUME NEW t \in Tasks, RunEach(t) PROVE SendInv'
  BY <1>1, <1>5 DEF RunEach, FinishWith, TypeOK
<1>6. ASSUME NEW t \in Tasks, RunTop(t) PROVE SendInv'
  BY <1>1, <1>6 DEF RunTop, FinishWith, TypeOK
<1>7. ASSUME NEW t \in Tasks, RunReceive(t) PROVE SendInv'
  BY <1>1, <1>7 DEF RunReceive, FinishWith, TypeOK
<1>8. ASSUME NEW t \in Tasks, RunDelete(t) \/ FinishStatus(t) \/ FinishStamp(t) PROVE SendInv'
  BY <1>1, <1>8 DEF RunDelete, FinishStatus, FinishStamp, TypeOK
<1>9. CASE UNCHANGED <<cancelled, pc, sentAfterCancel>>
  BY <1>1, <1>9
<1> QED
  BY <1>2, <1>3, <1>4, <1>5, <1>6, <1>7, <1>8, <1>9
  DEF Next, vars, CancelCheck, CancelStore, RemoveStaleTasks, StartAges, CompletionAges, Run,
      SourceSend, VisibilityExpires, CloseSource, CloseDest

\* After its channel is closed a task sends at most the message it was
\* committed to.
THEOREM CancelledTasksStopSending == Spec => []CancelStopsSends
<1>1. Init => SendInv
  BY DEF Init, SendInv
<1>2. SendInv => CancelStopsSends
  BY DEF SendInv, CancelStopsSends
<1> QED BY <1>1, <1>2, InitType, NextType, NextSend, PTL DEF Spec

(***************************************************************************)
(* The cleanup, and how a task ends                                        *)
(***************************************************************************)
\* A goroutine that has not stored its status has left RUNNING or CANCELLING
\* there, which is what keeps the cleanup away from its task.
TaskInv ==
  \A t \in Tasks :
    /\ startedAt[t] = "unset" => pc[t] = "off"
    /\ pc[t] \notin {"stamp", "done"} => status[t] \in {"RUNNING", "CANCELLING"}
    /\ startedAt[t] # "unset" /\ t \notin tasks => pc[t] \in {"stamp", "done"}

\* The steps of runTask preserve TaskInv: only FinishStatus changes the status,
\* and none goes back from the end.
LEMMA RunTask == ASSUME TypeOK, TaskInv, NEW t \in Tasks, Run(t) PROVE TaskInv'
<1>1. UNCHANGED <<tasks, startedAt>> /\ pc[t] # "off"
  BY DEF Run, RunTop, RunReceive, RunEach, RunSend, RunDelete, FinishStatus, FinishStamp
<1>2. \A k \in Tasks : k # t => pc'[k] = pc[k] /\ status'[k] = status[k]
  BY DEF Run, RunTop, RunReceive, RunEach, RunSend, RunDelete, FinishStatus, FinishStamp,
         FinishWith, TypeOK
<1>3. pc[t] \in {"stamp", "done"} => pc'[t] \in {"stamp", "done"}
  BY DEF Run, RunTop, RunReceive, RunEach, RunSend, RunDelete, FinishStatus, FinishStamp, TypeOK
<1>4. pc'[t] \in {"stamp", "done"} \/ (status' = status /\ pc[t] \notin {"stamp", "done"})
  BY DEF Run, RunTop, RunReceive, RunEach, RunSend, RunDelete, FinishStatus, FinishStamp,
         FinishWith, TypeOK
<1> QED BY <1>1, <1>2, <1>3, <1>4 DEF TaskInv

\* Every action preserves TaskInv.
LEMMA NextTask == ASSUME TypeOK, TaskInv, [Next]_vars PROVE TaskInv'
<1>1. ASSUME NEW t \in Tasks, StartTask(t) PROVE TaskInv'
  BY <1>1 DEF StartTask, TaskInv, TypeOK
<1>2. ASSUME NEW t \in Tasks, CancelStore(t) PROVE TaskInv'
  BY <1>2 DEF CancelStore, TaskInv, TypeOK
<1>3. CASE RemoveStaleTasks
  <2>1. \A t \in StaleTasks : t \in Tasks /\ pc[t] \in {"stamp", "done"}
    BY DEF StaleTasks, TaskInv, TypeOK
  <2> QED BY <1>3, <2>1 DEF RemoveStaleTasks, TaskInv
<1>4. ASSUME NEW t \in Tasks, StartAges(t) PROVE TaskInv'
  BY <1>4 DEF StartAges, TaskInv, TypeOK
<1>5. ASSUME NEW t \in Tasks, Run(t) PROVE TaskInv'
  BY <1>5, RunTask
<1>6. CASE UNCHANGED <<tasks, status, startedAt, pc>>
  BY <1>6 DEF TaskInv
<1> QED
  BY <1>1, <1>2, <1>3, <1>4, <1>5, <1>6
  DEF Next, vars, CancelCheck, CancelClose, CompletionAges, SourceSend, VisibilityExpires,
      CloseSource, CloseDest

\* removeStaleTasks never forgets a task whose goroutine still moves messages.
THEOREM CleanupSparesRunningTasks == Spec => []RemovedTasksStopped
<1>1. Init => TaskInv
  BY DEF Init, TaskInv
<1>2. TaskInv => RemovedTasksStopped
  BY DEF TaskInv, RemovedTasksStopped
<1> QED BY <1>1, <1>2, InitType, NextType, NextTask, PTL DEF Spec

\* The steps of runTask preserve EndedStatus.
LEMMA RunEnded == ASSUME TypeOK, EndedStatus, NEW t \in Tasks, Run(t) PROVE EndedStatus'
<1>1. UNCHANGED <<cancelled, cancel>>
  BY DEF Run, RunTop, RunReceive, RunEach, RunSend, RunDelete, FinishStatus, FinishStamp
<1>2. \A k \in Tasks : k # t => pc'[k] = pc[k] /\ status'[k] = status[k] /\ final'[k] = final[k]
  BY DEF Run, RunTop, RunReceive, RunEach, RunSend, RunDelete, FinishStatus, FinishStamp,
         FinishWith, TypeOK
<1>3. CASE FinishStatus(t)
  <2>1. status'[t] = final'[t]
    BY <1>3 DEF FinishStatus, TypeOK
  <2> QED BY <1>1, <1>2, <2>1 DEF EndedStatus
<1>4. CASE FinishStamp(t)
  <2>1. pc[t] = "stamp" /\ UNCHANGED <<status, final>>
    BY <1>4 DEF FinishStamp
  <2> QED BY <1>1, <1>2, <2>1 DEF EndedStatus
<1>5. CASE RunTop(t) \/ RunReceive(t) \/ RunEach(t) \/ RunSend(t) \/ RunDelete(t)
  <2>1. pc'[t] \notin {"stamp", "done"}
    BY <1>5 DEF RunTop, RunReceive, RunEach, RunSend, RunDelete, FinishWith, TypeOK
  <2> QED BY <1>1, <1>2, <2>1 DEF EndedStatus
<1> QED BY <1>3, <1>4, <1>5 DEF Run

\* Every action preserves EndedStatus: CancelTask overwrites the status of an
\* ended task only while it holds mtm.mu, and then closes the channel.
LEMMA NextEnded == ASSUME TypeOK, EndedStatus, [Next]_vars PROVE EndedStatus'
<1>1. ASSUME NEW t \in Tasks, StartTask(t) PROVE EndedStatus'
  BY <1>1 DEF StartTask, EndedStatus, TypeOK
<1>2. ASSUME NEW t \in Tasks, CancelCheck(t) PROVE EndedStatus'
  <2>1. \A k \in Tasks : cancel.task # k
    BY <1>2, MoveAssumption DEF CancelCheck, MuFree, NoCancel
  <2> QED BY <1>2, <2>1 DEF CancelCheck, EndedStatus
<1>3. ASSUME NEW t \in Tasks, CancelStore(t) PROVE EndedStatus'
  <2>1. cancel.task = t /\ cancel'.task = t /\ UNCHANGED <<pc, final, cancelled>>
    BY <1>3 DEF CancelStore
  <2>2. status'[t] = "CANCELLING" /\ \A k \in Tasks : k # t => status'[k] = status[k]
    BY <1>3 DEF CancelStore, TypeOK
  <2> QED BY <2>1, <2>2 DEF EndedStatus
<1>4. ASSUME NEW t \in Tasks, CancelClose(t) PROVE EndedStatus'
  <2>1. cancel.task = t /\ cancelled' = cancelled \cup {t} /\ UNCHANGED <<pc, final, status>>
    BY <1>4 DEF CancelClose
  <2> QED BY <2>1 DEF EndedStatus
<1>5. ASSUME NEW t \in Tasks, Run(t) PROVE EndedStatus'
  BY <1>5, RunEnded
<1>6. CASE UNCHANGED <<pc, status, final, cancelled, cancel>>
  BY <1>6 DEF EndedStatus
<1> QED
  BY <1>1, <1>2, <1>3, <1>4, <1>5, <1>6
  DEF Next, vars, RemoveStaleTasks, StartAges, CompletionAges, SourceSend, VisibilityExpires,
      CloseSource, CloseDest

\* A task ends with the status its goroutine stored, unless CancelTask read
\* RUNNING before that store and wrote CANCELLING after it.
THEOREM TasksEndWithTheirStatus == Spec => []EndedStatus
<1>1. Init => EndedStatus
  BY DEF Init, EndedStatus
<1> QED BY <1>1, InitType, NextType, NextEnded, PTL DEF Spec

(***************************************************************************)
(* Messages                                                                *)
(***************************************************************************)
\* What NoMessageLost rests on for the memory store: the delete with the empty
\* handle takes nothing, so the source keeps whatever it was offered.
SourceKeeps == \A m \in offered : src[m] # "absent"

\* With the memory store every action preserves SourceKeeps.
LEMMA NextKeeps ==
  ASSUME Backend = "memory", TypeOK, SourceKeeps, [Next]_vars
  PROVE  SourceKeeps'
<1>1. ASSUME NEW t \in Tasks, RunReceive(t) PROVE SourceKeeps'
  <2>1. UNCHANGED offered /\ \A m \in Msg : src'[m] = src[m] \/ src'[m] = "held"
    BY <1>1 DEF RunReceive, TypeOK
  <2> QED BY <2>1 DEF SourceKeeps, TypeOK
<1>2. ASSUME NEW t \in Tasks, RunDelete(t) PROVE SourceKeeps'
  <2>1. src' = src /\ offered' = offered
    BY <1>2 DEF RunDelete, DeleteEmptyHandle
  <2> QED BY <2>1 DEF SourceKeeps
<1>3. ASSUME NEW m \in Msg, SourceSend(m) PROVE SourceKeeps'
  BY <1>3 DEF SourceSend, SourceKeeps, TypeOK
<1>4. ASSUME NEW m \in Msg, VisibilityExpires(m) PROVE SourceKeeps'
  BY <1>4 DEF VisibilityExpires, SourceKeeps, TypeOK
<1>5. CASE UNCHANGED <<src, offered>>
  BY <1>5 DEF SourceKeeps
<1> QED
  BY <1>1, <1>2, <1>3, <1>4, <1>5
  DEF Next, vars, Run, StartTask, CancelCheck, CancelStore, CancelClose, RemoveStaleTasks,
      StartAges, CompletionAges, RunTop, RunEach, RunSend, FinishStatus, FinishStamp,
      CloseSource, CloseDest

\* With the memory store no move task loses a message, whatever is cancelled,
\* dropped as a duplicate or deleted meanwhile; with SQLite and Badger one does
\* (run doc_move_loss).
THEOREM MemoryMovesLoseNothing == (Backend = "memory") => (Spec => []NoMessageLost)
<1> SUFFICES ASSUME Backend = "memory" PROVE Spec => []NoMessageLost
  OBVIOUS
<1>1. Init => SourceKeeps
  BY DEF Init, SourceKeeps
<1>2. SourceKeeps => NoMessageLost
  BY DEF SourceKeeps, NoMessageLost
<1>3. TypeOK /\ SourceKeeps /\ [Next]_vars => SourceKeeps'
  BY NextKeeps
<1> QED BY <1>1, <1>2, <1>3, InitType, NextType, PTL DEF Spec
=============================================================================
