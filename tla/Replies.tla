-------------------------------- MODULE Replies --------------------------------
(***************************************************************************)
(* What a handler answers and the two documents it becomes                 *)
(* (apps/go/server/handlers/marshal.go over protocol/marshal.go): a        *)
(* document is a function from element or field names to their values, a   *)
(* repeated element a sequence, one without a fixed order a set.  What is  *)
(* within another element is a document of its own: Result stands for the  *)
(* element that is named for the action, and ErrorResponse is a root.      *)
(*                                                                         *)
(* A response is [action, ...] with those of url, urls, message, messages, *)
(* attrs, tags, results, errors, task and tasks that its action fills in,  *)
(* or [action |-> "error", code].  Numbers are texts, "" for one that is   *)
(* left out.  Every document has the request id as well.                   *)
(***************************************************************************)
EXTENDS Integers, Sequences

\* omitempty: the optional fields are there when they are not empty.
Omitting(optional, doc) == [f \in {f \in DOMAIN doc : f \notin optional \/ doc[f] # ""} |-> doc[f]]

(***************************************************************************)
(* The responses of the handlers: which fields each action fills in        *)
(***************************************************************************)
HasFields(x, names) == x = [f \in names |-> x[f]]

IsTable(f) == f = [n \in DOMAIN f |-> f[n]]

ReceiptFields == {"id", "md5", "md5Attrs", "md5Sys", "seq"}

IsMessage(m) ==
  /\ HasFields(m, ReceiptFields \cup {"handle", "body", "sent", "received", "first", "attrs"})
  /\ IsTable(m.attrs) /\ \A n \in DOMAIN m.attrs : HasFields(m.attrs[n], {"type", "text", "binary"})

TaskFields == {"handle", "source", "destination", "status", "rate", "moved"}

Batches == {"SendMessageBatch", "DeleteMessageBatch", "ChangeMessageVisibilityBatch"}

ResultFields(action) == {"entry"} \cup IF action = "SendMessageBatch" THEN ReceiptFields ELSE {}

IsBatchResponse(r) ==
  /\ HasFields(r, {"action", "results", "errors"}) /\ IsTable(r.results) /\ IsTable(r.errors)
  /\ \A i \in DOMAIN r.results : HasFields(r.results[i], ResultFields(r.action))
  /\ \A i \in DOMAIN r.errors : HasFields(r.errors[i], {"entry", "code", "fault"})

IsResponse(r) ==
  CASE r.action \in {"CreateQueue", "GetQueueUrl"} -> HasFields(r, {"action", "url"})
    [] r.action \in {"ListQueues", "ListDeadLetterSourceQueues"} -> HasFields(r, {"action", "urls"})
    [] r.action = "SendMessage" ->
         HasFields(r, {"action", "message"}) /\ HasFields(r.message, ReceiptFields)
    [] r.action = "ReceiveMessage" ->
         /\ HasFields(r, {"action", "messages"}) /\ IsTable(r.messages)
         /\ \A i \in DOMAIN r.messages : IsMessage(r.messages[i])
    [] r.action = "GetQueueAttributes" -> HasFields(r, {"action", "attrs"}) /\ IsTable(r.attrs)
    [] r.action = "ListQueueTags" -> HasFields(r, {"action", "tags"}) /\ IsTable(r.tags)
    [] r.action \in Batches -> IsBatchResponse(r)
    [] r.action = "StartMessageMoveTask" ->
         HasFields(r, {"action", "task"}) /\ HasFields(r.task, {"handle"})
    [] r.action = "CancelMessageMoveTask" ->
         HasFields(r, {"action", "task"}) /\ HasFields(r.task, {"moved"})
    [] r.action = "ListMessageMoveTasks" ->
         /\ HasFields(r, {"action", "tasks"}) /\ IsTable(r.tasks)
         /\ \A i \in DOMAIN r.tasks : HasFields(r.tasks[i], TaskFields)
    [] r.action = "error" -> HasFields(r, {"action", "code"})
    [] OTHER -> HasFields(r, {"action"})

Checksums == {"MD5OfMessageAttributes", "MD5OfMessageSystemAttributes", "SequenceNumber"}

\* A map as elements with a name and a value.
Elements(f, k, v) == {[x \in {k, v} |-> IF x = k THEN n ELSE f[n]] : n \in DOMAIN f}

Each(Op(_), s) == [i \in DOMAIN s |-> Op(s[i])]

(***************************************************************************)
(* Messages                                                                *)
(***************************************************************************)
SystemAttributes(m) ==
  Omitting({"SentTimestamp", "ApproximateReceiveCount", "ApproximateFirstReceiveTimestamp"},
    [SentTimestamp |-> m.sent, ApproximateReceiveCount |-> m.received,
     ApproximateFirstReceiveTimestamp |-> m.first])

AttributeValue(a) ==
  Omitting({"StringValue", "BinaryValue"},
    [DataType |-> a.type, StringValue |-> a.text, BinaryValue |-> a.binary])

AttributeValues(m) == [n \in DOMAIN m.attrs |-> AttributeValue(m.attrs[n])]

Fixed(m) ==
  Omitting(Checksums,
    [MessageId |-> m.id, ReceiptHandle |-> m.handle, MD5OfBody |-> m.md5, Body |-> m.body,
     MD5OfMessageAttributes |-> m.md5Attrs, MD5OfMessageSystemAttributes |-> m.md5Sys,
     SequenceNumber |-> m.seq])

\* Mutant: the message's own attributes are forgotten.
BuildBareXMLMessage(m) ==
  [message |-> Fixed(m), Attribute |-> Elements(SystemAttributes(m), "Name", "Value"),
   MessageAttribute |-> {}]

BuildXMLMessage(m) ==
  [message |-> Fixed(m), Attribute |-> Elements(SystemAttributes(m), "Name", "Value"),
   MessageAttribute |-> Elements(AttributeValues(m), "Name", "Value")]

BuildJSONMessage(m) ==
  [message |-> Fixed(m), Attributes |-> SystemAttributes(m), MessageAttributes |-> AttributeValues(m)]

\* SendMessage answers with a part of its message.
Receipt(id, m) ==
  Omitting(Checksums,
    [x \in {id, "MessageId", "MD5OfMessageBody"} \cup Checksums |->
       CASE x = "MessageId" -> m.id [] x = "MD5OfMessageBody" -> m.md5
         [] x = "MD5OfMessageAttributes" -> m.md5Attrs
         [] x = "MD5OfMessageSystemAttributes" -> m.md5Sys
         [] x = "SequenceNumber" -> m.seq [] OTHER -> m.entry])

Result(b)     == [Id |-> b.entry]
SendResult(b) == Receipt("Id", b)
Error(e)      == [Id |-> e.entry, Code |-> e.code, SenderFault |-> e.fault]

MoveTask(t) ==
  Omitting({"MaxNumberOfMessagesPerSecond"},
    [TaskHandle |-> t.handle, SourceArn |-> t.source, DestinationArn |-> t.destination,
     Status |-> t.status, MaxNumberOfMessagesPerSecond |-> t.rate,
     ApproximateNumberOfMessagesMoved |-> t.moved])

(***************************************************************************)
(* Documents                                                               *)
(***************************************************************************)
BatchEntryName ==
  [SendMessageBatch |-> "SendMessageBatchResultEntry",
   DeleteMessageBatch |-> "DeleteMessageBatchResultEntry",
   ChangeMessageVisibilityBatch |-> "ChangeMessageVisibilityBatchResultEntry"]

ResultOf(action, b) == IF action = "SendMessageBatch" THEN SendResult(b) ELSE Result(b)

\* The actions that are not here have no result.  The errors of a batch are
\* beside the result, not within it.
MarshalXMLResponse(r) ==
  CASE r.action \in {"CreateQueue", "GetQueueUrl"} -> [Result |-> [QueueUrl |-> <<r.url>>]]
    [] r.action \in {"ListQueues", "ListDeadLetterSourceQueues"} -> [Result |-> [QueueUrl |-> r.urls]]
    [] r.action = "SendMessage" -> [Result |-> Receipt("MessageId", r.message)]
    [] r.action = "ReceiveMessage" -> [Result |-> [Message |-> Each(BuildXMLMessage, r.messages)]]
    [] r.action = "GetQueueAttributes" -> [Result |-> [Attribute |-> Elements(r.attrs, "Name", "Value")]]
    [] r.action = "ListQueueTags" -> [Result |-> [Tag |-> Elements(r.tags, "Key", "Value")]]
    [] r.action \in DOMAIN BatchEntryName ->
         [Result |-> [x \in {BatchEntryName[r.action]} |->
                        [i \in DOMAIN r.results |-> ResultOf(r.action, r.results[i])]],
          BatchResultErrorEntry |-> Each(Error, r.errors)]
    [] r.action = "StartMessageMoveTask" -> [Result |-> [TaskHandle |-> r.task.handle]]
    [] r.action = "CancelMessageMoveTask" ->
         [Result |-> [ApproximateNumberOfMessagesMoved |-> r.task.moved]]
    [] r.action = "ListMessageMoveTasks" -> [Result |-> [Results |-> [member |-> Each(MoveTask, r.tasks)]]]
    [] OTHER -> <<>>

MarshalJSONResponse(r) ==
  CASE r.action \in {"CreateQueue", "GetQueueUrl"} -> [QueueUrl |-> r.url]
    [] r.action \in {"ListQueues", "ListDeadLetterSourceQueues"} -> [QueueUrls |-> r.urls]
    [] r.action = "SendMessage" -> Receipt("MessageId", r.message)
    [] r.action = "ReceiveMessage" -> [Messages |-> Each(BuildJSONMessage, r.messages)]
    [] r.action = "GetQueueAttributes" -> [Attributes |-> r.attrs]
    [] r.action = "ListQueueTags" -> [Tags |-> r.tags]
    [] r.action \in DOMAIN BatchEntryName ->
         [Successful |-> [i \in DOMAIN r.results |-> ResultOf(r.action, r.results[i])],
          Failed |-> Each(Error, r.errors)]
    [] r.action = "StartMessageMoveTask" -> [TaskHandle |-> r.task.handle]
    [] r.action = "CancelMessageMoveTask" -> [ApproximateNumberOfMessagesMoved |-> r.task.moved]
    [] r.action = "ListMessageMoveTasks" -> [Results |-> Each(MoveTask, r.tasks)]
    [] OTHER -> <<>>

\* NewErrorResponse: an error in either protocol.  Its fields are right under the
\* root.
ToXML(code)  == [ErrorResponse |-> [Code |-> code]]
ToJSON(code) == [Type |-> <<"com.amazonaws.sqs", code>>]

MarshalResponse(r, json) ==
  CASE r.action = "error" -> IF json THEN ToJSON(r.code) ELSE ToXML(r.code)
    [] OTHER -> IF json THEN MarshalJSONResponse(r) ELSE MarshalXMLResponse(r)
=============================================================================
