-------------------------------- MODULE Clients --------------------------------
(***************************************************************************)
(* The clients of the two protocols, which are not part of the program:    *)
(* how they read an answer out of a document (see Replies), where a field  *)
(* that is not there is "", and how what they mean is said in the form or  *)
(* the object they send (see Protocol).  They look for an element where    *)
(* docs/api-reference.md and the libraries of AWS have it, and nowhere     *)
(* else: the code of an error within Error (docs/api-reference.md:577-586) *)
(* and the errors of a batch within its result.                            *)
(***************************************************************************)
EXTENDS Replies, Protocol

(***************************************************************************)
(* Answers                                                                 *)
(***************************************************************************)
Optional(d, f) == IF f \in DOMAIN d THEN d[f] ELSE ""

\* A set of elements as a function from their keys to their values.
ByKey(E, k, v) == [n \in {e[k] : e \in E} |-> (CHOOSE e \in E : e[k] = n)[v]]

ReadValue(v) ==
  [type |-> v.DataType, text |-> Optional(v, "StringValue"), binary |-> Optional(v, "BinaryValue")]

ReadMessage(d, system, attrs) ==
  [id |-> d.MessageId, handle |-> d.ReceiptHandle, md5 |-> d.MD5OfBody, body |-> d.Body,
   md5Attrs |-> Optional(d, "MD5OfMessageAttributes"),
   md5Sys |-> Optional(d, "MD5OfMessageSystemAttributes"), seq |-> Optional(d, "SequenceNumber"),
   sent |-> Optional(system, "SentTimestamp"),
   received |-> Optional(system, "ApproximateReceiveCount"),
   first |-> Optional(system, "ApproximateFirstReceiveTimestamp"),
   attrs |-> [n \in DOMAIN attrs |-> ReadValue(attrs[n])]]

ReadXMLMessage(d) ==
  ReadMessage(d.message, ByKey(d.Attribute, "Name", "Value"), ByKey(d.MessageAttribute, "Name", "Value"))

ReadJSONMessage(d) == ReadMessage(d.message, d.Attributes, d.MessageAttributes)

ReadReceipt(d) ==
  [id |-> d.MessageId, md5 |-> d.MD5OfMessageBody, md5Attrs |-> Optional(d, "MD5OfMessageAttributes"),
   md5Sys |-> Optional(d, "MD5OfMessageSystemAttributes"), seq |-> Optional(d, "SequenceNumber")]

ReadResult(d) == [entry |-> d.Id]

ReadSendResult(d) ==
  [entry |-> d.Id, id |-> d.MessageId, md5 |-> d.MD5OfMessageBody,
   md5Attrs |-> Optional(d, "MD5OfMessageAttributes"),
   md5Sys |-> Optional(d, "MD5OfMessageSystemAttributes"), seq |-> Optional(d, "SequenceNumber")]

ReadError(d) == [entry |-> d.Id, code |-> d.Code, fault |-> d.SenderFault]

ReadTask(d) ==
  [handle |-> d.TaskHandle, source |-> d.SourceArn, destination |-> d.DestinationArn,
   status |-> d.Status, rate |-> Optional(d, "MaxNumberOfMessagesPerSecond"),
   moved |-> d.ApproximateNumberOfMessagesMoved]

ReadResults(action, s) ==
  IF action = "SendMessageBatch" THEN Each(ReadSendResult, s) ELSE Each(ReadResult, s)

\* The answers that have the same fields in both protocols.
ReadCommon(action, d) ==
  CASE action = "SendMessage" -> [action |-> action, message |-> ReadReceipt(d)]
    [] action = "StartMessageMoveTask" -> [action |-> action, task |-> [handle |-> d.TaskHandle]]
    [] action = "CancelMessageMoveTask" ->
         [action |-> action, task |-> [moved |-> d.ApproximateNumberOfMessagesMoved]]
    [] OTHER -> [action |-> action]

\* An element that is not there: no text, and no list.
Inside(d, name) == IF name \in DOMAIN d THEN d[name] ELSE <<>>

ReadResultXML(action, d) ==
  CASE action \in {"CreateQueue", "GetQueueUrl"} -> [action |-> action, url |-> d.QueueUrl[1]]
    [] action \in {"ListQueues", "ListDeadLetterSourceQueues"} -> [action |-> action, urls |-> d.QueueUrl]
    [] action = "ReceiveMessage" -> [action |-> action, messages |-> Each(ReadXMLMessage, d.Message)]
    [] action = "GetQueueAttributes" -> [action |-> action, attrs |-> ByKey(d.Attribute, "Name", "Value")]
    [] action = "ListQueueTags" -> [action |-> action, tags |-> ByKey(d.Tag, "Key", "Value")]
    [] action \in DOMAIN BatchEntryName ->
         [action |-> action, results |-> ReadResults(action, d[BatchEntryName[action]]),
          errors |-> Each(ReadError, Inside(d, "BatchResultErrorEntry"))]
    [] action = "ListMessageMoveTasks" -> [action |-> action, tasks |-> Each(ReadTask, d.Results.member)]
    [] OTHER -> ReadCommon(action, d)

ReadXML(action, d) ==
  IF "ErrorResponse" \in DOMAIN d
  THEN [action |-> "error", code |-> Optional(Inside(d.ErrorResponse, "Error"), "Code")]
  ELSE ReadResultXML(action, Inside(d, "Result"))

ReadJSON(action, d) ==
  CASE "Type" \in DOMAIN d -> [action |-> "error", code |-> d.Type[2]]
    [] action \in {"CreateQueue", "GetQueueUrl"} -> [action |-> action, url |-> d.QueueUrl]
    [] action \in {"ListQueues", "ListDeadLetterSourceQueues"} -> [action |-> action, urls |-> d.QueueUrls]
    [] action = "ReceiveMessage" -> [action |-> action, messages |-> Each(ReadJSONMessage, d.Messages)]
    [] action = "GetQueueAttributes" -> [action |-> action, attrs |-> d.Attributes]
    [] action = "ListQueueTags" -> [action |-> action, tags |-> d.Tags]
    [] action \in DOMAIN BatchEntryName ->
         [action |-> action, results |-> ReadResults(action, d.Successful),
          errors |-> Each(ReadError, d.Failed)]
    [] action = "ListMessageMoveTasks" -> [action |-> action, tasks |-> Each(ReadTask, d.Results)]
    [] OTHER -> ReadCommon(action, d)

(***************************************************************************)
(* Requests: what a client means is a record of MeaningFields              *)
(***************************************************************************)
TextParams ==
  [url |-> "QueueUrl", name |-> "QueueName", body |-> "MessageBody", handle |-> "ReceiptHandle",
   prefix |-> "Prefix", dedup |-> "MessageDeduplicationId", group |-> "MessageGroupId",
   source |-> "SourceArn", destination |-> "DestinationArn", task |-> "TaskHandle"]

\* With what a number is when it is left out.
NumberParams ==
  [delay |-> [name |-> "DelaySeconds", default |-> 0],
   visibility |-> [name |-> "VisibilityTimeout", default |-> -1],
   max |-> [name |-> "MaxNumberOfMessages", default |-> 1],
   wait |-> [name |-> "WaitTimeSeconds", default |-> -1],
   rate |-> [name |-> "MaxNumberOfMessagesPerSecond", default |-> 0]]

MeaningFields ==
  DOMAIN TextParams \cup DOMAIN NumberParams
    \cup {"action", "attrs", "attrNames", "msgAttrs", "msgAttrNames", "sysAttrs", "tags", "tagKeys", "entries"}

EntryTexts ==
  [id |-> "Id", body |-> "MessageBody", handle |-> "ReceiptHandle",
   dedup |-> "MessageDeduplicationId", group |-> "MessageGroupId"]

EntryNumbers == [delay |-> "DelaySeconds", visibility |-> "VisibilityTimeout"]

EntryFields == DOMAIN EntryTexts \cup DOMAIN EntryNumbers \cup {"msgAttrs", "sysAttrs"}

\* The binary value is a text, which may not be the base64 it should be.
IsAttribute(a) == HasFields(a, {"type", "text", "binary"}) /\ a.type # ""

IsSequence(s) == s \in Seq({s[i] : i \in DOMAIN s})

UsesAttributes(action) == action \in {"CreateQueue", "SetQueueAttributes"}

(***************************************************************************)
(* Forms                                                                   *)
(***************************************************************************)
IsForm(f) == \A k \in DOMAIN f : IsSequence(k)

\* A text under one of the spellings of its parameter; what is empty may be
\* left out.
SaysText(f, spellings, text) ==
  \E s \in spellings : Get(f, <<s>>) = text /\ \A other \in spellings \ {s} : Get(f, <<other>>) = ""

Spellings(name) == {name} \cup {Lower[n] : n \in DOMAIN Lower \cap {name}}

Stands(text, number, default) ==
  IF text = "" THEN number = default ELSE text \in DOMAIN Numerals /\ Numerals[text] = number

SaysNumber(f, name, number, default) ==
  \E text \in {""} \cup DOMAIN Numerals :
    SaysText(f, Spellings(name), text) /\ Stands(text, number, default)

\* The keys that go on after a prefix, and with what.
Under(f, prefix) == {k \in DOMAIN f : Len(k) > Len(prefix) /\ SubSeq(k, 1, Len(prefix)) = prefix}
Parts(f, prefix) == {k[Len(prefix) + 1] : k \in Under(f, prefix)}

\* Texts of increasing numbers.
Numbering(n, numbers) ==
  {number \in [1..n -> {t \in DOMAIN Numerals : Numerals[t] \in numbers}] :
     \A i, j \in 1..n : i < j => Numerals[number[i]] < Numerals[number[j]]}

\* A list has increasing numbers, not always the next one.
SaysList(f, prefix, names, max) ==
  /\ IsSequence(names) /\ \A i \in DOMAIN names : names[i] # ""
  /\ \E number \in Numbering(Len(names), 1..max) :
       /\ Parts(f, <<prefix>>) = {number[i] : i \in DOMAIN names}
       /\ \A i \in DOMAIN names : Get(f, <<prefix, number[i]>>) = names[i]

\* A single name may come without a number.
SaysNames(f, prefix, names) ==
  LET single == Get(f, <<prefix>>) IN
  \/ single = "" /\ SaysList(f, prefix, names, 20)
  \/ single # "" /\ names = <<single>> /\ Parts(f, <<prefix>>) = {}

\* Every name of a table stands once.
NamesEach(name, table) ==
  /\ {name[t] : t \in DOMAIN name} = DOMAIN table /\ "" \notin DOMAIN table
  /\ \A t, u \in DOMAIN name : name[t] = name[u] => t = u

\* A table has any numbers up to a maximum.
SaysTable(f, prefix, key, table, max) ==
  LET T    == Parts(f, <<prefix>>)
      name == [t \in T |-> Get(f, <<prefix, t, key>>)]
  IN
  /\ NamesEach(name, table)
  /\ \A t \in T : /\ t \in DOMAIN Numerals /\ Numerals[t] \in 1..max
                  /\ Get(f, <<prefix, t, "Value">>) = table[name[t]]

\* Attributes of a message have a number each.
SaysTyped(f, prefix, table) ==
  LET T              == Parts(f, prefix)
      Field(t, rest) == Get(f, prefix \o <<t>> \o rest)
      name           == [t \in T |-> Field(t, <<"Name">>)]
  IN
  /\ IsTable(table) /\ \A n \in DOMAIN table : IsAttribute(table[n])
  /\ NamesEach(name, table)
  /\ T \subseteq DOMAIN Numerals /\ \A t, u \in T : Numerals[t] = Numerals[u] => t = u
  /\ \A t \in T : LET a == table[name[t]] IN
       /\ Field(t, <<"Value", "DataType">>) = a.type
       /\ Field(t, <<"Value", "StringValue">>) = a.text
       /\ Field(t, <<"Value", "BinaryValue">>) = a.binary

\* The numbers under a prefix are the ones from 1 to how many there are.
Gapless(f, prefix) ==
  LET T == Parts(f, prefix) IN {Numerals[t] : t \in T} = 1..Cardinality(T)

\* So are those of the attributes of every entry.
GaplessEntries(f) ==
  \A p \in BatchPrefixes : \A t \in Parts(f, <<p>>) : Gapless(f, <<p, t, "MessageAttribute">>)

\* An attribute of a queue has a number or is a parameter of its own, whose name
\* is not one of the protocol.
SaysAttributes(f, attrs) ==
  LET flat == {n \in DOMAIN attrs : <<n>> \in DOMAIN f} IN
  /\ IsTable(attrs)
  /\ SaysTable(f, "Attribute", "Name", [n \in DOMAIN attrs \ flat |-> attrs[n]], 20)
  /\ \A n \in flat : f[<<n>>] = attrs[n] /\ ~IsKnownParam(n)
  /\ \A k \in DOMAIN f : Len(k) = 1 => k[1] \in flat \/ IsKnownParam(k[1])

SaysEntry(f, at, e) ==
  /\ HasFields(e, EntryFields)
  /\ \A x \in DOMAIN EntryTexts : Get(f, at \o <<EntryTexts[x]>>) = e[x]
  /\ \A x \in DOMAIN EntryNumbers : Stands(Get(f, at \o <<EntryNumbers[x]>>), e[x], 0)
  /\ SaysTyped(f, at \o <<"MessageAttribute">>, e.msgAttrs)
  /\ SaysTyped(f, at \o <<"MessageSystemAttribute">>, e.sysAttrs)

\* Entries have increasing numbers, under one prefix, and none is empty.
SaysEntries(f, entries) ==
  /\ IsSequence(entries)
  /\ \E p \in BatchPrefixes : \E number \in Numbering(Len(entries), Int) :
       /\ Parts(f, <<p>>) = {number[i] : i \in DOMAIN entries}
       /\ \A k \in Under(f, <<p>>) : Len(k) > 2
       /\ \A i \in DOMAIN entries : SaysEntry(f, <<p, number[i]>>, entries[i])
       /\ \A other \in BatchPrefixes \ {p} : Parts(f, <<other>>) = {}

\* A form, as a function from keys, says what m is.
FormSays(f, m) ==
  /\ HasFields(m, MeaningFields) /\ IsForm(f)
  /\ SaysText(f, {"Action", "action"}, m.action)
  /\ \A x \in DOMAIN TextParams : SaysText(f, Spellings(TextParams[x]), m[x])
  /\ \A x \in DOMAIN NumberParams :
       SaysNumber(f, NumberParams[x].name, m[x], NumberParams[x].default)
  /\ UsesAttributes(m.action) => SaysAttributes(f, m.attrs)
  /\ SaysNames(f, "AttributeName", m.attrNames)
  /\ SaysTyped(f, <<"MessageAttribute">>, m.msgAttrs)
  /\ SaysNames(f, "MessageAttributeName", m.msgAttrNames)
  /\ SaysTyped(f, <<"MessageSystemAttribute">>, m.sysAttrs)
  /\ IsTable(m.tags) /\ SaysTable(f, "Tag", "Key", m.tags, 50)
  /\ SaysList(f, "TagKey", m.tagKeys, 50)
  /\ SaysEntries(f, m.entries)

(***************************************************************************)
(* JSON objects: a field has its value, or is left out when that is empty  *)
(***************************************************************************)
HasText(o, n, text) == IF n \in DOMAIN o THEN o[n] = [text |-> text] ELSE text = ""

HasNumber(o, n, number, default) ==
  IF n \in DOMAIN o THEN o[n] = [num |-> number] ELSE number = default

HasTexts(o, n, texts) ==
  IF n \in DOMAIN o
  THEN IsSequence(texts) /\ o[n] = [list |-> [i \in DOMAIN texts |-> [text |-> texts[i]]]]
  ELSE texts = <<>>

HasTextMap(o, n, table) ==
  IF n \in DOMAIN o
  THEN IsTable(table) /\ o[n] = [map |-> [k \in DOMAIN table |-> [text |-> table[k]]]]
  ELSE table = <<>>

HasTyped(o, n, table) ==
  IF n \in DOMAIN o
  THEN /\ IsTable(table) /\ "map" \in DOMAIN o[n] /\ DOMAIN o[n].map = DOMAIN table
       /\ \A k \in DOMAIN table :
            LET v == o[n].map[k] IN
            /\ IsAttribute(table[k]) /\ "map" \in DOMAIN v
            /\ HasText(v.map, "DataType", table[k].type)
            /\ HasText(v.map, "StringValue", table[k].text)
            /\ HasText(v.map, "BinaryValue", table[k].binary)
  ELSE table = <<>>

HasEntry(o, e) ==
  /\ HasFields(e, EntryFields)
  /\ \A x \in DOMAIN EntryTexts : HasText(o, EntryTexts[x], e[x])
  /\ \A x \in DOMAIN EntryNumbers : HasNumber(o, EntryNumbers[x], e[x], 0)
  /\ HasTyped(o, "MessageAttributes", e.msgAttrs)
  /\ HasTyped(o, "MessageSystemAttributes", e.sysAttrs)

HasEntries(o, entries) ==
  IF "Entries" \in DOMAIN o
  THEN LET v == o["Entries"] IN
       /\ IsSequence(entries)
       /\ "list" \in DOMAIN v /\ IsSequence(v.list) /\ Len(v.list) = Len(entries)
       /\ \A i \in DOMAIN entries : "map" \in DOMAIN v.list[i] /\ HasEntry(v.list[i].map, entries[i])
  ELSE entries = <<>>

\* An object says what m is, but for the action, which the header has.
ObjectSays(o, m) ==
  /\ HasFields(m, MeaningFields)
  /\ \A x \in DOMAIN TextParams : HasText(o, TextParams[x], m[x])
  /\ \A x \in DOMAIN NumberParams : HasNumber(o, NumberParams[x].name, m[x], NumberParams[x].default)
  /\ HasTextMap(o, "Attributes", m.attrs) /\ HasTextMap(o, "Tags", m.tags)
  /\ HasTexts(o, "AttributeNames", m.attrNames) /\ HasTexts(o, "TagKeys", m.tagKeys)
  /\ HasTexts(o, "MessageAttributeNames", m.msgAttrNames)
  /\ HasTyped(o, "MessageAttributes", m.msgAttrs)
  /\ HasTyped(o, "MessageSystemAttributes", m.sysAttrs)
  /\ HasEntries(o, m.entries)

(***************************************************************************)
(* What a handler is given of what a client means                          *)
(***************************************************************************)
\* Of a table of typed values a handler is given only what was said, where a
\* binary that is not base64 is empty; all of it if it is complete.
TypedKept(handed, said, complete) ==
  /\ DOMAIN handed \subseteq DOMAIN said /\ (complete => DOMAIN handed = DOMAIN said)
  /\ \A n \in DOMAIN handed : handed[n] = [said[n] EXCEPT !.binary = Decoded(@)]

\* The two tables of an entry or a request, and every other field of an entry.
TablesKept(handed, said, allMsg, allSys) ==
  /\ TypedKept(handed.msgAttrs, said.msgAttrs, allMsg)
  /\ TypedKept(handed.sysAttrs, said.sysAttrs, allSys)

EntryKept(handed, said, allMsg, allSys) ==
  /\ \A x \in EntryFields \ {"msgAttrs", "sysAttrs"} : handed[x] = said[x]
  /\ TablesKept(handed, said, allMsg, allSys)

\* Only two handlers look at the attributes of a queue.
FieldsKept(q, m) ==
  \A x \in MeaningFields \ {"msgAttrs", "sysAttrs", "entries"} :
    q[x] = m[x] \/ (x = "attrs" /\ ~UsesAttributes(m.action))

EntriesKept(q, m, allMsg, allSys) ==
  /\ DOMAIN q.entries = DOMAIN m.entries
  /\ \A i \in DOMAIN m.entries : EntryKept(q.entries[i], m.entries[i], allMsg, allSys)

\* A JSON request is handed over but for the message attributes of its entries
\* (JSONBatchEntry has none, though docs/api-reference.md:352 lists them).
ObjectKept(q, m) ==
  FieldsKept(q, m) /\ TablesKept(q, m, TRUE, TRUE) /\ EntriesKept(q, m, FALSE, TRUE)

\* A form is handed over but for the system attributes of its entries (line 353
\* lists them) and for attributes of messages whose numbers leave a gap.
FormKept(q, m, f) ==
  /\ FieldsKept(q, m)
  /\ TablesKept(q, m, Gapless(f, <<"MessageAttribute">>), Gapless(f, <<"MessageSystemAttribute">>))
  /\ EntriesKept(q, m, GaplessEntries(f), FALSE)
=============================================================================
