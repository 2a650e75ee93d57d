------------------------------- MODULE Protocol -------------------------------
(***************************************************************************)
(* The two protocols (apps/go/server/protocol and the adapters in          *)
(* apps/go/server/handlers): how a form and a JSON object become the one   *)
(* request the handlers know.                                              *)
(*                                                                         *)
(* A form is a function from keys, which are texts split at their dots, to *)
(* texts.  A JSON value is [text |-> t], [num |-> n], [list |-> s] or      *)
(* [map |-> f]; an object is a function from names to values.  What a      *)
(* request does not have is "" or the empty function.                      *)
(***************************************************************************)
EXTENDS Integers, Sequences, FiniteSets

CONSTANTS
  Numerals,  \* [text -> the number it stands for]
  Lower,     \* [parameter -> its lower-case spelling]
  NotBase64  \* texts that are not base64

\* strconv.Atoi fails on an empty text.
ASSUME ProtocolAssumption == Numerals \in [DOMAIN Numerals -> Int] /\ "" \notin DOMAIN Numerals

(***************************************************************************)
(* Form parameters                                                         *)
(***************************************************************************)
\* Each of them also with a small first letter, as action.
ReservedNames ==
  {"Action", "Version", "QueueUrl", "QueueName", "MessageBody", "DelaySeconds",
   "VisibilityTimeout", "MaxNumberOfMessages", "WaitTimeSeconds", "ReceiptHandle",
   "AttributeName", "MessageAttributeName", "Attribute", "TagKey", "TagValue", "Prefix",
   "NextToken", "MaxResults", "MessageDeduplicationId", "MessageGroupId",
   "MessageSystemAttribute", "action"}

\* Names with the prefixes AWS and X-Amz.
SigningNames == {"AWSAccessKeyId", "AWSSecretAccessKey", "X-Amz-Date", "X-Amz-Signature"}

Atoi(text) == IF text \in DOMAIN Numerals THEN Numerals[text] ELSE 0

Get(f, key) == IF key \in DOMAIN f THEN f[key] ELSE ""

GetParam(f, name) ==
  IF Get(f, <<name>>) # "" THEN Get(f, <<name>>)
  ELSE IF name \in DOMAIN Lower THEN Get(f, <<Lower[name]>>) ELSE ""

\* GetDelaySeconds and its like: a default when absent, 0 when malformed.
GetInt(f, name, default) == IF GetParam(f, name) = "" THEN default ELSE Atoi(GetParam(f, name))

\* The index texts of keys prefix.N..., with at least more parts after N.
Indices(f, prefix, more) ==
  {k[Len(prefix) + 1] : k \in {k \in DOMAIN f : /\ Len(k) >= Len(prefix) + 1 + more
                                                /\ SubSeq(k, 1, Len(prefix)) = prefix
                                                /\ k[Len(prefix) + 1] \in DOMAIN Numerals}}

\* The elements of a set in the order of their numbers.
Sorted(T, number) ==
  [j \in 1..Cardinality(T) |->
     CHOOSE t \in T : Cardinality({x \in T : number[x] < number[t]}) = j - 1]

InOrder(T) == Sorted(T, Numerals)

Within(T, max) == {t \in T : Numerals[t] \in 1..max}

\* prefix.N and prefix: a list of names.
NameList(f, prefix, max) ==
  LET used == InOrder({t \in Within(Indices(f, <<prefix>>, 0), max) : Get(f, <<prefix, t>>) # ""})
  IN  [j \in DOMAIN used |-> f[<<prefix, used[j]>>]]

GetAttributeNames(f) ==
  NameList(f, "AttributeName", 20) \o
    (IF Get(f, <<"AttributeName">>) = "" THEN <<>> ELSE <<f[<<"AttributeName">>]>>)

GetMessageAttributeNames(f) ==
  NameList(f, "MessageAttributeName", 20) \o
    (IF Get(f, <<"MessageAttributeName">>) = "" THEN <<>> ELSE <<f[<<"MessageAttributeName">>]>>)

GetTagKeys(f) == NameList(f, "TagKey", 50)

\* prefix.N.name and prefix.N.Value: the last of a name counts.
NamedValues(f, prefix, name, max) ==
  LET used  == {t \in Within(Indices(f, <<prefix>>, 1), max) : Get(f, <<prefix, t, name>>) # ""}
      Of(n) == {t \in used : f[<<prefix, t, name>>] = n}
      Last(n) == CHOOSE t \in Of(n) : \A u \in Of(n) : Numerals[u] <= Numerals[t]
  IN  [n \in {f[<<prefix, t, name>>] : t \in used} |-> Get(f, <<prefix, Last(n), "Value">>)]

GetTags(f) == NamedValues(f, "Tag", "Key", 50)

IsKnownParam(name) == name \in ReservedNames \cup SigningNames

\* The numbered attributes, and every flat parameter that is not known.
ParseQueryAttributes(f) ==
  LET flat    == {k[1] : k \in {k \in DOMAIN f : Len(k) = 1 /\ ~IsKnownParam(k[1])}}
      indexed == NamedValues(f, "Attribute", "Name", 20)
  IN  [n \in DOMAIN indexed \cup flat |-> IF n \in flat THEN f[<<n>>] ELSE indexed[n]]

(***************************************************************************)
(* Message attributes: [type, text, binary]                                *)
(***************************************************************************)
Decoded(binary) == IF binary \in NotBase64 THEN "" ELSE binary

\* Mutant: the numbers of the attributes start at 0.
FromZero(T) == {t \in T : Numerals[t] \in 0..(Cardinality(T) - 1)}

\* Only the numbers up to how many there are.
Contiguous(T) == {t \in T : Numerals[t] \in 1..Cardinality(T)}

\* Those with a name and a type, under prefix.N.Name and prefix.N.Value.*.
ParseQueryAttrs(f, prefix) ==
  LET Field(t, rest) == Get(f, prefix \o <<t>> \o rest)
      used  == {t \in Contiguous(Indices(f, prefix, 1)) :
                  Field(t, <<"Name">>) # "" /\ Field(t, <<"Value", "DataType">>) # ""}
      Of(n) == {t \in used : Field(t, <<"Name">>) = n}
      Last(n) == CHOOSE t \in Of(n) : \A u \in Of(n) : Numerals[u] <= Numerals[t]
  IN  [n \in {Field(t, <<"Name">>) : t \in used} |->
         [type   |-> Field(Last(n), <<"Value", "DataType">>),
          text   |-> Field(Last(n), <<"Value", "StringValue">>),
          binary |-> Decoded(Field(Last(n), <<"Value", "BinaryValue">>))]]

(***************************************************************************)
(* Batch entries                                                           *)
(***************************************************************************)
BatchPrefixes ==
  {"SendMessageBatchRequestEntry", "DeleteMessageBatchRequestEntry",
   "ChangeMessageVisibilityBatchRequestEntry"}

\* A request has entries of one prefix; system attributes are not read.
ParseBatchEntries(f) ==
  LET Entry(p, t) ==
        [id |-> Get(f, <<p, t, "Id">>), body |-> Get(f, <<p, t, "MessageBody">>),
         delay |-> Atoi(Get(f, <<p, t, "DelaySeconds">>)),
         visibility |-> Atoi(Get(f, <<p, t, "VisibilityTimeout">>)),
         handle |-> Get(f, <<p, t, "ReceiptHandle">>),
         dedup |-> Get(f, <<p, t, "MessageDeduplicationId">>),
         group |-> Get(f, <<p, t, "MessageGroupId">>),
         msgAttrs |-> ParseQueryAttrs(f, <<p, t, "MessageAttribute">>),
         sysAttrs |-> <<>>]
      used == {p \in BatchPrefixes : Indices(f, <<p>>, 1) # {}}
  IN
  IF used = {} THEN <<>>
  ELSE LET p == CHOOSE p \in used : TRUE
           order == InOrder(Indices(f, <<p>>, 1))
       IN  [j \in DOMAIN order |-> Entry(p, order[j])]

\* url.ParseQuery: the first value of each key.
FormValues(pairs) ==
  [k \in {pairs[i][1] : i \in DOMAIN pairs} |->
     pairs[CHOOSE i \in DOMAIN pairs : pairs[i][1] = k /\ \A j \in 1..(i - 1) : pairs[j][1] # k][2]]

QueryAction(f) == IF Get(f, <<"Action">>) # "" THEN Get(f, <<"Action">>) ELSE Get(f, <<"action">>)

\* ParseQueryRequest and what the handlers get from it.
QueryRequest(f) ==
  [action |-> QueryAction(f), url |-> GetParam(f, "QueueUrl"), name |-> GetParam(f, "QueueName"),
   body |-> GetParam(f, "MessageBody"), delay |-> GetInt(f, "DelaySeconds", 0),
   visibility |-> GetInt(f, "VisibilityTimeout", -1), max |-> GetInt(f, "MaxNumberOfMessages", 1),
   wait |-> GetInt(f, "WaitTimeSeconds", -1), handle |-> GetParam(f, "ReceiptHandle"),
   prefix |-> GetParam(f, "Prefix"), attrs |-> ParseQueryAttributes(f),
   attrNames |-> GetAttributeNames(f), msgAttrs |-> ParseQueryAttrs(f, <<"MessageAttribute">>),
   msgAttrNames |-> GetMessageAttributeNames(f),
   sysAttrs |-> ParseQueryAttrs(f, <<"MessageSystemAttribute">>), tags |-> GetTags(f),
   tagKeys |-> GetTagKeys(f), dedup |-> GetParam(f, "MessageDeduplicationId"),
   group |-> GetParam(f, "MessageGroupId"), source |-> GetParam(f, "SourceArn"),
   destination |-> GetParam(f, "DestinationArn"), task |-> GetParam(f, "TaskHandle"),
   rate |-> GetInt(f, "MaxNumberOfMessagesPerSecond", 0), entries |-> ParseBatchEntries(f)]

(***************************************************************************)
(* JSON objects                                                            *)
(***************************************************************************)
IsText(v) == "text" \in DOMAIN v
IsMap(v)  == "map" \in DOMAIN v

Text(o, n) == IF n \in DOMAIN o /\ IsText(o[n]) THEN o[n].text ELSE ""
Number(o, n) == IF n \in DOMAIN o /\ "num" \in DOMAIN o[n] THEN o[n].num ELSE 0
Map(o, n)  == IF n \in DOMAIN o /\ IsMap(o[n]) THEN o[n].map ELSE <<>>
List(o, n) == IF n \in DOMAIN o /\ "list" \in DOMAIN o[n] THEN o[n].list ELSE <<>>

\* The default is for a field that is absent, not for one of another type.
IntOr(o, n, default) == IF n \in DOMAIN o THEN Number(o, n) ELSE default

\* The elements of a list at the positions in J.
ElementsAt(l, J) == LET at == Sorted(J, [i \in J |-> i]) IN [j \in DOMAIN at |-> l[at[j]]]

\* What is not a text is left out.
Texts(o, n) ==
  LET l     == List(o, n)
      texts == ElementsAt(l, {i \in DOMAIN l : IsText(l[i])})
  IN  [i \in DOMAIN texts |-> texts[i].text]

TextMap(o, n) ==
  LET m == Map(o, n) IN [k \in {k \in DOMAIN m : IsText(m[k])} |-> m[k].text]

\* parseSystemAttrsFromMap and GetMessageAttributes.
ParseAttrsFromMap(m) ==
  [n \in {n \in DOMAIN m : IsMap(m[n])} |->
     [type |-> Text(m[n].map, "DataType"), text |-> Text(m[n].map, "StringValue"),
      binary |-> Decoded(Text(m[n].map, "BinaryValue"))]]

\* JSONBatchEntry has no message attributes.
JSONBatchEntries(o) ==
  LET l    == List(o, "Entries")
      maps == ElementsAt(l, {i \in DOMAIN l : IsMap(l[i])})
  IN
  [i \in DOMAIN maps |->
     LET m == maps[i].map IN
     [id |-> Text(m, "Id"), body |-> Text(m, "MessageBody"), delay |-> Number(m, "DelaySeconds"),
      visibility |-> Number(m, "VisibilityTimeout"), handle |-> Text(m, "ReceiptHandle"),
      dedup |-> Text(m, "MessageDeduplicationId"), group |-> Text(m, "MessageGroupId"),
      msgAttrs |-> <<>>, sysAttrs |-> ParseAttrsFromMap(Map(m, "MessageSystemAttributes"))]]

\* The action is in the header X-Amz-Target, after its last dot.
JSONRequest(target, o) ==
  [action |-> IF target = <<>> THEN "" ELSE target[Len(target)],
   url |-> Text(o, "QueueUrl"), name |-> Text(o, "QueueName"), body |-> Text(o, "MessageBody"),
   delay |-> Number(o, "DelaySeconds"), visibility |-> IntOr(o, "VisibilityTimeout", -1),
   max |-> IntOr(o, "MaxNumberOfMessages", 1), wait |-> IntOr(o, "WaitTimeSeconds", -1),
   handle |-> Text(o, "ReceiptHandle"), prefix |-> Text(o, "Prefix"),
   attrs |-> TextMap(o, "Attributes"), attrNames |-> Texts(o, "AttributeNames"),
   msgAttrs |-> ParseAttrsFromMap(Map(o, "MessageAttributes")),
   msgAttrNames |-> Texts(o, "MessageAttributeNames"),
   sysAttrs |-> ParseAttrsFromMap(Map(o, "MessageSystemAttributes")), tags |-> TextMap(o, "Tags"),
   tagKeys |-> Texts(o, "TagKeys"), dedup |-> Text(o, "MessageDeduplicationId"),
   group |-> Text(o, "MessageGroupId"), source |-> Text(o, "SourceArn"),
   destination |-> Text(o, "DestinationArn"), task |-> Text(o, "TaskHandle"),
   rate |-> Number(o, "MaxNumberOfMessagesPerSecond"), entries |-> JSONBatchEntries(o)]

(***************************************************************************)
(* DetectProtocol: by the headers X-Amz-Target and Content-Type            *)
(***************************************************************************)
IsJSON(target, contentType) == target # <<>> \/ contentType = "application/x-amz-json-1.0"
=============================================================================
