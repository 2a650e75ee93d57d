-------------------------------- MODULE MCFront --------------------------------
(***************************************************************************)
(* A small instance of Front.  Clients build their requests from what they *)
(* mean: FormOf and JSONOf are the client libraries of the two protocols,  *)
(* and Sign is the one of Signature Version 4.                             *)
(***************************************************************************)
EXTENDS Front, TLC

F == INSTANCE FiniteSetsExt

CONSTANTS p1, p2

ProcSymmetry == Permutations(Procs)

AllNumerals == [t \in {"0", "1", "2", "3", "5", "10"} |->
  CASE t = "0" -> 0 [] t = "1" -> 1 [] t = "2" -> 2 [] t = "3" -> 3 [] t = "5" -> 5 [] OTHER -> 10]

Digits(n) == CHOOSE t \in DOMAIN Numerals : Numerals[t] = n

MCLower == [QueueUrl |-> "queueurl", MessageBody |-> "messagebody"]

\* The texts a<FF> and a<FE> end in a byte that is not UTF-8: both are written
\* with the replacement character.
MCEncodeURI(text) == IF text \in {"a<FF>", "a<FE>"} THEN "a%EF%BF%BD" ELSE text

\* Values are joined as they are read, with a comma in the one text that has one.
MCJoin(values) == IF values = <<"a,b">> THEN <<"a", "b">> ELSE values

(***************************************************************************)
(* What clients mean                                                       *)
(***************************************************************************)
Nothing ==
  [action |-> "ListQueues", url |-> "", name |-> "", body |-> "", delay |-> 0, visibility |-> -1,
   max |-> 1, wait |-> -1, handle |-> "", prefix |-> "", attrs |-> <<>>, attrNames |-> <<>>,
   msgAttrs |-> <<>>, msgAttrNames |-> <<>>, sysAttrs |-> <<>>, tags |-> <<>>, tagKeys |-> <<>>,
   dedup |-> "", group |-> "", source |-> "", destination |-> "", task |-> "", rate |-> 0,
   entries |-> <<>>]

Color == [color |-> [type |-> "String", text |-> "red", binary |-> ""]]
Both  == Color @@ [shape |-> [type |-> "Binary", text |-> "", binary |-> "AAE="]]
Garbled == [shape |-> [type |-> "Binary", text |-> "", binary |-> "!!"]]
Trace == [AWSTraceHeader |-> [type |-> "String", text |-> "trace", binary |-> ""]]

NoEntry ==
  [id |-> "", body |-> "", delay |-> 0, visibility |-> 0, handle |-> "", dedup |-> "", group |-> "",
   msgAttrs |-> <<>>, sysAttrs |-> <<>>]

ToQueue(action) == [Nothing EXCEPT !.action = action, !.url = "q1"]

Meanings ==
  [send |-> [ToQueue("SendMessage") EXCEPT !.body = "hello", !.delay = 5, !.msgAttrs = Both,
               !.sysAttrs = Trace, !.dedup = "d", !.group = "g"],
   garbled |-> [ToQueue("SendMessage") EXCEPT !.body = "hello", !.msgAttrs = Garbled],
   receive |-> [ToQueue("ReceiveMessage") EXCEPT !.max = 10, !.visibility = 0, !.wait = 0,
               !.attrNames = <<"All">>, !.msgAttrNames = <<"color", "shape">>],
   create |-> [Nothing EXCEPT !.action = "CreateQueue", !.name = "q1",
               !.attrs = [VisibilityTimeout |-> "5", FifoQueue |-> "true"], !.tags = [env |-> "dev"]],
   set    |-> [ToQueue("SetQueueAttributes") EXCEPT !.attrs = [MaximumMessageSize |-> "1024"]],
   batch  |-> [ToQueue("SendMessageBatch") EXCEPT !.entries =
               <<[NoEntry EXCEPT !.id = "a", !.body = "x", !.msgAttrs = Both],
                 [NoEntry EXCEPT !.id = "b", !.body = "y", !.delay = 2, !.sysAttrs = Trace],
                 [NoEntry EXCEPT !.body = "z", !.group = "g", !.dedup = "d"]>>],
   changes |-> [ToQueue("ChangeMessageVisibilityBatch") EXCEPT !.entries =
               <<[NoEntry EXCEPT !.id = "a", !.handle = "h1", !.visibility = 10],
                 [NoEntry EXCEPT !.id = "b", !.handle = "h2"]>>],
   deletes |-> [ToQueue("DeleteMessageBatch") EXCEPT !.entries =
               <<[NoEntry EXCEPT !.id = "a", !.handle = "h1"]>>],
   delete |-> [ToQueue("DeleteMessage") EXCEPT !.handle = "h1"],
   get    |-> [ToQueue("GetQueueAttributes") EXCEPT !.attrNames = <<"QueueArn", "Policy">>],
   untag  |-> [ToQueue("UntagQueue") EXCEPT !.tagKeys = <<"env", "team">>],
   tags   |-> ToQueue("ListQueueTags"),
   list   |-> [Nothing EXCEPT !.prefix = "q"],
   move   |-> [Nothing EXCEPT !.action = "StartMessageMoveTask", !.source = "dlq",
               !.destination = "q1", !.rate = 5],
   cancel |-> [Nothing EXCEPT !.action = "CancelMessageMoveTask", !.task = "t"],
   tasks  |-> [Nothing EXCEPT !.action = "ListMessageMoveTasks", !.source = "dlq"]]

(***************************************************************************)
(* Forms, as sequences of pairs, and JSON objects in the same shape        *)
(***************************************************************************)
InSomeOrder(S) == F!FoldSet(LAMBDA x, s : Append(s, x), <<>>, S)

Numbered(prefix, s) == {<<prefix \o <<Digits(i)>>, s[i]>> : i \in DOMAIN s}

NameValues(prefix, name, f) ==
  LET n == InSomeOrder(DOMAIN f) IN
  UNION {{<<prefix \o <<Digits(i), name>>, n[i]>>, <<prefix \o <<Digits(i), "Value">>, f[n[i]]>>}
         : i \in DOMAIN n}

TypedValues(prefix, f) ==
  LET n == InSomeOrder(DOMAIN f)
      At3(i, x) == prefix \o <<Digits(i), "Value", x>>
  IN
  UNION {{<<prefix \o <<Digits(i), "Name">>, n[i]>>, <<At3(i, "DataType"), f[n[i]].type>>,
          <<At3(i, "StringValue"), f[n[i]].text>>, <<At3(i, "BinaryValue"), f[n[i]].binary>>}
         : i \in DOMAIN n}

NumberUnless(n, default) == IF n = default THEN "" ELSE Digits(n)

\* The entries have the numbers 2, 3 and 10.
EntryNumber == <<"2", "3", "10">>

EntryPairs(action, i, e) ==
  LET k(x) == <<action \o "RequestEntry", EntryNumber[i]>> \o x IN
  {<<k(<<"Id">>), e.id>>, <<k(<<"MessageBody">>), e.body>>, <<k(<<"ReceiptHandle">>), e.handle>>,
   <<k(<<"DelaySeconds">>), NumberUnless(e.delay, 0)>>,
   <<k(<<"VisibilityTimeout">>), NumberUnless(e.visibility, 0)>>,
   <<k(<<"MessageDeduplicationId">>), e.dedup>>, <<k(<<"MessageGroupId">>), e.group>>}
  \cup TypedValues(k(<<"MessageAttribute">>), e.msgAttrs)
  \cup TypedValues(k(<<"MessageSystemAttribute">>), e.sysAttrs)

PairsOf(m) ==
  {<<<<"Action">>, m.action>>, <<<<"QueueUrl">>, m.url>>, <<<<"QueueName">>, m.name>>,
   <<<<"MessageBody">>, m.body>>, <<<<"DelaySeconds">>, NumberUnless(m.delay, 0)>>,
   <<<<"VisibilityTimeout">>, NumberUnless(m.visibility, -1)>>,
   <<<<"MaxNumberOfMessages">>, NumberUnless(m.max, 1)>>,
   <<<<"WaitTimeSeconds">>, NumberUnless(m.wait, -1)>>, <<<<"ReceiptHandle">>, m.handle>>,
   <<<<"Prefix">>, m.prefix>>, <<<<"MessageDeduplicationId">>, m.dedup>>,
   <<<<"MessageGroupId">>, m.group>>, <<<<"SourceArn">>, m.source>>,
   <<<<"DestinationArn">>, m.destination>>, <<<<"TaskHandle">>, m.task>>,
   <<<<"MaxNumberOfMessagesPerSecond">>, NumberUnless(m.rate, 0)>>, <<<<"Version">>, "2012-11-05">>}
  \cup Numbered(<<"AttributeName">>, m.attrNames)
  \cup Numbered(<<"MessageAttributeName">>, m.msgAttrNames)
  \cup Numbered(<<"TagKey">>, m.tagKeys)
  \cup NameValues(<<"Attribute">>, "Name", m.attrs) \cup NameValues(<<"Tag">>, "Key", m.tags)
  \cup TypedValues(<<"MessageAttribute">>, m.msgAttrs)
  \cup TypedValues(<<"MessageSystemAttribute">>, m.sysAttrs)
  \cup UNION {EntryPairs(m.action, i, m.entries[i]) : i \in DOMAIN m.entries}

FormOf(m) == InSomeOrder({pair \in PairsOf(m) : pair[2] # ""})

IsEmpty(v) == \/ "text" \in DOMAIN v /\ v.text = ""
              \/ "map" \in DOMAIN v /\ DOMAIN v.map = {}
              \/ "list" \in DOMAIN v /\ v.list = <<>>

ObjectOf(f) == [n \in {n \in DOMAIN f : ~IsEmpty(f[n])} |-> f[n]]

TextValue(t)  == [text |-> t]
NumValue(n, default) == IF n = default THEN TextValue("") ELSE [num |-> n]
TextMapOf(f)  == [map |-> [n \in DOMAIN f |-> TextValue(f[n])]]
TextList(s)   == [list |-> [i \in DOMAIN s |-> TextValue(s[i])]]
AttrMapOf(f) ==
  [map |-> [n \in DOMAIN f |-> [map |-> ObjectOf(
     [DataType |-> TextValue(f[n].type), StringValue |-> TextValue(f[n].text),
      BinaryValue |-> TextValue(f[n].binary)])]]]

EntryObject(e) == [map |-> ObjectOf(
  [Id |-> TextValue(e.id), MessageBody |-> TextValue(e.body), DelaySeconds |-> NumValue(e.delay, 0),
   VisibilityTimeout |-> NumValue(e.visibility, 0), ReceiptHandle |-> TextValue(e.handle),
   MessageDeduplicationId |-> TextValue(e.dedup), MessageGroupId |-> TextValue(e.group),
   MessageAttributes |-> AttrMapOf(e.msgAttrs), MessageSystemAttributes |-> AttrMapOf(e.sysAttrs)])]

JSONOf(m) ==
  LET o == ObjectOf(
    [QueueUrl |-> TextValue(m.url), QueueName |-> TextValue(m.name), MessageBody |-> TextValue(m.body),
     DelaySeconds |-> NumValue(m.delay, 0), VisibilityTimeout |-> NumValue(m.visibility, -1),
     MaxNumberOfMessages |-> NumValue(m.max, 1), WaitTimeSeconds |-> NumValue(m.wait, -1),
     ReceiptHandle |-> TextValue(m.handle), Prefix |-> TextValue(m.prefix),
     Attributes |-> TextMapOf(m.attrs), AttributeNames |-> TextList(m.attrNames),
     MessageAttributes |-> AttrMapOf(m.msgAttrs), MessageAttributeNames |-> TextList(m.msgAttrNames),
     MessageSystemAttributes |-> AttrMapOf(m.sysAttrs), Tags |-> TextMapOf(m.tags),
     TagKeys |-> TextList(m.tagKeys), MessageDeduplicationId |-> TextValue(m.dedup),
     MessageGroupId |-> TextValue(m.group), SourceArn |-> TextValue(m.source),
     DestinationArn |-> TextValue(m.destination), TaskHandle |-> TextValue(m.task),
     MaxNumberOfMessagesPerSecond |-> NumValue(m.rate, 0),
     Entries |-> [list |-> [i \in DOMAIN m.entries |-> EntryObject(m.entries[i])]]])
  IN  InSomeOrder({<<<<n>>, o[n]>> : n \in DOMAIN o})

(***************************************************************************)
(* Requests                                                                *)
(***************************************************************************)
Short(pairs) ==
  [size |-> 1, params |-> pairs, head |-> Len(pairs), whole |-> TRUE, parses |-> TRUE, headParses |-> TRUE]

\* A body that is cut after some of its pairs, which parses in a form.
Long(pairs, head) == [Short(pairs) EXCEPT !.size = MaxBodySize + 1, !.head = head]

LongText(pairs) == [Long(pairs, 1) EXCEPT !.headParses = FALSE]

Plain ==
  [method |-> "POST", path |-> <<"acct", "q1">>, query |-> <<>>, queryParses |-> TRUE,
   headers |-> <<>>, host |-> "h", body |-> Short(<<>>), auth |-> NoHeader, secret |-> "", scope |-> <<"", "">>, signedAs |-> <<>>,
   meant |-> Nothing]

Form(m) == [Plain EXCEPT !.body = Short(FormOf(m)), !.meant = m]

JSONPost(m) ==
  [Plain EXCEPT !.body = Short(JSONOf(m)), !.meant = m,
     !.headers = [x \in {"x-amz-target"} |-> <<<<"AmazonSQS", m.action>>>>]]

Listing == Form(Nothing)

Legacy(key, secret) == <<<<<<"AWSAccessKeyId">>, key>>, <<<<"AWSSecretAccessKey">>, secret>>>>

ByForm(m, key, secret) ==
  [Plain EXCEPT !.body = Short(FormOf(m) \o Legacy(key, secret)), !.meant = m, !.secret = secret]

ByQuery(key, secret) == [Listing EXCEPT !.query = Legacy(key, secret), !.secret = secret]

\* A client signs the request it is about to send.
SignedNames == {"host", "x-amz-date", "accept"}

\* What it signs instead of its canonical request.
SignAs(Canonical(_), region, service, r, key, secret) ==
  LET written ==
        [r EXCEPT !.headers = @ @@ [x \in {"x-amz-date"} |-> <<"date">>],
                  !.auth = [credential |-> <<key, "day", region, service, "aws4_request">>,
                            signed |-> SignedNames, signature |-> ""],
                  !.secret = secret, !.scope = <<region, service>>]
      covered == [written EXCEPT !.signedAs = Canonical([Covered(written) EXCEPT !.body = r.body])]
  IN
  [covered EXCEPT !.auth.signature = ClientSignature(covered)]

Same(c) == c
\* A client that writes a byte as it is, whether UTF-8 or not.
ByteByByte(c) == [c EXCEPT !.path = <<"a%FF", "q1">>]

SignFor(region, service, r, key, secret) == SignAs(Same, region, service, r, key, secret)

Sign(r, key, secret) == SignFor("eu", "sqs", r, key, secret)

TwoParams == <<<<<<"a">>, "1">>, <<<<"a">>, "2">>, <<<<"b">>, "1">>>>

Gets == [Listing EXCEPT !.method = "GET", !.query = FormOf(Nothing), !.body = Short(<<>>)]

Signing ==
  LET good == Sign([Listing EXCEPT !.query = TwoParams], "AK1", "s1")
      stated(hash) == [Listing EXCEPT !.headers = [x \in {"x-amz-content-sha256"} |-> <<hash>>]]
      bytes == [Listing EXCEPT !.path = <<"a<FF>", "q1">>]
      accepts(values) == [x \in {"accept"} |-> values]
  IN
  [good      |-> good,
   wrong     |-> Sign(Listing, "AK1", "s2"),
   unknown   |-> Sign(Listing, "AK9", "s1"),
   reordered |-> [good EXCEPT !.query = <<TwoParams[3], TwoParams[2], TwoParams[1]>>],
   param     |-> [good EXCEPT !.query = SubSeq(TwoParams, 1, 2)],
   path      |-> [good EXCEPT !.path = <<"acct", "q2">>],
   method    |-> [good EXCEPT !.method = "PUT", !.meant.action = ""],
   body      |-> [good EXCEPT !.body = Form(Meanings.delete).body, !.meant = Meanings.delete],
   host      |-> [good EXCEPT !.host = "other"],
   date      |-> [good EXCEPT !.headers = [x \in {"x-amz-date"} |-> <<"later">>]],
   otherbyte |-> [Sign(bytes, "AK1", "s1") EXCEPT !.path = <<"a<FE>", "q1">>],
   bytewise  |-> SignAs(ByteByByte, "eu", "sqs", bytes, "AK1", "s1"),
   joined    |-> [Sign([Listing EXCEPT !.headers = accepts(<<"a", "b">>)], "AK1", "s1") EXCEPT
                    !.headers = accepts(<<"a,b">>) @@ @],
   dropped   |-> [Sign([Listing EXCEPT !.headers = accepts(<<"a", "b">>)], "AK1", "s1") EXCEPT
                    !.headers = accepts(<<"a">>) @@ @],
   unsigned  |-> [good EXCEPT !.headers = @ @@ [x \in {"user-agent"} |-> <<"proxy">>]],
   region    |-> SignFor("us", "sqs", Listing, "AK1", "s1"),
   service   |-> SignFor("eu", "sns", Listing, "AK1", "s1"),
   scopeless |-> [good EXCEPT !.auth.credential = <<"AK1", "day", "eu", "sqs">>],
   hashed    |-> Sign(stated(Hash(Listing.body)), "AK1", "s1"),
   misstated |-> Sign(stated(Hash(Form(Meanings.delete).body)), "AK1", "s1"),
   toolong   |-> Sign([Listing EXCEPT !.body = Long(@.params, 1)], "AK1", "s1"),
   json      |-> Sign(JSONPost(Meanings.send), "AK1", "s1"),
   get       |-> Sign(Gets, "AK1", "s1"),
   byform    |-> ByForm(Meanings.create, "AK1", "s1"),
   byquery   |-> ByQuery("AK1", "s1"),
   halves    |-> [ByForm(Meanings.send, "AK2", "s1") EXCEPT !.query = <<<<<<"AWSAccessKeyId">>, "AK1">>>>],
   badform   |-> ByForm(Meanings.create, "AK1", "s2"),
   nobody    |-> ByForm(Meanings.create, "AK9", "s1"),
   nothing   |-> Listing,
   cutform   |-> [ByForm(Meanings.send, "AK1", "s1") EXCEPT
                    !.body = Long(Legacy("AK1", "s1") \o FormOf(Meanings.send), 3)],
   brokenform |-> [ByForm(Meanings.send, "AK1", "s1") EXCEPT !.body.parses = FALSE, !.secret = ""],
   cutjson   |-> [JSONPost(Meanings.send) EXCEPT !.query = Legacy("AK1", "s1"), !.secret = "s1",
                    !.body = LongText(@.params)]]

\* Forms that a client library would not build.
Typed(prefix, number, name, a) ==
  LET k(x) == <<prefix, number>> \o x IN
  {<<k(<<"Name">>), name>>, <<k(<<"Value", "DataType">>), a.type>>,
   <<k(<<"Value", "StringValue">>), a.text>>, <<k(<<"Value", "BinaryValue">>), a.binary>>}

Odd ==
  [lower |-> [Form([ToQueue("SendMessage") EXCEPT !.body = "x"]) EXCEPT !.body =
      Short(<<<<<<"action">>, "SendMessage">>, <<<<"queueurl">>, "q1">>, <<<<"messagebody">>, "x">>>>)],
   flat  |-> [Form(Meanings.set) EXCEPT !.body =
      Short(<<<<<<"Action">>, "SetQueueAttributes">>, <<<<"QueueUrl">>, "q1">>,
              <<<<"MaximumMessageSize">>, "1024">>, <<<<"X-Amz-Date">>, "date">>>>)],
   single |-> [Form([ToQueue("GetQueueAttributes") EXCEPT !.attrNames = <<"All">>]) EXCEPT !.body =
      Short(<<<<<<"Action">>, "GetQueueAttributes">>, <<<<"QueueUrl">>, "q1">>, <<<<"AttributeName">>, "All">>>>)],
   get   |-> Gets,
   long  |-> [Listing EXCEPT !.body = Long(@.params, 1)],
   gaps  |-> [Form([ToQueue("SendMessage") EXCEPT !.msgAttrs = Both]) EXCEPT !.body =
      Short(<<<<<<"Action">>, "SendMessage">>, <<<<"QueueUrl">>, "q1">>>>
              \o InSomeOrder(Typed("MessageAttribute", "1", "color", Both.color)
                             \cup Typed("MessageAttribute", "3", "shape", Both.shape)))],
   gapentry |-> [Form([ToQueue("SendMessageBatch") EXCEPT !.entries =
                         <<[NoEntry EXCEPT !.id = "a", !.msgAttrs = Color]>>]) EXCEPT !.body =
      Short(<<<<<<"Action">>, "SendMessageBatch">>, <<<<"QueueUrl">>, "q1">>,
              <<<<"SendMessageBatchRequestEntry", "2", "Id">>, "a">>>>
              \o InSomeOrder({<<<<"SendMessageBatchRequestEntry", "2">> \o pair[1], pair[2]>> :
                               pair \in Typed("MessageAttribute", "2", "color", Color.color)}))],
   broken |-> [JSONPost(Nothing) EXCEPT !.body.parses = FALSE],
   badform |-> [Listing EXCEPT !.body.parses = FALSE],
   badquery |-> [Gets EXCEPT !.queryParses = FALSE],
   typed |-> [JSONPost(Nothing) EXCEPT !.headers =
      [x \in {"content-type"} |-> <<"application/x-amz-json-1.0">>], !.meant.action = ""]]

\* The names of requests say where they come from.
Named(prefix, f) == [n \in {prefix \o x : x \in DOMAIN f} |-> f[CHOOSE x \in DOMAIN f : prefix \o x = n]]

AllRequests ==
  Named("form ", [n \in DOMAIN Meanings |-> Form(Meanings[n])])
    @@ Named("json ", [n \in DOMAIN Meanings |-> JSONPost(Meanings[n])])
    @@ Named("odd ", Odd) @@ Named("sign ", Signing)
    @@ Named("to ", [q1 |-> Listing, q2 |-> [Listing EXCEPT !.path = <<"acct", "q2">>],
                     root |-> [Listing EXCEPT !.path = <<"">>]])
    @@ Named("key ", [configured |-> Sign(Listing, "AK1", "s1"), second |-> ByQuery("AK2", "s2"),
                      made |-> ByQuery("AK3", "s3")])

NamesOf(prefix, f) == {prefix \o x : x \in DOMAIN f}

(***************************************************************************)
(* Answers                                                                 *)
(***************************************************************************)
Sent(entry) == [entry |-> entry, id |-> "m1", md5 |-> "x", md5Attrs |-> "", md5Sys |-> "y", seq |-> ""]

Received ==
  [id |-> "m1", handle |-> "h1", md5 |-> "x", body |-> "hello", md5Attrs |-> "y", md5Sys |-> "",
   seq |-> "1", sent |-> "t1", received |-> "1", first |-> "t2", attrs |-> Both]

Task == [handle |-> "t", source |-> "dlq", destination |-> "q1", status |-> "RUNNING", rate |-> "",
         moved |-> "3"]

AllAnswers ==
  LET batch(action, results) ==
        {[action |-> action, results |-> results, errors |-> <<>>],
         [action |-> action, results |-> <<>>,
          errors |-> <<[entry |-> "a", code |-> "InvalidParameterValue", fault |-> TRUE]>>]}
      plain(action) == {[action |-> action]}
  IN
  [CreateQueue |-> {[action |-> "CreateQueue", url |-> "u"]},
   SendMessage |-> {[action |-> "SendMessage", message |->
      [id |-> "m1", md5 |-> "x", md5Attrs |-> "y", md5Sys |-> "", seq |-> "1"]]},
   ReceiveMessage |-> {[action |-> "ReceiveMessage", messages |-> s] : s \in
      {<<>>, <<Received, [Received EXCEPT !.id = "m2", !.seq = "", !.attrs = <<>>, !.first = ""]>>}},
   GetQueueAttributes |-> {[action |-> "GetQueueAttributes", attrs |-> [QueueArn |-> "arn", Policy |-> ""]]},
   SetQueueAttributes |-> plain("SetQueueAttributes"),
   ListQueues |-> {[action |-> "ListQueues", urls |-> s] : s \in {<<>>, <<"u", "v">>}},
   ListQueueTags |-> {[action |-> "ListQueueTags", tags |-> [env |-> "dev"]]},
   UntagQueue |-> plain("UntagQueue"), DeleteMessage |-> plain("DeleteMessage"),
   SendMessageBatch |-> batch("SendMessageBatch", <<Sent("b"), Sent("c")>>),
   DeleteMessageBatch |-> batch("DeleteMessageBatch", <<[entry |-> "a"]>>),
   ChangeMessageVisibilityBatch |-> batch("ChangeMessageVisibilityBatch", <<[entry |-> "a"], [entry |-> "b"]>>),
   StartMessageMoveTask |-> {[action |-> "StartMessageMoveTask", task |-> [handle |-> "t"]]},
   CancelMessageMoveTask |-> {[action |-> "CancelMessageMoveTask", task |-> [moved |-> "3"]]},
   ListMessageMoveTasks |-> {[action |-> "ListMessageMoveTasks",
                              tasks |-> <<Task, [Task EXCEPT !.status = "COMPLETED", !.rate = "5"]>>]}]

(***************************************************************************)
(* Setups                                                                  *)
(***************************************************************************)
Key(n) == CASE n = 1 -> [key |-> "AK1", secret |-> "s1"] [] n = 2 -> [key |-> "AK2", secret |-> "s2"]
            [] n = 3 -> [key |-> "AK3", secret |-> "s3"] [] OTHER -> [key |-> "AK1", secret |-> "s9"]

MCConfigs   == {<<>>, <<Key(1)>>, <<Key(1), Key(2)>>, <<Key(1), Key(4)>>}
MCGenerated == {Key(3)}

Open == [auth |-> FALSE, limit |-> "none", region |-> "", ui |-> FALSE, backends |-> {"memory"},
         configs |-> {<<>>}, requests |-> {}, calls |-> 1]

AllSetups ==
  {[Open EXCEPT !.requests =
      NamesOf("form ", Meanings) \cup NamesOf("json ", Meanings) \cup NamesOf("odd ", Odd)],
   [Open EXCEPT !.auth = TRUE, !.region = "eu", !.configs = {<<Key(1)>>},
      !.requests = NamesOf("sign ", Signing)],
   [Open EXCEPT !.auth = TRUE, !.ui = TRUE, !.backends = {"memory", "sqlite", "badger"},
      !.configs = {<<>>, <<Key(1), Key(2)>>, <<Key(1), Key(4)>>},
      !.requests = {"key configured", "key second", "key made"}],
   [Open EXCEPT !.limit = "queue", !.requests = {"to q1", "to q2", "to root"}, !.calls = 3],
   [Open EXCEPT !.limit = "global", !.requests = {"to q1", "to root"}, !.calls = 4]}

\* TLC evaluates a definition once, and what a constant is given at each use.
MCRequests == AllRequests
MCAnswers  == AllAnswers
MCSetups   == AllSetups
MCNumerals == AllNumerals
=============================================================================
