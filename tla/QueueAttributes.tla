--------------------------- MODULE QueueAttributes ---------------------------
(***************************************************************************)
(* The attributes of a queue (pkgs/v1/queue/attributes.go), the limits of  *)
(* a request (limits.go) and the verdict on a message that is sent.        *)
(*                                                                         *)
(* A value is what GetAttribute formats: a number (one out of its range    *)
(* stands for text that is none), "true" or "false", a free text, or a     *)
(* redrive policy.  An ARN is the name of its queue.                       *)
(***************************************************************************)
EXTENDS Integers, Sequences, FiniteSets

Bounds ==
  [VisibilityTimeout             |-> 0..43200,
   DelaySeconds                  |-> 0..900,
   MaximumMessageSize            |-> 1024..262144,
   MessageRetentionPeriod        |-> 60..1209600,
   ReceiveMessageWaitTimeSeconds |-> 0..20,
   KmsDataKeyReusePeriodSeconds  |-> 60..86400]

Numbers ==
  {"VisibilityTimeout", "DelaySeconds", "MaximumMessageSize", "MessageRetentionPeriod",
   "ReceiveMessageWaitTimeSeconds", "KmsDataKeyReusePeriodSeconds"}
Flags     == {"FifoQueue", "ContentBasedDeduplication", "SqsManagedSseEnabled"}
Texts     == {"QueueArn", "Policy", "KmsMasterKeyId", "DeduplicationScope", "FifoThroughputLimit"}
Attribute == Numbers \cup Flags \cup Texts \cup {"RedrivePolicy"}

\* Mutant: the list misses an attribute.
ImmutableButDeduplication == {"FifoQueue", "DeduplicationScope", "FifoThroughputLimit"}

Immutable == {"FifoQueue", "ContentBasedDeduplication", "DeduplicationScope", "FifoThroughputLimit"}

\* A malformed policy, and one without a target, is a policy without a target.
NoPolicy == [target |-> "", max |-> 0]

Defaults ==
  [VisibilityTimeout |-> 30, DelaySeconds |-> 0, MaximumMessageSize |-> 262144,
   MessageRetentionPeriod |-> 345600, ReceiveMessageWaitTimeSeconds |-> 0,
   KmsDataKeyReusePeriodSeconds |-> 0, FifoQueue |-> "false",
   ContentBasedDeduplication |-> "false", SqsManagedSseEnabled |-> "true",
   QueueArn |-> "", Policy |-> "", KmsMasterKeyId |-> "", DeduplicationScope |-> "",
   FifoThroughputLimit |-> "", RedrivePolicy |-> NoPolicy]

(***************************************************************************)
(* Setting attributes: req is a function from some names to values         *)
(***************************************************************************)
Truthy == {"true", "True", "TRUE", "1", "t", "T"}
Falsy  == {"false", "False", "FALSE", "0", "f", "F"}

Valid(name, value) ==
  \/ name \in Numbers /\ value \in Bounds[name]
  \/ name \in Flags /\ value \in Truthy \cup Falsy
  \/ name \in Texts
  \/ name = "RedrivePolicy" /\ value.target # "" /\ value.max \in 1..1000

AllValid(req) == \A name \in DOMAIN req : name \in Attribute /\ Valid(name, req[name])

\* ParseBool and FormatBool: the text of a flag is normalised.
Stored(name, value) ==
  IF name \notin Flags THEN value ELSE IF value \in Truthy THEN "true" ELSE "false"

With(attrs, req) ==
  [name \in Attribute |-> IF name \in DOMAIN req THEN Stored(name, req[name]) ELSE attrs[name]]

\* Mutant: without the clone, what was set before the invalid value stays.
SetAttributesInPlace(attrs, req) ==
  LET good == {name \in DOMAIN req : name \in Attribute /\ Valid(name, req[name])}
  IN  With(attrs, [name \in good |-> req[name]])

\* SetAttributes works on a clone: an invalid value changes nothing.
SetAttributes(attrs, req) == IF AllValid(req) THEN With(attrs, req) ELSE attrs

\* SetQueueAttributes compares an immutable attribute with its formatted value.
ChangesImmutable(attrs, req) ==
  \E name \in Immutable \cap DOMAIN req : req[name] # attrs[name]

Settable(req) == [name \in DOMAIN req \ Immutable |-> req[name]]

\* What CreateQueue of an existing name compares; the ARN is the server's.
AttributesMatch(a, b) == \A name \in Attribute \ {"QueueArn"} : a[name] = b[name]

\* The part of the attributes a store is configured with, once, when its queue
\* is created.
StoreConfig(attrs) ==
  [fifo   |-> attrs.FifoQueue = "true",
   cbd    |-> attrs.ContentBasedDeduplication = "true",
   policy |-> attrs.RedrivePolicy]

(***************************************************************************)
(* A message to send: [id, size, delay, group, dedup]; sizes and lengths   *)
(* of texts, 0 for one that is missing                                     *)
(***************************************************************************)
MaxIdLength     == 128
MaxBatchEntries == 10

EffectiveSize(max, relaxed) == IF relaxed THEN 2 * max ELSE max

FifoVerdict(e, cbd) ==
  IF e.group = 0 THEN "MissingParameter"
  ELSE IF e.group > MaxIdLength \/ (e.dedup = 0 /\ ~cbd) \/ e.dedup > MaxIdLength
       THEN "InvalidParameterValue" ELSE "ok"

\* The checks SendMessage makes of its message and SendMessageBatch of an entry.
Verdict(e, max, fifo, cbd, relaxed) ==
  IF e.size = 0 THEN "MissingParameter"
  ELSE IF e.size > EffectiveSize(max, relaxed) \/ e.delay \notin Bounds.DelaySeconds
       THEN "InvalidParameterValue"
  ELSE IF fifo THEN FifoVerdict(e, cbd) ELSE "ok"

\* What refuses a batch as a whole: no entry, too many, an identifier twice.
BatchRefused(entries) ==
  \/ Len(entries) \notin 1..MaxBatchEntries
  \/ Cardinality({entries[i].id : i \in DOMAIN entries}) < Len(entries)
=============================================================================
