----------------------------- MODULE HandlersProofs -----------------------------
(***************************************************************************)
(* Theorems about the request handlers beside the web interface, for all   *)
(* constants satisfying their assumptions: any queues, any requests, any   *)
(* number of goroutines and any bounds.                                    *)
(***************************************************************************)
EXTENDS WebUI, FiniteSetTheorems, SequenceTheorems, TLAPS

(***************************************************************************)
(* The invariant                                                           *)
(***************************************************************************)
IsSequence(s) == s \in Seq({s[i] : i \in DOMAIN s})

IsObject(x) ==
  x = [name |-> x.name, attrs |-> x.attrs, cfg |-> x.cfg, tags |-> x.tags,
       purgedAt |-> x.purgedAt, open |-> x.open, msgs |-> x.msgs, seen |-> x.seen]

\* The part of StoreAgreesWithAttributes about one queue.
Agrees(x) ==
  /\ x.cfg.fifo = (x.attrs.FifoQueue = "true")
  /\ x.cfg.cbd = (x.attrs.ContentBasedDeduplication = "true")

\* One of the first n messages.
MessageOK(m, n) ==
  /\ DOMAIN m = {"n", "rcv", "held", "body", "id"}
  /\ m.n \in 1..n /\ m.rcv \in 0..MaxReceives /\ m.held \in BOOLEAN

MessagesOK(M, n) == \A m \in M : MessageOK(m, n)

\* Identifiers of messages that were kept, or not inserted.
Known == stored \cup failed

\* Object o, with t for the time, n for the number of messages sent and K for the
\* identifiers that are known.
ObjectOK(x, o, t, n, K) ==
  /\ IsObject(x) /\ x.name \in Names /\ DOMAIN x.attrs = Attribute /\ Whole(x.attrs)
  /\ x.purgedAt \in {Never} \cup 0..t
  /\ MessagesOK(x.msgs, n)
  /\ \A id \in x.seen : <<o, id>> \in K
  /\ Agrees(x)

\* The queues and what is in them.
ObjInv ==
  /\ IsSequence(objs) /\ Len(objs) <= MaxObj
  /\ now \in Nat /\ sent \in Nat
  /\ \A o \in Obj : ObjectOK(objs[o], o, now, sent, Known)
  /\ queues \in [Names -> 0..Len(objs)]
  /\ \A q \in Names : queues[q] # 0 => objs[queues[q]].name = q /\ objs[queues[q]].open

IsCall(c) ==
  c = [at |-> c.at, req |-> c.req, obj |-> c.obj, found |-> c.found, tags |-> c.tags,
       size |-> c.size, i |-> c.i, ok |-> c.ok, bad |-> c.bad, read |-> c.read,
       last |-> c.last, from |-> c.from, torn |-> c.torn]

\* Those that have not looked their queue up yet.
Unresolved == {"idle", "act", "resolve", "autocreate"}

EntrySteps == {"send", "uisend", "delete", "change"}

\* The results are those of the entries before i, whose identifiers differ.
EntriesOK(c) ==
  LET entries == c.req.entries IN
  /\ c.req.op \in DOMAIN EntryStep
  /\ c.i \in 1..(Len(entries) + 1)
  /\ \A j, k \in 1..Len(entries) : entries[j].id = entries[k].id => j = k
  /\ c.ok \cup c.bad = {entries[j].id : j \in 1..(c.i - 1)}

\* What was read is of the attributes there were at the first read, which come
\* from updates as a whole.
ReadOK(c) ==
  /\ IsSequence(c.read)
  /\ c.read # <<>> => Whole(c.from)
  /\ ~c.torn => \A i \in DOMAIN c.read : c.read[i] = c.from[c.req.names[i]]

\* With os for the objects there are.
CallOK(c, os) ==
  /\ IsCall(c)
  /\ c.at = "idle" => c = Idle
  /\ c.at # "idle" => c.req \in Requests
  /\ c.at \notin Unresolved => c.obj \in os
  /\ c.at \in {"purging", "mark"} => c.found \in os
  /\ c.at \in Unresolved \cup {"entries"} => c.i = 1 /\ c.ok = {} /\ c.bad = {}
  /\ c.at \in Unresolved => c.read = <<>> /\ c.last = NeverPurged
  /\ c.at = "get" => ReadOK(c)
  /\ c.at = "entries" => c.req.op \in DOMAIN EntryStep
  /\ c.at \in EntrySteps => EntriesOK(c)
  /\ c.at \in {"tagcheck", "tag"} => c.req.op = "TagQueue"
  /\ c.at = "set" => c.req.op = "SetQueueAttributes"

\* The goroutines.
CallInv ==
  /\ call = [p \in Procs |-> call[p]]
  /\ \A p \in Procs : CallOK(call[p], Obj)

\* A copy that passed the check has room for the tags that are to be merged, and
\* what an UntagQueue is about to remove is not kept any more.
TagInv ==
  /\ kept = [o \in 1..MaxObj |-> kept[o]]
  /\ \A o \in 1..MaxObj : o \notin Obj => kept[o] = {}
  /\ \A o \in Obj :
       /\ IsFiniteSet(objs[o].tags) /\ kept[o] \subseteq objs[o].tags
       /\ Cardinality(objs[o].tags) > MaxTags => o \in raced
  /\ \A p \in Procs :
       /\ At(p, "untag") => kept[call[p].obj] \cap Req(p).tags = {}
       /\ At(p, "tag") => /\ IsFiniteSet(call[p].tags)
                          /\ Cardinality(call[p].tags) + Cardinality(Req(p).tags) <= MaxTags

\* What a call knows of answered purges, with a for them and qs for the queues
\* there are: a queue that has taken the place of the one the call looked up was
\* created since, and not purged before.
LastOK(c, a, qs) ==
  /\ \A o \in 1..MaxObj : c.last[o] # Never =>
       c.last[o] \in Nat /\ a[o] \in Nat /\ c.last[o] <= a[o]
  /\ qs[c.req.q] \notin {0, c.obj} => c.last[qs[c.req.q]] = Never

\* Object o may be purged, with t for the time and E for the objects excused.
Rests(c, o, t, E) == o \notin E /\ c.last[o] # Never => t - c.last[o] >= Cooldown

\* A purge that was answered is marked, unless its object was not the one that
\* had been looked up; what was answered before a call was marked before it.
PurgeInv ==
  /\ answered = [o \in 1..MaxObj |-> answered[o]]
  /\ \A o \in 1..MaxObj : o \notin Obj => answered[o] = Never
  /\ \A o \in Obj : answered[o] # Never =>
       /\ answered[o] \in Nat /\ answered[o] <= now
       /\ o \notin strayed => objs[o].purgedAt \in Nat /\ answered[o] <= objs[o].purgedAt
  /\ \A p \in Procs : call[p].at \notin Unresolved => LastOK(call[p], answered, queues)
  /\ \A p \in Procs : At(p, "purge") => Rests(call[p], call[p].obj, now, strayed)
  /\ \A p \in Procs : At(p, "purging") => Rests(call[p], call[p].found, now, strayed)

HandlersInv == ObjInv /\ CallInv /\ TagInv /\ PurgeInv

(***************************************************************************)
(* What changes the queues                                                 *)
(***************************************************************************)
\* What tags and purges see of a step that is about neither; a name that leads
\* to another queue leads to a new one.
SameMarks ==
  /\ Obj \subseteq Obj' /\ Len(objs) <= Len(objs')
  /\ \A o \in Obj : objs'[o].tags = objs[o].tags /\ objs'[o].purgedAt = objs[o].purgedAt
  /\ \A o \in Obj' : o \notin Obj =>
       o = Len(objs) + 1 /\ o <= MaxObj /\ objs'[o].tags = {} /\ objs'[o].purgedAt = Never
  /\ \A q \in Names : queues'[q] \in {0, queues[q]} \/ queues'[q] \notin Obj

\* The objects are numbered.
LEMMA ObjFacts ==
  ASSUME ObjInv
  PROVE  /\ Len(objs) \in Nat /\ Obj = 1..Len(objs) /\ Obj \subseteq 1..MaxObj
         /\ MaxObj \in Nat
         /\ \A o \in Obj : ObjectOK(objs[o], o, now, sent, Known) /\ IsObject(objs[o])
<1>1. IsSequence(objs)
  BY DEF ObjInv
<1>2. Len(objs) \in Nat /\ Obj = 1..Len(objs)
  BY <1>1, LenProperties DEF Obj, IsSequence
<1>3. MaxObj \in Nat /\ Len(objs) <= MaxObj
  BY HandlersAssumption DEF ObjInv
<1> QED BY <1>2, <1>3 DEF ObjInv, ObjectOK

(***************************************************************************)
(* Attributes that are given in one go                                     *)
(***************************************************************************)
\* Numbers are stored as they are given, and the ARN is no number.
LEMMA NumberFacts ==
  Numbers \subseteq Attribute /\ Numbers \cap Flags = {} /\ "QueueArn" \notin Numbers
  BY DEF Numbers, Attribute, Flags

\* Two settings that come together are of numbers.
LEMMA TogetherFacts ==
  ASSUME NEW st \in Together
  PROVE  /\ st[1][1] \in Numbers /\ st[2][1] \in Numbers
         /\ Has(Defaults, st[1]) <=> Has(Defaults, st[2])
         /\ \A g \in Given :
              /\ st[1][1] \in DOMAIN g <=> st[2][1] \in DOMAIN g
              /\ st[1][1] \in DOMAIN g => (Has(g, st[1]) <=> Has(g, st[2]))
<1>1. st[1] \in Settings /\ st[2] \in Settings
  BY DEF Together
<1>2. \A s \in Settings : s[1] \in Numbers
  BY DEF Settings
<1> QED BY <1>1, <1>2 DEF Together

LEMMA DefaultsAreWhole == Whole(Defaults)
  BY TogetherFacts DEF Whole

\* What is given in one go changes both settings of a pair or none.
LEMMA WithIsWhole ==
  ASSUME NEW attrs, Whole(attrs), NEW g \in Given
  PROVE  Whole(With(attrs, g))
<1> DEFINE b == With(attrs, g)
<1> SUFFICES ASSUME NEW st \in Together PROVE Has(b, st[1]) <=> Has(b, st[2])
  BY DEF Whole
<1>1. ASSUME NEW s, s[1] \in Numbers
      PROVE  /\ s[1] \in DOMAIN g => (Has(b, s) <=> Has(g, s))
             /\ s[1] \notin DOMAIN g => (Has(b, s) <=> Has(attrs, s))
  <2>1. b[s[1]] = IF s[1] \in DOMAIN g THEN Stored(s[1], g[s[1]]) ELSE attrs[s[1]]
    BY <1>1, NumberFacts DEF With
  <2>2. Stored(s[1], g[s[1]]) = g[s[1]]
    BY <1>1, NumberFacts DEF Stored
  <2> HIDE DEF b
  <2> QED BY <2>1, <2>2 DEF Has
<1> HIDE DEF b
<1>2. /\ st[1][1] \in Numbers /\ st[2][1] \in Numbers
      /\ st[1][1] \in DOMAIN g <=> st[2][1] \in DOMAIN g
      /\ st[1][1] \in DOMAIN g => (Has(g, st[1]) <=> Has(g, st[2]))
  BY TogetherFacts
<1>3. Has(attrs, st[1]) <=> Has(attrs, st[2])
  BY DEF Whole
<1> QED BY <1>1, <1>2, <1>3

\* The server sets the ARN of a new queue.
LEMMA ObjectIsWhole ==
  ASSUME NEW q, NEW attrs, Whole(attrs), DOMAIN attrs = Attribute
  PROVE  Whole(Object(q, attrs).attrs)
<1> DEFINE b == Object(q, attrs).attrs
<1>1. b = [attrs EXCEPT !.QueueArn = q]
  BY DEF Object
<1>2. \A a \in Numbers : b[a] = attrs[a]
  BY <1>1, NumberFacts
<1> HIDE DEF b
<1>3. ASSUME NEW st \in Together PROVE Has(b, st[1]) <=> Has(b, st[2])
  <2>1. Has(attrs, st[1]) <=> Has(attrs, st[2])
    BY DEF Whole
  <2> QED BY <1>2, <2>1, TogetherFacts DEF Has
<1> QED BY <1>3 DEF Whole, b

\* Any function over 1..n is a sequence, and so is one with another element at
\* its end or in the place of one of its own.
LEMMA Numbered ==
  ASSUME NEW n \in Nat, NEW t, DOMAIN t = 1..n, t = [i \in DOMAIN t |-> t[i]]
  PROVE  IsSequence(t) /\ Len(t) = n
<1> DEFINE T == {t[i] : i \in DOMAIN t}
<1>1. \A i \in 1..n : t[i] \in T
  OBVIOUS
<1> HIDE DEF T
<1>2. t \in [1..n -> T]
  BY <1>1
<1>3. t \in Seq(T)
  BY <1>2, SeqDef
<1>4. Len(t) \in Nat /\ DOMAIN t = 1..Len(t)
  BY <1>3, LenProperties
<1>5. Len(t) = n
  BY <1>4
<1> QED BY <1>3, <1>5 DEF T, IsSequence

LEMMA SequenceFacts ==
  ASSUME NEW s, IsSequence(s)
  PROVE  Len(s) \in Nat /\ DOMAIN s = 1..Len(s) /\ s = [i \in DOMAIN s |-> s[i]]
<1> DEFINE T == {s[i] : i \in DOMAIN s}
<1>1. s \in Seq(T)
  BY DEF IsSequence
<1> HIDE DEF T
<1> QED BY <1>1, LenProperties

LEMMA Appended ==
  ASSUME NEW s, IsSequence(s), NEW x
  PROVE  /\ IsSequence(Append(s, x))
         /\ Len(Append(s, x)) = Len(s) + 1 /\ Append(s, x)[Len(s) + 1] = x
         /\ DOMAIN Append(s, x) = 1..(Len(s) + 1)
         /\ \A i \in 1..Len(s) : Append(s, x)[i] = s[i]
<1> DEFINE S == {s[i] : i \in DOMAIN s} \cup {x}
<1>1. Len(s) \in Nat /\ DOMAIN s = 1..Len(s) /\ s = [i \in DOMAIN s |-> s[i]]
  BY SequenceFacts
<1>2. (\A i \in 1..Len(s) : s[i] \in S) /\ x \in S
  BY <1>1
<1> HIDE DEF S
<1>3. s \in [1..Len(s) -> S]
  BY <1>1, <1>2
<1>4. s \in Seq(S)
  BY <1>1, <1>3, SeqDef
<1>5. /\ Append(s, x) \in Seq(S) /\ Len(Append(s, x)) = Len(s) + 1
      /\ Append(s, x)[Len(s) + 1] = x
      /\ \A i \in 1..Len(s) : Append(s, x)[i] = s[i]
  BY <1>2, <1>4, AppendProperties
<1> DEFINE t == Append(s, x)
<1> HIDE DEF t
<1>6. t \in Seq(S) /\ Len(t) = Len(s) + 1
  BY <1>5 DEF t
<1>7. DOMAIN t = 1..(Len(s) + 1) /\ t = [i \in DOMAIN t |-> t[i]]
  BY <1>6, LenProperties
<1>8. IsSequence(t)
  BY <1>1, <1>7, Numbered
<1> QED BY <1>5, <1>7, <1>8 DEF t

LEMMA Excepted ==
  ASSUME NEW s, IsSequence(s), NEW x, NEW k \in DOMAIN s, NEW t, t = [s EXCEPT ![k] = x]
  PROVE  /\ IsSequence(t) /\ Len(t) = Len(s) /\ DOMAIN t = DOMAIN s
         /\ t[k] = x /\ \A i \in DOMAIN s : i # k => t[i] = s[i]
<1>1. Len(s) \in Nat /\ DOMAIN s = 1..Len(s)
  BY SequenceFacts
<1>2. DOMAIN t = DOMAIN s /\ t[k] = x /\ \A i \in DOMAIN s : i # k => t[i] = s[i]
  OBVIOUS
<1>3. t = [i \in DOMAIN t |-> t[i]]
  OBVIOUS
<1>4. IsSequence(t) /\ Len(t) = Len(s)
  BY <1>1, <1>2, <1>3, Numbered
<1> QED BY <1>2, <1>4

\* What is fine stays so while time, the messages and what is known grow.
LEMMA StaysOK ==
  ASSUME NEW t \in Nat, NEW u \in Nat, t <= u, NEW n \in Nat, NEW k \in Nat, n <= k,
         NEW K, NEW L, K \subseteq L, NEW x, NEW o, ObjectOK(x, o, t, n, K)
  PROVE  ObjectOK(x, o, u, k, L)
<1>1. MessagesOK(x.msgs, k)
  <2> SUFFICES ASSUME NEW m \in x.msgs PROVE MessageOK(m, k)
    BY DEF MessagesOK
  <2>1. MessageOK(m, n)
    BY DEF ObjectOK, MessagesOK
  <2> QED BY <2>1 DEF MessageOK
<1>2. x.purgedAt \in {Never} \cup 0..u
  <2>1. x.purgedAt \in {Never} \cup 0..t
    BY DEF ObjectOK
  <2> QED BY <2>1
<1> QED BY <1>1, <1>2 DEF ObjectOK

\* A queue takes the place of its older self.
LEMMA Swapped ==
  ASSUME ObjInv, NEW o \in Obj, NEW x, objs' = [objs EXCEPT ![o] = x]
  PROVE  /\ IsSequence(objs') /\ Len(objs') = Len(objs) /\ Obj' = Obj
         /\ objs'[o] = x /\ \A k \in Obj : k # o => objs'[k] = objs[k]
<1>1. IsSequence(objs) /\ o \in DOMAIN objs
  BY DEF ObjInv, Obj
<1> QED BY <1>1, Excepted, Zenon DEF Obj

LEMMA Replaced ==
  ASSUME ObjInv, NEW o \in Obj, NEW x, objs' = [objs EXCEPT ![o] = x],
         ObjectOK(x, o, now, sent, Known), x.name = objs[o].name, x.open = objs[o].open,
         UNCHANGED <<queues, now, sent, stored, failed>>
  PROVE  /\ ObjInv' /\ Obj' = Obj /\ Len(objs') = Len(objs)
         /\ objs'[o] = x /\ \A k \in Obj : k # o => objs'[k] = objs[k]
<1>1. /\ IsSequence(objs') /\ Len(objs') = Len(objs) /\ Obj' = Obj
      /\ objs'[o] = x /\ \A k \in Obj : k # o => objs'[k] = objs[k]
  BY Swapped
<1>2. \A k \in Obj' : ObjectOK(objs'[k], k, now, sent, Known)
  <2> SUFFICES ASSUME NEW k \in Obj PROVE ObjectOK(objs'[k], k, now, sent, Known)
    BY <1>1
  <2>1. CASE k = o
    BY <1>1, <2>1
  <2>2. CASE k # o
    BY <1>1, <2>2 DEF ObjInv
  <2> QED BY <2>1, <2>2
<1>3. \A q \in Names : queues'[q] # 0 => objs'[queues'[q]].name = q /\ objs'[queues'[q]].open
  <2> SUFFICES ASSUME NEW q \in Names, queues[q] # 0
               PROVE  objs'[queues[q]].name = q /\ objs'[queues[q]].open
    OBVIOUS
  <2>1. queues[q] \in Obj
    BY ObjFacts DEF ObjInv
  <2> QED BY <1>1, <2>1 DEF ObjInv
<1>4. Known' = Known
  BY DEF Known
<1> QED BY <1>1, <1>2, <1>3, <1>4 DEF ObjInv

\* Other attributes, with the old ones of those the store was configured with.
LEMMA AttrsReplaced ==
  ASSUME ObjInv, NEW o \in Obj, NEW a, objs' = [objs EXCEPT ![o].attrs = a], DOMAIN a = Attribute,
         Whole(a), a.FifoQueue = objs[o].attrs.FifoQueue,
         a.ContentBasedDeduplication = objs[o].attrs.ContentBasedDeduplication,
         UNCHANGED <<queues, now, sent, stored, failed>>
  PROVE  ObjInv' /\ SameMarks
<1> DEFINE x == [objs[o] EXCEPT !.attrs = a]
<1>1. ObjectOK(objs[o], o, now, sent, Known) /\ IsObject(objs[o])
  BY ObjFacts
<1>2. /\ IsObject(x) /\ x.name = objs[o].name /\ x.attrs = a /\ x.cfg = objs[o].cfg
      /\ x.tags = objs[o].tags /\ x.purgedAt = objs[o].purgedAt /\ x.open = objs[o].open
      /\ x.msgs = objs[o].msgs /\ x.seen = objs[o].seen
  BY <1>1 DEF IsObject
<1>3. objs' = [objs EXCEPT ![o] = x]
  OBVIOUS
<1> HIDE DEF x
<1>4. ObjectOK(x, o, now, sent, Known)
  BY <1>1, <1>2 DEF ObjectOK, Agrees
<1>5. /\ ObjInv' /\ Obj' = Obj /\ Len(objs') = Len(objs)
      /\ objs'[o] = x /\ \A k \in Obj : k # o => objs'[k] = objs[k]
  BY <1>2, <1>3, <1>4, Replaced
<1>6. Len(objs) \in Nat
  BY ObjFacts
<1> QED BY <1>2, <1>5, <1>6 DEF SameMarks

\* Other tags, and the mark of a purge.
LEMMA TagsReplaced ==
  ASSUME ObjInv, NEW o \in Obj, NEW T, objs' = [objs EXCEPT ![o].tags = T],
         UNCHANGED <<queues, now, sent, stored, failed>>
  PROVE  /\ ObjInv' /\ Obj' = Obj /\ objs'[o].tags = T
         /\ \A k \in Obj : k # o => objs'[k].tags = objs[k].tags
         /\ \A k \in Obj : objs'[k].purgedAt = objs[k].purgedAt
<1> DEFINE x == [objs[o] EXCEPT !.tags = T]
<1>1. ObjectOK(objs[o], o, now, sent, Known) /\ IsObject(objs[o])
  BY ObjFacts
<1>2. /\ IsObject(x) /\ x.name = objs[o].name /\ x.attrs = objs[o].attrs /\ x.cfg = objs[o].cfg
      /\ x.tags = T /\ x.purgedAt = objs[o].purgedAt /\ x.open = objs[o].open
      /\ x.msgs = objs[o].msgs /\ x.seen = objs[o].seen
  BY <1>1 DEF IsObject
<1>3. objs' = [objs EXCEPT ![o] = x]
  OBVIOUS
<1> HIDE DEF x
<1>4. ObjectOK(x, o, now, sent, Known)
  BY <1>1, <1>2 DEF ObjectOK, Agrees
<1>5. /\ ObjInv' /\ Obj' = Obj
      /\ objs'[o] = x /\ \A k \in Obj : k # o => objs'[k] = objs[k]
  BY <1>2, <1>3, <1>4, Replaced
<1> QED BY <1>2, <1>5

LEMMA MarkReplaced ==
  ASSUME ObjInv, NEW o \in Obj, objs' = [objs EXCEPT ![o].purgedAt = now],
         UNCHANGED <<queues, now, sent, stored, failed>>
  PROVE  /\ ObjInv' /\ Obj' = Obj /\ objs'[o].purgedAt = now
         /\ \A k \in Obj : k # o => objs'[k].purgedAt = objs[k].purgedAt
         /\ \A k \in Obj : objs'[k].tags = objs[k].tags
<1> DEFINE x == [objs[o] EXCEPT !.purgedAt = now]
<1>1. ObjectOK(objs[o], o, now, sent, Known) /\ IsObject(objs[o]) /\ now \in 0..now
  BY ObjFacts DEF ObjInv
<1>2. /\ IsObject(x) /\ x.name = objs[o].name /\ x.attrs = objs[o].attrs /\ x.cfg = objs[o].cfg
      /\ x.tags = objs[o].tags /\ x.purgedAt = now /\ x.open = objs[o].open
      /\ x.msgs = objs[o].msgs /\ x.seen = objs[o].seen
  BY <1>1 DEF IsObject
<1>3. objs' = [objs EXCEPT ![o] = x]
  OBVIOUS
<1> HIDE DEF x
<1>4. ObjectOK(x, o, now, sent, Known)
  BY <1>1, <1>2 DEF ObjectOK, Agrees
<1>5. /\ ObjInv' /\ Obj' = Obj
      /\ objs'[o] = x /\ \A k \in Obj : k # o => objs'[k] = objs[k]
  BY <1>2, <1>3, <1>4, Replaced
<1> QED BY <1>2, <1>5

\* DeleteQueue closes the store of the queue a name leads to; no other name
\* leads there.
LEMMA Closed ==
  ASSUME ObjInv, NEW q \in Names, NEW o \in Obj, queues[q] = o, objs' = [objs EXCEPT ![o].open = FALSE],
         queues' = [queues EXCEPT ![q] = 0], UNCHANGED <<now, sent, stored, failed>>
  PROVE  ObjInv' /\ SameMarks
<1> DEFINE x == [objs[o] EXCEPT !.open = FALSE]
<1>1. /\ Len(objs) \in Nat /\ Obj = 1..Len(objs) /\ o # 0
      /\ IsSequence(objs) /\ o \in DOMAIN objs
  BY ObjFacts DEF ObjInv, Obj
<1>2. objs' = [objs EXCEPT ![o] = x]
  OBVIOUS
<1>3. \A r \in Names : queues[r] = o /\ o # 0 => r = q
  <2>1. objs[o].name = q
    BY <1>1 DEF ObjInv
  <2> QED BY <2>1 DEF ObjInv
<1>4. ObjectOK(objs[o], o, now, sent, Known) /\ IsObject(objs[o])
  BY <1>1, ObjFacts
<1>5. /\ IsObject(x) /\ x.name = objs[o].name /\ x.attrs = objs[o].attrs /\ x.cfg = objs[o].cfg
      /\ x.tags = objs[o].tags /\ x.purgedAt = objs[o].purgedAt /\ x.msgs = objs[o].msgs
      /\ x.seen = objs[o].seen
  <2>1. /\ DOMAIN x = DOMAIN objs[o] /\ x.name = objs[o].name /\ x.attrs = objs[o].attrs
        /\ x.cfg = objs[o].cfg /\ x.tags = objs[o].tags /\ x.purgedAt = objs[o].purgedAt
        /\ x.msgs = objs[o].msgs /\ x.seen = objs[o].seen
    BY <1>4 DEF IsObject
  <2>2. x = [k \in DOMAIN x |-> x[k]]
    BY <1>4
  <2>3. DOMAIN objs[o] = {"name", "attrs", "cfg", "tags", "purgedAt", "open", "msgs", "seen"}
    BY <1>4 DEF IsObject
  <2> HIDE DEF x
  <2>4. IsObject(x)
    BY <2>1, <2>2, <2>3 DEF IsObject
  <2> QED BY <2>1, <2>4
<1>6. ObjectOK(x, o, now, sent, Known)
  BY <1>4, <1>5 DEF ObjectOK, Agrees
<1> HIDE DEF x
<1>7. /\ IsSequence(objs') /\ Len(objs') = Len(objs) /\ Obj' = Obj
      /\ objs'[o] = x /\ \A k \in Obj : k # o => objs'[k] = objs[k]
  BY <1>2, Swapped
<1>8. Known' = Known /\ \A k \in Obj' : ObjectOK(objs'[k], k, now, sent, Known)
  BY <1>6, <1>7 DEF ObjInv, Known
<1>9. ASSUME NEW r \in Names, queues'[r] # 0
      PROVE  objs'[queues'[r]].name = r /\ objs'[queues'[r]].open
  <2>1. r # q /\ queues'[r] = queues[r] /\ queues[r] \in Obj
    BY <1>1, <1>9 DEF ObjInv
  <2>2. objs[queues[r]].name = r /\ objs[queues[r]].open
    BY <1>9, <2>1 DEF ObjInv
  <2>3. queues[r] # o
    BY <1>1, <1>3, <2>1
  <2> QED BY <1>7, <2>1, <2>2, <2>3
<1>10. queues' \in [Names -> 0..Len(objs')] /\ \A r \in Names : queues'[r] \in {0, queues[r]}
  BY <1>1, <1>7 DEF ObjInv
<1>11. ObjInv'
  <2>1. IsSequence(objs') /\ Len(objs') <= MaxObj /\ queues' \in [Names -> 0..Len(objs')]
    BY <1>7, <1>10 DEF ObjInv
  <2> QED BY <1>8, <1>9, <2>1 DEF ObjInv
<1>12. \A k \in Obj : objs'[k].tags = objs[k].tags /\ objs'[k].purgedAt = objs[k].purgedAt
  <2>1. TAKE k \in Obj
  <2>2. CASE k = o
    BY <1>5, <1>7, <2>2
  <2>3. CASE k # o
    BY <1>7, <2>3
  <2> QED BY <2>2, <2>3
<1>13. Obj \subseteq Obj' /\ Len(objs) <= Len(objs')
  BY <1>1, <1>7
<1>14. SameMarks
  BY <1>7, <1>10, <1>12, <1>13, Zenon DEF SameMarks
<1> QED BY <1>11, <1>14

\* A new queue has no tags, no messages and no purge behind it.
LEMMA NewObject ==
  ASSUME NEW q \in Names, NEW attrs, DOMAIN attrs = Attribute, Whole(attrs),
         NEW o, NEW t, NEW n, NEW K
  PROVE  LET x == Object(q, attrs) IN
         ObjectOK(x, o, t, n, K) /\ x.name = q /\ x.open /\ x.tags = {} /\ x.purgedAt = Never
<1> DEFINE x == Object(q, attrs)
<1>1. /\ x.name = q /\ x.attrs = [attrs EXCEPT !.QueueArn = q] /\ x.cfg = StoreConfig(attrs)
      /\ x.tags = {} /\ x.purgedAt = Never /\ x.open /\ x.msgs = {} /\ x.seen = {} /\ IsObject(x)
  BY DEF Object, IsObject
<1>2. {"FifoQueue", "ContentBasedDeduplication"} \subseteq Attribute
  BY DEF Attribute, Flags
<1>3. /\ DOMAIN x.attrs = Attribute /\ x.attrs.FifoQueue = attrs.FifoQueue
      /\ x.attrs.ContentBasedDeduplication = attrs.ContentBasedDeduplication
  BY <1>1, <1>2
<1>4. Agrees(x) /\ Whole(x.attrs)
  BY <1>1, <1>3, ObjectIsWhole DEF Agrees, StoreConfig
<1> HIDE DEF x
<1>5. ObjectOK(x, o, t, n, K)
  BY <1>1, <1>3, <1>4 DEF ObjectOK, MessagesOK
<1> QED BY <1>1, <1>5 DEF x

LEMMA QueueAdded ==
  ASSUME ObjInv, NEW q \in Names, NEW attrs, DOMAIN attrs = Attribute, Whole(attrs),
         NewQueue(q, attrs), UNCHANGED <<now, sent, stored, failed>>
  PROVE  /\ ObjInv' /\ SameMarks /\ Obj' = Obj \cup {Len(objs) + 1}
         /\ queues'[q] = Len(objs) + 1
<1> DEFINE x == Object(q, attrs)
<1>1. /\ Len(objs) \in Nat /\ Obj = 1..Len(objs) /\ IsSequence(objs) /\ MaxObj \in Nat
  BY ObjFacts DEF ObjInv
<1>2. /\ ObjectOK(x, Len(objs) + 1, now, sent, Known)
      /\ x.name = q /\ x.open /\ x.tags = {} /\ x.purgedAt = Never
  BY NewObject
<1>3. /\ objs' = Append(objs, x) /\ Len(objs) < MaxObj
      /\ queues' = [queues EXCEPT ![q] = Len(objs) + 1]
  BY DEF NewQueue
<1> HIDE DEF x
<1>4. /\ IsSequence(objs') /\ Len(objs') = Len(objs) + 1 /\ objs'[Len(objs) + 1] = x
      /\ Obj' = 1..(Len(objs) + 1)
      /\ \A k \in 1..Len(objs) : objs'[k] = objs[k]
  <2> DEFINE s == Append(objs, x)
  <2>1. /\ IsSequence(s) /\ Len(s) = Len(objs) + 1 /\ s[Len(objs) + 1] = x
        /\ DOMAIN s = 1..(Len(objs) + 1)
        /\ \A k \in 1..Len(objs) : s[k] = objs[k]
    BY <1>1, Appended
  <2>2. objs' = s
    BY <1>3
  <2> HIDE DEF s
  <2> QED BY <2>1, <2>2, Zenon DEF Obj
<1>5. Obj' = Obj \cup {Len(objs) + 1} /\ Len(objs) + 1 \notin Obj
  BY <1>1, <1>4
<1>6. Known' = Known /\ \A k \in Obj' : ObjectOK(objs'[k], k, now, sent, Known)
  BY <1>1, <1>2, <1>4, <1>5 DEF ObjInv, Known
<1>7. /\ queues' \in [Names -> 0..Len(objs')] /\ queues'[q] = Len(objs) + 1
      /\ \A r \in Names : r # q => queues'[r] = queues[r]
  <2>1. queues \in [Names -> 0..Len(objs)] /\ 0..Len(objs) \subseteq 0..Len(objs') /\ Len(objs) + 1 \in 0..Len(objs')
    BY <1>1, <1>4 DEF ObjInv
  <2> QED BY <1>3, <2>1
<1>8. ASSUME NEW r \in Names, queues'[r] # 0
      PROVE  objs'[queues'[r]].name = r /\ objs'[queues'[r]].open
  <2>1. CASE r = q
    BY <1>2, <1>4, <1>7, <2>1
  <2>2. CASE r # q
    <3>1. queues'[r] = queues[r] /\ queues[r] \in Obj
      BY <1>1, <1>7, <1>8, <2>2 DEF ObjInv
    <3>2. objs[queues[r]].name = r /\ objs[queues[r]].open
      BY <1>8, <3>1 DEF ObjInv
    <3> QED BY <1>1, <1>4, <3>1, <3>2
  <2> QED BY <2>1, <2>2
<1>9. ObjInv'
  BY <1>1, <1>3, <1>4, <1>6, <1>7, <1>8 DEF ObjInv
<1>10. SameMarks
  <2>1. \A r \in Names : queues'[r] \in {0, queues[r]} \/ queues'[r] \notin Obj
    BY <1>5, <1>7
  <2> QED BY <1>1, <1>2, <1>3, <1>4, <1>5, <2>1 DEF SameMarks
<1> QED BY <1>5, <1>7, <1>9, <1>10

(***************************************************************************)
(* What changes the stores                                                 *)
(***************************************************************************)
\* Queue y is x with other messages or identifiers in its store.
SameQueue(x, y) ==
  /\ IsObject(y) /\ y.name = x.name /\ y.attrs = x.attrs /\ y.cfg = x.cfg /\ y.tags = x.tags
  /\ y.purgedAt = x.purgedAt /\ y.open = x.open

\* With n for the number of messages sent and K for what is known.
StoreOK(x, o, n, K) == MessagesOK(x.msgs, n) /\ \A id \in x.seen : <<o, id>> \in K

LEMMA ItsSelf ==
  ASSUME NEW x, IsObject(x)
  PROVE  SameQueue(x, x)
BY DEF SameQueue

LEMMA OtherMsgs ==
  ASSUME NEW x, IsObject(x), NEW M, NEW y, y = [x EXCEPT !.msgs = M]
  PROVE  SameQueue(x, y) /\ y.msgs = M /\ y.seen = x.seen
BY DEF SameQueue, IsObject

LEMMA OtherSeen ==
  ASSUME NEW x, IsObject(x), NEW D, NEW y, y = [x EXCEPT !.seen = D]
  PROVE  SameQueue(x, y) /\ y.msgs = x.msgs /\ y.seen = D
BY DEF SameQueue, IsObject

\* What a store becomes that is purged, or keeps a message.
Stocked(x, M, D) == [x EXCEPT !.msgs = M, !.seen = D]

LEMMA OtherStock ==
  ASSUME NEW x, IsObject(x), NEW M, NEW D
  PROVE  SameQueue(x, Stocked(x, M, D)) /\ Stocked(x, M, D).msgs = M /\ Stocked(x, M, D).seen = D
<1> DEFINE z == [x EXCEPT !.msgs = M]
           y == [z EXCEPT !.seen = D]
<1>1. Stocked(x, M, D) = y
  BY DEF Stocked
<1>2. SameQueue(x, z) /\ z.msgs = M
  BY OtherMsgs
<1> HIDE DEF z
<1>3. IsObject(z)
  BY <1>2 DEF SameQueue
<1>4. SameQueue(z, y) /\ y.msgs = z.msgs /\ y.seen = D
  BY <1>3, OtherSeen
<1> HIDE DEF y
<1>5. SameQueue(x, y) /\ y.msgs = M /\ y.seen = D
  BY <1>2, <1>4 DEF SameQueue
<1> QED BY <1>1, <1>5

LEMMA StoresReplaced ==
  ASSUME ObjInv, IsSequence(objs'), Len(objs') = Len(objs), DOMAIN objs' = DOMAIN objs,
         \A k \in Obj : SameQueue(objs[k], objs'[k]) /\ StoreOK(objs'[k], k, sent', Known'),
         UNCHANGED <<queues, now>>, sent' \in Nat, sent <= sent'
  PROVE  ObjInv' /\ SameMarks
<1>1. Obj' = Obj /\ Len(objs) \in Nat /\ Obj = DOMAIN objs
  BY ObjFacts, Zenon DEF Obj
<1>2. ASSUME NEW k \in Obj' PROVE ObjectOK(objs'[k], k, now', sent', Known')
  <2>1. ObjectOK(objs[k], k, now, sent, Known) /\ SameQueue(objs[k], objs'[k])
    BY <1>1, ObjFacts
  <2>2. MessagesOK(objs'[k].msgs, sent') /\ \A id \in objs'[k].seen : <<k, id>> \in Known'
    BY <1>1 DEF StoreOK
  <2> QED BY <2>1, <2>2 DEF ObjectOK, SameQueue, Agrees
<1>3. \A q \in Names : queues[q] # 0 => objs'[queues[q]].name = q /\ objs'[queues[q]].open
  <2> SUFFICES ASSUME NEW q \in Names, queues[q] # 0
               PROVE  objs'[queues[q]].name = q /\ objs'[queues[q]].open
    OBVIOUS
  <2>1. queues[q] \in Obj
    BY ObjFacts DEF ObjInv
  <2> QED BY <1>1, <2>1 DEF ObjInv, SameQueue
<1>4. ObjInv'
  BY <1>1, <1>2, <1>3 DEF ObjInv
<1>5. SameMarks
  BY <1>1 DEF SameMarks, SameQueue
<1> QED BY <1>4, <1>5

LEMMA StoreReplaced ==
  ASSUME ObjInv, NEW o \in Obj, NEW x, objs' = [objs EXCEPT ![o] = x], SameQueue(objs[o], x),
         StoreOK(x, o, sent', Known'), UNCHANGED <<queues, now>>, sent' \in Nat, sent <= sent',
         Known \subseteq Known'
  PROVE  ObjInv' /\ SameMarks
<1>1. /\ IsSequence(objs') /\ Len(objs') = Len(objs) /\ Obj' = Obj
      /\ objs'[o] = x /\ \A k \in Obj : k # o => objs'[k] = objs[k]
  BY Swapped
<1>2. ASSUME NEW k \in Obj PROVE SameQueue(objs[k], objs'[k]) /\ StoreOK(objs'[k], k, sent', Known')
  <2>1. CASE k = o
    BY <1>1, <2>1
  <2>2. CASE k # o
    <3>1. objs'[k] = objs[k] /\ IsObject(objs[k])
      BY <1>1, <2>2, ObjFacts
    <3>2. ObjectOK(objs[k], k, now, sent', Known')
      BY StaysOK DEF ObjInv
    <3> QED BY <3>1, <3>2 DEF SameQueue, ObjectOK, StoreOK
  <2> QED BY <2>1, <2>2
<1> QED BY <1>1, <1>2, StoresReplaced DEF Obj

\* Another set of messages.
LEMMA MsgsReplaced ==
  ASSUME ObjInv, NEW o \in Obj, NEW M, objs' = [objs EXCEPT ![o].msgs = M], MessagesOK(M, sent),
         UNCHANGED <<queues, now, sent, stored, failed>>
  PROVE  ObjInv' /\ SameMarks
<1>1. ObjectOK(objs[o], o, now, sent, Known) /\ IsObject(objs[o]) /\ Known' = Known /\ sent \in Nat
  BY ObjFacts DEF Known, ObjInv
<1>2. PICK x : x = [objs[o] EXCEPT !.msgs = M]
  OBVIOUS
<1>3. SameQueue(objs[o], x) /\ x.msgs = M /\ x.seen = objs[o].seen
  BY <1>1, <1>2, OtherMsgs
<1>4. objs' = [objs EXCEPT ![o] = x]
  BY <1>2
<1>5. StoreOK(x, o, sent', Known')
  BY <1>1, <1>3 DEF StoreOK, ObjectOK
<1>6. sent' \in Nat /\ sent <= sent' /\ Known \subseteq Known'
  BY <1>1
<1> QED BY <1>3, <1>4, <1>5, <1>6, StoreReplaced

\* Other messages and identifiers.
LEMMA StockReplaced ==
  ASSUME ObjInv, NEW o \in Obj, NEW M, NEW D, objs' = [objs EXCEPT ![o] = Stocked(objs[o], M, D)],
         MessagesOK(M, sent'), \A id \in D : <<o, id>> \in Known',
         UNCHANGED <<queues, now>>, sent' \in Nat, sent <= sent', Known \subseteq Known'
  PROVE  ObjInv' /\ SameMarks
<1> DEFINE x == Stocked(objs[o], M, D)
<1>1. IsObject(objs[o]) /\ objs' = [objs EXCEPT ![o] = x]
  BY ObjFacts
<1>2. SameQueue(objs[o], x) /\ x.msgs = M /\ x.seen = D
  BY <1>1, OtherStock
<1> HIDE DEF x
<1>3. StoreOK(x, o, sent', Known')
  BY <1>2 DEF StoreOK
<1> QED BY <1>1, <1>2, <1>3, StoreReplaced

\* Other identifiers, beside the messages there are.
LEMMA SeenReplaced ==
  ASSUME ObjInv, NEW o \in Obj, NEW D, objs' = [objs EXCEPT ![o].seen = D],
         \A id \in D : <<o, id>> \in Known', UNCHANGED <<queues, now, sent>>, Known \subseteq Known'
  PROVE  ObjInv' /\ SameMarks
<1>1. ObjectOK(objs[o], o, now, sent, Known) /\ IsObject(objs[o]) /\ sent \in Nat
  BY ObjFacts DEF ObjInv
<1>2. PICK x : x = [objs[o] EXCEPT !.seen = D]
  OBVIOUS
<1>3. SameQueue(objs[o], x) /\ x.msgs = objs[o].msgs /\ x.seen = D
  BY <1>1, <1>2, OtherSeen
<1>4. objs' = [objs EXCEPT ![o] = x]
  BY <1>2
<1>5. MessagesOK(x.msgs, sent')
  <2>1. MessagesOK(objs[o].msgs, sent)
    BY <1>1 DEF ObjectOK
  <2> QED BY <1>3, <2>1
<1>6. StoreOK(x, o, sent', Known')
  BY <1>3, <1>5 DEF StoreOK
<1>7. sent' \in Nat /\ sent <= sent'
  BY <1>1
<1> QED BY <1>3, <1>4, <1>6, <1>7, StoreReplaced

(***************************************************************************)
(* What changes the calls                                                  *)
(***************************************************************************)
\* What tags and purges see of a step that is about neither: no call comes to
\* their steps, and none gets to another queue.
CallsStay ==
  \A p \in Procs :
    /\ call'[p].at \in {"tag", "untag", "purge", "purging"} => call'[p] = call[p]
    /\ call'[p].at \notin Unresolved =>
         /\ call[p].at \notin Unresolved
         /\ call'[p].req = call[p].req /\ call'[p].obj = call[p].obj /\ call'[p].last = call[p].last

\* Nobody takes a step.
LEMMA CallsGrow ==
  ASSUME CallInv, UNCHANGED call, Obj \subseteq Obj'
  PROVE  CallInv' /\ CallsStay
<1>1. \A p \in Procs : CallOK(call[p], Obj')
  BY DEF CallInv, CallOK
<1> QED BY <1>1 DEF CallInv, CallsStay

\* One call goes on.
LEMMA CallReplaced ==
  ASSUME CallInv, NEW p \in Procs, NEW c, call' = [call EXCEPT ![p] = c],
         Obj \subseteq Obj', CallOK(c, Obj')
  PROVE  CallInv' /\ call'[p] = c /\ \A k \in Procs : k # p => call'[k] = call[k]
<1>1. DOMAIN call = Procs /\ call = [k \in Procs |-> call[k]]
  BY DEF CallInv
<1>2. call'[p] = c /\ \A k \in Procs : k # p => call'[k] = call[k]
  BY <1>1
<1>3. call' = [k \in Procs |-> call'[k]]
  BY <1>1
<1>4. \A k \in Procs : CallOK(call'[k], Obj')
  <2> SUFFICES ASSUME NEW k \in Procs PROVE CallOK(call'[k], Obj')
    OBVIOUS
  <2>1. CASE k = p
    BY <1>2, <2>1
  <2>2. CASE k # p
    <3>1. CallOK(call[k], Obj)
      BY DEF CallInv
    <3>2. CallOK(call[k], Obj')
      BY <3>1 DEF CallOK
    <3> QED BY <1>2, <2>2, <3>2
  <2> QED BY <2>1, <2>2
<1> QED BY <1>2, <1>3, <1>4 DEF CallInv

LEMMA CallGoes ==
  ASSUME CallInv, NEW p \in Procs, NEW c, call' = [call EXCEPT ![p] = c],
         Obj \subseteq Obj', CallOK(c, Obj),
         c.at \notin {"tag", "untag", "purge", "purging"},
         c.at \notin Unresolved =>
           /\ call[p].at \notin Unresolved
           /\ c.req = call[p].req /\ c.obj = call[p].obj /\ c.last = call[p].last
  PROVE  CallInv' /\ CallsStay
<1>1. CallOK(c, Obj')
  BY DEF CallOK
<1>2. CallInv' /\ call'[p] = c /\ \A k \in Procs : k # p => call'[k] = call[k]
  BY <1>1, CallReplaced
<1> QED BY <1>2 DEF CallsStay

\* The answer.
LEMMA IdleOK == ASSUME NEW os PROVE CallOK(Idle, os) /\ Idle.at = "idle"
<1>1. /\ IsCall(Idle) /\ Idle.at = "idle" /\ Idle.i = 1 /\ Idle.ok = {} /\ Idle.bad = {}
      /\ Idle.read = <<>> /\ Idle.last = NeverPurged
  BY DEF Idle, IsCall
<1> QED BY <1>1 DEF CallOK, Unresolved, EntrySteps

LEMMA Replied ==
  ASSUME CallInv, NEW p \in Procs, Reply(p), Obj \subseteq Obj'
  PROVE  CallInv' /\ CallsStay /\ call'[p] = Idle
<1>1. CallOK(Idle, Obj) /\ Idle.at = "idle" /\ CallOK(Idle, Obj')
  BY IdleOK
<1>2. call' = [call EXCEPT ![p] = Idle]
  BY DEF Reply
<1>3. CallInv' /\ call'[p] = Idle /\ \A k \in Procs : k # p => call'[k] = call[k]
  BY <1>1, <1>2, CallReplaced
<1> QED BY <1>1, <1>3 DEF CallsStay, Unresolved

(***************************************************************************)
(* Steps that are about neither tags nor purges                            *)
(***************************************************************************)
Quiet == SameMarks /\ CallsStay /\ now <= now' /\ UNCHANGED <<answered, strayed, kept, raced>>

LEMMA QuietTags ==
  ASSUME ObjInv, CallInv, TagInv, Quiet
  PROVE  TagInv'
<1>1. /\ Len(objs) \in Nat /\ Obj = 1..Len(objs) /\ Obj \subseteq 1..MaxObj /\ MaxObj \in Nat
      /\ MaxTags \in Nat
  BY ObjFacts, HandlersAssumption
<1>2. SameMarks /\ CallsStay /\ UNCHANGED <<kept, raced>>
  BY DEF Quiet
<1>3. \A o \in 1..MaxObj : o \notin Obj' => kept'[o] = {}
  BY <1>2 DEF SameMarks, TagInv
<1>4. ASSUME NEW o \in Obj'
      PROVE  /\ IsFiniteSet(objs'[o].tags) /\ kept'[o] \subseteq objs'[o].tags
             /\ Cardinality(objs'[o].tags) > MaxTags => o \in raced'
  <2>1. CASE o \in Obj
    BY <1>2, <2>1 DEF SameMarks, TagInv
  <2>2. CASE o \notin Obj
    <3>1. objs'[o].tags = {} /\ o \in 1..MaxObj
      BY <1>1, <1>2, <2>2 DEF SameMarks
    <3>2. kept[o] = {}
      BY <2>2, <3>1 DEF TagInv
    <3>3. IsFiniteSet({}) /\ Cardinality({}) = 0
      BY FS_EmptySet
    <3>4. ~(Cardinality({}) > MaxTags)
      BY <1>1, <3>3
    <3> QED BY <1>2, <3>1, <3>2, <3>3, <3>4
  <2> QED BY <2>1, <2>2
<1>5. ASSUME NEW p \in Procs
      PROVE  /\ At(p, "untag")' => (kept[call[p].obj] \cap Req(p).tags = {})'
             /\ At(p, "tag")' =>
                  /\ IsFiniteSet(call'[p].tags)
                  /\ Cardinality(call'[p].tags) + Cardinality(Req(p)'.tags) <= MaxTags
  <2>1. CASE call'[p].at \in {"tag", "untag"}
    <3>1. call'[p] = call[p]
      BY <1>2, <2>1 DEF CallsStay
    <3> QED BY <1>2, <3>1 DEF TagInv, At, Req
  <2>2. CASE call'[p].at \notin {"tag", "untag"}
    BY <2>2 DEF At
  <2> QED BY <2>1, <2>2
<1> QED BY <1>2, <1>3, <1>4, <1>5 DEF TagInv

\* What a call knows of answered purges stays true while queues come and go.
LEMMA LastStays ==
  ASSUME ObjInv, ObjInv', PurgeInv, SameMarks, UNCHANGED answered,
         NEW c, c.req.q \in Names, LastOK(c, answered, queues)
  PROVE  LastOK(c, answered', queues')
<1> DEFINE q == c.req.q
<1>1. Obj \subseteq 1..MaxObj /\ Obj' \subseteq 1..MaxObj
  <2>1. MaxObj \in Nat /\ Len(objs) \in Nat
    BY ObjFacts
  <2>2. ASSUME NEW o \in Obj', o \notin Obj PROVE o \in 1..MaxObj
    BY <2>1, <2>2 DEF SameMarks
  <2> QED BY <2>2, ObjFacts
<1>2. ASSUME queues'[q] \notin {0, c.obj} PROVE c.last[queues'[q]] = Never
  <2>1. CASE queues'[q] \in {0, queues[q]}
    BY <1>2, <2>1 DEF LastOK
  <2>2. CASE queues'[q] \notin Obj
    <3> DEFINE o == queues'[q]
    <3>1. o \in Obj'
      <4>1. o \in 0..Len(objs') /\ Obj' = 1..Len(objs') /\ Len(objs') \in Nat
        <5>1. IsSequence(objs') /\ queues' \in [Names -> 0..Len(objs')]
          BY DEF ObjInv
        <5>2. Len(objs') \in Nat /\ DOMAIN objs' = 1..Len(objs')
          BY <5>1, SequenceFacts
        <5> QED BY <5>1, <5>2 DEF Obj
      <4> QED BY <1>2, <4>1
    <3>2. o \in 1..MaxObj /\ answered[o] = Never
      BY <1>1, <2>2, <3>1 DEF PurgeInv
    <3>3. c.last[o] # Never => answered[o] \in Nat
      BY <3>2 DEF LastOK
    <3> HIDE DEF o
    <3>4. c.last[o] = Never
      BY <3>2, <3>3 DEF Never
    <3> QED BY <3>4 DEF o
  <2> QED BY <2>1, <2>2 DEF SameMarks
<1> QED BY <1>2 DEF LastOK

\* The queue of a call that runs has a name.
LEMMA ItsName ==
  ASSUME CallInv, NEW p \in Procs, call[p].at # "idle"
  PROVE  call[p].req \in Requests /\ call[p].req.q \in Names
<1>1. CallOK(call[p], Obj)
  BY DEF CallInv
<1> QED BY <1>1, RequestsAssumption DEF CallOK

LEMMA QuietPurges ==
  ASSUME ObjInv, ObjInv', CallInv, PurgeInv, Quiet
  PROVE  PurgeInv'
<1>1. /\ Len(objs) \in Nat /\ Obj = 1..Len(objs) /\ Obj \subseteq 1..MaxObj
      /\ now \in Nat /\ now' \in Nat /\ Cooldown \in Nat
  BY ObjFacts, HandlersAssumption DEF ObjInv
<1>2. SameMarks /\ CallsStay /\ now <= now' /\ UNCHANGED <<answered, strayed>>
  BY DEF Quiet
<1>3. \A o \in 1..MaxObj : o \notin Obj' => answered'[o] = Never
  BY <1>2 DEF SameMarks, PurgeInv
<1>4. ASSUME NEW o \in Obj', answered'[o] # Never
      PROVE  /\ answered'[o] \in Nat /\ answered'[o] <= now'
             /\ o \notin strayed' => objs'[o].purgedAt \in Nat /\ answered'[o] <= objs'[o].purgedAt
  <2>1. CASE o \in Obj
    <3>1. /\ answered[o] \in Nat /\ answered[o] <= now
          /\ o \notin strayed => objs[o].purgedAt \in Nat /\ answered[o] <= objs[o].purgedAt
      BY <1>2, <1>4, <2>1 DEF PurgeInv
    <3>2. objs'[o].purgedAt = objs[o].purgedAt
      BY <1>2, <2>1 DEF SameMarks
    <3> QED BY <1>1, <1>2, <3>1, <3>2
  <2>2. CASE o \notin Obj
    <3>1. o \in 1..MaxObj
      BY <1>1, <1>2, <2>2 DEF SameMarks
    <3> QED BY <1>2, <1>4, <2>2, <3>1 DEF PurgeInv
  <2> QED BY <2>1, <2>2
<1>5. ASSUME NEW p \in Procs, call'[p].at \notin Unresolved
      PROVE  LastOK(call'[p], answered', queues')
  <2>1. /\ call[p].at \notin Unresolved /\ call'[p].req = call[p].req
        /\ call'[p].obj = call[p].obj /\ call'[p].last = call[p].last
    BY <1>2, <1>5 DEF CallsStay
  <2>2. LastOK(call[p], answered, queues) /\ call[p].req.q \in Names
    BY <2>1, ItsName DEF PurgeInv, Unresolved
  <2>3. LastOK(call[p], answered', queues')
    BY <1>2, <2>2, LastStays
  <2> QED BY <2>1, <2>3 DEF LastOK
<1>6. ASSUME NEW p \in Procs, call'[p].at \in {"purge", "purging"}
      PROVE  /\ call'[p].at = "purge" => Rests(call'[p], call'[p].obj, now', strayed')
             /\ call'[p].at = "purging" => Rests(call'[p], call'[p].found, now', strayed')
  <2>1. /\ call'[p] = call[p] /\ call[p].at \notin Unresolved /\ CallOK(call[p], Obj)
        /\ LastOK(call[p], answered, queues)
    BY <1>2, <1>6 DEF CallsStay, Unresolved, CallInv, PurgeInv
  <2>2. ASSUME NEW o \in Obj, Rests(call[p], o, now, strayed) PROVE Rests(call[p], o, now', strayed')
    <3>1. call[p].last[o] # Never => call[p].last[o] \in Nat
      BY <1>1, <2>1 DEF LastOK
    <3>2. o \notin strayed /\ call[p].last[o] # Never => now - call[p].last[o] >= Cooldown
      BY <2>2 DEF Rests
    <3>3. ASSUME call[p].last[o] \in Nat, now - call[p].last[o] >= Cooldown
          PROVE  now' - call[p].last[o] >= Cooldown
      BY <1>1, <1>2, <3>3
    <3> QED BY <1>2, <3>1, <3>2, <3>3 DEF Rests
  <2>3. call[p].obj \in Obj /\ (call[p].at = "purging" => call[p].found \in Obj)
    BY <2>1 DEF CallOK
  <2> QED BY <2>1, <2>2, <2>3 DEF PurgeInv, At
<1> QED BY <1>2, <1>3, <1>4, <1>5, <1>6 DEF PurgeInv, At

\* A step that leaves the queues alone.
LEMMA NothingMoves ==
  ASSUME ObjInv, UNCHANGED <<queues, objs, now, sent, stored, failed>>
  PROVE  ObjInv' /\ SameMarks /\ Obj' = Obj /\ now <= now'
<1>1. Obj' = Obj /\ Len(objs) \in Nat /\ now \in Nat /\ Known' = Known
  BY ObjFacts DEF Obj, ObjInv, Known
<1>2. ObjInv'
  BY <1>1 DEF ObjInv
<1> QED BY <1>1, <1>2 DEF SameMarks

\* The record of a call is a function of its fields.
LEMMA CallFields ==
  ASSUME NEW c
  PROVE  IsCall(c) <=> /\ DOMAIN c = {"at", "req", "obj", "found", "tags", "size", "i", "ok", "bad",
                                      "read", "last", "from", "torn"}
                       /\ c = [k \in DOMAIN c |-> c[k]]
BY DEF IsCall

LEMMA Running ==
  ASSUME CallInv, NEW p \in Procs
  PROVE  IsCall(call[p]) /\ CallOK(call[p], Obj)
BY DEF CallInv, CallOK

\* A handler begins.
LEMMA BeginKeeps ==
  ASSUME ObjInv, CallInv, NEW p \in Procs, NEW r \in Requests, Begin(p, r)
  PROVE  ObjInv' /\ CallInv' /\ Quiet
<1> DEFINE pc == IF r.op \in ByName THEN "act" ELSE "resolve"
           c  == [Idle EXCEPT !.at = pc, !.req = r]
<1>1. pc \in {"act", "resolve"}
  OBVIOUS
<1>2. /\ call' = [call EXCEPT ![p] = c]
      /\ UNCHANGED <<queues, objs, now, sent, answered, strayed, kept, raced, stored, failed>>
  BY DEF Begin, dedups
<1> HIDE DEF pc
<1>3. /\ IsCall(c) /\ c.at \in {"act", "resolve"} /\ c.req = r /\ c.i = 1 /\ c.ok = {} /\ c.bad = {}
      /\ c.read = <<>> /\ c.last = NeverPurged
  <2>1. /\ IsCall(Idle) /\ Idle.i = 1 /\ Idle.ok = {} /\ Idle.bad = {}
        /\ Idle.read = <<>> /\ Idle.last = NeverPurged
    BY IdleOK DEF CallOK, Unresolved
  <2>2. /\ IsCall(c) /\ c.at = pc /\ c.req = r /\ c.i = Idle.i /\ c.ok = Idle.ok
        /\ c.bad = Idle.bad /\ c.read = Idle.read /\ c.last = Idle.last
    BY <2>1, CallFields
  <2> QED BY <1>1, <2>1, <2>2
<1> HIDE DEF c
<1>4. CallOK(c, Obj)
  BY <1>3 DEF CallOK, Unresolved, EntrySteps
<1>5. ObjInv' /\ SameMarks /\ Obj' = Obj /\ now <= now'
  BY <1>2, NothingMoves
<1>6. CallInv' /\ CallsStay
  BY <1>2, <1>3, <1>4, <1>5, CallGoes DEF Unresolved
<1> QED BY <1>2, <1>5, <1>6 DEF Quiet

\* A handler that only reads, or that is refused.
LEMMA AnsweredKeeps ==
  ASSUME ObjInv, CallInv, NEW p \in Procs, Reply(p),
         UNCHANGED <<queues, objs, now, sent, answered, strayed, kept, raced, stored, failed>>
  PROVE  ObjInv' /\ CallInv' /\ Quiet
<1>1. ObjInv' /\ SameMarks /\ Obj' = Obj /\ now <= now'
  BY NothingMoves
<1>2. CallInv' /\ CallsStay
  BY <1>1, Replied
<1> QED BY <1>1, <1>2 DEF Quiet

(***************************************************************************)
(* Queues and attributes                                                   *)
(***************************************************************************)
LEMMA AttributeFacts ==
  /\ DOMAIN Defaults = Attribute
  /\ \A attrs, req : DOMAIN With(attrs, req) = Attribute
  /\ {"FifoQueue", "ContentBasedDeduplication", "MaximumMessageSize"} \subseteq Attribute
<1>1. DOMAIN Defaults = Attribute
  BY DEF Defaults, Attribute, Numbers, Flags, Texts
<1>2. {"FifoQueue", "ContentBasedDeduplication", "MaximumMessageSize"} \subseteq Attribute
  BY DEF Attribute, Numbers, Flags
<1> QED BY <1>1, <1>2 DEF With

\* The manager's CreateQueue, behind the API and behind the web interface.
LEMMA CreateOrKeeps ==
  ASSUME ObjInv, CallInv, NEW p \in Procs, NEW q \in Names, NEW attrs, DOMAIN attrs = Attribute,
         Whole(attrs), CreateOr(p, q, attrs),
         UNCHANGED <<now, sent, answered, strayed, kept, raced, stored, failed>>
  PROVE  ObjInv' /\ CallInv' /\ Quiet
<1>1. CASE NewQueue(q, attrs) /\ Reply(p)
  <2>1. ObjInv' /\ SameMarks
    BY <1>1, QueueAdded
  <2>2. CallInv' /\ CallsStay
    BY <1>1, <2>1, Replied DEF SameMarks
  <2>3. now <= now'
    BY DEF ObjInv
  <2> QED BY <2>1, <2>2, <2>3 DEF Quiet
<1>2. CASE Reply(p) /\ UNCHANGED <<queues, objs>>
  BY <1>2, AnsweredKeeps
<1> QED BY <1>1, <1>2, Zenon DEF CreateOr

\* A queue is created with the defaults and what the request has.
LEMMA CreateQueueKeeps ==
  ASSUME ObjInv, CallInv, NEW p \in Procs, CreateQueue(p) \/ UICreateQueue(p)
  PROVE  ObjInv' /\ CallInv' /\ Quiet
<1> DEFINE a == With(Defaults, Req(p).attrs)
<1>1. Req(p) \in Requests /\ Req(p).q \in Names
  <2>1. call[p].at = "act"
    BY DEF CreateQueue, UICreateQueue, At
  <2> QED BY <2>1, ItsName DEF Req
<1>2. UNCHANGED <<now, sent, answered, strayed, kept, raced, stored, failed>>
  BY DEF CreateQueue, UICreateQueue, ghosts, dedups
<1>3. \/ CreateOr(p, Req(p).q, a)
      \/ Reply(p) /\ UNCHANGED <<queues, objs>>
  BY Zenon DEF CreateQueue, UICreateQueue
<1>4. DOMAIN a = Attribute
  BY AttributeFacts
<1>5. Whole(a)
  <2>1. Req(p).op \in {"CreateQueue", "UICreate"}
    BY DEF CreateQueue, UICreateQueue, Does
  <2>2. Req(p).attrs \in Given
    BY <1>1, <2>1 DEF Given
  <2> QED BY <2>2, WithIsWhole, DefaultsAreWhole
<1> HIDE DEF a
<1> QED BY <1>1, <1>2, <1>3, <1>4, <1>5, CreateOrKeeps, AnsweredKeeps

LEMMA DeleteQueueKeeps ==
  ASSUME ObjInv, CallInv, NEW p \in Procs, DeleteQueue(p)
  PROVE  ObjInv' /\ CallInv' /\ Quiet
<1> DEFINE q == Req(p).q
<1>1. q \in Names
  <2>1. call[p].at = "act"
    BY DEF DeleteQueue, At
  <2> QED BY <2>1, ItsName DEF Req
<1>2. /\ UNCHANGED <<now, sent, answered, strayed, kept, raced, stored, failed>>
      /\ Reply(p)
  BY DEF DeleteQueue, ghosts, dedups
<1>3. CASE queues[q] = 0
  BY <1>2, <1>3, AnsweredKeeps DEF DeleteQueue
<1>4. CASE queues[q] # 0
  <2>1. queues[q] \in Obj
    BY <1>1, <1>4, ObjFacts DEF ObjInv
  <2>2. /\ objs' = [objs EXCEPT ![queues[q]].open = FALSE] /\ queues' = [queues EXCEPT ![q] = 0]
    BY <1>4 DEF DeleteQueue
  <2>3. ObjInv' /\ SameMarks
    BY <1>1, <1>2, <2>1, <2>2, Closed
  <2>4. CallInv' /\ CallsStay
    BY <1>2, <2>3, Replied DEF SameMarks
  <2>5. now <= now'
    BY <1>2 DEF ObjInv
  <2> QED BY <1>2, <2>3, <2>4, <2>5 DEF Quiet
<1> QED BY <1>3, <1>4

\* SetQueueAttributes gives its queue what the request has or nothing of it, and
\* leaves what the store was configured with.
LEMMA SetKeeps ==
  ASSUME ObjInv, CallInv, NEW p \in Procs, SetQueueAttributes(p)
  PROVE  ObjInv' /\ CallInv' /\ Quiet
<1> DEFINE o == call[p].obj
           g == Settable(Req(p).attrs)
           b == objs[o].attrs
           a == SetAttributes(b, g)
<1>1. /\ call[p].at = "set" /\ Reply(p)
      /\ UNCHANGED <<queues, now, sent, answered, strayed, kept, raced, stored, failed>>
  BY DEF SetQueueAttributes, At, ghosts, dedups
<1>2. o \in Obj /\ Req(p) \in Requests /\ Req(p).op = "SetQueueAttributes"
  BY <1>1, Running DEF CallOK, Unresolved, Req
<1>3. objs' = objs \/ objs' = [objs EXCEPT ![o].attrs = a]
  BY <1>2 DEF SetQueueAttributes, O, Obj
<1>4. CASE UNCHANGED objs
  BY <1>1, <1>4, AnsweredKeeps
<1>5. CASE objs' = [objs EXCEPT ![o].attrs = a]
  <2>1. DOMAIN b = Attribute /\ Whole(b)
    BY <1>2, ObjFacts DEF ObjectOK
  <2>2. {"FifoQueue", "ContentBasedDeduplication"} \cap DOMAIN g = {}
    BY AttributeFacts DEF Settable, Immutable
  <2>3. AllValid(g) => g \in Given
    BY <1>2 DEF Given
  <2>4. a = b \/ (a = With(b, g) /\ AllValid(g))
    BY DEF SetAttributes
  <2> HIDE DEF a, b, g
  <2>5. /\ DOMAIN With(b, g) = Attribute
        /\ \A name \in Attribute : name \notin DOMAIN g => With(b, g)[name] = b[name]
    BY DEF With
  <2>6. /\ DOMAIN a = Attribute /\ a.FifoQueue = b.FifoQueue
        /\ a.ContentBasedDeduplication = b.ContentBasedDeduplication
    BY <2>1, <2>2, <2>4, <2>5, AttributeFacts
  <2>7. Whole(a)
    BY <2>1, <2>3, <2>4, WithIsWhole
  <2>8. ObjInv' /\ SameMarks
    BY <1>1, <1>2, <1>5, <2>6, <2>7, AttrsReplaced DEF b
  <2>9. CallInv' /\ CallsStay
    BY <1>1, <2>8, Replied DEF SameMarks
  <2>10. now <= now'
    BY <1>1 DEF ObjInv
  <2> QED BY <1>1, <2>8, <2>9, <2>10 DEF Quiet
<1> QED BY <1>3, <1>4, <1>5

\* GetQueueAttributes has read one attribute more: of those there are now, which
\* are the ones it began with, or its answer is torn.
LEMMA GetKeeps ==
  ASSUME ObjInv, CallInv, NEW p \in Procs, GetQueueAttribute(p)
  PROVE  ObjInv' /\ CallInv' /\ Quiet
<1> DEFINE a == objs[call[p].obj].attrs
           start == IF call[p].read = <<>> THEN a ELSE call[p].from
           read == Append(call[p].read, a[Req(p).names[Len(call[p].read) + 1]])
           torn == call[p].torn \/ a # start
           c == [call[p] EXCEPT !.read = read, !.from = start, !.torn = torn]
<1>1. /\ call[p].at = "get"
      /\ UNCHANGED <<queues, objs, now, sent, answered, strayed, kept, raced, stored, failed>>
  BY DEF GetQueueAttribute, At, ghosts, dedups
<1>2. CallOK(call[p], Obj) /\ IsCall(call[p])
  BY Running
<1>3. ReadOK(call[p]) /\ call[p].obj \in Obj /\ call[p].req \in Requests
  BY <1>1, <1>2 DEF CallOK, Unresolved
<1>4. Whole(a)
  BY <1>3, ObjFacts DEF ObjectOK
<1>5. Reply(p) \/ call' = [call EXCEPT ![p] = c]
  BY Zenon DEF GetQueueAttribute, O
<1> HIDE DEF a
<1>6. CASE Reply(p)
  BY <1>1, <1>6, AnsweredKeeps
<1>7. CASE call' = [call EXCEPT ![p] = c]
  <2>1. /\ IsSequence(read) /\ Len(call[p].read) \in Nat
        /\ DOMAIN read = 1..(Len(call[p].read) + 1)
        /\ read[Len(call[p].read) + 1] = a[call[p].req.names[Len(call[p].read) + 1]]
        /\ DOMAIN call[p].read = 1..Len(call[p].read)
        /\ \A i \in 1..Len(call[p].read) : read[i] = call[p].read[i]
    <3>1. IsSequence(call[p].read)
      BY <1>3 DEF ReadOK
    <3> QED BY <3>1, Appended, SequenceFacts DEF Req
  <2> HIDE DEF read
  <2>2. Whole(start)
    BY <1>3, <1>4 DEF ReadOK
  <2>3. torn \/ \A i \in DOMAIN read : read[i] = start[call[p].req.names[i]]
    <3> SUFFICES ASSUME ~torn, NEW i \in DOMAIN read PROVE read[i] = start[call[p].req.names[i]]
      OBVIOUS
    <3>1. ~call[p].torn /\ a = start
      OBVIOUS
    <3>2. CASE i = Len(call[p].read) + 1
      BY <2>1, <3>1, <3>2
    <3>3. CASE i # Len(call[p].read) + 1
      <4>1. i \in DOMAIN call[p].read /\ read[i] = call[p].read[i]
        BY <2>1, <3>3
      <4>2. call[p].read # <<>>
        BY <4>1
      <4>3. read[i] = call[p].from[call[p].req.names[i]]
        BY <1>3, <3>1, <4>1 DEF ReadOK
      <4> QED BY <4>2, <4>3
    <3> QED BY <3>2, <3>3
  <2> HIDE DEF start, torn
  <2>4. /\ IsCall(c) /\ c.at = "get" /\ c.req = call[p].req /\ c.obj = call[p].obj
        /\ c.last = call[p].last /\ c.read = read /\ c.from = start /\ c.torn = torn
    <3>1. DOMAIN c = DOMAIN call[p] /\ c = [k \in DOMAIN c |-> c[k]]
      OBVIOUS
    <3>2. /\ "read" \in DOMAIN call[p] /\ "from" \in DOMAIN call[p] /\ "torn" \in DOMAIN call[p]
      BY <1>2, CallFields
    <3>3. /\ c.at = call[p].at /\ c.req = call[p].req /\ c.obj = call[p].obj
          /\ c.last = call[p].last /\ c.read = read /\ c.from = start /\ c.torn = torn
      BY <3>2
    <3> HIDE DEF c
    <3> QED BY <1>1, <1>2, <3>1, <3>3, CallFields
  <2>5. call' = [call EXCEPT ![p] = c]
    BY <1>7
  <2> HIDE DEF c
  <2>6. ReadOK(c)
    BY <2>1, <2>2, <2>3, <2>4 DEF ReadOK
  <2>7. CallOK(c, Obj)
    BY <1>1, <1>2, <2>4, <2>6 DEF CallOK, Unresolved, EntrySteps
  <2>8. ObjInv' /\ SameMarks /\ Obj' = Obj /\ now <= now'
    BY <1>1, NothingMoves
  <2>9. CallInv' /\ CallsStay
    BY <1>1, <2>4, <2>5, <2>7, <2>8, CallGoes DEF Unresolved
  <2> QED BY <1>1, <2>8, <2>9 DEF Quiet
<1> QED BY <1>5, <1>6, <1>7

(***************************************************************************)
(* Entries                                                                 *)
(***************************************************************************)
\* The check of the identifiers of a batch.
LEMMA DistinctIds ==
  ASSUME NEW s, Len(s) \in Nat, DOMAIN s = 1..Len(s), ~BatchRefused(s)
  PROVE  \A j, k \in 1..Len(s) : s[j].id = s[k].id => j = k
<1> DEFINE n == Len(s)
           ids == {s[i].id : i \in DOMAIN s}
           f == [i \in 1..n |-> s[i].id]
<1>1. ~(Cardinality(ids) < n)
  BY DEF BatchRefused
<1>2. f \in Surjection(1..n, ids)
  BY DEF Surjection
<1>3. IsFiniteSet(1..n) /\ Cardinality(1..n) = n
  <2>1. n \in Nat /\ 1 \in Int /\ n \in Int
    OBVIOUS
  <2> HIDE DEF n
  <2>2. IsFiniteSet(1..n) /\ Cardinality(1..n) = IF 1 <= n THEN n - 1 + 1 ELSE 0
    BY <2>1, FS_Interval
  <2> QED BY <2>1, <2>2
<1>4. IsFiniteSet(ids) /\ Cardinality(ids) <= n /\ (Cardinality(ids) = n => f \in Injection(1..n, ids))
  BY <1>2, <1>3, FS_Surjection
<1>5. Cardinality(ids) \in Nat
  BY <1>4, FS_CardinalityType
<1>6. f \in Injection(1..n, ids)
  BY <1>1, <1>4, <1>5
<1>7. \A j, k \in 1..n : f[j] = f[k] => j = k
  <2> HIDE DEF f, ids
  <2> QED BY <1>6 DEF Injection, IsInjective
<1> QED BY <1>7

\* What every call at an entry relies on.
LEMMA EntryFacts ==
  ASSUME CallInv, NEW p \in Procs, call[p].at \in EntrySteps
  PROVE  /\ EntriesOK(call[p]) /\ call[p].obj \in Obj /\ call[p].at \notin Unresolved
         /\ Req(p) \in Requests /\ IsCall(call[p])
         /\ Len(Req(p).entries) \in Nat /\ DOMAIN Req(p).entries = 1..Len(Req(p).entries)
<1>1. CallOK(call[p], Obj) /\ IsCall(call[p])
  BY Running
<1>2. call[p].at \notin Unresolved
  BY DEF EntrySteps, Unresolved
<1>3. /\ EntriesOK(call[p]) /\ call[p].obj \in Obj /\ Req(p) \in Requests
  BY <1>1, <1>2 DEF CallOK, Unresolved, Req
<1>4. Req(p).op \in DOMAIN EntryStep
  BY <1>3 DEF EntriesOK, Req
<1> QED BY <1>1, <1>2, <1>3, <1>4, RequestsAssumption

\* An entry gets into one of the lists.
LEMMA EntryTaken ==
  ASSUME CallInv, NEW p \in Procs, call[p].at \in EntrySteps, HasEntry(p),
         Failed(p) \/ Succeeded(p), Obj \subseteq Obj'
  PROVE  CallInv' /\ CallsStay
<1> DEFINE entries == Req(p).entries
           k  == call[p].i
           id == Entry(p).id
<1>1. /\ EntriesOK(call[p]) /\ call[p].obj \in Obj /\ call[p].at \notin Unresolved
      /\ Req(p) \in Requests /\ IsCall(call[p]) /\ Len(entries) \in Nat
  BY EntryFacts
<1>2. k \in 1..Len(entries) /\ id = entries[k].id
  BY <1>1 DEF EntriesOK, HasEntry, Entry, Req
<1>3. /\ \A i, j \in 1..Len(entries) : entries[i].id = entries[j].id => i = j
      /\ call[p].ok \cup call[p].bad = {entries[j].id : j \in 1..(k - 1)}
      /\ Req(p).op \in DOMAIN EntryStep
  BY <1>1 DEF EntriesOK, Req
<1>4. {entries[j].id : j \in 1..k} = {entries[j].id : j \in 1..(k - 1)} \cup {id}
  BY <1>1, <1>2
<1>5. ASSUME NEW c, IsCall(c), c.at = call[p].at, c.req = Req(p), c.obj = call[p].obj,
             c.last = call[p].last, c.i = k + 1,
             \/ c.ok = call[p].ok /\ c.bad = call[p].bad \cup {id}
             \/ c.bad = call[p].bad /\ c.ok = call[p].ok \cup {id},
             call' = [call EXCEPT ![p] = c]
      PROVE  CallInv' /\ CallsStay
  <2>1. c.i \in 1..(Len(entries) + 1) /\ c.i - 1 = k
    BY <1>1, <1>2, <1>5
  <2>2. c.ok \cup c.bad = {entries[j].id : j \in 1..k}
    <3>1. c.ok \cup c.bad = (call[p].ok \cup call[p].bad) \cup {id}
      BY <1>5
    <3> QED BY <1>3, <1>4, <3>1
  <2>3. EntriesOK(c)
    BY <1>3, <1>5, <2>1, <2>2 DEF EntriesOK
  <2>4. c.at \in EntrySteps /\ c.at \notin Unresolved
    BY <1>1, <1>5
  <2>5. c.at \notin {"idle", "entries", "get", "tagcheck", "tag", "untag", "purge", "purging", "mark", "set"}
    BY <2>4 DEF EntrySteps
  <2>6. CallOK(c, Obj)
    BY <1>1, <1>5, <2>3, <2>4, <2>5 DEF CallOK
  <2> QED BY <1>1, <1>5, <2>4, <2>5, <2>6, CallGoes DEF Req
<1>6. CASE Failed(p)
  <2> DEFINE c == [call[p] EXCEPT !.bad = @ \cup {id}, !.i = @ + 1]
  <2>1. call' = [call EXCEPT ![p] = c]
    BY <1>6 DEF Failed
  <2>2. /\ IsCall(c) /\ c.at = call[p].at /\ c.req = Req(p) /\ c.obj = call[p].obj
        /\ c.last = call[p].last /\ c.i = k + 1
        /\ c.ok = call[p].ok /\ c.bad = call[p].bad \cup {id}
    BY <1>1, CallFields DEF Req
  <2> QED BY <1>5, <2>1, <2>2
<1>7. CASE Succeeded(p)
  <2> DEFINE c == [call[p] EXCEPT !.ok = @ \cup {id}, !.i = @ + 1]
  <2>1. call' = [call EXCEPT ![p] = c]
    BY <1>7 DEF Succeeded
  <2>2. /\ IsCall(c) /\ c.at = call[p].at /\ c.req = Req(p) /\ c.obj = call[p].obj
        /\ c.last = call[p].last /\ c.i = k + 1
        /\ c.bad = call[p].bad /\ c.ok = call[p].ok \cup {id}
    BY <1>1, CallFields DEF Req
  <2> QED BY <1>5, <2>1, <2>2
<1> QED BY <1>6, <1>7

\* The first entry is at its turn.
LEMMA CheckEntriesKeeps ==
  ASSUME ObjInv, CallInv, NEW p \in Procs, CheckEntries(p)
  PROVE  ObjInv' /\ CallInv' /\ Quiet
<1> DEFINE r == Req(p)
           n == Len(r.entries)
<1>1. /\ call[p].at = "entries"
      /\ UNCHANGED <<queues, objs, now, sent, answered, strayed, kept, raced, stored, failed>>
  BY DEF CheckEntries, At, ghosts, dedups
<1>2. CallOK(call[p], Obj) /\ IsCall(call[p])
  BY Running
<1>3. /\ r \in Requests /\ call[p].obj \in Obj /\ r.op \in DOMAIN EntryStep
      /\ call[p].i = 1 /\ call[p].ok = {} /\ call[p].bad = {}
      /\ call[p].at \notin Unresolved
  BY <1>1, <1>2 DEF CallOK, Req, Unresolved
<1>4. n \in Nat /\ DOMAIN r.entries = 1..n /\ (r.op \notin Batches => n = 1)
  BY <1>3, RequestsAssumption
<1>5. CASE Reply(p)
  BY <1>1, <1>5, AnsweredKeeps
<1>6. CASE /\ ~(r.op \in Batches /\ BatchRefused(r.entries))
           /\ call' = [call EXCEPT ![p].at = EntryStep[r.op], ![p].size = O(p).attrs.MaximumMessageSize]
  <2> DEFINE pc == EntryStep[r.op]
             size == O(p).attrs.MaximumMessageSize
             c == [call[p] EXCEPT !.at = pc, !.size = size]
  <2>1. call' = [call EXCEPT ![p] = c]
    BY <1>6
  <2>2. pc \in EntrySteps
    BY <1>3 DEF EntryStep, EntrySteps
  <2> HIDE DEF pc, size
  <2>3. /\ IsCall(c) /\ c.at = pc /\ c.req = r /\ c.obj = call[p].obj /\ c.last = call[p].last
        /\ c.i = 1 /\ c.ok = {} /\ c.bad = {}
    BY <1>2, <1>3, CallFields DEF Req
  <2> HIDE DEF c
  <2>4. \A j, k \in 1..n : r.entries[j].id = r.entries[k].id => j = k
    <3>1. CASE r.op \in Batches
      BY <1>4, <1>6, <3>1, DistinctIds
    <3>2. CASE r.op \notin Batches
      BY <1>4, <3>2
    <3> QED BY <3>1, <3>2
  <2>5. EntriesOK(c)
    BY <1>3, <1>4, <2>3, <2>4 DEF EntriesOK
  <2>6. c.at \notin {"idle", "entries", "get", "tagcheck", "tag", "untag", "purge", "purging", "mark",
                     "set", "act", "resolve", "autocreate"}
    BY <2>2, <2>3 DEF EntrySteps
  <2>7. CallOK(c, Obj)
    BY <1>3, <2>3, <2>5, <2>6 DEF CallOK, Unresolved
  <2>8. ObjInv' /\ SameMarks /\ Obj' = Obj /\ now <= now'
    BY <1>1, NothingMoves
  <2>9. CallInv' /\ CallsStay
    BY <1>3, <2>1, <2>3, <2>6, <2>7, <2>8, CallGoes DEF Req
  <2> QED BY <1>1, <2>8, <2>9 DEF Quiet
<1> QED BY <1>5, <1>6 DEF CheckEntries

(***************************************************************************)
(* Messages                                                                *)
(***************************************************************************)
\* A message in another state is a message still.
LEMMA MessageStays ==
  ASSUME NEW n, NEW m, MessageOK(m, n), NEW d, DOMAIN d = DOMAIN m, d.n = m.n,
         d.rcv \in 0..MaxReceives, d.held \in BOOLEAN
  PROVE  MessageOK(d, n)
BY DEF MessageOK

LEMMA MessageFacts ==
  ASSUME NEW n, NEW m, MessageOK(m, n), NEW b, b \in BOOLEAN, NEW r, r \in 0..MaxReceives
  PROVE  /\ MessageOK([m EXCEPT !.held = b], n)
         /\ MessageOK([m EXCEPT !.rcv = r, !.held = b], n)
<1>1. DOMAIN m = {"n", "rcv", "held", "body", "id"} /\ m.rcv \in 0..MaxReceives
  BY DEF MessageOK
<1>2. MessageOK([m EXCEPT !.held = b], n)
  <2> DEFINE d == [m EXCEPT !.held = b]
  <2>1. DOMAIN d = DOMAIN m /\ d.n = m.n /\ d.rcv = m.rcv /\ d.held = b
    BY <1>1
  <2> HIDE DEF d
  <2> QED BY <1>1, <2>1, MessageStays
<1>3. MessageOK([m EXCEPT !.rcv = r, !.held = b], n)
  <2> DEFINE d == [m EXCEPT !.rcv = r, !.held = b]
  <2>1. DOMAIN d = DOMAIN m /\ d.n = m.n /\ d.rcv = r /\ d.held = b
    BY <1>1
  <2> HIDE DEF d
  <2> QED BY <1>1, <2>1, MessageStays
<1> QED BY <1>2, <1>3

\* Messages in other states, or fewer of them, with what the call becomes.
LEMMA MsgsKeep ==
  ASSUME ObjInv, NEW o \in Obj, NEW M, objs' = [objs EXCEPT ![o].msgs = M], MessagesOK(M, sent),
         UNCHANGED <<queues, now, sent, answered, strayed, kept, raced, stored, failed>>,
         Obj \subseteq Obj' => CallInv' /\ CallsStay
  PROVE  ObjInv' /\ CallInv' /\ Quiet
<1>1. ObjInv' /\ SameMarks
  BY MsgsReplaced
<1>2. now <= now' /\ Obj \subseteq Obj'
  BY <1>1 DEF ObjInv, SameMarks
<1> QED BY <1>1, <1>2 DEF Quiet

\* A store that is purged has neither messages nor identifiers.
LEMMA StorePurged ==
  ASSUME ObjInv, NEW o \in Obj, objs' = PurgedStore(o), UNCHANGED <<queues, now, sent, stored, failed>>
  PROVE  ObjInv' /\ SameMarks
<1>1. objs' = [objs EXCEPT ![o] = Stocked(objs[o], {}, {})]
  BY DEF PurgedStore, Stocked, Obj
<1>2. MessagesOK({}, sent') /\ sent' \in Nat /\ sent <= sent' /\ Known \subseteq Known'
  BY DEF MessagesOK, ObjInv, Known
<1> QED BY <1>1, <1>2, StockReplaced

\* The purge of the web interface.
LEMMA UIPurgeKeeps ==
  ASSUME ObjInv, CallInv, NEW p \in Procs, UIPurgeQueue(p)
  PROVE  ObjInv' /\ CallInv' /\ Quiet
<1> DEFINE o == call[p].obj
<1>1. /\ call[p].at = "uipurge" /\ Reply(p)
      /\ UNCHANGED <<queues, now, sent, answered, strayed, kept, raced, stored, failed>>
  BY DEF UIPurgeQueue, At, ghosts, dedups
<1>2. o \in Obj
  BY <1>1, Running DEF CallOK, Unresolved
<1>3. CASE objs' = PurgedStore(o)
  <2>1. ObjInv' /\ SameMarks
    BY <1>1, <1>2, <1>3, StorePurged
  <2>2. CallInv' /\ CallsStay /\ now <= now'
    BY <1>1, <2>1, Replied DEF SameMarks, ObjInv
  <2> QED BY <1>1, <2>1, <2>2 DEF Quiet
<1>4. CASE UNCHANGED objs
  BY <1>1, <1>4, AnsweredKeeps
<1> QED BY <1>3, <1>4 DEF UIPurgeQueue

\* The entry failed, and the store is as it was.
LEMMA EntryFails ==
  ASSUME ObjInv, CallInv, NEW p \in Procs, call[p].at \in EntrySteps, HasEntry(p),
         Failed(p) \/ Succeeded(p),
         UNCHANGED <<queues, objs, now, sent, answered, strayed, kept, raced, stored, failed>>
  PROVE  ObjInv' /\ CallInv' /\ Quiet
<1>1. ObjInv' /\ SameMarks /\ Obj' = Obj /\ now <= now'
  BY NothingMoves
<1>2. CallInv' /\ CallsStay
  BY <1>1, EntryTaken
<1> QED BY <1>1, <1>2 DEF Quiet

\* A store keeps a message.
LEMMA StoreKeeps ==
  ASSUME ObjInv, NEW o \in Obj, NEW m, Keeps(objs, o, m), sent' \in Nat, sent <= sent',
         MessageOK(m, sent'), UNCHANGED <<queues, now>>
  PROVE  ObjInv' /\ SameMarks
<1> DEFINE M == objs[o].msgs \cup {m}
           D == objs[o].seen \cup Ids(o, m)
<1>1. objs' = [objs EXCEPT ![o] = Stocked(objs[o], M, D)]
  BY DEF Keeps, Put, Stocked, Obj
<1>2. ObjectOK(objs[o], o, now, sent, Known)
  BY ObjFacts
<1>3. MessagesOK(M, sent')
  <2>1. sent \in Nat /\ now \in Nat
    BY DEF ObjInv
  <2>2. ObjectOK(objs[o], o, now, sent', Known)
    BY <1>2, <2>1, StaysOK
  <2> QED BY <2>2 DEF ObjectOK, MessagesOK
<1>4. Known \subseteq Known' /\ \A id \in Ids(o, m) : <<o, id>> \in Known'
  BY DEF Keeps, Known
<1>5. \A id \in D : <<o, id>> \in Known'
  BY <1>2, <1>4 DEF ObjectOK
<1> HIDE DEF M, D
<1> QED BY <1>1, <1>3, <1>4, <1>5, StockReplaced

\* A store remembers an identifier and fails to insert its message.
LEMMA StoreForgets ==
  ASSUME ObjInv, NEW o \in Obj, NEW m, FailsToInsert(objs, o, m), UNCHANGED <<queues, now, sent>>
  PROVE  ObjInv' /\ SameMarks
<1> DEFINE D == objs[o].seen \cup Ids(o, m)
<1>1. objs' = [objs EXCEPT ![o].seen = D]
  BY DEF FailsToInsert, Remember
<1>2. Known \subseteq Known' /\ \A id \in Ids(o, m) : <<o, id>> \in Known'
  BY DEF FailsToInsert, Known
<1>3. \A id \in D : <<o, id>> \in Known'
  BY <1>2, ObjFacts DEF ObjectOK
<1> HIDE DEF D
<1> QED BY <1>1, <1>2, <1>3, SeenReplaced

\* A message is sent: kept, taken for another one, not inserted, or refused.
LEMMA SendKeeps ==
  ASSUME ObjInv, CallInv, NEW p \in Procs, SendEntry(p) \/ UISendMessage(p)
  PROVE  ObjInv' /\ CallInv' /\ Quiet
<1> DEFINE o == call[p].obj
<1>1. /\ call[p].at \in EntrySteps /\ HasEntry(p)
      /\ UNCHANGED <<queues, now, answered, strayed, kept, raced>>
  BY DEF SendEntry, UISendMessage, At, EntrySteps
<1>2. o \in Obj
  BY <1>1, EntryFacts
<1>3. sent \in Nat /\ now \in Nat
  BY DEF ObjInv
<1>4. \/ Keeps(objs, o, Message(p)) /\ sent' = sent + 1 /\ Succeeded(p)
      \/ FailsToInsert(objs, o, Message(p)) /\ Failed(p) /\ UNCHANGED sent
      \/ (Failed(p) \/ Succeeded(p)) /\ UNCHANGED <<objs, sent, stored, failed>>
  BY Zenon DEF SendEntry, UISendMessage, StoreEntry, dedups
<1>5. ASSUME ObjInv', SameMarks, Failed(p) \/ Succeeded(p)
      PROVE  ObjInv' /\ CallInv' /\ Quiet
  <2>1. CallInv' /\ CallsStay /\ now <= now'
    BY <1>1, <1>3, <1>5, EntryTaken DEF SameMarks
  <2> QED BY <1>1, <1>5, <2>1 DEF Quiet
<1>6. CASE Keeps(objs, o, Message(p)) /\ sent' = sent + 1 /\ Succeeded(p)
  <2>1. MessageOK(Message(p), sent')
    <3> DEFINE m == Message(p)
    <3>1. DOMAIN m = {"n", "rcv", "held", "body", "id"} /\ m.n = sent + 1 /\ m.rcv = 0 /\ m.held = FALSE
      BY DEF Message
    <3> HIDE DEF m
    <3>2. m.n \in 1..sent' /\ m.rcv \in 0..MaxReceives
      BY <1>3, <1>6, <3>1, HandlersAssumption
    <3> QED BY <3>1, <3>2 DEF MessageOK, m
  <2>2. sent' \in Nat /\ sent <= sent'
    BY <1>3, <1>6
  <2>3. ObjInv' /\ SameMarks
    BY <1>1, <1>2, <1>6, <2>1, <2>2, StoreKeeps
  <2> QED BY <1>5, <1>6, <2>3
<1>7. CASE FailsToInsert(objs, o, Message(p)) /\ Failed(p) /\ UNCHANGED sent
  <2>1. ObjInv' /\ SameMarks
    BY <1>1, <1>2, <1>7, StoreForgets
  <2> QED BY <1>5, <1>7, <2>1
<1>8. CASE (Failed(p) \/ Succeeded(p)) /\ UNCHANGED <<objs, sent, stored, failed>>
  BY <1>1, <1>8, EntryFails
<1> QED BY <1>4, <1>6, <1>7, <1>8

\* A message is deleted.
LEMMA DeleteKeeps ==
  ASSUME ObjInv, CallInv, NEW p \in Procs, DeleteEntry(p)
  PROVE  ObjInv' /\ CallInv' /\ Quiet
<1> DEFINE o == call[p].obj
           M == objs[o].msgs \ Held(p)
<1>1. /\ call[p].at \in EntrySteps /\ HasEntry(p)
      /\ UNCHANGED <<queues, now, sent, answered, strayed, kept, raced, stored, failed>>
  BY DEF DeleteEntry, At, EntrySteps, ghosts, dedups
<1>2. CASE UNCHANGED objs /\ Failed(p)
  BY <1>1, <1>2, EntryFails
<1>3. CASE objs' = [objs EXCEPT ![o].msgs = M] /\ Succeeded(p)
  <2>1. o \in Obj
    BY <1>1, EntryFacts
  <2>2. MessagesOK(M, sent)
    BY <2>1, ObjFacts DEF ObjectOK, MessagesOK
  <2> HIDE DEF M
  <2>3. Obj \subseteq Obj' => CallInv' /\ CallsStay
    BY <1>1, <1>3, EntryTaken
  <2> QED BY <1>1, <1>3, <2>1, <2>2, <2>3, MsgsKeep
<1>4. \/ UNCHANGED objs /\ Failed(p)
      \/ objs' = [objs EXCEPT ![o].msgs = M] /\ Succeeded(p)
  <2>1. o \in DOMAIN objs
    BY <1>1, EntryFacts DEF Obj
  <2> QED BY <2>1 DEF DeleteEntry
<1> QED BY <1>2, <1>3, <1>4

\* A message is held for another time, or given back.
LEMMA ChangeKeeps ==
  ASSUME ObjInv, CallInv, NEW p \in Procs, ChangeEntry(p)
  PROVE  ObjInv' /\ CallInv' /\ Quiet
<1> DEFINE o == call[p].obj
           M(b) == (objs[o].msgs \ Held(p)) \cup {[m EXCEPT !.held = b] : m \in Held(p)}
<1>1. /\ call[p].at \in EntrySteps /\ HasEntry(p)
      /\ UNCHANGED <<queues, now, sent, answered, strayed, kept, raced, stored, failed>>
  BY DEF ChangeEntry, At, EntrySteps, ghosts, dedups
<1>2. CASE UNCHANGED objs /\ Failed(p)
  BY <1>1, <1>2, EntryFails
<1>3. ASSUME NEW b \in BOOLEAN, objs' = [objs EXCEPT ![o].msgs = M(b)], Succeeded(p)
      PROVE  ObjInv' /\ CallInv' /\ Quiet
  <2>1. o \in Obj
    BY <1>1, EntryFacts
  <2>2. MessagesOK(M(b), sent)
    <3>1. MessagesOK(objs[o].msgs, sent) /\ Held(p) \subseteq objs[o].msgs
      BY <2>1, ObjFacts DEF ObjectOK, Held, Holding
    <3> SUFFICES ASSUME NEW m \in M(b) PROVE MessageOK(m, sent)
      BY DEF MessagesOK
    <3>2. CASE m \in objs[o].msgs
      BY <3>1, <3>2 DEF MessagesOK
    <3>3. CASE \E k \in Held(p) : m = [k EXCEPT !.held = b]
      <4>1. PICK k \in Held(p) : m = [k EXCEPT !.held = b]
        BY <3>3
      <4>2. MessageOK(k, sent) /\ 0 \in 0..MaxReceives
        BY <3>1, HandlersAssumption DEF MessagesOK
      <4> QED BY <4>1, <4>2, MessageFacts
    <3> QED BY <3>2, <3>3
  <2> DEFINE N == M(b)
  <2>3. objs' = [objs EXCEPT ![o].msgs = N] /\ MessagesOK(N, sent)
    BY <1>3, <2>2
  <2> HIDE DEF N, M
  <2>4. Obj \subseteq Obj' => CallInv' /\ CallsStay
    BY <1>1, <1>3, EntryTaken
  <2> QED BY <1>1, <2>1, <2>3, <2>4, MsgsKeep
<1>4. \/ UNCHANGED objs /\ Failed(p)
      \/ \E b \in BOOLEAN : objs' = [objs EXCEPT ![o].msgs = M(b)] /\ Succeeded(p)
  <2> DEFINE t == IF Entry(p).visibility < 0 /\ Does(p, {"ChangeMessageVisibilityBatch"})
                  THEN O(p).attrs.VisibilityTimeout ELSE Entry(p).visibility
  <2>1. (t > 0) \in BOOLEAN
    OBVIOUS
  <2>2. \/ UNCHANGED objs /\ Failed(p)
        \/ objs' = [objs EXCEPT ![o].msgs = M(t > 0)] /\ Succeeded(p)
    <3>1. o \in DOMAIN objs
      BY <1>1, EntryFacts DEF Obj
    <3> QED BY <3>1, Zenon DEF ChangeEntry
  <2> HIDE DEF t, M
  <2> QED BY <2>1, <2>2
<1> QED BY <1>2, <1>3, <1>4

LEMMA OneMore == \A r \in 0..MaxReceives : r < MaxReceives => r + 1 \in 0..MaxReceives
<1>1. MaxReceives \in Nat
  BY HandlersAssumption
<1> QED BY <1>1

\* What a Receive takes is messages still.
LEMMA Received ==
  ASSUME NEW M, NEW n, MessagesOK(M, n),
         NEW S \in SUBSET {m \in M : ~m.held /\ m.rcv < MaxReceives}
  PROVE  MessagesOK((M \ S) \cup {[m EXCEPT !.rcv = @ + 1, !.held = TRUE] : m \in S}, n)
<1> DEFINE T == {[m EXCEPT !.rcv = @ + 1, !.held = TRUE] : m \in S}
<1> SUFFICES ASSUME NEW m \in (M \ S) \cup T PROVE MessageOK(m, n)
  BY DEF MessagesOK
<1>1. CASE m \in M
  BY <1>1 DEF MessagesOK
<1>2. CASE m \in T
  <2>1. PICK k \in S : m = [k EXCEPT !.rcv = @ + 1, !.held = TRUE]
    BY <1>2
  <2>2. MessageOK(k, n) /\ k.rcv < MaxReceives
    BY DEF MessagesOK
  <2>3. k.rcv + 1 \in 0..MaxReceives
    <3>1. k.rcv \in 0..MaxReceives
      BY <2>2, Zenon DEF MessageOK
    <3> QED BY <2>2, <3>1, OneMore, Zenon
  <2>4. m = [k EXCEPT !.rcv = k.rcv + 1, !.held = TRUE]
    BY <2>1
  <2>5. DOMAIN m = DOMAIN k /\ m.n = k.n /\ m.rcv = k.rcv + 1 /\ m.held = TRUE
    BY <2>2, <2>4 DEF MessageOK
  <2> QED BY <2>2, <2>3, <2>5, MessageStays
<1> QED BY <1>1, <1>2

\* The store's answer to a ReceiveMessage, and to the page that shows messages.
LEMMA ReceiveKeeps ==
  ASSUME ObjInv, CallInv, NEW p \in Procs, Poll(p) \/ Peek(p)
  PROVE  ObjInv' /\ CallInv' /\ Quiet
<1> DEFINE o == call[p].obj
<1>1. /\ call[p].at \in {"poll", "peek"} /\ Reply(p)
      /\ UNCHANGED <<queues, now, sent, answered, strayed, kept, raced, stored, failed>>
  BY DEF Poll, Peek, At, ghosts, dedups
<1>2. o \in Obj
  BY <1>1, Running DEF CallOK, Unresolved
<1>3. CASE UNCHANGED objs
  BY <1>1, <1>3, AnsweredKeeps
<1>4. ASSUME NEW max, Receive(p, max)
      PROVE  ObjInv' /\ CallInv' /\ Quiet
  <2> DEFINE M(S) == (objs[o].msgs \ S) \cup {[m EXCEPT !.rcv = @ + 1, !.held = TRUE] : m \in S}
  <2>1. PICK S \in SUBSET {m \in objs[o].msgs : ~m.held /\ m.rcv < MaxReceives} :
          objs' = [objs EXCEPT ![o].msgs = M(S)]
    <3>1. o \in DOMAIN objs
      BY <1>2 DEF Obj
    <3> QED BY <1>4, <3>1 DEF Receive
  <2>2. MessagesOK(M(S), sent)
    <3>1. MessagesOK(objs[o].msgs, sent)
      BY <1>2, ObjFacts DEF ObjectOK
    <3> QED BY <3>1, Received
  <2> DEFINE N == M(S)
  <2>3. objs' = [objs EXCEPT ![o].msgs = N] /\ MessagesOK(N, sent)
    BY <2>1, <2>2
  <2> HIDE DEF N, M
  <2>4. Obj \subseteq Obj' => CallInv' /\ CallsStay
    BY <1>1, Replied
  <2> QED BY <1>1, <1>2, <2>3, <2>4, MsgsKeep
<1>5. UNCHANGED objs \/ \E max : Receive(p, max)
  BY Zenon DEF Poll, Peek
<1> QED BY <1>3, <1>4, <1>5

\* A call goes to a step of no interest, with all it holds.
LEMMA GoesKeeps ==
  ASSUME ObjInv, CallInv, NEW p \in Procs, NEW pc \in {"wait", "poll"}, Goto(p, pc),
         call[p].at \notin Unresolved,
         UNCHANGED <<queues, objs, now, sent, answered, strayed, kept, raced, stored, failed>>
  PROVE  ObjInv' /\ CallInv' /\ Quiet
<1> DEFINE c == [call[p] EXCEPT !.at = pc]
<1>1. CallOK(call[p], Obj) /\ IsCall(call[p]) /\ call' = [call EXCEPT ![p] = c]
  BY Running DEF Goto
<1>2. /\ IsCall(c) /\ c.at = pc /\ c.req = call[p].req /\ c.obj = call[p].obj /\ c.last = call[p].last
  BY <1>1, CallFields
<1> HIDE DEF c
<1>3. CallOK(c, Obj)
  BY <1>1, <1>2 DEF CallOK, Unresolved, EntrySteps
<1>4. ObjInv' /\ SameMarks /\ Obj' = Obj /\ now <= now'
  BY NothingMoves
<1>5. CallInv' /\ CallsStay
  BY <1>1, <1>2, <1>3, <1>4, CallGoes DEF Unresolved
<1> QED BY <1>4, <1>5 DEF Quiet

\* The two defaults of a ReceiveMessage are read.
LEMMA ReadKeeps ==
  ASSUME ObjInv, CallInv, NEW p \in Procs, ReceiveMessage(p) \/ ReceiveWaitTime(p)
  PROVE  ObjInv' /\ CallInv' /\ Quiet
<1>1. /\ call[p].at \in {"receive", "wait"} /\ (Reply(p) \/ Goto(p, "wait") \/ Goto(p, "poll"))
      /\ UNCHANGED <<queues, objs, now, sent, answered, strayed, kept, raced, stored, failed>>
  BY DEF ReceiveMessage, ReceiveWaitTime, At, ghosts, dedups
<1>2. call[p].at \notin Unresolved
  BY <1>1 DEF Unresolved
<1> QED BY <1>1, <1>2, AnsweredKeeps, GoesKeeps

\* Time passes.
LEMMA TickKeeps ==
  ASSUME ObjInv, CallInv, Tick
  PROVE  ObjInv' /\ CallInv' /\ Quiet
<1>1. /\ now' = now + 1
      /\ UNCHANGED <<queues, objs, call, sent, answered, strayed, kept, raced, stored, failed>>
  BY DEF Tick, ghosts, dedups
<1>2. now \in Nat /\ now' \in Nat /\ now <= now' /\ sent \in Nat /\ sent <= sent /\ Obj' = Obj /\ Known' = Known
  BY <1>1 DEF ObjInv, Obj, Known
<1>3. \A o \in Obj : ObjectOK(objs[o], o, now', sent, Known)
  BY <1>2, StaysOK, ObjFacts
<1>4. ObjInv'
  BY <1>1, <1>2, <1>3 DEF ObjInv
<1>5. SameMarks
  BY <1>1, <1>2, ObjFacts DEF SameMarks
<1>6. CallInv' /\ CallsStay
  BY <1>1, <1>2, CallsGrow
<1> QED BY <1>1, <1>2, <1>4, <1>5, <1>6 DEF Quiet

(***************************************************************************)
(* Visibility timeouts                                                     *)
(***************************************************************************)
\* Queues t that differ from s in their stores only.
Restocks(s, t, n, K) ==
  /\ IsSequence(t) /\ Len(t) = Len(s) /\ DOMAIN t = DOMAIN s
  /\ \A k \in DOMAIN s : SameQueue(s[k], t[k]) /\ StoreOK(t[k], k, n, K)

LEMMA OneRestocked ==
  ASSUME NEW n, NEW K, NEW s, Restocks(s, s, n, K), NEW o, o \in DOMAIN s, NEW x,
         SameQueue(s[o], x), StoreOK(x, o, n, K)
  PROVE  Restocks(s, [s EXCEPT ![o] = x], n, K)
<1> DEFINE t == [s EXCEPT ![o] = x]
<1>1. IsSequence(s)
  BY DEF Restocks
<1>2. /\ IsSequence(t) /\ Len(t) = Len(s) /\ DOMAIN t = DOMAIN s
      /\ t[o] = x /\ \A k \in DOMAIN s : k # o => t[k] = s[k]
  BY <1>1, Excepted
<1> HIDE DEF t
<1>3. Restocks(s, t, n, K)
  BY <1>2 DEF Restocks
<1> QED BY <1>3 DEF t

LEMMA TwiceRestocked ==
  ASSUME NEW n, NEW K, NEW s, NEW t, NEW u, Restocks(s, t, n, K), Restocks(t, u, n, K)
  PROVE  Restocks(s, u, n, K) /\ Restocks(t, t, n, K)
<1>1. /\ IsSequence(t) /\ Len(t) = Len(s) /\ DOMAIN t = DOMAIN s
      /\ IsSequence(u) /\ Len(u) = Len(t) /\ DOMAIN u = DOMAIN t
  BY DEF Restocks
<1>2. ASSUME NEW k, k \in DOMAIN s
      PROVE  /\ SameQueue(s[k], t[k]) /\ StoreOK(t[k], k, n, K)
             /\ SameQueue(t[k], u[k]) /\ StoreOK(u[k], k, n, K)
  BY <1>1, <1>2 DEF Restocks
<1>3. ASSUME NEW k, k \in DOMAIN s PROVE SameQueue(s[k], u[k]) /\ SameQueue(t[k], t[k])
  BY <1>2, <1>3 DEF SameQueue
<1> QED BY <1>1, <1>2, <1>3 DEF Restocks

\* A message leaves a store.
LEMMA LeftIsFine ==
  ASSUME NEW n, NEW K, NEW s, Restocks(s, s, n, K), NEW o, o \in DOMAIN s, NEW m
  PROVE  /\ Restocks(s, [s EXCEPT ![o].msgs = @ \ {m}], n, K)
         /\ Restocks([s EXCEPT ![o].msgs = @ \ {m}], [s EXCEPT ![o].msgs = @ \ {m}], n, K)
<1>1. PICK M : M = s[o].msgs \ {m}
  OBVIOUS
<1>2. PICK x : x = [s[o] EXCEPT !.msgs = M]
  OBVIOUS
<1>3. IsObject(s[o]) /\ StoreOK(s[o], o, n, K)
  BY DEF Restocks, SameQueue
<1>4. SameQueue(s[o], x) /\ x.msgs = M /\ x.seen = s[o].seen
  BY <1>2, <1>3, OtherMsgs
<1>5. StoreOK(x, o, n, K)
  BY <1>1, <1>3, <1>4 DEF StoreOK, MessagesOK
<1> DEFINE t == [s EXCEPT ![o] = x]
<1>6. Restocks(s, t, n, K)
  BY <1>4, <1>5, OneRestocked
<1>7. [s EXCEPT ![o].msgs = @ \ {m}] = t
  BY <1>1, <1>2
<1> HIDE DEF t
<1>8. Restocks(t, t, n, K)
  <2>1. /\ IsSequence(t) /\ DOMAIN t = DOMAIN s
        /\ \A k \in DOMAIN s : SameQueue(s[k], t[k]) /\ StoreOK(t[k], k, n, K)
    BY <1>6 DEF Restocks
  <2>2. \A k \in DOMAIN s : SameQueue(t[k], t[k])
    BY <2>1 DEF SameQueue
  <2> QED BY <2>1, <2>2 DEF Restocks
<1> QED BY <1>6, <1>7, <1>8

\* A store keeps the message, or an identifier of it.
LEMMA PutIsFine ==
  ASSUME NEW n, NEW K, NEW s, Restocks(s, s, n, K), NEW o, o \in DOMAIN s, NEW m, MessageOK(m, n),
         \A id \in Ids(o, m) : <<o, id>> \in K
  PROVE  Restocks(s, Put(s, o, m), n, K) /\ Restocks(s, Remember(s, o, m), n, K)
<1>1. IsObject(s[o]) /\ StoreOK(s[o], o, n, K)
  BY DEF Restocks, SameQueue
<1>2. PICK M : M = s[o].msgs \cup {m}
  OBVIOUS
<1>3. PICK D : D = s[o].seen \cup Ids(o, m)
  OBVIOUS
<1>4. MessagesOK(M, n) /\ \A id \in D : <<o, id>> \in K
  BY <1>1, <1>2, <1>3 DEF StoreOK, MessagesOK
<1>5. Restocks(s, Put(s, o, m), n, K)
  <2> DEFINE x == Stocked(s[o], M, D)
  <2>1. SameQueue(s[o], x) /\ x.msgs = M /\ x.seen = D
    BY <1>1, OtherStock
  <2>2. Put(s, o, m) = [s EXCEPT ![o] = x]
    BY <1>2, <1>3 DEF Put, Stocked
  <2> HIDE DEF x
  <2>3. StoreOK(x, o, n, K)
    BY <1>4, <2>1 DEF StoreOK
  <2>4. Restocks(s, [s EXCEPT ![o] = x], n, K)
    BY <2>1, <2>3, OneRestocked
  <2> QED BY <2>2, <2>4, Zenon
<1>6. Restocks(s, Remember(s, o, m), n, K)
  <2>1. PICK x : x = [s[o] EXCEPT !.seen = D]
    OBVIOUS
  <2>2. SameQueue(s[o], x) /\ x.msgs = s[o].msgs /\ x.seen = D
    BY <1>1, <2>1, OtherSeen
  <2>3. Remember(s, o, m) = [s EXCEPT ![o] = x]
    BY <1>3, <2>1 DEF Remember
  <2>4. StoreOK(x, o, n, K)
    BY <1>1, <1>4, <2>2 DEF StoreOK
  <2>5. Restocks(s, [s EXCEPT ![o] = x], n, K)
    BY <2>2, <2>4, OneRestocked
  <2> QED BY <2>3, <2>5, Zenon
<1> QED BY <1>5, <1>6

\* A visibility timeout gives a message back, or sends it to another queue.
LEMMA ExpiresKeeps ==
  ASSUME ObjInv, CallInv, NEW o \in Obj, NEW m \in objs[o].msgs, VisibilityExpires(o, m)
  PROVE  ObjInv' /\ CallInv' /\ Quiet
<1> DEFINE policy == objs[o].cfg.policy
           target == IF policy.target \in Names THEN queues[policy.target] ELSE 0
           Moved  == [m EXCEPT !.rcv = 0, !.held = FALSE]
           Back   == [m EXCEPT !.held = FALSE]
           Left   == [objs EXCEPT ![o].msgs = @ \ {m}]
<1>1. UNCHANGED <<queues, call, now, sent, answered, strayed, kept, raced>>
  BY Zenon DEF VisibilityExpires
<1>2. /\ sent \in Nat /\ now \in Nat /\ now <= now' /\ MessagesOK(objs[o].msgs, sent) /\ o \in DOMAIN objs
      /\ MessageOK(m, sent)
  BY <1>1, ObjFacts DEF ObjInv, Obj, ObjectOK, MessagesOK
<1>3. \/ /\ objs' = [objs EXCEPT ![o].msgs = (objs[o].msgs \ {m}) \cup {Back}]
         /\ UNCHANGED <<stored, failed>>
      \/ target # 0 /\ (Keeps(Left, target, Moved) \/ FailsToInsert(Left, target, Moved))
      \/ objs' = Left /\ UNCHANGED <<stored, failed>>
  BY <1>2, Zenon DEF VisibilityExpires, dedups
<1>4. MessageOK(Moved, sent) /\ MessageOK(Back, sent)
  <2>1. 0 \in 0..MaxReceives /\ FALSE \in BOOLEAN
    BY HandlersAssumption
  <2> QED BY <1>2, <2>1, MessageFacts
<1> HIDE DEF Moved, Back
<1>5. Obj \subseteq Obj' => CallInv' /\ CallsStay
  BY <1>1, CallsGrow
<1>6. ASSUME NEW M, objs' = [objs EXCEPT ![o].msgs = M], MessagesOK(M, sent), UNCHANGED <<stored, failed>>
      PROVE  ObjInv' /\ CallInv' /\ Quiet
  BY <1>1, <1>5, <1>6, MsgsKeep
<1>7. CASE /\ objs' = [objs EXCEPT ![o].msgs = (objs[o].msgs \ {m}) \cup {Back}]
           /\ UNCHANGED <<stored, failed>>
  <2>1. MessagesOK((objs[o].msgs \ {m}) \cup {Back}, sent)
    BY <1>2, <1>4 DEF MessagesOK
  <2> QED BY <1>6, <1>7, <2>1
<1>8. CASE objs' = Left /\ UNCHANGED <<stored, failed>>
  <2>1. MessagesOK(objs[o].msgs \ {m}, sent)
    BY <1>2 DEF MessagesOK
  <2>2. objs' = [objs EXCEPT ![o].msgs = objs[o].msgs \ {m}]
    BY <1>8
  <2> QED BY <1>6, <1>8, <2>1, <2>2
<1>9. CASE target # 0 /\ (Keeps(Left, target, Moved) \/ FailsToInsert(Left, target, Moved))
  <2>1. target \in Obj
    <3>1. target = queues[policy.target] /\ policy.target \in Names
      BY <1>9
    <3> HIDE DEF target, policy
    <3> QED BY <1>9, <3>1, ObjFacts DEF ObjInv
  <2> HIDE DEF target
  <2>2. /\ objs' = Put(Left, target, Moved) \/ objs' = Remember(Left, target, Moved)
        /\ Known \subseteq Known' /\ \A id \in Ids(target, Moved) : <<target, id>> \in Known'
    BY <1>9 DEF Keeps, FailsToInsert, Known
  <2>3. Restocks(objs, objs, sent, Known')
    <3>1. \A k \in Obj : ObjectOK(objs[k], k, now, sent, Known')
      BY <1>2, <2>2, StaysOK, ObjFacts
    <3>2. \A k \in DOMAIN objs : SameQueue(objs[k], objs[k]) /\ StoreOK(objs[k], k, sent, Known')
      BY <3>1 DEF Obj, ObjectOK, SameQueue, StoreOK
    <3> QED BY <3>2 DEF Restocks, ObjInv
  <2>4. Restocks(objs, Left, sent, Known') /\ Restocks(Left, Left, sent, Known')
    BY <1>2, <2>3, LeftIsFine
  <2> HIDE DEF Left
  <2>5. target \in DOMAIN Left
    BY <2>1, <2>4 DEF Restocks, Obj
  <2>6. Restocks(Left, objs', sent, Known')
    <3>1. /\ Restocks(Left, Put(Left, target, Moved), sent, Known')
          /\ Restocks(Left, Remember(Left, target, Moved), sent, Known')
      BY <1>4, <2>2, <2>4, <2>5, PutIsFine
    <3> QED BY <2>2, <3>1
  <2>7. Restocks(objs, objs', sent, Known')
    BY <2>4, <2>6, TwiceRestocked
  <2>8. ObjInv' /\ SameMarks
    <3>1. /\ IsSequence(objs') /\ Len(objs') = Len(objs) /\ DOMAIN objs' = DOMAIN objs
          /\ \A k \in Obj : SameQueue(objs[k], objs'[k]) /\ StoreOK(objs'[k], k, sent', Known')
      BY <1>1, <2>7 DEF Restocks, Obj
    <3>2. sent' \in Nat /\ sent <= sent'
      BY <1>1, <1>2
    <3> QED BY <1>1, <3>1, <3>2, StoresReplaced
  <2>9. CallInv' /\ CallsStay
    BY <1>5, <2>8 DEF SameMarks
  <2> QED BY <1>1, <1>2, <2>8, <2>9 DEF Quiet
<1> QED BY <1>3, <1>7, <1>8, <1>9

(***************************************************************************)
(* Looking the queue up                                                    *)
(***************************************************************************)
LEMMA AfterResolveFacts ==
  ASSUME NEW op
  PROVE  /\ AfterResolve(op) \in {"tagcheck", "untag", "cooldown", "set", "entries", "receive",
                                  "peek", "uipurge", "get", "answer"}
         /\ AfterResolve(op) = "entries" => op \in DOMAIN EntryStep
         /\ AfterResolve(op) = "tagcheck" => op = "TagQueue"
         /\ AfterResolve(op) = "untag" => op = "UntagQueue"
         /\ AfterResolve(op) = "set" => op = "SetQueueAttributes"
<1> DEFINE E == DOMAIN EntryStep
<1> HIDE DEF E
<1>1. AfterResolve(op) =
        CASE op = "TagQueue" -> "tagcheck" [] op = "UntagQueue" -> "untag"
          [] op = "PurgeQueue" -> "cooldown" [] op = "SetQueueAttributes" -> "set"
          [] op \in E -> "entries"
          [] op = "ReceiveMessage" -> "receive" [] op = "UIPeek" -> "peek" [] op = "UIPurge" -> "uipurge"
          [] op = "GetQueueAttributes" -> "get"
          [] OTHER -> "answer"
  BY DEF AfterResolve, E
<1>2. E = DOMAIN EntryStep /\ {"TagQueue", "UntagQueue", "PurgeQueue", "SetQueueAttributes"} \cap E = {}
      /\ {"ReceiveMessage", "UIPeek", "UIPurge", "GetQueueAttributes"} \cap E = {}
  BY DEF E, EntryStep
<1>3. AfterResolve(op) \in {"tagcheck", "untag", "cooldown", "set", "entries", "receive",
                             "peek", "uipurge", "get", "answer"}
  BY <1>1, <1>2
<1>4. AfterResolve(op) = "entries" => op \in E
  BY <1>1, <1>2
<1>5. AfterResolve(op) = "tagcheck" => op = "TagQueue"
  BY <1>1, <1>2
<1>6. AfterResolve(op) = "untag" => op = "UntagQueue"
  BY <1>1, <1>2
<1>7. AfterResolve(op) = "set" => op = "SetQueueAttributes"
  BY <1>1, <1>2
<1> QED BY <1>2, <1>3, <1>4, <1>5, <1>6, <1>7

\* A call that has its queue remembers when purges were answered.
LEMMA ResolvedKeeps ==
  ASSUME ObjInv, ObjInv', CallInv, TagInv, PurgeInv, SameMarks,
         NEW p \in Procs, call[p].at \in {"resolve", "autocreate"}, NEW o \in Obj', Resolved(p, o),
         queues'[Req(p).q] = o, UNCHANGED <<now, answered, strayed, raced>>
  PROVE  CallInv' /\ TagInv' /\ PurgeInv'
<1> DEFINE pc == AfterResolve(Req(p).op)
           l  == IF Does(p, {"PurgeQueue"}) THEN answered ELSE call[p].last
           c  == [call[p] EXCEPT !.obj = o, !.at = pc, !.last = l]
<1>1. call' = [call EXCEPT ![p] = c]
  BY DEF Resolved
<1>2. /\ pc \in {"tagcheck", "untag", "cooldown", "set", "entries", "receive",
                 "peek", "uipurge", "get", "answer"}
      /\ pc = "entries" => Req(p).op \in DOMAIN EntryStep
      /\ pc = "tagcheck" => Req(p).op = "TagQueue"
      /\ pc = "untag" => Req(p).op = "UntagQueue"
      /\ pc = "set" => Req(p).op = "SetQueueAttributes"
  BY AfterResolveFacts
<1> HIDE DEF pc
<1>3. IsCall(call[p]) /\ CallOK(call[p], Obj)
  BY Running
<1>4. /\ call[p].req \in Requests /\ call[p].i = 1 /\ call[p].ok = {} /\ call[p].bad = {}
      /\ call[p].read = <<>> /\ call[p].last = NeverPurged
  BY <1>3 DEF CallOK, Unresolved
<1>5. l \in {answered, NeverPurged}
  BY <1>4
<1> HIDE DEF l
<1>6. /\ IsCall(c) /\ c.at = pc /\ c.obj = o /\ c.last = l /\ c.req = Req(p) /\ c.i = 1
      /\ c.ok = {} /\ c.bad = {} /\ c.read = <<>>
  BY <1>3, <1>4, CallFields DEF Req
<1> HIDE DEF c
<1>7. pc \notin {"idle", "act", "resolve", "autocreate", "tag", "purge", "purging", "mark",
                 "send", "uisend", "delete", "change"}
  BY <1>2
<1>8. ReadOK(c)
  <2>1. IsSequence(<<>>) /\ \A i \in DOMAIN <<>> : FALSE
    BY DEF IsSequence
  <2> QED BY <1>6, <2>1 DEF ReadOK
<1>9. CallOK(c, Obj')
  BY <1>2, <1>4, <1>6, <1>7, <1>8 DEF CallOK, Unresolved, EntrySteps, Req
<1>10. CallInv' /\ call'[p] = c /\ \A k \in Procs : k # p => call'[k] = call[k]
  BY <1>1, <1>9, CallReplaced DEF SameMarks
<1>11. /\ Len(objs) \in Nat /\ Obj = 1..Len(objs) /\ Obj \subseteq 1..MaxObj /\ MaxObj \in Nat
       /\ MaxTags \in Nat /\ Obj' \subseteq 1..MaxObj /\ now \in Nat
  <2>1. \A k \in Obj' : k \in 1..MaxObj
    <3> SUFFICES ASSUME NEW k \in Obj' PROVE k \in 1..MaxObj
      OBVIOUS
    <3>1. CASE k \in Obj
      BY <3>1, ObjFacts
    <3>2. CASE k \notin Obj
      BY <3>2, ObjFacts, HandlersAssumption DEF SameMarks
    <3> QED BY <3>1, <3>2
  <2> QED BY <2>1, ObjFacts, HandlersAssumption DEF ObjInv
<1>12. /\ kept' = [k \in 1..MaxObj |-> kept'[k]]
       /\ \A k \in 1..MaxObj : kept'[k] \subseteq kept[k]
       /\ pc = "untag" => kept'[o] \cap Req(p).tags = {}
  <2>1. kept = [k \in 1..MaxObj |-> kept[k]] /\ o \in 1..MaxObj
    BY <1>11 DEF TagInv
  <2>2. CASE Req(p).op = "UntagQueue"
    <3> DEFINE K == kept[o] \ Req(p).tags
    <3>1. kept' = [kept EXCEPT ![o] = K]
      BY <2>2 DEF Resolved, Does
    <3>2. K \subseteq kept[o] /\ K \cap Req(p).tags = {}
      OBVIOUS
    <3> HIDE DEF K
    <3> QED BY <2>1, <3>1, <3>2
  <2>3. CASE Req(p).op # "UntagQueue"
    <3>1. kept' = kept
      BY <2>3 DEF Resolved, Does
    <3> QED BY <1>2, <2>1, <2>3, <3>1
  <2> QED BY <2>2, <2>3
<1>13. TagInv'
  <2>1. \A k \in 1..MaxObj : k \notin Obj' => kept'[k] = {}
    BY <1>12 DEF TagInv, SameMarks
  <2>2. ASSUME NEW k \in Obj'
        PROVE  /\ IsFiniteSet(objs'[k].tags) /\ kept'[k] \subseteq objs'[k].tags
               /\ Cardinality(objs'[k].tags) > MaxTags => k \in raced'
    <3>1. kept'[k] \subseteq kept[k]
      BY <1>11, <1>12
    <3>2. CASE k \in Obj
      <4>1. /\ objs'[k].tags = objs[k].tags /\ kept[k] \subseteq objs[k].tags
            /\ IsFiniteSet(objs[k].tags) /\ (Cardinality(objs[k].tags) > MaxTags => k \in raced)
        BY <3>2 DEF TagInv, SameMarks
      <4> QED BY <3>1, <4>1
    <3>3. CASE k \notin Obj
      <4>1. objs'[k].tags = {} /\ kept[k] = {}
        BY <1>11, <3>3 DEF SameMarks, TagInv
      <4>2. IsFiniteSet({}) /\ Cardinality({}) = 0
        BY FS_EmptySet
      <4>3. ~(Cardinality({}) > MaxTags)
        BY <1>11, <4>2
      <4> QED BY <3>1, <4>1, <4>2, <4>3
    <3> QED BY <3>2, <3>3
  <2>3. ASSUME NEW k \in Procs, call'[k].at = "untag"
        PROVE  kept'[call'[k].obj] \cap call'[k].req.tags = {}
    <3>1. CASE k = p
      BY <1>6, <1>10, <1>12, <2>3, <3>1
    <3>2. CASE k # p
      <4>1. call'[k] = call[k] /\ call[k].obj \in Obj
        BY <1>10, <2>3, <3>2, Running DEF CallOK, Unresolved
      <4>2. kept[call[k].obj] \cap call[k].req.tags = {}
        BY <2>3, <4>1 DEF TagInv, At, Req
      <4>3. kept'[call[k].obj] \subseteq kept[call[k].obj]
        BY <1>11, <1>12, <4>1
      <4> QED BY <4>1, <4>2, <4>3
    <3> QED BY <3>1, <3>2
  <2>4. ASSUME NEW k \in Procs, call'[k].at = "tag"
        PROVE  /\ IsFiniteSet(call'[k].tags)
               /\ Cardinality(call'[k].tags) + Cardinality(call'[k].req.tags) <= MaxTags
    <3>1. call'[k] = call[k]
      BY <1>6, <1>7, <1>10, <2>4
    <3> QED BY <2>4, <3>1 DEF TagInv, At, Req
  <2> QED BY <1>12, <2>1, <2>2, <2>3, <2>4 DEF TagInv, At, Req
<1>14. PurgeInv'
  <2>1. \A k \in 1..MaxObj : k \notin Obj' => answered'[k] = Never
    BY DEF PurgeInv, SameMarks
  <2>2. ASSUME NEW k \in Obj', answered'[k] # Never
        PROVE  /\ answered'[k] \in Nat /\ answered'[k] <= now'
               /\ k \notin strayed' => objs'[k].purgedAt \in Nat /\ answered'[k] <= objs'[k].purgedAt
    <3>1. k \in Obj
      BY <1>11, <2>2 DEF PurgeInv
    <3> QED BY <2>2, <3>1 DEF PurgeInv, SameMarks
  <2>3. LastOK(c, answered', queues')
    <3>1. \A k \in 1..MaxObj : l[k] # Never => l[k] \in Nat /\ answered'[k] \in Nat /\ l[k] <= answered'[k]
      <4>1. CASE l = NeverPurged
        BY <4>1 DEF NeverPurged
      <4>2. CASE l = answered
        <5>1. ASSUME NEW k \in 1..MaxObj, answered[k] # Never PROVE answered[k] \in Nat
          BY <5>1 DEF PurgeInv
        <5> QED BY <4>2, <5>1
      <4> QED BY <1>5, <4>1, <4>2
    <3>2. queues'[c.req.q] = c.obj
      BY <1>6
    <3> QED BY <1>6, <3>1, <3>2 DEF LastOK
  <2>4. ASSUME NEW k \in Procs, call'[k].at \notin Unresolved
        PROVE  LastOK(call'[k], answered', queues')
    <3>1. CASE k = p
      BY <1>10, <2>3, <3>1
    <3>2. CASE k # p
      <4>1. call'[k] = call[k]
        BY <1>10, <3>2
      <4>2. LastOK(call[k], answered, queues) /\ call[k].req.q \in Names
        BY <2>4, <4>1, ItsName DEF PurgeInv, Unresolved
      <4>3. LastOK(call[k], answered', queues')
        BY <4>2, LastStays
      <4> QED BY <4>1, <4>3
    <3> QED BY <3>1, <3>2
  <2>5. ASSUME NEW k \in Procs, call'[k].at \in {"purge", "purging"} PROVE call'[k] = call[k]
    BY <1>6, <1>7, <1>10, <2>5
  <2> QED BY <2>1, <2>2, <2>4, <2>5 DEF PurgeInv, At
<1> QED BY <1>10, <1>13, <1>14

LEMMA QuietKeeps ==
  ASSUME HandlersInv, ObjInv' /\ CallInv' /\ Quiet
  PROVE  HandlersInv'
BY QuietTags, QuietPurges DEF HandlersInv

\* The queue is there, or is to be created, or the call is refused.
LEMMA ResolveKeeps ==
  ASSUME HandlersInv, NEW p \in Procs, ResolveQueue(p)
  PROVE  HandlersInv'
<1> USE DEF HandlersInv
<1> DEFINE q == Req(p).q
           c == [call[p] EXCEPT !.at = "autocreate"]
<1>1. call[p].at = "resolve" /\ UNCHANGED <<queues, objs, now, sent, answered, strayed, raced, stored, failed>>
  BY DEF ResolveQueue, At, dedups
<1>2. q \in Names
  BY <1>1, ItsName DEF Req
<1>3. ObjInv' /\ SameMarks /\ Obj' = Obj /\ now <= now'
  BY <1>1, NothingMoves
<1>4. CASE queues[q] # 0 /\ Resolved(p, queues[q])
  <2>1. queues[q] \in Obj'
    BY <1>2, <1>3, <1>4, ObjFacts DEF ObjInv
  <2>2. queues'[q] = queues[q]
    BY <1>1
  <2> QED BY <1>1, <1>3, <1>4, <2>1, <2>2, ResolvedKeeps
<1>5. CASE Goto(p, "autocreate") /\ UNCHANGED kept
  <2>1. CallOK(call[p], Obj) /\ IsCall(call[p]) /\ call' = [call EXCEPT ![p] = c]
    BY <1>5, Running DEF Goto
  <2>2. /\ IsCall(c) /\ c.at = "autocreate" /\ c.req = call[p].req /\ c.obj = call[p].obj
        /\ c.last = call[p].last /\ c.i = call[p].i /\ c.ok = call[p].ok /\ c.bad = call[p].bad
        /\ c.read = call[p].read
    BY <2>1, CallFields
  <2> HIDE DEF c
  <2>3. CallOK(c, Obj)
    BY <1>1, <2>1, <2>2 DEF CallOK, Unresolved, EntrySteps
  <2>4. CallInv' /\ CallsStay
    BY <1>3, <2>1, <2>2, <2>3, CallGoes DEF Unresolved
  <2>5. Quiet
    BY <1>1, <1>3, <1>5, <2>4 DEF Quiet
  <2> QED BY <1>3, <2>4, <2>5, QuietKeeps
<1>6. CASE Reply(p) /\ UNCHANGED kept
  BY <1>1, <1>6, AnsweredKeeps, QuietKeeps
<1> QED BY <1>4, <1>5, <1>6, Zenon DEF ResolveQueue

\* A queue is created with the defaults, or is there by now, or the call is
\* refused.
LEMMA AutoCreateKeeps ==
  ASSUME HandlersInv, NEW p \in Procs, AutoCreateQueue(p)
  PROVE  HandlersInv'
<1> USE DEF HandlersInv
<1> DEFINE q == Req(p).q
<1>1. call[p].at = "autocreate" /\ UNCHANGED <<now, sent, answered, strayed, raced, stored, failed>>
  BY DEF AutoCreateQueue, At, dedups
<1>2. q \in Names
  BY <1>1, ItsName DEF Req
<1>3. CASE queues[q] # 0 /\ Resolved(p, queues[q]) /\ UNCHANGED <<queues, objs>>
  <2>1. ObjInv' /\ SameMarks /\ Obj' = Obj
    BY <1>1, <1>3, NothingMoves
  <2>2. queues[q] \in Obj'
    BY <1>2, <1>3, <2>1, ObjFacts DEF ObjInv
  <2>3. queues'[q] = queues[q]
    BY <1>3
  <2> QED BY <1>1, <1>3, <2>1, <2>2, <2>3, ResolvedKeeps
<1>4. CASE NewQueue(q, Defaults) /\ Resolved(p, Len(objs) + 1)
  <2>1. /\ ObjInv' /\ SameMarks /\ Obj' = Obj \cup {Len(objs) + 1}
        /\ queues'[q] = Len(objs) + 1
    BY <1>1, <1>2, <1>4, AttributeFacts, DefaultsAreWhole, QueueAdded
  <2>2. Len(objs) + 1 \in Obj'
    BY <2>1
  <2> QED BY <1>1, <1>4, <2>1, <2>2, ResolvedKeeps
<1>5. CASE Reply(p) /\ UNCHANGED <<queues, objs, kept>>
  BY <1>1, <1>5, AnsweredKeeps, QuietKeeps
<1> QED BY <1>3, <1>4, <1>5, Zenon DEF AutoCreateQueue

(***************************************************************************)
(* Tags and purges                                                         *)
(***************************************************************************)
LEMMA RepliedOnly ==
  ASSUME CallInv, NEW p \in Procs, Reply(p), Obj' = Obj
  PROVE  CallInv' /\ CallsStay /\ call'[p] = Idle /\ \A k \in Procs : k # p => call'[k] = call[k]
<1>1. CallOK(Idle, Obj') /\ Obj \subseteq Obj'
  BY IdleOK
<1>2. call' = [call EXCEPT ![p] = Idle]
  BY DEF Reply
<1> QED BY <1>1, <1>2, CallReplaced, Replied

\* Nothing about purges changes while tags do, and the other way round.
LEMMA PurgesStay ==
  ASSUME ObjInv, PurgeInv, CallsStay, Obj' = Obj,
         \A k \in Obj : objs'[k].purgedAt = objs[k].purgedAt,
         UNCHANGED <<queues, now, answered, strayed>>
  PROVE  PurgeInv'
<1>1. ASSUME NEW p \in Procs, call'[p].at \notin Unresolved
      PROVE  LastOK(call'[p], answered', queues')
  <2>1. /\ call[p].at \notin Unresolved /\ call'[p].req = call[p].req
        /\ call'[p].obj = call[p].obj /\ call'[p].last = call[p].last
    BY <1>1 DEF CallsStay
  <2>2. LastOK(call[p], answered, queues)
    BY <2>1 DEF PurgeInv
  <2> QED BY <2>1, <2>2 DEF LastOK
<1>2. ASSUME NEW p \in Procs, call'[p].at \in {"purge", "purging"} PROVE call'[p] = call[p]
  BY <1>2 DEF CallsStay
<1> QED BY <1>1, <1>2 DEF PurgeInv, At

LEMMA TagsStay ==
  ASSUME TagInv, CallsStay, Obj' = Obj, \A k \in Obj : objs'[k].tags = objs[k].tags,
         UNCHANGED <<kept, raced>>
  PROVE  TagInv'
<1>1. ASSUME NEW p \in Procs
      PROVE  /\ At(p, "untag")' => (kept[call[p].obj] \cap Req(p).tags = {})'
             /\ At(p, "tag")' =>
                  /\ IsFiniteSet(call'[p].tags)
                  /\ Cardinality(call'[p].tags) + Cardinality(Req(p)'.tags) <= MaxTags
  <2>1. CASE call'[p].at \in {"tag", "untag"}
    <3>1. call'[p] = call[p]
      BY <2>1 DEF CallsStay
    <3> QED BY <3>1 DEF TagInv, At, Req
  <2>2. CASE call'[p].at \notin {"tag", "untag"}
    BY <2>2 DEF At
  <2> QED BY <2>1, <2>2
<1> QED BY <1>1 DEF TagInv

\* A call passes a check of tags or of the cooldown, or has found what to purge.
LEMMA CallPasses ==
  ASSUME HandlersInv, NEW p \in Procs, NEW c, call' = [call EXCEPT ![p] = c], CallOK(c, Obj),
         UNCHANGED <<queues, objs, now, sent, answered, strayed, kept, raced, stored, failed>>,
         call[p].at \notin Unresolved, c.req = call[p].req, c.obj = call[p].obj,
         c.last = call[p].last, c.at # "untag",
         c.at = "tag" => /\ IsFiniteSet(c.tags)
                         /\ Cardinality(c.tags) + Cardinality(c.req.tags) <= MaxTags,
         c.at = "purge" => Rests(c, c.obj, now, strayed),
         c.at = "purging" => Rests(c, c.found, now, strayed)
  PROVE  HandlersInv'
<1> USE DEF HandlersInv
<1>1. ObjInv' /\ SameMarks /\ Obj' = Obj
  BY NothingMoves
<1>2. CallInv' /\ call'[p] = c /\ \A k \in Procs : k # p => call'[k] = call[k]
  BY <1>1, CallReplaced
<1>3. ASSUME NEW k \in Procs, call'[k].at = "untag"
      PROVE  kept'[call'[k].obj] \cap call'[k].req.tags = {}
  <2>1. call'[k] = call[k]
    BY <1>2, <1>3
  <2> QED BY <1>3, <2>1 DEF TagInv, At, Req
<1>4. ASSUME NEW k \in Procs, call'[k].at = "tag"
      PROVE  /\ IsFiniteSet(call'[k].tags)
             /\ Cardinality(call'[k].tags) + Cardinality(call'[k].req.tags) <= MaxTags
  <2>1. CASE k = p
    BY <1>2, <1>4, <2>1
  <2>2. CASE k # p
    BY <1>2, <1>4, <2>2 DEF TagInv, At, Req
  <2> QED BY <2>1, <2>2
<1>5. TagInv'
  BY <1>1, <1>3, <1>4 DEF TagInv, At, Req
<1>6. ASSUME NEW k \in Procs, call'[k].at \notin Unresolved
      PROVE  LastOK(call'[k], answered', queues')
  <2>1. /\ call[k].at \notin Unresolved /\ call'[k].req = call[k].req
        /\ call'[k].obj = call[k].obj /\ call'[k].last = call[k].last
    BY <1>2, <1>6
  <2>2. LastOK(call[k], answered, queues)
    BY <2>1 DEF PurgeInv
  <2> QED BY <2>1, <2>2 DEF LastOK
<1>7. ASSUME NEW k \in Procs
      PROVE  /\ call'[k].at = "purge" => Rests(call'[k], call'[k].obj, now', strayed')
             /\ call'[k].at = "purging" => Rests(call'[k], call'[k].found, now', strayed')
  <2>1. CASE k = p
    BY <1>2, <2>1
  <2>2. CASE k # p
    BY <1>2, <2>2 DEF PurgeInv, At
  <2> QED BY <2>1, <2>2
<1>8. PurgeInv'
  BY <1>1, <1>6, <1>7 DEF PurgeInv, At
<1> QED BY <1>1, <1>2, <1>5, <1>8

\* The copy of the tags a TagQueue checked has room for the new ones.
LEMMA TagCheckKeeps ==
  ASSUME HandlersInv, NEW p \in Procs, TagCheck(p)
  PROVE  HandlersInv'
<1> USE DEF HandlersInv
<1> DEFINE r == Req(p)
           T == O(p).tags
           c == [call[p] EXCEPT !.at = "tag", !.tags = T]
<1>1. call[p].at = "tagcheck" /\ UNCHANGED <<queues, objs, now, sent, answered, strayed, kept, raced, stored, failed>>
  BY DEF TagCheck, At, ghosts, dedups
<1>2. IsCall(call[p]) /\ CallOK(call[p], Obj)
  BY Running
<1>3. r \in Requests /\ r.op = "TagQueue" /\ call[p].obj \in Obj /\ call[p].at \notin Unresolved
  BY <1>1, <1>2 DEF CallOK, Unresolved, Req
<1>4. IsFiniteSet(r.tags) /\ IsFiniteSet(T)
  BY <1>3, RequestsAssumption DEF TagInv, O
<1>5. CASE Reply(p)
  BY <1>1, <1>5, AnsweredKeeps, QuietKeeps
<1>6. CASE ~(Cardinality(T) + Cardinality(r.tags) > MaxTags) /\ call' = [call EXCEPT ![p] = c]
  <2> HIDE DEF T
  <2>1. /\ IsCall(c) /\ c.at = "tag" /\ c.tags = T /\ c.req = r /\ c.obj = call[p].obj
        /\ c.last = call[p].last
    BY <1>2, CallFields DEF Req
  <2> HIDE DEF c
  <2>2. CallOK(c, Obj)
    BY <1>3, <2>1 DEF CallOK, Unresolved, EntrySteps
  <2>3. Cardinality(T) + Cardinality(r.tags) <= MaxTags
    <3>1. Cardinality(T) \in Nat /\ Cardinality(r.tags) \in Nat /\ MaxTags \in Nat
      BY <1>4, FS_CardinalityType, HandlersAssumption
    <3> QED BY <1>6, <3>1
  <2> QED BY <1>1, <1>3, <1>4, <1>6, <2>1, <2>2, <2>3, CallPasses DEF Req
<1>7. \/ Reply(p)
      \/ ~(Cardinality(T) + Cardinality(r.tags) > MaxTags) /\ call' = [call EXCEPT ![p] = c]
  BY Zenon DEF TagCheck
<1> QED BY <1>5, <1>6, <1>7

\* A call of which it is known that its queue was marked when a purge of it was
\* answered finds that mark old.
LEMMA CooldownKeeps ==
  ASSUME HandlersInv, NEW p \in Procs, CheckPurgeCooldown(p)
  PROVE  HandlersInv'
<1> USE DEF HandlersInv
<1> DEFINE o == call[p].obj
           c == [call[p] EXCEPT !.at = "purge"]
<1>1. /\ call[p].at = "cooldown"
      /\ UNCHANGED <<queues, objs, now, sent, answered, strayed, kept, raced, stored, failed>>
  BY DEF CheckPurgeCooldown, At, ghosts, dedups
<1>2. IsCall(call[p]) /\ CallOK(call[p], Obj)
  BY Running
<1>3. o \in Obj /\ call[p].at \notin Unresolved /\ call[p].req \in Requests
  BY <1>1, <1>2 DEF CallOK, Unresolved
<1>4. CASE Reply(p)
  BY <1>1, <1>4, AnsweredKeeps, QuietKeeps
<1>5. CASE ~CoolingDown(p) /\ call' = [call EXCEPT ![p] = c]
  <2>1. IsCall(c) /\ c.at = "purge" /\ c.req = call[p].req /\ c.obj = o /\ c.last = call[p].last
    BY <1>2, CallFields
  <2> HIDE DEF c
  <2>2. CallOK(c, Obj)
    BY <1>3, <2>1 DEF CallOK, Unresolved, EntrySteps
  <2>3. Rests(c, o, now, strayed)
    <3> SUFFICES ASSUME o \notin strayed, call[p].last[o] # Never
                 PROVE  now - call[p].last[o] >= Cooldown
      BY <2>1 DEF Rests
    <3>1. call[p].last[o] \in Nat /\ answered[o] \in Nat /\ call[p].last[o] <= answered[o]
      BY <1>3, ObjFacts DEF PurgeInv, LastOK
    <3>2. objs[o].purgedAt \in Nat /\ answered[o] <= objs[o].purgedAt
      BY <1>3, <3>1 DEF PurgeInv, Never
    <3>3. ~(now - objs[o].purgedAt < Cooldown)
      BY <1>5, <3>2 DEF CoolingDown, O, Never
    <3>4. now \in Nat /\ Cooldown \in Nat
      BY HandlersAssumption DEF ObjInv
    <3> QED BY <3>1, <3>2, <3>3, <3>4
  <2> QED BY <1>1, <1>3, <1>5, <2>1, <2>2, <2>3, CallPasses
<1>6. Reply(p) \/ (~CoolingDown(p) /\ call' = [call EXCEPT ![p] = c])
  BY Zenon DEF CheckPurgeCooldown, Goto
<1> QED BY <1>4, <1>5, <1>6

\* What the name leads to is the queue that was checked, or a newer one.
LEMMA PurgeQueueKeeps ==
  ASSUME HandlersInv, NEW p \in Procs, PurgeQueue(p)
  PROVE  HandlersInv'
<1> USE DEF HandlersInv
<1> DEFINE o == queues[Req(p).q]
           c == [call[p] EXCEPT !.at = "purging", !.found = o]
<1>1. /\ call[p].at = "purge"
      /\ UNCHANGED <<queues, objs, now, sent, answered, strayed, kept, raced, stored, failed>>
  BY DEF PurgeQueue, At, ghosts, dedups
<1>2. IsCall(call[p]) /\ CallOK(call[p], Obj) /\ Req(p).q \in Names
  BY <1>1, Running, ItsName DEF Req
<1>3. call[p].at \notin Unresolved /\ call[p].req \in Requests /\ call[p].obj \in Obj
  BY <1>1, <1>2 DEF CallOK, Unresolved
<1>4. CASE Reply(p)
  BY <1>1, <1>4, AnsweredKeeps, QuietKeeps
<1>5. CASE o # 0 /\ call' = [call EXCEPT ![p] = c]
  <2>1. o \in Obj
    BY <1>2, <1>5, ObjFacts DEF ObjInv
  <2>2. Rests(call[p], o, now, strayed)
    <3>1. CASE o = call[p].obj
      BY <1>1, <3>1 DEF PurgeInv, At
    <3>2. CASE o # call[p].obj
      <4>1. call[p].last[o] = Never
        BY <1>3, <1>5, <3>2 DEF PurgeInv, LastOK, Req
      <4> QED BY <4>1 DEF Rests
    <3> QED BY <3>1, <3>2
  <2> HIDE DEF o
  <2>3. /\ IsCall(c) /\ c.at = "purging" /\ c.req = call[p].req /\ c.obj = call[p].obj
        /\ c.last = call[p].last /\ c.found = o
    BY <1>2, CallFields
  <2> HIDE DEF c
  <2>4. CallOK(c, Obj)
    BY <1>3, <2>1, <2>3 DEF CallOK, Unresolved, EntrySteps
  <2>5. Rests(c, c.found, now, strayed)
    BY <2>2, <2>3 DEF Rests
  <2> QED BY <1>1, <1>3, <1>5, <2>3, <2>4, <2>5, CallPasses
<1>6. Reply(p) \/ (o # 0 /\ call' = [call EXCEPT ![p] = c])
  BY Zenon DEF PurgeQueue, MappedObj
<1> QED BY <1>4, <1>5, <1>6

LEMMA PurgeStoreKeeps ==
  ASSUME HandlersInv, NEW p \in Procs, PurgeStore(p)
  PROVE  HandlersInv'
<1> USE DEF HandlersInv
<1> DEFINE c == [call[p] EXCEPT !.at = "mark"]
<1>1. /\ call[p].at = "purging"
      /\ UNCHANGED <<queues, now, sent, answered, strayed, kept, raced, stored, failed>>
  BY DEF PurgeStore, At, ghosts, dedups
<1>2. IsCall(call[p]) /\ CallOK(call[p], Obj)
  BY Running
<1>3. /\ call[p].at \notin Unresolved /\ call[p].req \in Requests /\ call[p].obj \in Obj
      /\ call[p].found \in Obj
  BY <1>1, <1>2 DEF CallOK, Unresolved
<1>4. CASE objs' = PurgedStore(call[p].found) /\ Goto(p, "mark")
  <2>1. ObjInv' /\ SameMarks
    BY <1>1, <1>3, <1>4, StorePurged
  <2>2. /\ IsCall(c) /\ c.at = "mark" /\ c.req = call[p].req /\ c.obj = call[p].obj
        /\ c.last = call[p].last /\ c.found = call[p].found
    BY <1>2, CallFields
  <2>3. call' = [call EXCEPT ![p] = c]
    BY <1>4 DEF Goto
  <2> HIDE DEF c
  <2>4. CallOK(c, Obj)
    BY <1>3, <2>2 DEF CallOK, Unresolved, EntrySteps
  <2>5. CallInv' /\ CallsStay
    BY <1>3, <2>1, <2>2, <2>3, <2>4, CallGoes DEF SameMarks
  <2>6. now <= now'
    BY <1>1 DEF ObjInv
  <2> QED BY <1>1, <2>1, <2>5, <2>6, QuietKeeps DEF Quiet
<1>5. CASE Reply(p) /\ UNCHANGED objs
  BY <1>1, <1>5, AnsweredKeeps, QuietKeeps
<1> QED BY <1>4, <1>5 DEF PurgeStore

\* The mark of a purge, and its answer.
LEMMA MarkKeeps ==
  ASSUME HandlersInv, NEW p \in Procs, MarkPurged(p)
  PROVE  HandlersInv'
<1> USE DEF HandlersInv
<1> DEFINE o == call[p].obj
           f == call[p].found
<1>1. /\ call[p].at = "mark" /\ Reply(p) /\ UNCHANGED <<queues, now, sent, kept, raced, stored, failed>>
      /\ objs' = [objs EXCEPT ![o].purgedAt = now] /\ answered' = [answered EXCEPT ![f] = now]
      /\ strayed' = IF f = o THEN strayed ELSE strayed \cup {f}
  BY DEF MarkPurged, Answered, At, dedups
<1>2. o \in Obj /\ f \in Obj
  BY <1>1, Running DEF CallOK, Unresolved
<1>3. /\ ObjInv' /\ Obj' = Obj /\ objs'[o].purgedAt = now
      /\ \A k \in Obj : k # o => objs'[k].purgedAt = objs[k].purgedAt
      /\ \A k \in Obj : objs'[k].tags = objs[k].tags
  BY <1>1, <1>2, MarkReplaced
<1>4. CallInv' /\ CallsStay /\ call'[p] = Idle /\ \A k \in Procs : k # p => call'[k] = call[k]
  BY <1>1, <1>3, RepliedOnly
<1>5. TagInv'
  BY <1>1, <1>3, <1>4, TagsStay
<1>6. f \in 1..MaxObj /\ now \in Nat /\ Obj \subseteq 1..MaxObj
  BY <1>2, ObjFacts DEF ObjInv
<1> HIDE DEF o, f
<1>7. /\ answered' = [k \in 1..MaxObj |-> answered'[k]] /\ answered'[f] = now
      /\ \A k \in 1..MaxObj : k # f => answered'[k] = answered[k]
  <2>1. answered = [k \in 1..MaxObj |-> answered[k]]
    BY DEF PurgeInv
  <2> QED BY <1>1, <1>6, <2>1
<1>8. \A k \in 1..MaxObj : k \notin Obj' => answered'[k] = Never
  BY <1>2, <1>3, <1>7 DEF PurgeInv
<1>9. strayed \subseteq strayed' /\ (f # o => f \in strayed')
  BY <1>1
<1>10. ASSUME NEW k \in Obj', answered'[k] # Never
       PROVE  /\ answered'[k] \in Nat /\ answered'[k] <= now'
              /\ k \notin strayed' => objs'[k].purgedAt \in Nat /\ answered'[k] <= objs'[k].purgedAt
  <2>1. CASE k = f
    <3>1. k \notin strayed' => k = o
      BY <1>9, <2>1
    <3> QED BY <1>1, <1>3, <1>6, <1>7, <2>1, <3>1
  <2>2. CASE k # f
    <3>1. k \in Obj /\ k \in 1..MaxObj /\ answered'[k] = answered[k]
      BY <1>3, <1>6, <1>7, <2>2
    <3>2. /\ answered[k] \in Nat /\ answered[k] <= now
          /\ k \notin strayed => objs[k].purgedAt \in Nat /\ answered[k] <= objs[k].purgedAt
      BY <1>10, <3>1 DEF PurgeInv
    <3>3. CASE k = o
      BY <1>1, <1>3, <1>6, <3>1, <3>2, <3>3
    <3>4. CASE k # o
      BY <1>1, <1>3, <1>9, <3>1, <3>2, <3>4
    <3> QED BY <3>3, <3>4
  <2> QED BY <2>1, <2>2
<1>11. ASSUME NEW k \in Procs, call'[k].at \notin Unresolved
       PROVE  LastOK(call'[k], answered', queues')
  <2>1. k # p
    BY <1>4, <1>11, IdleOK DEF Unresolved
  <2>2. call'[k] = call[k] /\ LastOK(call[k], answered, queues)
    BY <1>4, <1>11, <2>1 DEF PurgeInv
  <2>3. ASSUME NEW j \in 1..MaxObj, call[k].last[j] # Never
        PROVE  /\ call[k].last[j] \in Nat /\ answered'[j] \in Nat /\ call[k].last[j] <= answered'[j]
    <3>1. call[k].last[j] \in Nat /\ answered[j] \in Nat /\ call[k].last[j] <= answered[j]
      BY <2>2, <2>3 DEF LastOK
    <3>2. CASE j = f
      <4>1. answered[f] <= now
        BY <1>2, <3>1, <3>2 DEF PurgeInv, Never
      <4> QED BY <1>6, <1>7, <3>1, <3>2, <4>1
    <3>3. CASE j # f
      BY <1>7, <3>1, <3>3
    <3> QED BY <3>2, <3>3
  <2> QED BY <1>1, <2>2, <2>3 DEF LastOK
<1>12. ASSUME NEW k \in Procs
       PROVE  /\ call'[k].at = "purge" => Rests(call'[k], call'[k].obj, now', strayed')
              /\ call'[k].at = "purging" => Rests(call'[k], call'[k].found, now', strayed')
  <2> SUFFICES ASSUME call'[k].at \in {"purge", "purging"}
               PROVE  /\ call'[k].at = "purge" => Rests(call'[k], call'[k].obj, now', strayed')
                      /\ call'[k].at = "purging" => Rests(call'[k], call'[k].found, now', strayed')
    OBVIOUS
  <2>1. call'[k] = call[k]
    BY <1>4 DEF CallsStay
  <2> QED BY <1>1, <1>9, <2>1 DEF PurgeInv, Rests, At
<1>13. PurgeInv'
  BY <1>7, <1>8, <1>10, <1>11, <1>12 DEF PurgeInv, At
<1> QED BY <1>3, <1>4, <1>5, <1>13

\* UntagQueue removes what is kept no longer.
LEMMA UntagKeeps ==
  ASSUME HandlersInv, NEW p \in Procs, UntagQueue(p)
  PROVE  HandlersInv'
<1> USE DEF HandlersInv
<1> DEFINE o == call[p].obj
           T == objs[o].tags \ Req(p).tags
<1>1. /\ call[p].at = "untag" /\ Reply(p)
      /\ UNCHANGED <<queues, now, sent, answered, strayed, kept, raced, stored, failed>>
      /\ objs' = [objs EXCEPT ![o].tags = T]
  BY DEF UntagQueue, At, ghosts, dedups
<1>2. o \in Obj
  BY <1>1, Running DEF CallOK, Unresolved
<1>3. /\ IsFiniteSet(objs[o].tags) /\ kept[o] \subseteq objs[o].tags
      /\ kept[o] \cap Req(p).tags = {} /\ (Cardinality(objs[o].tags) > MaxTags => o \in raced)
  BY <1>1, <1>2 DEF TagInv, At
<1>4. IsFiniteSet(T) /\ kept[o] \subseteq T /\ (Cardinality(T) > MaxTags => o \in raced)
  <2>1. T \subseteq objs[o].tags
    OBVIOUS
  <2>2. kept[o] \subseteq T
    BY <1>3
  <2> HIDE DEF T
  <2>3. IsFiniteSet(T) /\ Cardinality(T) <= Cardinality(objs[o].tags)
    BY <1>3, <2>1, FS_Subset
  <2>4. Cardinality(T) \in Nat /\ Cardinality(objs[o].tags) \in Nat /\ MaxTags \in Nat
    BY <1>3, <2>3, FS_CardinalityType, HandlersAssumption
  <2> QED BY <1>3, <2>2, <2>3, <2>4
<1> HIDE DEF T
<1>5. /\ ObjInv' /\ Obj' = Obj /\ objs'[o].tags = T
      /\ \A k \in Obj : k # o => objs'[k].tags = objs[k].tags
      /\ \A k \in Obj : objs'[k].purgedAt = objs[k].purgedAt
  BY <1>1, <1>2, TagsReplaced
<1>6. CallInv' /\ CallsStay
  BY <1>1, <1>5, RepliedOnly
<1>7. PurgeInv'
  BY <1>1, <1>5, <1>6, PurgesStay
<1>8. ASSUME NEW k \in Obj'
      PROVE  /\ IsFiniteSet(objs'[k].tags) /\ kept'[k] \subseteq objs'[k].tags
             /\ Cardinality(objs'[k].tags) > MaxTags => k \in raced'
  <2>1. CASE k = o
    BY <1>1, <1>4, <1>5, <2>1
  <2>2. CASE k # o
    BY <1>1, <1>5, <2>2 DEF TagInv
  <2> QED BY <2>1, <2>2
<1>9. ASSUME NEW k \in Procs
      PROVE  /\ At(k, "untag")' => (kept[call[k].obj] \cap Req(k).tags = {})'
             /\ At(k, "tag")' =>
                  /\ IsFiniteSet(call'[k].tags)
                  /\ Cardinality(call'[k].tags) + Cardinality(Req(k)'.tags) <= MaxTags
  <2>1. CASE call'[k].at \in {"tag", "untag"}
    <3>1. call'[k] = call[k]
      BY <1>6, <2>1 DEF CallsStay
    <3> QED BY <1>1, <3>1 DEF TagInv, At, Req
  <2>2. CASE call'[k].at \notin {"tag", "untag"}
    BY <2>2 DEF At
  <2> QED BY <2>1, <2>2
<1>10. TagInv'
  BY <1>1, <1>5, <1>8, <1>9 DEF TagInv
<1> QED BY <1>5, <1>6, <1>7, <1>10

\* UpdateTags merges: what was kept stays, and the limit holds unless the tags
\* are no longer those that were checked.
LEMMA TagMergeKeeps ==
  ASSUME HandlersInv, NEW p \in Procs, TagMerge(p)
  PROVE  HandlersInv'
<1> USE DEF HandlersInv
<1> DEFINE o == call[p].obj
           T == objs[o].tags \cup Req(p).tags
           K == kept[o] \cup (Req(p).tags \ Untagging(o))
<1>1. /\ call[p].at = "tag" /\ Reply(p)
      /\ UNCHANGED <<queues, now, sent, answered, strayed, stored, failed>>
      /\ objs' = [objs EXCEPT ![o].tags = T]
      /\ kept' = [kept EXCEPT ![o] = K]
      /\ raced' = IF objs[o].tags # call[p].tags THEN raced \cup {o} ELSE raced
  <2>1. TagMerge(p) /\ Merged(p) = T
    BY DEF Merged, O
  <2> HIDE DEF T
  <2>2. objs' = [objs EXCEPT ![o].tags = T]
    BY <2>1 DEF TagMerge
  <2>3. kept' = [kept EXCEPT ![o] = K]
    BY <2>1 DEF TagMerge
  <2> QED BY <2>1, <2>2, <2>3 DEF TagMerge, At, O, dedups
<1>2. CallOK(call[p], Obj)
  BY Running
<1>3. Req(p) \in Requests /\ Req(p).op = "TagQueue" /\ o \in Obj
  BY <1>1, <1>2 DEF CallOK, Unresolved, Req
<1>4. /\ IsFiniteSet(Req(p).tags) /\ IsFiniteSet(objs[o].tags)
      /\ kept[o] \subseteq objs[o].tags /\ (Cardinality(objs[o].tags) > MaxTags => o \in raced)
      /\ IsFiniteSet(call[p].tags)
      /\ Cardinality(call[p].tags) + Cardinality(Req(p).tags) <= MaxTags
  BY <1>1, <1>3, RequestsAssumption DEF TagInv, At
<1>5. IsFiniteSet(T) /\ K \subseteq T
  BY <1>4, FS_Union
<1>6. Cardinality(T) > MaxTags => o \in raced'
  <2>1. CASE objs[o].tags # call[p].tags
    BY <1>1, <2>1
  <2>2. CASE objs[o].tags = call[p].tags
    <3> DEFINE A == objs[o].tags
               B == Req(p).tags
    <3> HIDE DEF A, B
    <3>1. /\ IsFiniteSet(A) /\ IsFiniteSet(B) /\ T = A \cup B
          /\ Cardinality(A) + Cardinality(B) <= MaxTags
      BY <1>4, <2>2 DEF A, B
    <3> HIDE DEF T
    <3>2. /\ Cardinality(A \cup B) = Cardinality(A) + Cardinality(B) - Cardinality(A \cap B)
          /\ IsFiniteSet(A \cup B)
      BY <3>1, FS_Union
    <3>3. IsFiniteSet(A \cap B)
      BY <3>1, FS_Intersection
    <3>4. /\ Cardinality(A) \in Nat /\ Cardinality(B) \in Nat /\ Cardinality(A \cap B) \in Nat
          /\ Cardinality(A \cup B) \in Nat /\ MaxTags \in Nat
      BY <3>1, <3>2, <3>3, FS_CardinalityType, HandlersAssumption
    <3> QED BY <3>1, <3>2, <3>4
  <2> QED BY <2>1, <2>2
<1> HIDE DEF T
<1>7. /\ ObjInv' /\ Obj' = Obj /\ objs'[o].tags = T
      /\ \A k \in Obj : k # o => objs'[k].tags = objs[k].tags
      /\ \A k \in Obj : objs'[k].purgedAt = objs[k].purgedAt
  BY <1>1, <1>3, TagsReplaced
<1>8. CallInv' /\ CallsStay /\ call'[p] = Idle /\ \A k \in Procs : k # p => call'[k] = call[k]
  BY <1>1, <1>7, RepliedOnly
<1>9. PurgeInv'
  BY <1>1, <1>7, <1>8, PurgesStay
<1>10. /\ kept' = [k \in 1..MaxObj |-> kept'[k]] /\ kept'[o] = K
       /\ \A k \in 1..MaxObj : k # o => kept'[k] = kept[k]
  <2>1. kept = [k \in 1..MaxObj |-> kept[k]] /\ o \in 1..MaxObj
    BY <1>3, ObjFacts DEF TagInv
  <2> HIDE DEF K
  <2> QED BY <1>1, <2>1
<1>11. \A k \in 1..MaxObj : k \notin Obj' => kept'[k] = {}
  BY <1>3, <1>7, <1>10 DEF TagInv
<1>12. ASSUME NEW k \in Obj'
       PROVE  /\ IsFiniteSet(objs'[k].tags) /\ kept'[k] \subseteq objs'[k].tags
              /\ Cardinality(objs'[k].tags) > MaxTags => k \in raced'
  <2>1. CASE k = o
    BY <1>5, <1>6, <1>7, <1>10, <2>1
  <2>2. CASE k # o
    <3>1. k \in Obj /\ k \in 1..MaxObj /\ raced \subseteq raced'
      BY <1>1, <1>7, ObjFacts
    <3>2. objs'[k].tags = objs[k].tags /\ kept'[k] = kept[k]
      BY <1>7, <1>10, <2>2, <3>1
    <3> QED BY <3>1, <3>2 DEF TagInv
  <2> QED BY <2>1, <2>2
<1>13. ASSUME NEW k \in Procs, call'[k].at = "untag"
       PROVE  kept'[call'[k].obj] \cap call'[k].req.tags = {}
  <2>1. call'[k] = call[k] /\ call[k].obj \in Obj
    BY <1>8, <1>13, Running DEF CallsStay, CallOK, Unresolved
  <2>2. kept[call[k].obj] \cap call[k].req.tags = {}
    BY <1>13, <2>1 DEF TagInv, At, Req
  <2>3. CASE call[k].obj = o
    <3>1. call[k].req.tags \subseteq Untagging(o)
      BY <1>13, <2>1, <2>3 DEF Untagging, At, Req
    <3>2. K \cap call[k].req.tags = {}
      BY <2>2, <2>3, <3>1
    <3> QED BY <1>10, <2>1, <2>3, <3>2
  <2>4. CASE call[k].obj # o
    <3>1. call[k].obj \in 1..MaxObj
      BY <2>1, ObjFacts
    <3> QED BY <1>10, <2>1, <2>2, <2>4, <3>1
  <2> QED BY <2>3, <2>4
<1>14. ASSUME NEW k \in Procs, call'[k].at = "tag"
       PROVE  /\ IsFiniteSet(call'[k].tags)
              /\ Cardinality(call'[k].tags) + Cardinality(call'[k].req.tags) <= MaxTags
  <2>1. call'[k] = call[k]
    BY <1>8, <1>14 DEF CallsStay
  <2> QED BY <1>14, <2>1 DEF TagInv, At, Req
<1>15. TagInv'
  BY <1>10, <1>11, <1>12, <1>13, <1>14 DEF TagInv, At, Req
<1> QED BY <1>7, <1>8, <1>9, <1>15

(***************************************************************************)
(* The invariant                                                           *)
(***************************************************************************)
\* The queues of the configuration in some order.
LEMMA SequenceOfSet ==
  ASSUME NEW S, IsFiniteSet(S)
  PROVE  /\ Cardinality(S) \in Nat
         /\ SeqOfSet(S) \in [1..Cardinality(S) -> S]
         /\ \A x \in S : \E i \in DOMAIN SeqOfSet(S) : SeqOfSet(S)[i] = x
<1>1. Cardinality(S) \in Nat /\ ExistsBijection(1..Cardinality(S), S)
  BY FS_CardinalityType
<1>2. PICK f : f \in Bijection(1..Cardinality(S), S)
  BY <1>1 DEF ExistsBijection
<1>3. f \in [1..Cardinality(S) -> S] /\ \A x \in S : \E i \in DOMAIN f : f[i] = x
  BY <1>2 DEF Bijection, Injection, Surjection
<1> QED BY <1>1, <1>3 DEF SeqOfSet

\* The start of main: no calls, and the queues of the configuration.
LEMMA InitHolds ==
  ASSUME Init
  PROVE  HandlersInv
<1> DEFINE S == DOMAIN Startup
           names == SeqOfSet(S)
           n == Cardinality(S)
<1>1. IsFiniteSet(S) /\ S \subseteq Names /\ n <= MaxObj /\ MaxObj \in Nat /\ MaxTags \in Nat
  BY HandlersAssumption
<1>2. /\ n \in Nat /\ names \in [1..n -> S]
      /\ \A x \in S : \E i \in DOMAIN names : names[i] = x
  BY <1>1, SequenceOfSet
<1>3. /\ objs = [i \in DOMAIN names |-> Object(names[i], With(Defaults, Startup[names[i]]))]
      /\ queues = [q \in Names |-> IF q \in S THEN CHOOSE i \in DOMAIN names : names[i] = q ELSE 0]
      /\ call = [p \in Procs |-> Idle]
      /\ now = 0 /\ sent = 0
      /\ answered = [o \in 1..MaxObj |-> Never] /\ kept = [o \in 1..MaxObj |-> {}] /\ raced = {}
  BY Zenon DEF Init, NeverPurged
<1> HIDE DEF names, n, S
<1>4. DOMAIN names = 1..n /\ \A i \in 1..n : names[i] \in Names
  BY <1>1, <1>2
<1>5. IsSequence(objs) /\ Len(objs) = n /\ Obj = 1..n
  <2>1. DOMAIN objs = 1..n /\ objs = [i \in DOMAIN objs |-> objs[i]]
    BY <1>3, <1>4
  <2> QED BY <1>2, <2>1, Numbered DEF Obj
<1>6. ASSUME NEW i \in 1..n
      PROVE  /\ ObjectOK(objs[i], i, 0, 0, Known) /\ objs[i].name = names[i] /\ objs[i].open
             /\ objs[i].tags = {} /\ objs[i].purgedAt = Never
  <2> DEFINE attrs == With(Defaults, Startup[names[i]])
             x == Object(names[i], attrs)
  <2>1. objs[i] = x
    BY <1>3, <1>4
  <2>2. DOMAIN attrs = Attribute /\ Whole(attrs)
    <3>1. names[i] \in S
      BY <1>2, <1>4
    <3>2. Startup[names[i]] \in Given
      BY <3>1 DEF Given, S
    <3> QED BY <3>2, AttributeFacts, WithIsWhole, DefaultsAreWhole
  <2> HIDE DEF attrs
  <2>3. /\ ObjectOK(x, i, 0, 0, Known) /\ x.name = names[i] /\ x.open /\ x.tags = {} /\ x.purgedAt = Never
    BY <1>4, <2>2, NewObject
  <2> HIDE DEF x
  <2> QED BY <2>1, <2>3
<1>7. queues \in [Names -> 0..n] /\ \A q \in Names : queues[q] # 0 => names[queues[q]] = q
  <2> SUFFICES ASSUME NEW q \in Names
               PROVE  queues[q] \in 0..n /\ (queues[q] # 0 => names[queues[q]] = q)
    BY <1>3
  <2>1. CASE q \in S
    <3>1. \E i \in DOMAIN names : names[i] = q
      BY <1>2, <2>1
    <3>2. queues[q] = CHOOSE i \in DOMAIN names : names[i] = q
      BY <1>3, <2>1
    <3>3. queues[q] \in DOMAIN names /\ names[queues[q]] = q
      BY <3>1, <3>2
    <3> QED BY <1>2, <1>4, <3>3
  <2>2. CASE q \notin S
    <3>1. queues[q] = 0
      BY <1>3, <2>2
    <3> QED BY <1>2, <3>1
  <2> QED BY <2>1, <2>2
<1>8. ObjInv
  <2>1. \A q \in Names : queues[q] # 0 => objs[queues[q]].name = q /\ objs[queues[q]].open
    <3> SUFFICES ASSUME NEW q \in Names, queues[q] # 0
                 PROVE  objs[queues[q]].name = q /\ objs[queues[q]].open
      OBVIOUS
    <3>1. queues[q] \in 1..n
      BY <1>2, <1>7
    <3> QED BY <1>6, <1>7, <3>1
  <2> QED BY <1>1, <1>3, <1>5, <1>6, <1>7, <2>1 DEF ObjInv
<1>9. \A p \in Procs : call[p] = Idle /\ call[p].at = "idle" /\ CallOK(call[p], Obj)
  BY <1>3, IdleOK
<1>10. CallInv
  BY <1>3, <1>9 DEF CallInv
<1>11. TagInv
  <2>1. IsFiniteSet({}) /\ ~(Cardinality({}) > MaxTags)
    BY <1>1, FS_EmptySet
  <2>2. \A p \in Procs : ~At(p, "untag") /\ ~At(p, "tag")
    BY <1>9 DEF At
  <2>3. \A o \in 1..MaxObj : kept[o] = {}
    BY <1>3
  <2>4. \A o \in Obj : o \in 1..MaxObj /\ objs[o].tags = {}
    BY <1>5, <1>6, <1>8, ObjFacts
  <2> QED BY <1>3, <2>1, <2>2, <2>3, <2>4 DEF TagInv
<1>12. PurgeInv
  <2>1. \A o \in 1..MaxObj : answered[o] = Never
    BY <1>3
  <2>2. \A o \in Obj : answered[o] = Never
    BY <1>8, <2>1, ObjFacts
  <2>3. \A p \in Procs : call[p].at \in Unresolved /\ ~At(p, "purge") /\ ~At(p, "purging")
    BY <1>9 DEF Unresolved, At
  <2> QED BY <1>3, <2>1, <2>2, <2>3 DEF PurgeInv
<1> QED BY <1>8, <1>10, <1>11, <1>12 DEF HandlersInv

\* A step of a handler.
LEMMA HandleKeeps ==
  ASSUME HandlersInv, NEW p \in Procs, Handle(p)
  PROVE  HandlersInv'
<1>1. ObjInv /\ CallInv
  BY DEF HandlersInv
<1>2. CASE ResolveQueue(p) \/ AutoCreateQueue(p)
  BY <1>2, ResolveKeeps, AutoCreateKeeps
<1>3. CASE Answer(p) \/ EntriesDone(p)
  <2>1. Reply(p) /\ UNCHANGED <<queues, objs, now, sent, answered, strayed, kept, raced, stored, failed>>
    BY <1>3 DEF Answer, EntriesDone, ghosts, dedups
  <2> QED BY <1>1, <2>1, AnsweredKeeps, QuietKeeps
<1>4. CASE CreateQueue(p)
  BY <1>1, <1>4, CreateQueueKeeps, QuietKeeps
<1>5. CASE DeleteQueue(p)
  BY <1>1, <1>5, DeleteQueueKeeps, QuietKeeps
<1>6. CASE SetQueueAttributes(p)
  BY <1>1, <1>6, SetKeeps, QuietKeeps
<1>7. CASE GetQueueAttribute(p)
  BY <1>1, <1>7, GetKeeps, QuietKeeps
<1>8. CASE TagCheck(p)
  BY <1>8, TagCheckKeeps
<1>9. CASE TagMerge(p)
  BY <1>9, TagMergeKeeps
<1>10. CASE UntagQueue(p)
  BY <1>10, UntagKeeps
<1>11. CASE CheckPurgeCooldown(p)
  BY <1>11, CooldownKeeps
<1>12. CASE PurgeQueue(p) \/ PurgeStore(p)
  BY <1>12, PurgeQueueKeeps, PurgeStoreKeeps
<1>13. CASE MarkPurged(p)
  BY <1>13, MarkKeeps
<1>14. CASE CheckEntries(p)
  BY <1>1, <1>14, CheckEntriesKeeps, QuietKeeps
<1>15. CASE SendEntry(p)
  BY <1>1, <1>15, SendKeeps, QuietKeeps
<1>16. CASE DeleteEntry(p)
  BY <1>1, <1>16, DeleteKeeps, QuietKeeps
<1>17. CASE ChangeEntry(p)
  BY <1>1, <1>17, ChangeKeeps, QuietKeeps
<1>18. CASE ReceiveMessage(p) \/ ReceiveWaitTime(p)
  BY <1>1, <1>18, ReadKeeps, QuietKeeps
<1>19. CASE Poll(p)
  BY <1>1, <1>19, ReceiveKeeps, QuietKeeps
<1> QED
  BY <1>2, <1>3, <1>4, <1>5, <1>6, <1>7, <1>8, <1>9, <1>10, <1>11, <1>12, <1>13, <1>14, <1>15,
     <1>16, <1>17, <1>18, <1>19, Zenon DEF Handle

LEMMA StepKeeps ==
  ASSUME HandlersInv, [UINext]_vars
  PROVE  HandlersInv'
<1>1. ObjInv /\ CallInv
  BY DEF HandlersInv
<1>2. ASSUME NEW p \in Procs, NEW r \in Requests, Begin(p, r) PROVE HandlersInv'
  BY <1>1, <1>2, BeginKeeps, QuietKeeps
<1>3. ASSUME NEW p \in Procs, Handle(p) PROVE HandlersInv'
  BY <1>3, HandleKeeps
<1>4. ASSUME NEW o \in Obj, NEW m \in objs[o].msgs, VisibilityExpires(o, m) PROVE HandlersInv'
  BY <1>1, <1>4, ExpiresKeeps, QuietKeeps
<1>5. ASSUME Tick PROVE HandlersInv'
  BY <1>1, <1>5, TickKeeps, QuietKeeps
<1>6. ASSUME NEW p \in Procs, UICreateQueue(p) PROVE HandlersInv'
  BY <1>1, <1>6, CreateQueueKeeps, QuietKeeps
<1>7. ASSUME NEW p \in Procs, UIPurgeQueue(p) PROVE HandlersInv'
  BY <1>1, <1>7, UIPurgeKeeps, QuietKeeps
<1>8. ASSUME NEW p \in Procs, UISendMessage(p) PROVE HandlersInv'
  BY <1>1, <1>8, SendKeeps, QuietKeeps
<1>9. ASSUME NEW p \in Procs, Peek(p) PROVE HandlersInv'
  BY <1>1, <1>9, ReceiveKeeps, QuietKeeps
<1>10. ASSUME UNCHANGED vars PROVE HandlersInv'
  <2>1. UNCHANGED <<queues, objs, call, now, sent, answered, strayed, kept, raced, stored, failed>>
    BY <1>10 DEF vars
  <2>2. ObjInv' /\ SameMarks /\ Obj' = Obj /\ now <= now'
    BY <1>1, <2>1, NothingMoves
  <2>3. CallInv' /\ CallsStay
    BY <1>1, <2>1, <2>2, CallsGrow
  <2> QED BY <2>1, <2>2, <2>3, QuietKeeps DEF Quiet
<1>11. ASSUME Next PROVE HandlersInv'
  BY <1>2, <1>3, <1>4, <1>5, <1>11, Zenon DEF Next
<1> QED BY <1>6, <1>7, <1>8, <1>9, <1>10, <1>11, Zenon DEF UINext

\* The handlers and the web interface keep the invariant.
THEOREM HandlersInvHolds == UISpec => []HandlersInv
<1>1. Init => HandlersInv
  BY InitHolds
<1>2. HandlersInv /\ [UINext]_vars => HandlersInv'
  BY StepKeeps
<1> QED BY <1>1, <1>2, PTL DEF UISpec

(***************************************************************************)
(* What the runs check                                                     *)
(***************************************************************************)
\* Names lead to open queues of that name, and the kind and the deduplication a
\* store was configured with are what the attributes of its queue say, whatever
\* calls come in between.
THEOREM ObjectsAlwaysAgree == UISpec => []ObjectsAgree
<1>1. HandlersInv => ObjectsAgree
  <2> SUFFICES ASSUME HandlersInv PROVE TypeOK /\ StoreAgreesWithAttributes
    BY DEF ObjectsAgree
  <2>1. ObjInv /\ CallInv
    BY DEF HandlersInv
  <2>2. ASSUME NEW o \in Obj
        PROVE  /\ objs[o].name \in Names /\ DOMAIN objs[o].attrs = Attribute
               /\ objs[o].purgedAt \in {Never} \cup 0..now
               /\ \A m \in objs[o].msgs : IsMessage(m)
               /\ Agrees(objs[o])
    BY <2>1, ObjFacts DEF ObjectOK, MessagesOK, MessageOK, IsMessage
  <2>3. \A p \in Procs : At(p, "idle") => call[p] = Idle
    BY <2>1, Running DEF CallOK, At
  <2>4. TypeOK
    BY <2>1, <2>2, <2>3 DEF TypeOK, ObjInv
  <2>5. StoreAgreesWithAttributes
    BY <2>2 DEF StoreAgreesWithAttributes, Agrees
  <2> QED BY <2>4, <2>5
<1> QED BY <1>1, HandlersInvHolds, PTL

\* A tag that was acknowledged stays until it is untagged, and only a merge that
\* was overtaken exceeds the limit of TagQueue.
THEOREM TagsAlwaysHold == UISpec => []TagsHold
<1>1. HandlersInv => TagsHold
  BY DEF HandlersInv, TagInv, TagsHold
<1> QED BY <1>1, HandlersInvHolds, PTL

\* Whoever asks after an answered PurgeQueue has to wait for the cooldown, whatever
\* queue the name leads to at each of its steps; but for a store that was purged
\* in place of the one that was marked.
THEOREM PurgesAlwaysApart == UISpec => []PurgesAreApart
<1>1. HandlersInv => PurgesAreApart
  BY DEF HandlersInv, PurgeInv, PurgesAreApart, Rests, At
<1> QED BY <1>1, HandlersInvHolds, PTL

\* Settings that only come together are read together, unless the attributes
\* changed while they were read.
THEOREM ReadsAlwaysWhole == UISpec => []ReadsAreWhole
<1>1. HandlersInv => ReadsAreWhole
  <2> SUFFICES ASSUME HandlersInv, NEW p \in Procs, call[p].at = "get", ~call[p].torn,
                      NEW st \in Together, NEW i \in DOMAIN call[p].read, NEW j \in DOMAIN call[p].read,
                      Req(p).names[i] = st[1][1], Req(p).names[j] = st[2][1]
               PROVE  call[p].read[i] = st[1][2] <=> call[p].read[j] = st[2][2]
    BY DEF ReadsAreWhole, At
  <2>1. ReadOK(call[p])
    BY Running DEF HandlersInv, CallOK
  <2>2. call[p].read # <<>>
    OBVIOUS
  <2>3. /\ call[p].read[i] = call[p].from[st[1][1]] /\ call[p].read[j] = call[p].from[st[2][1]]
        /\ Whole(call[p].from)
    BY <2>1, <2>2 DEF ReadOK, Req
  <2> QED BY <2>3 DEF Whole, Has
<1> QED BY <1>1, HandlersInvHolds, PTL

\* Only a step of its own changes what a call holds.
LEMMA Mover ==
  ASSUME CallInv, [UINext]_vars, NEW p \in Procs, call'[p] # call[p]
  PROVE  \/ \E r \in Requests : Begin(p, r)
         \/ Handle(p) \/ UICreateQueue(p) \/ UIPurgeQueue(p) \/ UISendMessage(p) \/ Peek(p)
<1>1. DOMAIN call = Procs
  BY DEF CallInv
<1>2. ~UNCHANGED call
  OBVIOUS
<1>3. ASSUME NEW k \in Procs, NEW c, call' = [call EXCEPT ![k] = c] PROVE k = p
  BY <1>1, <1>3
<1>4. ASSUME NEW k \in Procs, Reply(k) PROVE k = p
  BY <1>3, <1>4 DEF Reply
<1>5. ASSUME NEW k \in Procs, NEW pc, Goto(k, pc) PROVE k = p
  <2>1. \E c : call' = [call EXCEPT ![k] = c]
    BY <1>5 DEF Goto
  <2> QED BY <1>3, <2>1
<1>6. ASSUME NEW k \in Procs, Failed(k) \/ Succeeded(k) PROVE k = p
  <2>1. \E c : call' = [call EXCEPT ![k] = c]
    BY <1>6 DEF Failed, Succeeded
  <2> QED BY <1>3, <2>1
<1>7. ASSUME NEW k \in Procs, NEW r \in Requests, Begin(k, r) PROVE k = p
  <2>1. \E c : call' = [call EXCEPT ![k] = c]
    BY <1>7 DEF Begin
  <2> QED BY <1>3, <2>1
<1>8. ASSUME NEW k \in Procs, NEW o, Resolved(k, o) PROVE k = p
  <2>1. \E c : call' = [call EXCEPT ![k] = c]
    BY <1>8 DEF Resolved
  <2> QED BY <1>3, <2>1
<1>9. ASSUME NEW k \in Procs, ResolveQueue(k) \/ AutoCreateQueue(k) PROVE k = p
  <2>1. Reply(k) \/ Goto(k, "autocreate") \/ \E o : Resolved(k, o)
    BY <1>9, Zenon DEF ResolveQueue, AutoCreateQueue
  <2> QED BY <1>4, <1>5, <1>8, <2>1
<1>10. ASSUME NEW k \in Procs,
              \/ GetQueueAttribute(k) \/ TagCheck(k) \/ CheckPurgeCooldown(k) \/ PurgeQueue(k)
              \/ PurgeStore(k) \/ CheckEntries(k) \/ ReceiveMessage(k) \/ ReceiveWaitTime(k)
       PROVE  k = p
  <2>1. Reply(k) \/ \E c : call' = [call EXCEPT ![k] = c]
    BY <1>10 DEF GetQueueAttribute, TagCheck, CheckPurgeCooldown, PurgeQueue, PurgeStore, CheckEntries,
       ReceiveMessage, ReceiveWaitTime, Goto
  <2> QED BY <1>3, <1>4, <2>1
<1>11. ASSUME NEW k \in Procs,
              SendEntry(k) \/ DeleteEntry(k) \/ ChangeEntry(k) \/ UISendMessage(k)
       PROVE  k = p
  <2>1. Failed(k) \/ Succeeded(k)
    BY <1>11, Zenon DEF SendEntry, StoreEntry, DeleteEntry, ChangeEntry, UISendMessage
  <2> QED BY <1>6, <2>1
<1>12. ASSUME NEW k \in Procs,
              \/ Answer(k) \/ CreateQueue(k) \/ UICreateQueue(k) \/ DeleteQueue(k)
              \/ SetQueueAttributes(k) \/ TagMerge(k) \/ UntagQueue(k) \/ MarkPurged(k)
              \/ EntriesDone(k) \/ Poll(k) \/ UIPurgeQueue(k) \/ Peek(k)
       PROVE  k = p
  <2>1. Reply(k)
    BY <1>12, Zenon DEF Answer, CreateQueue, UICreateQueue, CreateOr, DeleteQueue, SetQueueAttributes,
       TagMerge, UntagQueue, MarkPurged, Answered, EntriesDone, Poll, UIPurgeQueue, Peek
  <2> QED BY <1>4, <2>1
<1>13. ~Tick /\ \A o \in Obj : \A m \in objs[o].msgs : ~VisibilityExpires(o, m)
  BY <1>2, Zenon DEF Tick, VisibilityExpires
<1>14. ~UNCHANGED vars
  BY <1>2 DEF vars
<1>15. ASSUME NEW k \in Procs, Handle(k) PROVE k = p
  BY <1>9, <1>10, <1>11, <1>12, <1>15, Zenon DEF Handle
<1>16. ASSUME Next PROVE Handle(p) \/ \E r \in Requests : Begin(p, r)
  <2>1. \/ \E k \in Procs, r \in Requests : Begin(k, r)
        \/ \E k \in Procs : Handle(k)
    BY <1>13, <1>16, Zenon DEF Next
  <2> QED BY <1>7, <1>15, <2>1
<1>17. ASSUME NEW k \in Procs, UICreateQueue(k) \/ UIPurgeQueue(k) \/ UISendMessage(k) \/ Peek(k)
       PROVE  k = p
  BY <1>11, <1>12, <1>17, Zenon
<1>18. Next \/ \E k \in Procs : UICreateQueue(k) \/ UIPurgeQueue(k) \/ UISendMessage(k) \/ Peek(k)
  BY <1>14, Zenon DEF UINext
<1> QED BY <1>16, <1>17, <1>18

\* At an entry that step is the one of the entry, and takes it into one list.
LEMMA EntryMoves ==
  ASSUME CallInv, [UINext]_vars, NEW p \in Procs, call[p].at \in EntrySteps,
         call'[p].i = call[p].i + 1
  PROVE  SendEntry(p) \/ UISendMessage(p) \/ DeleteEntry(p) \/ ChangeEntry(p)
<1>1. EntriesOK(call[p]) /\ Len(call[p].req.entries) \in Nat
  BY EntryFacts DEF Req
<1>2. call[p].i \in Int /\ call[p].i >= 1
  BY <1>1 DEF EntriesOK
<1>3. call'[p] # call[p]
  BY <1>2
<1>4. \/ \E r \in Requests : Begin(p, r)
      \/ Handle(p) \/ UICreateQueue(p) \/ UIPurgeQueue(p) \/ UISendMessage(p) \/ Peek(p)
  BY <1>3, Mover
<1>5. ~EntriesDone(p)
  <2> SUFFICES ASSUME EntriesDone(p) PROVE FALSE
    OBVIOUS
  <2>1. call' = [call EXCEPT ![p] = Idle] /\ p \in DOMAIN call
    BY DEF EntriesDone, Reply, CallInv
  <2>2. call'[p].i = 1
    BY <2>1, IdleOK DEF CallOK, Unresolved
  <2> QED BY <1>2, <2>2
<1>6. call[p].at \in {"send", "uisend", "delete", "change"}
  BY DEF EntrySteps
<1>7. /\ \A r \in Requests : ~Begin(p, r)
      /\ ~UICreateQueue(p) /\ ~UIPurgeQueue(p) /\ ~Peek(p)
  BY <1>6 DEF Begin, UICreateQueue, UIPurgeQueue, Peek, At
<1>8. /\ ~ResolveQueue(p) /\ ~AutoCreateQueue(p) /\ ~Answer(p) /\ ~CreateQueue(p) /\ ~DeleteQueue(p)
      /\ ~SetQueueAttributes(p) /\ ~GetQueueAttribute(p) /\ ~TagCheck(p) /\ ~TagMerge(p)
      /\ ~UntagQueue(p) /\ ~CheckPurgeCooldown(p) /\ ~PurgeQueue(p) /\ ~PurgeStore(p)
      /\ ~MarkPurged(p) /\ ~CheckEntries(p) /\ ~ReceiveMessage(p) /\ ~ReceiveWaitTime(p) /\ ~Poll(p)
  BY <1>6 DEF ResolveQueue, AutoCreateQueue, Answer, CreateQueue, DeleteQueue, SetQueueAttributes,
     GetQueueAttribute, TagCheck, TagMerge, UntagQueue, CheckPurgeCooldown, PurgeQueue, PurgeStore,
     MarkPurged, Answered, CheckEntries, ReceiveMessage, ReceiveWaitTime, Poll, At
<1> QED BY <1>4, <1>5, <1>7, <1>8, Zenon DEF Handle

\* The lists of a batch after one entry more.
LEMMA Listed ==
  ASSUME CallInv, NEW p \in Procs, call[p].at \in EntrySteps, HasEntry(p)
  PROVE  /\ Entry(p).id \notin call[p].ok \cup call[p].bad
         /\ Succeeded(p) => /\ call'[p].ok = call[p].ok \cup {Entry(p).id}
                            /\ call'[p].bad = call[p].bad
         /\ Failed(p) => /\ call'[p].bad = call[p].bad \cup {Entry(p).id}
                         /\ call'[p].ok = call[p].ok
<1> DEFINE entries == Req(p).entries
           k  == call[p].i
           id == Entry(p).id
<1>1. EntriesOK(call[p]) /\ IsCall(call[p]) /\ Len(entries) \in Nat
  BY EntryFacts
<1>2. k \in 1..Len(entries) /\ id = entries[k].id
  BY <1>1 DEF EntriesOK, HasEntry, Entry, Req
<1>3. id \notin call[p].ok \cup call[p].bad
  <2>1. /\ \A i, j \in 1..Len(entries) : entries[i].id = entries[j].id => i = j
        /\ call[p].ok \cup call[p].bad = {entries[j].id : j \in 1..(k - 1)}
    BY <1>1 DEF EntriesOK, Req
  <2>2. ASSUME NEW j \in 1..(k - 1) PROVE entries[j].id # id
    <3>1. j \in 1..Len(entries) /\ j # k
      BY <1>1, <1>2
    <3> QED BY <1>2, <2>1, <3>1
  <2> QED BY <2>1, <2>2
<1>4. p \in DOMAIN call
  BY DEF CallInv
<1> HIDE DEF id
<1>5. ASSUME Succeeded(p) PROVE call'[p].ok = call[p].ok \cup {id} /\ call'[p].bad = call[p].bad
  <2> DEFINE c == [call[p] EXCEPT !.ok = @ \cup {id}, !.i = @ + 1]
  <2>1. call' = [call EXCEPT ![p] = c]
    BY <1>5 DEF Succeeded, id
  <2>2. c.bad = call[p].bad /\ c.ok = call[p].ok \cup {id}
    BY <1>1, CallFields
  <2> HIDE DEF c
  <2> QED BY <1>4, <2>1, <2>2
<1>6. ASSUME Failed(p) PROVE call'[p].bad = call[p].bad \cup {id} /\ call'[p].ok = call[p].ok
  <2> DEFINE c == [call[p] EXCEPT !.bad = @ \cup {id}, !.i = @ + 1]
  <2>1. call' = [call EXCEPT ![p] = c]
    BY <1>6 DEF Failed, id
  <2>2. c.ok = call[p].ok /\ c.bad = call[p].bad \cup {id}
    BY <1>1, CallFields
  <2> HIDE DEF c
  <2> QED BY <1>4, <2>1, <2>2
<1> QED BY <1>3, <1>5, <1>6 DEF id

\* What became of the entry of a message.
LEMMA SendAccounts ==
  ASSUME ObjInv, CallInv, NEW p \in Procs, SendEntry(p) \/ UISendMessage(p)
  PROVE  \/ Succeeded(p) /\ TookEffect(p)
         \/ Failed(p) /\ objs'[call[p].obj].msgs = objs[call[p].obj].msgs
<1> DEFINE o == call[p].obj
<1>1. call[p].at \in {"send", "uisend"} /\ call[p].at \in EntrySteps
  BY DEF SendEntry, UISendMessage, At, EntrySteps
<1>2. o \in Obj /\ o \in DOMAIN objs /\ IsObject(objs[o]) /\ ObjectOK(objs[o], o, now, sent, Known)
  BY <1>1, EntryFacts, ObjFacts DEF Obj
<1>3. \/ Keeps(objs, o, Message(p)) /\ sent' = sent + 1 /\ Succeeded(p)
      \/ Duplicate(o, Message(p)) /\ Succeeded(p)
      \/ FailsToInsert(objs, o, Message(p)) /\ Failed(p)
      \/ Failed(p) /\ UNCHANGED objs
  BY Zenon DEF SendEntry, UISendMessage, StoreEntry
<1>4. CASE Keeps(objs, o, Message(p)) /\ sent' = sent + 1 /\ Succeeded(p)
  <2> DEFINE M == objs[o].msgs \cup {Message(p)}
             D == objs[o].seen \cup Ids(o, Message(p))
  <2>1. objs' = [objs EXCEPT ![o] = Stocked(objs[o], M, D)]
    BY <1>2, <1>4 DEF Keeps, Put, Stocked
  <2>2. Stocked(objs[o], M, D).msgs = M
    BY <1>2, OtherStock
  <2>3. objs'[o].msgs = M
    BY <1>2, <2>1, <2>2, Zenon
  <2>4. Message(p).n = sent'
    BY <1>4 DEF Message
  <2> QED BY <1>1, <1>4, <2>3, <2>4 DEF TookEffect
<1>5. CASE Duplicate(o, Message(p)) /\ Succeeded(p)
  <2>1. PICK id \in Ids(o, Message(p)) : id \in objs[o].seen
    BY <1>5 DEF Duplicate
  <2>2. <<o, id>> \in stored \cup failed
    BY <1>2, <2>1 DEF ObjectOK, Known
  <2> QED BY <1>1, <1>5, <2>1, <2>2 DEF TookEffect
<1>6. CASE FailsToInsert(objs, o, Message(p)) /\ Failed(p)
  <2> DEFINE D == objs[o].seen \cup Ids(o, Message(p))
  <2>1. PICK x : x = [objs[o] EXCEPT !.seen = D]
    OBVIOUS
  <2>2. x.msgs = objs[o].msgs
    BY <1>2, <2>1, OtherSeen
  <2>3. objs' = [objs EXCEPT ![o] = x]
    BY <1>6, <2>1 DEF FailsToInsert, Remember
  <2>4. objs'[o].msgs = objs[o].msgs
    BY <1>2, <2>2, <2>3, Zenon
  <2> QED BY <1>6, <2>4
<1> QED BY <1>3, <1>4, <1>5, <1>6

LEMMA DeleteAccounts ==
  ASSUME ObjInv, CallInv, NEW p \in Procs, DeleteEntry(p)
  PROVE  \/ Succeeded(p) /\ TookEffect(p)
         \/ Failed(p) /\ objs'[call[p].obj].msgs = objs[call[p].obj].msgs
<1> DEFINE o == call[p].obj
<1>1. At(p, "delete") /\ call[p].at \in EntrySteps
  BY DEF DeleteEntry, At, EntrySteps
<1>2. o \in DOMAIN objs /\ IsObject(objs[o])
  BY <1>1, EntryFacts, ObjFacts DEF Obj
<1>3. CASE Held(p) # {} /\ objs' = [objs EXCEPT ![o].msgs = objs[o].msgs \ Held(p)] /\ Succeeded(p)
  <2>1. objs'[o].msgs = objs[o].msgs \ Held(p)
    BY <1>2, <1>3 DEF IsObject
  <2> QED BY <1>1, <1>3, <2>1 DEF TookEffect
<1>4. \/ UNCHANGED objs /\ Failed(p)
      \/ Held(p) # {} /\ objs' = [objs EXCEPT ![o].msgs = objs[o].msgs \ Held(p)] /\ Succeeded(p)
  BY <1>2 DEF DeleteEntry
<1> QED BY <1>3, <1>4

LEMMA ChangeAccounts ==
  ASSUME ObjInv, CallInv, NEW p \in Procs, ChangeEntry(p)
  PROVE  \/ Succeeded(p) /\ TookEffect(p)
         \/ Failed(p) /\ objs'[call[p].obj].msgs = objs[call[p].obj].msgs
<1> DEFINE o == call[p].obj
           M(b) == (objs[o].msgs \ Held(p)) \cup {[m EXCEPT !.held = b] : m \in Held(p)}
           t == IF Entry(p).visibility < 0 /\ Does(p, {"ChangeMessageVisibilityBatch"})
                THEN O(p).attrs.VisibilityTimeout ELSE Entry(p).visibility
<1>1. At(p, "change") /\ call[p].at \in EntrySteps
  BY DEF ChangeEntry, At, EntrySteps
<1>2. o \in DOMAIN objs /\ IsObject(objs[o])
  BY <1>1, EntryFacts, ObjFacts DEF Obj
<1>3. ASSUME NEW b \in BOOLEAN, Held(p) # {}, objs' = [objs EXCEPT ![o].msgs = M(b)], Succeeded(p)
      PROVE  Succeeded(p) /\ TookEffect(p)
  <2>1. objs'[o].msgs = M(b)
    BY <1>2, <1>3 DEF IsObject
  <2> QED BY <1>1, <1>3, <2>1 DEF TookEffect
<1>4. \/ UNCHANGED objs /\ Failed(p)
      \/ Held(p) # {} /\ objs' = [objs EXCEPT ![o].msgs = M(t > 0)] /\ Succeeded(p)
  BY <1>2, Zenon DEF ChangeEntry
<1>5. (t > 0) \in BOOLEAN
  OBVIOUS
<1> HIDE DEF t, M
<1> QED BY <1>3, <1>4, <1>5

\* Each entry of a batch becomes a result or an error, and the store did what the
\* result says.
THEOREM BatchesAlwaysAccount == UISpec => BatchAccounts
<1> DEFINE Accounts(p) ==
             LET id == Entry(p).id
                 o  == call[p].obj
             IN
             /\ id \notin call[p].ok \cup call[p].bad
             /\ \/ /\ call'[p].ok = call[p].ok \cup {id} /\ call'[p].bad = call[p].bad
                   /\ TookEffect(p)
                \/ /\ call'[p].bad = call[p].bad \cup {id} /\ call'[p].ok = call[p].ok
                   /\ objs'[o].msgs = objs[o].msgs
<1>1. HandlersInv /\ [UINext]_vars =>
        [\A p \in Procs : call[p].at \in {"send", "uisend", "delete", "change"}
                            /\ call'[p].i = call[p].i + 1 => Accounts(p)]_vars
  <2> SUFFICES ASSUME HandlersInv, [UINext]_vars, NEW p \in Procs,
                      call[p].at \in {"send", "uisend", "delete", "change"},
                      call'[p].i = call[p].i + 1
               PROVE  Accounts(p)
    OBVIOUS
  <2>1. ObjInv /\ CallInv /\ call[p].at \in EntrySteps
    BY DEF HandlersInv, EntrySteps
  <2>2. SendEntry(p) \/ UISendMessage(p) \/ DeleteEntry(p) \/ ChangeEntry(p)
    BY <2>1, EntryMoves
  <2>3. HasEntry(p)
    BY <2>2 DEF SendEntry, UISendMessage, DeleteEntry, ChangeEntry
  <2>4. \/ Succeeded(p) /\ TookEffect(p)
        \/ Failed(p) /\ objs'[call[p].obj].msgs = objs[call[p].obj].msgs
    BY <2>1, <2>2, SendAccounts, DeleteAccounts, ChangeAccounts
  <2> QED BY <2>1, <2>3, <2>4, Listed
<1>2. UISpec => [][UINext]_vars
  BY DEF UISpec
<1> QED BY <1>1, <1>2, HandlersInvHolds, PTL DEF BatchAccounts
=============================================================================
