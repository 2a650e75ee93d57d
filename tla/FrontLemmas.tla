------------------------------ MODULE FrontLemmas ------------------------------
(***************************************************************************)
(* What the steps of the parts of the front keep: those of the credential  *)
(* stores, the start of the server and the web interface, for any          *)
(* configurations, any number of starts and any failures; and those of the *)
(* rate limiters, for any names, any burst and any number of buckets.      *)
(* And what the server reads in a form or an object, whatever it says.     *)
(* FrontProofs rests on them.                                              *)
(***************************************************************************)
EXTENDS Credentials, RateLimiter, Clients, FiniteSetTheorems, SequenceTheorems, TLAPS

(***************************************************************************)
(* The credential stores                                                   *)
(***************************************************************************)
\* An identifier is given once, and those that were deleted are not given again;
\* every credential has a key and a secret.
IdsInv ==
  /\ nextId \in Nat /\ 1 <= nextId
  /\ \A c \in creds : c.id \in Nat /\ 1 <= c.id /\ c.id < nextId /\ c.id \notin revoked
  /\ \A c, d \in creds : c.id = d.id => c = d
  /\ \A i \in revoked : i \in Nat /\ 1 <= i /\ i < nextId
  /\ \A c \in creds : Filled(c)

\* The seeding has come as far as seeded, and what it is about to insert is not
\* there.
SeedInv ==
  /\ Len(config) \in Nat /\ DOMAIN config = 1..Len(config)
  /\ seeded \in Nat /\ seeded <= Len(config)
  /\ phase \in {"import", "insert"} => seeded < Len(config)
  /\ phase = "insert" => WithKey(Entry.key) = {}
  /\ phase = "up" => seeded = Len(config)
  /\ phase = "down" => config = <<>>
  /\ \A i \in 1..Len(config) : Filled(config[i])
  /\ \A i \in 1..seeded : config[i].key \in removed \/ WithKey(config[i].key) # {}

CredInv ==
  /\ backend \in {"memory", "sqlite", "badger"}
  /\ IdsInv /\ UniqueKeys /\ SeedInv

\* A lookup changes at most the number of failures.
LookedUp == UNCHANGED <<backend, creds, nextId, phase, config, seeded, boots, revoked, removed>>

CredStep ==
  \/ LookedUp \/ Boot \/ Crash
  \/ SeedLookup \/ SeedDone
  \/ MemoryImport \/ SQLiteImportCheck \/ BadgerImportCheck \/ ImportInsert
  \/ HandleCreateCredential \/ HandleCredentialRoutes

\* Every store returns a credential that has the key, or none.
LEMMA LookupFacts ==
  ASSUME CredInv, NEW key, NEW c \in GetByAccessKeyID(key)
  PROVE  c = Missing \/ c \in WithKey(key)
<1>1. backend \in {"memory", "sqlite", "badger"}
  BY DEF CredInv
<1>2. \A x \in Unavailable : x = Missing
  BY DEF Unavailable
<1>3. \A x \in MemoryGetByAccessKeyID(key) : x = Missing \/ x \in WithKey(key)
  BY DEF MemoryGetByAccessKeyID
<1> QED
  BY <1>1, <1>2, <1>3 DEF GetByAccessKeyID, SQLiteGetByAccessKeyID, BadgerGetByAccessKeyID

LEMMA CredInitially == CredInit => CredInv
<1> SUFFICES ASSUME CredInit PROVE CredInv
  OBVIOUS
<1>1. backend \in {"memory", "sqlite", "badger"}
  BY CredentialsAssumption DEF CredInit
<1>2. IdsInv /\ UniqueKeys
  BY DEF CredInit, IdsInv, UniqueKeys
<1>3. SeedInv
  BY DEF CredInit, SeedInv
<1> QED BY <1>1, <1>2, <1>3 DEF CredInv

\* What a configuration is.
LEMMA ConfigFacts ==
  ASSUME NEW c \in Configs
  PROVE  Len(c) \in Nat /\ DOMAIN c = 1..Len(c) /\ \A i \in 1..Len(c) : Filled(c[i])
<1>1. c \in Seq([key : STRING, secret : STRING])
  BY CredentialsAssumption
<1>2. Len(c) \in Nat /\ DOMAIN c = 1..Len(c)
  BY <1>1
<1> QED BY <1>2, CredentialsAssumption

\* A lookup, and the end of the process, keep the invariant.
LEMMA LookedUpKeeps == ASSUME CredInv, LookedUp PROVE CredInv'
<1>1. IdsInv'
  BY DEF CredInv, IdsInv, LookedUp
<1>2. UniqueKeys'
  BY DEF CredInv, UniqueKeys, LookedUp
<1>3. SeedInv'
  <2>1. /\ UNCHANGED <<phase, config, seeded, removed>> /\ Entry' = Entry
        /\ \A key : WithKey(key)' = WithKey(key)
    BY DEF LookedUp, Entry, WithKey
  <2> QED BY <2>1 DEF CredInv, SeedInv
<1> QED BY <1>1, <1>2, <1>3 DEF CredInv, LookedUp

LEMMA StopKeeps == ASSUME CredInv, Stop PROVE CredInv'
<1>1. creds' \subseteq creds /\ UNCHANGED <<backend, nextId, revoked>>
  BY DEF Stop
<1>2. phase' = "down" /\ config' = <<>> /\ seeded' = 0
  BY DEF Stop
<1>3. IdsInv'
  BY <1>1 DEF CredInv, IdsInv
<1>4. UniqueKeys'
  BY <1>1 DEF CredInv, UniqueKeys
<1>5. SeedInv'
  BY <1>2 DEF SeedInv
<1> QED BY <1>1, <1>3, <1>4, <1>5 DEF CredInv

LEMMA BootKeeps == ASSUME CredInv, Boot PROVE CredInv'
<1>1. UNCHANGED <<backend, creds, nextId, revoked>>
  BY DEF Boot
<1>2. phase' = "seeding" /\ seeded' = 0 /\ Len(config') \in Nat /\ DOMAIN config' = 1..Len(config')
  BY ConfigFacts DEF Boot
<1>3. \A i \in 1..Len(config') : Filled(config'[i])
  BY ConfigFacts DEF Boot
<1>4. IdsInv' /\ UniqueKeys'
  BY <1>1 DEF CredInv, IdsInv, UniqueKeys
<1>5. SeedInv'
  BY <1>2, <1>3 DEF SeedInv
<1> QED BY <1>1, <1>4, <1>5 DEF CredInv

\* A step of the seeding, which leaves the credentials alone.
LEMMA SeedingKeeps ==
  ASSUME CredInv, UNCHANGED <<backend, creds, nextId, config, revoked, removed>>, SeedInv'
  PROVE  CredInv'
BY DEF CredInv, IdsInv, UniqueKeys

LEMMA SeedLookupKeeps == ASSUME CredInv, SeedLookup PROVE CredInv'
<1>1. phase = "seeding" /\ seeded < Len(config) /\ UNCHANGED <<backend, creds, nextId, config, revoked, removed>>
  BY DEF SeedLookup, MoreToSeed
<1>2. PICK c \in GetByAccessKeyID(Entry.key) : SeedNext(c)
  BY DEF SeedLookup
<1>3. SeedInv
  BY DEF CredInv
<1>4. CASE c = Missing
  <2>1. phase' = "import" /\ seeded' = seeded
    BY <1>2, <1>4 DEF SeedNext
  <2>2. SeedInv'
    BY <1>1, <1>3, <2>1 DEF SeedInv, WithKey
  <2> QED BY <1>1, <2>2, SeedingKeeps
<1>5. CASE c # Missing
  <2>1. phase' = phase /\ seeded' = seeded + 1
    BY <1>2, <1>5 DEF SeedNext
  <2>2. WithKey(config[seeded + 1].key) # {}
    BY <1>2, <1>5, LookupFacts DEF Entry
  <2>3. SeedInv'
    BY <1>1, <1>3, <2>1, <2>2 DEF SeedInv, WithKey
  <2> QED BY <1>1, <2>3, SeedingKeeps
<1> QED BY <1>4, <1>5

LEMMA SeedDoneKeeps == ASSUME CredInv, SeedDone PROVE CredInv'
<1>1. /\ phase' = "up" /\ ~(seeded < Len(config)) /\ seeded' = seeded
      /\ UNCHANGED <<backend, creds, nextId, config, revoked, removed>>
  BY DEF SeedDone, MoreToSeed
<1>2. SeedInv
  BY DEF CredInv
<1>3. seeded' = Len(config')
  <2>1. seeded \in Nat /\ Len(config) \in Nat /\ seeded <= Len(config)
    BY <1>2 DEF SeedInv
  <2>2. ~(seeded < Len(config)) /\ seeded' = seeded /\ config' = config
    BY <1>1
  <2>3. seeded = Len(config)
    BY <2>1, <2>2
  <2> QED BY <2>2, <2>3
<1>4. SeedInv'
  BY <1>1, <1>2, <1>3 DEF SeedInv, WithKey
<1> QED BY <1>1, <1>4, SeedingKeeps

\* The check of an import: what goes on to the insertion is not there.
LEMMA ImportCheckKeeps ==
  ASSUME CredInv, phase = "import", phase' = "insert", WithKey(Entry.key) = {},
         UNCHANGED <<backend, creds, nextId, config, seeded, boots, faults, revoked, removed>>
  PROVE  CredInv'
<1>1. SeedInv'
  BY DEF CredInv, SeedInv, WithKey, Entry
<1> QED BY <1>1, SeedingKeeps

\* A new credential, whose key is not there, in the seeding or by the interface.
LEMMA CreatedKeeps ==
  ASSUME CredInv, NEW k, Filled(k), WithKey(k.key) = {}, MemoryCreate(k), UNCHANGED <<backend, revoked>>
  PROVE  IdsInv' /\ UniqueKeys' /\ creds \subseteq creds' /\ \E c \in creds' : c.key = k.key
<1>1. creds' = creds \cup {New(k)} /\ nextId' = nextId + 1
  BY DEF MemoryCreate
<1>2. New(k).id = nextId /\ New(k).key = k.key /\ Filled(New(k))
  BY DEF New, Filled
<1>3. \A c \in creds : c.key # k.key
  BY DEF WithKey
<1>4. IdsInv'
  BY <1>1, <1>2 DEF CredInv, IdsInv
<1>5. UniqueKeys'
  BY <1>1, <1>2, <1>3 DEF CredInv, UniqueKeys
<1>6. creds \subseteq creds' /\ \E c \in creds' : c.key = k.key
  BY <1>1, <1>2
<1> QED BY <1>4, <1>5, <1>6

LEMMA InsertedKeeps ==
  ASSUME CredInv, phase \in {"import", "insert"}, WithKey(Entry.key) = {}, MemoryCreate(Entry),
         phase' = "seeding", seeded' = seeded + 1, UNCHANGED <<backend, config, revoked, removed>>
  PROVE  CredInv'
<1>3. Filled(Entry)
  <2>1. seeded \in Nat /\ Len(config) \in Nat /\ seeded < Len(config)
    BY DEF CredInv, SeedInv
  <2>2. seeded + 1 \in 1..Len(config)
    BY <2>1
  <2> QED BY <2>2 DEF CredInv, SeedInv, Entry
<1>1. IdsInv' /\ UniqueKeys' /\ creds \subseteq creds' /\ \E c \in creds' : c.key = Entry.key
  BY <1>3, CreatedKeeps
<1>2. SeedInv'
  <2>1. SeedInv /\ seeded < Len(config)
    BY DEF CredInv, SeedInv
  <2>2. ASSUME NEW i \in 1..(seeded + 1)
        PROVE  config[i].key \in removed \/ \E c \in creds' : c.key = config[i].key
    <3>1. CASE i = seeded + 1
      BY <1>1, <3>1 DEF Entry
    <3>2. CASE i # seeded + 1
      <4>1. i \in 1..seeded
        <5>1. seeded \in Nat
          BY <2>1 DEF SeedInv
        <5> QED BY <3>2, <5>1
      <4>2. config[i].key \in removed \/ \E c \in creds : c.key = config[i].key
        BY <2>1, <4>1 DEF SeedInv, WithKey
      <4> QED BY <1>1, <4>2
    <3> QED BY <3>1, <3>2
  <2>3. seeded' = seeded + 1 /\ seeded' <= Len(config) /\ seeded' \in Nat /\ config' = config
    <3>1. seeded \in Nat /\ Len(config) \in Nat
      BY <2>1 DEF SeedInv
    <3>2. seeded + 1 <= Len(config) /\ seeded + 1 \in Nat
      BY <2>1, <3>1
    <3> QED BY <3>2
  <2>4. \A i \in 1..seeded' : config'[i].key \in removed' \/ \E c \in creds' : c.key = config'[i].key
    BY <2>2, <2>3
  <2> QED BY <2>1, <2>3, <2>4 DEF SeedInv, WithKey
<1> QED BY <1>1, <1>2 DEF CredInv

\* Import over each store, where the process does not end.
LEMMA ImportKeeps ==
  ASSUME CredInv, MemoryImport \/ SQLiteImportCheck \/ BadgerImportCheck \/ ImportInsert
  PROVE  CredInv'
<1>1. CASE Stop
  BY <1>1, StopKeeps
<1>2. CASE MemoryImport /\ ~Stop
  BY <1>2, InsertedKeeps DEF MemoryImport
<1>3. CASE (SQLiteImportCheck \/ BadgerImportCheck) /\ ~Stop
  BY <1>3, ImportCheckKeeps DEF SQLiteImportCheck, BadgerImportCheck
<1>4. CASE ImportInsert /\ ~Stop
  <2>1. WithKey(Entry.key) = {} /\ phase = "insert"
    BY <1>4 DEF ImportInsert, CredInv, SeedInv
  <2> QED BY <1>4, <2>1, InsertedKeeps DEF ImportInsert
<1> QED BY <1>1, <1>2, <1>3, <1>4

LEMMA HandleCreateKeeps == ASSUME CredInv, HandleCreateCredential PROVE CredInv'
<1>1. PICK k \in Generated : WithKey(k.key) = {} /\ Create(k)
  BY DEF HandleCreateCredential
<1>2. UNCHANGED <<backend, phase, config, seeded, boots, revoked, removed>> /\ phase = "up"
  BY DEF HandleCreateCredential
<1>3. CASE UNCHANGED <<creds, nextId>>
  BY <1>2, <1>3, LookedUpKeeps DEF LookedUp
<1>4. CASE MemoryCreate(k)
  <2>0. Filled(k)
    BY CredentialsAssumption
  <2>1. IdsInv' /\ UniqueKeys' /\ creds \subseteq creds'
    BY <1>1, <1>2, <1>4, <2>0, CreatedKeeps
  <2>2. SeedInv'
    BY <1>2, <2>1 DEF CredInv, SeedInv, WithKey
  <2> QED BY <1>2, <2>1, <2>2 DEF CredInv
<1> QED BY <1>1, <1>3, <1>4 DEF Create, SQLiteCreate, BadgerCreate

\* A key that was there and is no longer was deleted.
LEMMA HandleDeleteKeeps == ASSUME CredInv, HandleCredentialRoutes PROVE CredInv'
<1>1. PICK c \in creds :
        \/ Delete(c.id) /\ revoked' = revoked \cup {c.id} /\ removed' = removed \cup {c.key}
        \/ UNCHANGED <<creds, revoked, removed>>
  BY DEF HandleCredentialRoutes
<1>2. UNCHANGED <<backend, nextId, phase, config, seeded, boots>> /\ phase = "up"
  BY DEF HandleCredentialRoutes
<1>3. CASE UNCHANGED <<creds, revoked, removed>>
  BY <1>2, <1>3, LookedUpKeeps DEF LookedUp
<1>4. CASE Delete(c.id) /\ revoked' = revoked \cup {c.id} /\ removed' = removed \cup {c.key}
  <2>1. creds' = {d \in creds : d.id # c.id}
    BY <1>4 DEF Delete
  <2>2. IdsInv'
    BY <1>2, <1>4, <2>1 DEF CredInv, IdsInv
  <2>3. UniqueKeys'
    BY <2>1 DEF CredInv, UniqueKeys
  <2>4. ASSUME NEW key, \E d \in creds : d.key = key
        PROVE  key \in removed' \/ \E d \in creds' : d.key = key
    <3>1. PICK d \in creds : d.key = key
      BY <2>4
    <3>2. d.id = c.id => d = c
      BY DEF CredInv, IdsInv
    <3> QED BY <1>4, <2>1, <3>1, <3>2
  <2>5. SeedInv'
    BY <1>2, <1>4, <2>4 DEF CredInv, SeedInv, WithKey
  <2> QED BY <1>2, <2>2, <2>3, <2>5 DEF CredInv
<1> QED BY <1>1, <1>3, <1>4

\* Every step keeps the invariant.
LEMMA CredStepKeeps == CredInv /\ CredStep => CredInv'
BY LookedUpKeeps, BootKeeps, StopKeeps, SeedLookupKeeps, SeedDoneKeeps, ImportKeeps, HandleCreateKeeps,
   HandleDeleteKeeps
   DEF CredStep, Crash

\* Nothing that was deleted comes back.
LEMMA RevokedGrows == CredStep => revoked \subseteq revoked'
<1> SUFFICES ASSUME CredStep PROVE revoked \subseteq revoked'
  OBVIOUS
<1>1. CASE LookedUp \/ Boot \/ Crash \/ SeedLookup \/ SeedDone \/ HandleCreateCredential
  BY <1>1 DEF LookedUp, Boot, Crash, Stop, SeedLookup, SeedDone, HandleCreateCredential
<1>2. CASE MemoryImport \/ SQLiteImportCheck \/ BadgerImportCheck \/ ImportInsert
  BY <1>2 DEF MemoryImport, SQLiteImportCheck, BadgerImportCheck, ImportInsert, Stop
<1>3. CASE HandleCredentialRoutes
  BY <1>3 DEF HandleCredentialRoutes
<1> QED BY <1>1, <1>2, <1>3 DEF CredStep

\* A server that is up has gone through its whole configuration.
LEMMA CredHolds == CredInv => UniqueKeys /\ ConfiguredKeysAreThere
BY DEF CredInv, SeedInv, ConfiguredKeysAreThere

(***************************************************************************)
(* The rate limiters                                                       *)
(***************************************************************************)
(***************************************************************************)
(* A bucket holds at least what its name has left, and, as long as it is   *)
(* in the map and not about to be dropped, at most that and what has       *)
(* strayed.  A name without such a bucket has a burst to spare.            *)
(***************************************************************************)
BucketType == [of : Limited, tokens : 0..Burst]

LimiterType ==
  /\ limiters \in [Limited -> Nat]
  /\ buckets \in Seq(BucketType)
  /\ ideal \in [Limited -> Int] /\ strayed \in [Limited -> Nat]
  /\ sweep \in [on : BOOLEAN, left : SUBSET Limited, idle : Limited \cup {NoQueue}]

\* Those whose bucket takes part.
Covers(n) == limiters[n] # 0 /\ sweep.idle # n

LimiterInv ==
  /\ LimiterType
  /\ \A n \in Limited : ideal[n] <= Burst
  /\ \A n \in Limited : limiters[n] # 0 => limiters[n] \in DOMAIN buckets /\ buckets[limiters[n]].of = n
  /\ \A b \in DOMAIN buckets : ideal[buckets[b].of] <= buckets[b].tokens
  /\ \A n \in Limited : Covers(n) => buckets[limiters[n]].tokens <= ideal[n] + strayed[n]
  /\ \A n \in Limited : ~Covers(n) => Burst <= ideal[n] + strayed[n]
  /\ \A n \in sweep.left : limiters[n] # 0 /\ sweep.idle # n
  /\ ~sweep.on => sweep = NoSweep

\* What the steps of the server do to the buckets.
LimiterStep ==
  \/ UNCHANGED limiterVars
  \/ \E n \in Limited, b \in Nat : GetLimiter(n, b)
  \/ \E n \in Limited : \E b \in DOMAIN buckets : buckets[b].of = n /\ Take(n, b)
  \/ Refilled
  \/ Cleanup

\* What the types say of each bucket and each name.
LEMMA BucketFacts ==
  ASSUME LimiterType
  PROVE  /\ Len(buckets) \in Nat /\ DOMAIN buckets = 1..Len(buckets)
         /\ \A b \in DOMAIN buckets : /\ buckets[b] \in BucketType /\ buckets[b].of \in Limited
                                      /\ buckets[b].tokens \in Int
                                      /\ 0 <= buckets[b].tokens /\ buckets[b].tokens <= Burst
         /\ \A n \in Limited : limiters[n] \in Nat /\ ideal[n] \in Int /\ strayed[n] \in Nat
         /\ Burst \in Nat /\ Refill \in Nat
<1>1. buckets \in Seq(BucketType)
  BY DEF LimiterType
<1>2. Len(buckets) \in Nat /\ DOMAIN buckets = 1..Len(buckets)
  BY <1>1
<1>3. Burst \in Nat /\ Refill \in Nat
  BY RateLimiterAssumption
<1>4. ASSUME NEW b \in DOMAIN buckets
      PROVE  /\ buckets[b] \in BucketType /\ buckets[b].of \in Limited /\ buckets[b].tokens \in Int
             /\ 0 <= buckets[b].tokens /\ buckets[b].tokens <= Burst
  <2>1. buckets[b] \in BucketType
    BY <1>1, <1>2
  <2> QED BY <2>1, <1>3 DEF BucketType
<1>5. \A n \in Limited : limiters[n] \in Nat /\ ideal[n] \in Int /\ strayed[n] \in Nat
  BY DEF LimiterType
<1> QED BY <1>2, <1>3, <1>4, <1>5

\* The server starts with no buckets.
LEMMA LimiterInitially == LimiterInit => LimiterInv
<1> SUFFICES ASSUME LimiterInit PROVE LimiterInv
  OBVIOUS
<1>1. buckets = <<>> /\ sweep = NoSweep
  BY DEF LimiterInit
<1>2. buckets \in Seq(BucketType) /\ DOMAIN buckets = {}
  <2>1. <<>> \in Seq(BucketType) /\ Len(<<>>) = 0
    BY EmptySeq
  <2> QED BY <1>1, <2>1
<1>3. \A n \in Limited : limiters[n] = 0 /\ ideal[n] = Burst /\ strayed[n] = 0
  BY DEF LimiterInit
<1>4. limiters \in [Limited -> Nat] /\ ideal \in [Limited -> Int] /\ strayed \in [Limited -> Nat]
  BY RateLimiterAssumption DEF LimiterInit
<1>5. sweep.left = {} /\ sweep.idle = NoQueue
  BY <1>1 DEF NoSweep
<1>6. NoSweep \in [on : BOOLEAN, left : SUBSET Limited, idle : Limited \cup {NoQueue}]
  BY DEF NoSweep
<1>7. LimiterType
  BY <1>1, <1>2, <1>4, <1>6 DEF LimiterType
<1>8. \A n \in Limited : ~Covers(n)
  BY <1>3 DEF Covers
<1>9. Burst \in Nat
  BY RateLimiterAssumption
<1> QED BY <1>1, <1>2, <1>3, <1>5, <1>7, <1>8, <1>9 DEF LimiterInv

\* A restart leaves no buckets.
LEMMA LimiterAgain == LimiterReset => LimiterInv'
<1> SUFFICES ASSUME LimiterReset PROVE LimiterInv'
  OBVIOUS
<1>1. buckets' = <<>> /\ sweep' = NoSweep
  BY DEF LimiterReset
<1>2. buckets' \in Seq(BucketType) /\ DOMAIN buckets' = {}
  <2>1. <<>> \in Seq(BucketType) /\ Len(<<>>) = 0
    BY EmptySeq
  <2> QED BY <1>1, <2>1
<1>3. \A n \in Limited : limiters'[n] = 0 /\ ideal'[n] = Burst /\ strayed'[n] = 0
  BY DEF LimiterReset
<1>4. limiters' \in [Limited -> Nat] /\ ideal' \in [Limited -> Int] /\ strayed' \in [Limited -> Nat]
  BY RateLimiterAssumption DEF LimiterReset
<1>5. sweep'.left = {} /\ sweep'.idle = NoQueue
  BY <1>1 DEF NoSweep
<1>6. NoSweep \in [on : BOOLEAN, left : SUBSET Limited, idle : Limited \cup {NoQueue}]
  BY DEF NoSweep
<1>7. LimiterType'
  BY <1>1, <1>2, <1>4, <1>6 DEF LimiterType
<1>8. \A n \in Limited : ~Covers(n)'
  BY <1>3 DEF Covers
<1>9. Burst \in Nat
  BY RateLimiterAssumption
<1> QED BY <1>1, <1>2, <1>3, <1>5, <1>7, <1>8, <1>9 DEF LimiterInv

\* getLimiter keeps the invariant: a new bucket is full, and its name has a
\* burst to spare.
LEMMA GetLimiterKeeps ==
  ASSUME LimiterInv, NEW n \in Limited, NEW b \in Nat, GetLimiter(n, b)
  PROVE  LimiterInv'
<1>1. CASE UNCHANGED limiterVars
  BY <1>1 DEF LimiterInv, LimiterType, Covers, limiterVars
<1>2. CASE /\ limiters[n] = 0 /\ b = Len(buckets) + 1
           /\ buckets' = Append(buckets, [of |-> n, tokens |-> Burst])
           /\ limiters' = [limiters EXCEPT ![n] = b]
           /\ UNCHANGED <<sweep, ideal, strayed>>
  <2> DEFINE new == [of |-> n, tokens |-> Burst]
  <2>1. /\ buckets \in Seq(BucketType) /\ Len(buckets) \in Nat
        /\ DOMAIN buckets = 1..Len(buckets) /\ limiters \in [Limited -> Nat]
    BY BucketFacts DEF LimiterInv, LimiterType
  <2>2. new \in BucketType
    <3>1. Burst \in 0..Burst
      BY RateLimiterAssumption
    <3> QED BY <3>1 DEF BucketType
  <2>3. buckets' \in Seq(BucketType)
    BY <1>2, <2>1, <2>2
  <2>4. /\ DOMAIN buckets' = DOMAIN buckets \cup {b} /\ b \notin DOMAIN buckets
        /\ buckets'[b] = new
        /\ \A k \in DOMAIN buckets : buckets'[k] = buckets[k]
    <3> HIDE DEF new
    <3>1. buckets' = Append(buckets, new)
      BY <1>2 DEF new
    <3>2. Len(buckets') = Len(buckets) + 1 /\ DOMAIN buckets' = 1..(Len(buckets) + 1)
      BY <3>1, <2>1, <2>2
    <3>3. buckets'[b] = new /\ \A k \in DOMAIN buckets : buckets'[k] = buckets[k]
      <4>1. b = Len(buckets) + 1
        BY <1>2
      <4>2. \A k \in 1..Len(buckets) : Append(buckets, new)[k] = buckets[k]
        BY <2>1, <2>2, AppendProperties
      <4>3. Append(buckets, new)[Len(buckets) + 1] = new
        BY <2>1, <2>2, AppendProperties
      <4> QED BY <3>1, <4>1, <4>2, <4>3, <2>1
    <3>4. DOMAIN buckets' = DOMAIN buckets \cup {b} /\ b \notin DOMAIN buckets
      BY <3>2, <2>1, <1>2
    <3> QED BY <3>3, <3>4
  <2>5. /\ limiters' \in [Limited -> Nat]
        /\ limiters'[n] = b /\ b # 0 /\ \A k \in Limited : k # n => limiters'[k] = limiters[k]
    BY <1>2, <2>1
  <2>6. LimiterType'
    BY <1>2, <2>3, <2>5 DEF LimiterInv, LimiterType
  <2>7. ASSUME NEW k \in Limited, limiters'[k] # 0
        PROVE  limiters'[k] \in DOMAIN buckets' /\ buckets'[limiters'[k]].of = k
    <3>1. CASE k = n
      BY <3>1, <2>4, <2>5
    <3>2. CASE k # n
      BY <3>2, <2>4, <2>5, <2>7 DEF LimiterInv
    <3> QED BY <3>1, <3>2
  <2>8. ASSUME NEW k \in DOMAIN buckets'
        PROVE  ideal'[buckets'[k].of] <= buckets'[k].tokens
    <3>1. CASE k = b
      BY <3>1, <2>4, <1>2 DEF LimiterInv
    <3>2. CASE k # b
      BY <3>2, <2>4, <1>2 DEF LimiterInv
    <3> QED BY <3>1, <3>2
  <2>9. Burst <= ideal[n] + strayed[n]
    BY <1>2 DEF LimiterInv, Covers
  <2>10. ASSUME NEW k \in Limited, Covers(k)'
         PROVE  buckets'[limiters'[k]].tokens <= ideal'[k] + strayed'[k]
    <3>1. CASE k = n
      BY <3>1, <2>4, <2>5, <2>9, <1>2
    <3>2. CASE k # n
      <4>1. Covers(k) /\ limiters[k] \in DOMAIN buckets
        BY <3>2, <2>5, <2>10, <1>2 DEF LimiterInv, Covers
      <4> QED BY <4>1, <3>2, <2>4, <2>5, <1>2 DEF LimiterInv
    <3> QED BY <3>1, <3>2
  <2>11. ASSUME NEW k \in Limited, ~Covers(k)'
         PROVE  Burst <= ideal'[k] + strayed'[k]
    BY <2>11, <2>5, <2>9, <1>2 DEF LimiterInv, Covers
  <2>12. (\A k \in sweep'.left : limiters'[k] # 0 /\ sweep'.idle # k) /\ (~sweep'.on => sweep' = NoSweep)
    BY <1>2, <2>5 DEF LimiterInv, LimiterType
  <2>13. \A k \in Limited : ideal'[k] <= Burst
    BY <1>2 DEF LimiterInv
  <2> QED BY <2>6, <2>7, <2>8, <2>10, <2>11, <2>12, <2>13 DEF LimiterInv
<1> QED BY <1>1, <1>2 DEF GetLimiter

\* A request that takes a token from a bucket of its name keeps the invariant,
\* wherever the bucket is.
LEMMA TakeKeeps ==
  ASSUME LimiterInv, NEW n \in Limited, NEW b \in DOMAIN buckets, buckets[b].of = n, Take(n, b)
  PROVE  LimiterInv'
<1>1. LimiterType /\ buckets \in Seq(BucketType)
  BY DEF LimiterInv, LimiterType
<1>2. /\ DOMAIN buckets' = DOMAIN buckets
      /\ \A k \in DOMAIN buckets : buckets'[k].of = buckets[k].of
      /\ \A k \in DOMAIN buckets : k # b => buckets'[k] = buckets[k]
      /\ buckets'[b].tokens = buckets[b].tokens - 1
  BY <1>1, BucketFacts DEF Take, BucketType
<1>3. /\ ideal' \in [Limited -> Int] /\ ideal'[n] = ideal[n] - 1
      /\ \A k \in Limited : k # n => ideal'[k] = ideal[k]
  <2>1. ideal \in [Limited -> Int] /\ ideal' = [ideal EXCEPT ![n] = @ - 1]
    BY <1>1 DEF Take, LimiterType
  <2> QED BY <2>1
<1>4. /\ strayed' \in [Limited -> Nat]
      /\ \A k \in Limited : k # n => strayed'[k] = strayed[k]
      /\ Dropped(n, b) => strayed'[n] = strayed[n] + 1
      /\ ~Dropped(n, b) => strayed'[n] = strayed[n]
  <2>1. strayed \in [Limited -> Nat]
    BY <1>1 DEF LimiterType
  <2>2. strayed' = IF Dropped(n, b) THEN [strayed EXCEPT ![n] = @ + 1] ELSE strayed
    BY DEF Take
  <2>3. CASE Dropped(n, b)
    BY <2>1, <2>2, <2>3
  <2>4. CASE ~Dropped(n, b)
    BY <2>1, <2>2, <2>4
  <2> QED BY <2>3, <2>4
<1>5. buckets' \in Seq(BucketType)
  <2>1. [buckets[b] EXCEPT !.tokens = @ - 1] \in BucketType
    <3>1. buckets[b].tokens > 0
      BY DEF Take
    <3>2. buckets[b] \in BucketType /\ buckets[b].tokens - 1 \in 0..Burst
      BY <1>1, <3>1, BucketFacts
    <3> QED BY <3>2 DEF BucketType
  <2> QED BY <2>1, <1>1 DEF Take
<1>6. LimiterType'
  BY <1>1, <1>3, <1>4, <1>5 DEF Take, LimiterType
<1>7. \A k \in Limited : Covers(k)' <=> Covers(k)
  BY DEF Take, Covers
<1>8. \A k \in Limited : ideal'[k] <= Burst
  <2>1. ideal[n] - 1 <= Burst
    BY <1>1, BucketFacts DEF LimiterInv
  <2> QED BY <2>1, <1>3 DEF LimiterInv
<1>9. ASSUME NEW k \in DOMAIN buckets'
      PROVE  ideal'[buckets'[k].of] <= buckets'[k].tokens
  <2>1. k \in DOMAIN buckets /\ buckets[k].of \in Limited /\ ideal[buckets[k].of] <= buckets[k].tokens
    BY <1>1, <1>2, BucketFacts DEF LimiterInv
  <2>2. CASE k = b
    BY <2>1, <2>2, <1>1, <1>2, <1>3, BucketFacts
  <2>3. CASE k # b
    BY <2>1, <2>3, <1>1, <1>2, <1>3, BucketFacts
  <2> QED BY <2>2, <2>3
<1>10. ASSUME NEW k \in Limited, Covers(k)
       PROVE  buckets'[limiters'[k]].tokens <= ideal'[k] + strayed'[k]
  <2>1. /\ limiters'[k] = limiters[k] /\ limiters[k] \in DOMAIN buckets
        /\ buckets[limiters[k]].of = k
        /\ buckets[limiters[k]].tokens <= ideal[k] + strayed[k]
    BY <1>10 DEF LimiterInv, Covers, Take
  <2>2. CASE k # n
    BY <2>1, <2>2, <1>2, <1>3, <1>4
  <2>3. CASE k = n /\ limiters[n] = b
    <3>1. ~Dropped(n, b)
      BY <2>3, <1>10 DEF Covers, Dropped
    <3>2. /\ ideal'[n] = ideal[n] - 1 /\ strayed'[n] = strayed[n]
          /\ buckets'[b].tokens = buckets[b].tokens - 1
      BY <3>1, <1>2, <1>3, <1>4
    <3>3. ideal[n] \in Int /\ strayed[n] \in Nat /\ buckets[b].tokens \in Int
      BY <1>1, BucketFacts
    <3>4. buckets[b].tokens - 1 <= ideal[n] - 1 + strayed[n]
      BY <2>1, <2>3, <3>3
    <3> QED BY <2>1, <2>3, <3>2, <3>4
  <2>4. CASE k = n /\ limiters[n] # b
    <3>1. Dropped(n, b)
      BY <2>4 DEF Dropped
    <3>2. /\ ideal'[n] = ideal[n] - 1 /\ strayed'[n] = strayed[n] + 1
          /\ buckets'[limiters[n]].tokens = buckets[limiters[n]].tokens
      BY <2>1, <2>4, <3>1, <1>2, <1>3, <1>4
    <3>3. ideal[n] \in Int /\ strayed[n] \in Nat /\ buckets[limiters[n]].tokens \in Int
      BY <1>1, <2>1, <2>4, BucketFacts
    <3>4. buckets[limiters[n]].tokens <= ideal[n] - 1 + (strayed[n] + 1)
      BY <2>1, <2>4, <3>3
    <3> QED BY <2>1, <2>4, <3>2, <3>4
  <2> QED BY <2>2, <2>3, <2>4
<1>11. ASSUME NEW k \in Limited, ~Covers(k)
       PROVE  Burst <= ideal'[k] + strayed'[k]
  <2>1. Burst <= ideal[k] + strayed[k]
    BY <1>11 DEF LimiterInv
  <2>2. CASE k # n
    BY <2>1, <2>2, <1>3, <1>4
  <2>3. CASE k = n
    <3>1. Dropped(n, b)
      BY <2>3, <1>1, <1>11, BucketFacts DEF Covers, Dropped
    <3> QED BY <3>1, <2>1, <2>3, <1>1, <1>3, <1>4, BucketFacts
  <2> QED BY <2>2, <2>3
<1>12. /\ \A k \in Limited : limiters'[k] # 0 => limiters'[k] \in DOMAIN buckets' /\ buckets'[limiters'[k]].of = k
       /\ \A k \in sweep'.left : limiters'[k] # 0 /\ sweep'.idle # k
       /\ ~sweep'.on => sweep' = NoSweep
  BY <1>2 DEF LimiterInv, Take
<1> QED BY <1>6, <1>7, <1>8, <1>9, <1>10, <1>11, <1>12 DEF LimiterInv

\* What time adds to two counters keeps the one from running ahead of the other.
LEMMA RefillIsFair ==
  ASSUME NEW x \in Int, NEW y \in Int, NEW s \in Nat, x <= y + s
  PROVE  LeastOf(Burst, x + Refill) <= LeastOf(Burst, y + Refill) + s
<1>1. Burst \in Nat /\ Refill \in Nat
  BY RateLimiterAssumption
<1> QED BY <1>1 DEF LeastOf

\* Time keeps the invariant: what is left and what a bucket holds grow alike,
\* up to the burst.
LEMMA RefilledKeeps ==
  ASSUME LimiterInv, Refilled
  PROVE  LimiterInv'
<1>1. LimiterType /\ buckets \in Seq(BucketType)
  BY DEF LimiterInv, LimiterType
<1>2. \A x \in Int : LeastOf(Burst, x) \in Int /\ LeastOf(Burst, x) <= Burst
  BY <1>1, BucketFacts DEF LeastOf
<1>3. /\ DOMAIN buckets' = DOMAIN buckets
      /\ \A b \in DOMAIN buckets :
           buckets'[b] = [buckets[b] EXCEPT !.tokens = LeastOf(Burst, @ + Refill)]
  BY DEF Refilled
<1>4. \A b \in DOMAIN buckets : /\ buckets'[b].of = buckets[b].of
                                /\ buckets'[b].tokens = LeastOf(Burst, buckets[b].tokens + Refill)
  BY <1>1, <1>3, BucketFacts DEF BucketType
<1>5. \A n \in Limited : ideal'[n] = LeastOf(Burst, ideal[n] + Refill)
  BY DEF Refilled
<1>6. ideal' \in [Limited -> Int]
  BY <1>1, <1>2, BucketFacts DEF Refilled
<1>7. buckets' \in Seq(BucketType)
  <2>1. ASSUME NEW b \in 1..Len(buckets)
        PROVE  [buckets[b] EXCEPT !.tokens = LeastOf(Burst, @ + Refill)] \in BucketType
    <3>1. LeastOf(Burst, buckets[b].tokens + Refill) \in 0..Burst
      BY <1>1, BucketFacts DEF LeastOf
    <3> QED BY <1>1, <3>1, BucketFacts DEF BucketType
  <2>2. buckets' = [b \in 1..Len(buckets) |-> [buckets[b] EXCEPT !.tokens = LeastOf(Burst, @ + Refill)]]
    BY <1>1, BucketFacts DEF Refilled
  <2>3. Len(buckets) \in Nat /\ buckets' \in [1..Len(buckets) -> BucketType]
    BY <1>1, <2>1, <2>2, BucketFacts
  <2> QED BY <2>3, SeqDef
<1>8. LimiterType'
  BY <1>1, <1>6, <1>7 DEF Refilled, LimiterType
<1>9. \A n \in Limited : /\ limiters'[n] = limiters[n] /\ strayed'[n] = strayed[n]
                         /\ Covers(n)' <=> Covers(n)
  BY DEF Refilled, Covers
<1>10. ASSUME NEW n \in Limited PROVE ideal'[n] <= Burst
  <2>1. ideal[n] + Refill \in Int
    BY <1>1, BucketFacts
  <2> QED BY <1>2, <1>5, <2>1
<1>11. ASSUME NEW b \in DOMAIN buckets'
       PROVE  ideal'[buckets'[b].of] <= buckets'[b].tokens
  <2>1. b \in DOMAIN buckets /\ buckets[b].of \in Limited /\ ideal[buckets[b].of] <= buckets[b].tokens
    BY <1>1, <1>3, BucketFacts DEF LimiterInv
  <2>2. /\ ideal[buckets[b].of] \in Int /\ buckets[b].tokens \in Int
        /\ Burst \in Nat /\ Refill \in Nat
    BY <1>1, <2>1, BucketFacts
  <2>3. LeastOf(Burst, ideal[buckets[b].of] + Refill) <= LeastOf(Burst, buckets[b].tokens + Refill)
    BY <2>1, <2>2 DEF LeastOf
  <2>4. /\ buckets'[b].of = buckets[b].of
        /\ buckets'[b].tokens = LeastOf(Burst, buckets[b].tokens + Refill)
        /\ ideal'[buckets[b].of] = LeastOf(Burst, ideal[buckets[b].of] + Refill)
    BY <1>4, <1>5, <2>1
  <2> QED BY <2>3, <2>4
<1>12. ASSUME NEW n \in Limited, Covers(n)
       PROVE  buckets'[limiters'[n]].tokens <= ideal'[n] + strayed'[n]
  <2>1. limiters[n] \in DOMAIN buckets /\ buckets[limiters[n]].tokens <= ideal[n] + strayed[n]
    BY <1>12 DEF LimiterInv, Covers
  <2>2. ideal[n] \in Int /\ strayed[n] \in Nat /\ buckets[limiters[n]].tokens \in Int
    BY <1>1, <2>1, BucketFacts
  <2>3. LeastOf(Burst, buckets[limiters[n]].tokens + Refill) <= LeastOf(Burst, ideal[n] + Refill) + strayed[n]
    BY <2>1, <2>2, RefillIsFair
  <2>4. buckets'[limiters[n]].tokens = LeastOf(Burst, buckets[limiters[n]].tokens + Refill)
    BY <1>4, <2>1
  <2>5. /\ limiters'[n] = limiters[n] /\ strayed'[n] = strayed[n]
        /\ ideal'[n] = LeastOf(Burst, ideal[n] + Refill)
    BY <1>5, <1>9
  <2> QED BY <2>3, <2>4, <2>5
<1>13. ASSUME NEW n \in Limited, ~Covers(n)
       PROVE  Burst <= ideal'[n] + strayed'[n]
  <2>1. Burst <= ideal[n] + strayed[n]
    BY <1>13 DEF LimiterInv
  <2>2. ideal[n] \in Int /\ strayed[n] \in Nat /\ Burst \in Nat /\ Refill \in Nat
    BY <1>1, BucketFacts
  <2>3. Burst <= LeastOf(Burst, ideal[n] + Refill) + strayed[n]
    BY <2>1, <2>2 DEF LeastOf
  <2>4. strayed'[n] = strayed[n] /\ ideal'[n] = LeastOf(Burst, ideal[n] + Refill)
    BY <1>5, <1>9
  <2> QED BY <2>3, <2>4
<1>14. /\ \A n \in Limited : limiters'[n] # 0 => limiters'[n] \in DOMAIN buckets' /\ buckets'[limiters'[n]].of = n
       /\ \A n \in sweep'.left : limiters'[n] # 0 /\ sweep'.idle # n
       /\ ~sweep'.on => sweep' = NoSweep
  BY <1>3, <1>4 DEF LimiterInv, Refilled
<1> QED BY <1>8, <1>9, <1>10, <1>11, <1>12, <1>13, <1>14 DEF LimiterInv

SweepType == [on : BOOLEAN, left : SUBSET Limited, idle : Limited \cup {NoQueue}]

\* Of a step of the cleanup it is enough that a name that takes part took part
\* before, and that one that no longer does has a burst to spare.
LEMMA SweepKeeps ==
  ASSUME LimiterInv, UNCHANGED <<buckets, ideal, strayed>>,
         sweep' \in SweepType, limiters' \in [Limited -> Nat],
         \A n \in Limited : limiters'[n] # 0 => limiters'[n] = limiters[n],
         \A n \in Limited : Covers(n)' => Covers(n),
         \A n \in Limited : Covers(n) /\ ~Covers(n)' => Burst <= ideal[n] + strayed[n],
         \A n \in sweep'.left : limiters'[n] # 0 /\ sweep'.idle # n,
         ~sweep'.on => sweep' = NoSweep
  PROVE  LimiterInv'
<1>1. LimiterType'
  BY DEF LimiterInv, LimiterType, SweepType
<1>2. \A n \in Limited : Covers(n)' => limiters'[n] = limiters[n]
  BY DEF Covers
<1>3. \A n \in Limited : ~Covers(n)' => Burst <= ideal[n] + strayed[n]
  BY DEF LimiterInv
<1> QED BY <1>1, <1>2, <1>3 DEF LimiterInv

\* The cleanup keeps the invariant: it drops a bucket after it has seen it full,
\* when its name has a burst to spare, and what is taken from it afterwards strays.
LEMMA CleanupKeeps ==
  ASSUME LimiterInv, Cleanup
  PROVE  LimiterInv'
<1>1. /\ LimiterType /\ sweep \in SweepType /\ limiters \in [Limited -> Nat]
      /\ NoQueue \notin Limited /\ NoSweep \in SweepType
  BY RateLimiterAssumption DEF LimiterInv, LimiterType, NoSweep, SweepType
<1>2. UNCHANGED <<buckets, ideal, strayed>>
  BY DEF Cleanup, CleanupLock, CleanupUnlock, CleanupLook, CleanupDelete
<1>3. CASE CleanupLock
  <2>1. /\ sweep' = [on |-> TRUE, left |-> {n \in Limited : limiters[n] # 0}, idle |-> NoQueue]
        /\ limiters' = limiters /\ sweep.idle = NoQueue
    BY <1>3 DEF CleanupLock, LimiterInv, NoSweep
  <2>2. sweep' \in SweepType
    BY <2>1 DEF SweepType
  <2>3. /\ \A n \in sweep'.left : limiters'[n] # 0 /\ sweep'.idle # n
        /\ sweep'.on
    BY <2>1, <1>1
  <2>4. \A n \in Limited : Covers(n)' <=> Covers(n)
    BY <2>1 DEF Covers
  <2> QED BY <1>1, <1>2, <2>1, <2>2, <2>3, <2>4, SweepKeeps
<1>4. CASE CleanupUnlock
  <2>1. sweep' = NoSweep /\ limiters' = limiters /\ sweep.idle = NoQueue
    BY <1>4 DEF CleanupUnlock
  <2>2. sweep'.left = {} /\ sweep'.idle = NoQueue
    BY <2>1 DEF NoSweep
  <2>3. \A n \in Limited : Covers(n)' <=> Covers(n)
    BY <2>1, <2>2 DEF Covers
  <2> QED BY <1>1, <1>2, <2>1, <2>2, <2>3, SweepKeeps
<1>5. ASSUME NEW m \in Limited, CleanupLook(m)
      PROVE  LimiterInv'
  <2>1. /\ m \in sweep.left /\ sweep.idle = NoQueue /\ limiters' = limiters
        /\ sweep' = [sweep EXCEPT !.left = @ \ {m}, !.idle = IF IsIdle(m) THEN m ELSE NoQueue]
    BY <1>5 DEF CleanupLook
  <2>2. sweep.on
    BY <2>1 DEF LimiterInv, NoSweep
  <2>3. /\ sweep'.on /\ sweep'.left = sweep.left \ {m}
        /\ IsIdle(m) => sweep'.idle = m
        /\ ~IsIdle(m) => sweep'.idle = NoQueue
    BY <1>1, <2>1, <2>2 DEF SweepType
  <2>4. sweep' \in SweepType
    BY <1>1, <2>1 DEF SweepType
  <2>5. \A n \in sweep.left : n \in Limited /\ limiters[n] # 0
    BY <1>1 DEF LimiterInv, SweepType
  <2>6. \A n \in sweep'.left : limiters'[n] # 0 /\ sweep'.idle # n
    BY <1>1, <2>1, <2>3, <2>5
  <2>7. \A n \in Limited : Covers(n)' => Covers(n)
    BY <1>1, <2>1 DEF Covers
  <2>8. \A n \in Limited : n # m /\ Covers(n) => Covers(n)'
    BY <1>1, <2>1, <2>3 DEF Covers
  <2>9. CASE IsIdle(m)
    <3>1. Burst <= buckets[limiters[m]].tokens /\ limiters[m] \in DOMAIN buckets
      BY <1>1, <2>1, <2>5, <2>9, BucketFacts DEF IsIdle, LimiterInv
    <3>2. buckets[limiters[m]].tokens <= ideal[m] + strayed[m]
      BY <1>1, <2>1, <2>5 DEF LimiterInv, Covers
    <3>3. Burst <= ideal[m] + strayed[m]
      BY <1>1, <3>1, <3>2, BucketFacts
    <3> QED BY <1>1, <1>2, <2>1, <2>3, <2>4, <2>6, <2>7, <2>8, <3>3, SweepKeeps
  <2>10. CASE ~IsIdle(m)
    <3>1. Covers(m) => Covers(m)'
      BY <1>1, <2>1, <2>3, <2>10 DEF Covers
    <3> QED BY <1>1, <1>2, <2>1, <2>3, <2>4, <2>6, <2>7, <2>8, <3>1, SweepKeeps
  <2> QED BY <2>9, <2>10
<1>6. ASSUME NEW m \in Limited, CleanupDelete(m)
      PROVE  LimiterInv'
  <2>1. /\ sweep.idle = m /\ limiters' = [limiters EXCEPT ![m] = 0]
        /\ sweep' = [sweep EXCEPT !.idle = NoQueue]
    BY <1>6 DEF CleanupDelete
  <2>2. sweep.on
    BY <1>1, <2>1 DEF LimiterInv, NoSweep
  <2>3. /\ sweep'.on /\ sweep'.left = sweep.left /\ sweep'.idle = NoQueue /\ sweep' \in SweepType
    BY <1>1, <2>1, <2>2 DEF SweepType
  <2>4. /\ limiters' \in [Limited -> Nat] /\ limiters'[m] = 0
        /\ \A n \in Limited : n # m => limiters'[n] = limiters[n]
    BY <1>1, <2>1
  <2>5. \A n \in Limited : Covers(n)' <=> Covers(n)
    BY <1>1, <2>1, <2>3, <2>4 DEF Covers
  <2>6. \A n \in sweep.left : n \in Limited /\ limiters[n] # 0 /\ n # m
    BY <1>1, <2>1 DEF LimiterInv, SweepType
  <2>7. \A n \in sweep'.left : limiters'[n] # 0 /\ sweep'.idle # n
    BY <1>1, <2>3, <2>4, <2>6
  <2> QED BY <1>1, <1>2, <2>3, <2>4, <2>5, <2>7, SweepKeeps
<1> QED BY <1>3, <1>4, <1>5, <1>6 DEF Cleanup

\* Every step keeps the invariant.
LEMMA LimiterStepKeeps == LimiterInv /\ LimiterStep => LimiterInv'
<1> SUFFICES ASSUME LimiterInv, LimiterStep PROVE LimiterInv'
  OBVIOUS
<1>1. CASE UNCHANGED limiterVars
  BY <1>1 DEF LimiterInv, LimiterType, Covers, limiterVars
<1>2. CASE \E n \in Limited, b \in Nat : GetLimiter(n, b)
  BY <1>2, GetLimiterKeeps
<1>3. CASE \E n \in Limited : \E b \in DOMAIN buckets : buckets[b].of = n /\ Take(n, b)
  BY <1>3, TakeKeeps
<1> QED BY <1>1, <1>2, <1>3, RefilledKeeps, CleanupKeeps DEF LimiterStep

\* A bucket stays as long as the process, and the one of its name.
LEMMA BucketsStay ==
  ASSUME LimiterInv, LimiterStep
  PROVE  \A b \in DOMAIN buckets : b \in DOMAIN buckets' /\ buckets'[b].of = buckets[b].of
<1>1. LimiterType /\ buckets \in Seq(BucketType)
  BY DEF LimiterInv, LimiterType
<1>2. CASE UNCHANGED limiterVars \/ Cleanup
  BY <1>2 DEF limiterVars, Cleanup, CleanupLock, CleanupUnlock, CleanupLook, CleanupDelete
<1>3. ASSUME NEW n \in Limited, NEW c \in Nat, GetLimiter(n, c)
      PROVE  \A b \in DOMAIN buckets : b \in DOMAIN buckets' /\ buckets'[b].of = buckets[b].of
  <2>1. CASE UNCHANGED limiterVars
    BY <2>1 DEF limiterVars
  <2>2. CASE buckets' = Append(buckets, [of |-> n, tokens |-> Burst])
    <3>1. [of |-> n, tokens |-> Burst] \in BucketType
      <4>1. Burst \in 0..Burst
        BY RateLimiterAssumption
      <4> QED BY <4>1 DEF BucketType
    <3>2. \A b \in 1..Len(buckets) : b \in DOMAIN buckets' /\ buckets'[b] = buckets[b]
      BY <1>1, <2>2, <3>1, AppendProperties, BucketFacts
    <3> QED BY <1>1, <3>2, BucketFacts
  <2> QED BY <1>3, <2>1, <2>2 DEF GetLimiter
<1>4. CASE \E n \in Limited : \E b \in DOMAIN buckets : buckets[b].of = n /\ Take(n, b)
  BY <1>1, <1>4, BucketFacts DEF Take, BucketType
<1>5. CASE Refilled
  BY <1>1, <1>5, BucketFacts DEF Refilled, BucketType
<1> QED BY <1>2, <1>3, <1>4, <1>5 DEF LimiterStep

\* What the invariant says of the requests let through and of the refused: a
\* bucket that is empty is one of a name that has nothing left.
LEMMA LimiterHolds ==
  ASSUME LimiterInv
  PROVE  /\ LimitHolds
         /\ \A b \in DOMAIN buckets : Refuses(b) => ideal[buckets[b].of] <= 0
<1>1. LimiterType
  BY DEF LimiterInv
<1>2. ASSUME NEW n \in Limited PROVE ideal[n] + strayed[n] >= 0
  <2>1. CASE Covers(n)
    <3>1. limiters[n] \in DOMAIN buckets /\ buckets[limiters[n]].tokens <= ideal[n] + strayed[n]
      BY <2>1 DEF LimiterInv, Covers
    <3> QED BY <1>1, <3>1, BucketFacts
  <2>2. CASE ~Covers(n)
    <3>1. Burst <= ideal[n] + strayed[n]
      BY <2>2 DEF LimiterInv
    <3> QED BY <1>1, <3>1, BucketFacts
  <2> QED BY <2>1, <2>2
<1>3. \A b \in DOMAIN buckets : Refuses(b) => ideal[buckets[b].of] <= 0
  BY DEF LimiterInv, Refuses
<1> QED BY <1>2, <1>3 DEF LimitHolds

(***************************************************************************)
(* The two protocols: what the server reads in what clients say            *)
(***************************************************************************)
\* As many elements as there are numbers for them.
LEMMA Counted ==
  ASSUME NEW n \in Nat, NEW seq, NEW T, T = {seq[i] : i \in 1..n},
         \A i, j \in 1..n : seq[i] = seq[j] => i = j
  PROVE  IsFiniteSet(T) /\ Cardinality(T) = n
<1> DEFINE f == [i \in 1..n |-> seq[i]]
<1>1. f \in Surjection(1..n, T) /\ f \in Injection(1..n, T)
  BY DEF Surjection, Injection, IsInjective
<1>2. IsFiniteSet(1..n) /\ Cardinality(1..n) = n
  BY FS_Interval
<1> HIDE DEF f
<1> QED BY <1>1, <1>2, FS_Surjection

\* The elements of an increasing sequence, sorted, are the sequence.
LEMMA SortedSequence ==
  ASSUME NEW n \in Nat, NEW T, NEW seq \in [1..n -> T], T = {seq[i] : i \in 1..n}, NEW number,
         \A i \in 1..n : number[seq[i]] \in Int,
         \A i, j \in 1..n : i < j => number[seq[i]] < number[seq[j]]
  PROVE  Cardinality(T) = n /\ Sorted(T, number) = seq
<1>1. \A i, j \in 1..n : (number[seq[i]] < number[seq[j]] <=> i < j) /\ (seq[i] = seq[j] => i = j)
  OBVIOUS
<1>2. Cardinality(T) = n
  BY <1>1, Counted
<1>3. ASSUME NEW i \in 1..n
      PROVE  Cardinality({x \in T : number[x] < number[seq[i]]}) = i - 1
  <2>1. {x \in T : number[x] < number[seq[i]]} = {seq[j] : j \in 1..(i - 1)}
    BY <1>1
  <2>2. i - 1 \in Nat /\ \A j, k \in 1..(i - 1) : seq[j] = seq[k] => j = k
    BY <1>1
  <2> QED BY <2>1, <2>2, Counted
<1>4. ASSUME NEW i \in 1..n
      PROVE  (CHOOSE t \in T : Cardinality({x \in T : number[x] < number[t]}) = i - 1) = seq[i]
  <2> DEFINE P(t) == Cardinality({x \in T : number[x] < number[t]}) = i - 1
  <2>1. seq[i] \in T /\ P(seq[i])
    BY <1>3
  <2>2. ASSUME NEW t \in T, P(t) PROVE t = seq[i]
    <3>1. PICK j \in 1..n : t = seq[j]
      OBVIOUS
    <3>2. Cardinality({x \in T : number[x] < number[t]}) = j - 1
      BY <1>3, <3>1
    <3> QED BY <2>2, <3>1, <3>2
  <2> HIDE DEF P
  <2>3. (CHOOSE t \in T : P(t)) = seq[i]
    BY <2>1, <2>2
  <2> QED BY <2>3 DEF P
<1> QED BY <1>2, <1>4 DEF Sorted

\* Of a list whose elements are all wanted, all are taken.
LEMMA AllElements ==
  ASSUME NEW l, IsSequence(l), NEW J, J = DOMAIN l
  PROVE  ElementsAt(l, J) = l
<1>1. l \in Seq({l[i] : i \in DOMAIN l})
  BY DEF IsSequence
<1>2. Len(l) \in Nat /\ DOMAIN l = 1..Len(l) /\ l = [i \in 1..Len(l) |-> l[i]]
  BY <1>1
<1> DEFINE n == Len(l)
           id == [i \in J |-> i]
<1>3. id \in [1..n -> J] /\ J = {id[i] : i \in 1..n} /\ \A i \in 1..n : id[id[i]] = i
  BY <1>2
<1>4. Sorted(J, id) = id
  <2> HIDE DEF id, n
  <2>1. n \in Nat
    BY <1>2 DEF n
  <2>2. /\ \A i \in 1..n : id[id[i]] \in Int
        /\ \A i, j \in 1..n : i < j => id[id[i]] < id[id[j]]
    BY <1>3, <2>1
  <2> QED BY <1>3, <2>1, <2>2, SortedSequence
<1>5. ElementsAt(l, J) = [j \in DOMAIN id |-> l[id[j]]]
  BY <1>4 DEF ElementsAt
<1> QED BY <1>2, <1>5

\* A sequence is a function from the numbers up to its length.
LEMMA SequenceFacts ==
  ASSUME NEW s, IsSequence(s)
  PROVE  Len(s) \in Nat /\ DOMAIN s = 1..Len(s) /\ s = [i \in 1..Len(s) |-> s[i]]
BY DEF IsSequence

\* Keys of one part and of two,
LEMMA TuplesAreSequences ==
  /\ \A x : IsSequence(<<x>>) /\ Len(<<x>>) = 1 /\ <<x>>[1] = x
  /\ \A x, y : IsSequence(<<x, y>>) /\ Len(<<x, y>>) = 2 /\ <<x, y>>[1] = x /\ <<x, y>>[2] = y
<1>1. ASSUME NEW x PROVE <<x>> \in Seq({<<x>>[i] : i \in DOMAIN <<x>>})
  OBVIOUS
<1>2. ASSUME NEW x, NEW y PROVE <<x, y>> \in Seq({<<x, y>>[i] : i \in DOMAIN <<x, y>>})
  OBVIOUS
<1> QED BY <1>1, <1>2 DEF IsSequence

\* and of three.
LEMMA TriplesAreSequences == \A x, y, z : IsSequence(<<x, y, z>>)
<1>1. ASSUME NEW x, NEW y, NEW z PROVE <<x, y, z>> \in Seq({<<x, y, z>>[i] : i \in DOMAIN <<x, y, z>>})
  OBVIOUS
<1> QED BY <1>1 DEF IsSequence

\* A key that goes on after a prefix with a part and a rest.
LEMMA KeyParts ==
  ASSUME NEW prefix, IsSequence(prefix), NEW t, NEW rest, IsSequence(rest)
  PROVE  LET k == prefix \o <<t>> \o rest IN
         /\ Len(k) = Len(prefix) + 1 + Len(rest)
         /\ SubSeq(k, 1, Len(prefix)) = prefix /\ k[Len(prefix) + 1] = t
<1> DEFINE S == {prefix[i] : i \in DOMAIN prefix} \cup {t} \cup {rest[i] : i \in DOMAIN rest}
           n == Len(prefix)
<1>1. prefix \in Seq(S) /\ rest \in Seq(S)
  BY DEF IsSequence
<1>2. PICK one : one = <<t>>
  OBVIOUS
<1>3. one \in Seq(S) /\ Len(one) = 1 /\ one[1] = t
  <2>1. <<t>> \in Seq(S)
    <3>1. t \in S
      OBVIOUS
    <3> HIDE DEF S
    <3> QED BY <3>1
  <2> QED BY <1>2, <2>1, TuplesAreSequences
<1> HIDE DEF S
<1>4. PICK h : h = prefix \o one
  OBVIOUS
<1>5. h \in Seq(S) /\ Len(h) = n + 1 /\ h[n + 1] = t /\ \A i \in 1..n : h[i] = prefix[i]
  <2>1. /\ h \in Seq(S) /\ Len(h) = Len(prefix) + Len(one)
        /\ \A i \in 1..(Len(prefix) + Len(one)) :
             h[i] = IF i <= Len(prefix) THEN prefix[i] ELSE one[i - Len(prefix)]
    BY <1>1, <1>3, <1>4, ConcatProperties
  <2>2. n \in Nat /\ n = Len(prefix)
    BY <1>1
  <2> HIDE DEF n
  <2>3. h \in Seq(S) /\ Len(h) = n + 1 /\ \A i \in 1..(n + 1) : h[i] = IF i <= n THEN prefix[i] ELSE one[i - n]
    BY <1>3, <2>1, <2>2
  <2>4. n + 1 \in 1..(n + 1) /\ ~(n + 1 <= n) /\ (n + 1) - n = 1
    BY <2>2
  <2>5. h[n + 1] = one[1]
    BY <2>3, <2>4
  <2>6. \A i \in 1..n : i \in 1..(n + 1) /\ i <= n
    BY <2>2
  <2> QED BY <1>3, <2>3, <2>5, <2>6
<1>6. PICK k : k = h \o rest
  OBVIOUS
<1>7. k \in Seq(S) /\ Len(k) = n + 1 + Len(rest) /\ \A i \in 1..(n + 1) : k[i] = h[i]
  <2>1. /\ k \in Seq(S) /\ Len(k) = Len(h) + Len(rest)
        /\ \A i \in 1..(Len(h) + Len(rest)) : k[i] = IF i <= Len(h) THEN h[i] ELSE rest[i - Len(h)]
    <3>1. h \in Seq(S) /\ rest \in Seq(S)
      BY <1>1, <1>5
    <3> QED BY <1>6, <3>1, ConcatProperties
  <2>2. n \in Nat /\ Len(rest) \in Nat
    BY <1>1
  <2> HIDE DEF n
  <2>3. \A i \in 1..(n + 1) : i \in 1..(n + 1 + Len(rest)) /\ i <= n + 1
    BY <2>2
  <2> QED BY <1>5, <2>1, <2>3
<1>8. n \in Nat /\ prefix = [i \in 1..n |-> prefix[i]] /\ n + 1 <= Len(k)
  BY <1>1, <1>7
<1>9. SubSeq(k, 1, n) = prefix
  <2> HIDE DEF n
  <2>1. SubSeq(k, 1, n) = [i \in 1..n |-> k[i]]
    <3>1. k \in Seq(S) /\ n \in Nat /\ 1..n \subseteq 1..Len(k)
      BY <1>7, <1>8
    <3>2. SubSeq(k, 1, n) = [i \in 1..(1 + n - 1) |-> k[i + 1 - 1]]
      BY <3>1
    <3>3. 1 + n - 1 = n /\ \A i \in 1..n : i + 1 - 1 = i
      BY <3>1
    <3> QED BY <3>2, <3>3
  <2>2. \A i \in 1..n : i \in 1..(n + 1)
    BY <1>8
  <2>3. \A i \in 1..n : k[i] = prefix[i]
    BY <1>5, <1>7, <2>2
  <2>4. prefix = [i \in 1..n |-> prefix[i]]
    BY <1>8
  <2> QED BY <2>1, <2>3, <2>4
<1>10. k[n + 1] = t
  BY <1>5, <1>7, <1>8
<1> QED BY <1>2, <1>4, <1>6, <1>7, <1>9, <1>10, Zenon

\* A number is seen when there is a key that goes on after it far enough.
LEMMA IndexFacts ==
  ASSUME NEW f, IsForm(f), NEW prefix, IsSequence(prefix), NEW more \in {0, 1}
  PROVE  /\ Indices(f, prefix, more) \subseteq Parts(f, prefix)
         /\ \A k \in Under(f, prefix) :
              Len(k) > Len(prefix) + more /\ k[Len(prefix) + 1] \in DOMAIN Numerals
                => k[Len(prefix) + 1] \in Indices(f, prefix, more)
<1>1. Len(prefix) \in Nat /\ \A k \in DOMAIN f : Len(k) \in Nat
  BY SequenceFacts DEF IsForm
<1> QED BY <1>1 DEF Indices, Parts, Under

\* The number of a field that is there is seen.
LEMMA FieldSeen ==
  ASSUME NEW f, IsForm(f), NEW prefix, IsSequence(prefix), NEW t \in DOMAIN Numerals,
         NEW x, prefix \o <<t>> \o <<x>> \in DOMAIN f
  PROVE  t \in Indices(f, prefix, 1)
<1> DEFINE k == prefix \o <<t>> \o <<x>>
<1>1. IsSequence(<<x>>) /\ Len(<<x>>) = 1
  BY TuplesAreSequences
<1>2. /\ Len(k) = Len(prefix) + 1 + Len(<<x>>)
      /\ SubSeq(k, 1, Len(prefix)) = prefix /\ k[Len(prefix) + 1] = t
  BY <1>1, KeyParts, Zenon
<1>3. k \in DOMAIN f
  OBVIOUS
<1>4. Len(prefix) \in Nat
  BY SequenceFacts
<1> HIDE DEF k
<1>5. Len(k) > Len(prefix) /\ Len(k) > Len(prefix) + 1
  BY <1>1, <1>2, <1>4
<1>6. k \in Under(f, prefix)
  BY <1>2, <1>3, <1>5 DEF Under
<1> QED BY <1>2, <1>5, <1>6, IndexFacts

\* A typed value as it is read.
LEMMA DecodedAttribute ==
  ASSUME NEW a, HasFields(a, {"type", "text", "binary"})
  PROVE  [a EXCEPT !.binary = Decoded(@)] = [type |-> a.type, text |-> a.text, binary |-> Decoded(a.binary)]
BY DEF HasFields

\* The typed values under a prefix are read as they were said, and all of them
\* when their numbers leave no gap.
LEMMA TypedIsRead ==
  ASSUME NEW f, IsForm(f), NEW prefix, IsSequence(prefix), NEW table, SaysTyped(f, prefix, table)
  PROVE  TypedKept(ParseQueryAttrs(f, prefix), table, Gapless(f, prefix))
<1> DEFINE T              == Parts(f, prefix)
           Field(t, rest) == Get(f, prefix \o <<t>> \o rest)
           name           == [t \in T |-> Field(t, <<"Name">>)]
           C              == Contiguous(T)
<1>1. /\ table = [n \in DOMAIN table |-> table[n]] /\ \A n \in DOMAIN table : IsAttribute(table[n])
      /\ {name[t] : t \in DOMAIN name} = DOMAIN table /\ "" \notin DOMAIN table
      /\ \A t, u \in DOMAIN name : name[t] = name[u] => t = u
      /\ T \subseteq DOMAIN Numerals
  BY DEF SaysTyped, IsTable, NamesEach
<1>2. \A t \in T : /\ Field(t, <<"Value", "DataType">>) = table[name[t]].type
                   /\ Field(t, <<"Value", "StringValue">>) = table[name[t]].text
                   /\ Field(t, <<"Value", "BinaryValue">>) = table[name[t]].binary
  BY DEF SaysTyped
<1>3. /\ \A t \in T : Field(t, <<"Name">>) \in DOMAIN table /\ Field(t, <<"Name">>) # ""
      /\ \A n \in DOMAIN table : \E t \in T : Field(t, <<"Name">>) = n
      /\ \A t, u \in T : Field(t, <<"Name">>) = Field(u, <<"Name">>) => t = u
      /\ {Field(t, <<"Name">>) : t \in T} = DOMAIN table
  <2> DEFINE N(t) == Field(t, <<"Name">>)
  <2>1. DOMAIN name = T /\ \A t \in T : name[t] = N(t)
    OBVIOUS
  <2> HIDE DEF N, Field, name, T
  <2>0. \A t, u \in DOMAIN name : name[t] = name[u] => t = u
    BY <1>1
  <2>2. {name[t] : t \in DOMAIN name} = {name[t] : t \in T}
    BY <2>1
  <2>3. {name[t] : t \in T} = {N(t) : t \in T}
    BY <2>1
  <2>4. {N(t) : t \in T} = DOMAIN table /\ "" \notin DOMAIN table
    BY <1>1, <2>2, <2>3
  <2>5. \A t, u \in T : N(t) = N(u) => t = u
    BY <2>0, <2>1
  <2>6. /\ \A t \in T : N(t) \in DOMAIN table /\ N(t) # ""
        /\ \A n \in DOMAIN table : \E t \in T : N(t) = n
    BY <2>4
  <2> QED BY <2>4, <2>5, <2>6 DEF N
<1>4. Contiguous(Indices(f, prefix, 1)) = C
  <2>1. ASSUME NEW t \in T PROVE t \in Indices(f, prefix, 1)
    <3>1. prefix \o <<t>> \o <<"Name">> \in DOMAIN f
      BY <1>3 DEF Get
    <3> QED BY <1>1, <3>1, FieldSeen
  <2>2. Indices(f, prefix, 1) = T
    BY <2>1, IndexFacts
  <2> HIDE DEF T
  <2> QED BY <2>2
<1>0. C \subseteq T /\ (Gapless(f, prefix) => C = T)
  <2>1. Gapless(f, prefix) => \A t \in T : Numerals[t] \in 1..Cardinality(T)
    BY DEF Gapless
  <2> HIDE DEF T
  <2> QED BY <2>1 DEF Contiguous
<1>5. \A n \in DOMAIN table : table[n].type # "" /\ HasFields(table[n], {"type", "text", "binary"})
  BY <1>1 DEF IsAttribute
<1> DEFINE used == {t \in Contiguous(Indices(f, prefix, 1)) :
                     Field(t, <<"Name">>) # "" /\ Field(t, <<"Value", "DataType">>) # ""}
           Of(n) == {t \in used : Field(t, <<"Name">>) = n}
           Last(n) == CHOOSE t \in Of(n) : \A u \in Of(n) : Numerals[u] <= Numerals[t]
           Read(n) == [type   |-> Field(Last(n), <<"Value", "DataType">>),
                       text   |-> Field(Last(n), <<"Value", "StringValue">>),
                       binary |-> Decoded(Field(Last(n), <<"Value", "BinaryValue">>))]
<1>6. used = C
  <2> HIDE DEF Field, T, C
  <2>1. \A t \in T : Field(t, <<"Value", "DataType">>) # ""
    <3>1. \A t \in T : Field(t, <<"Value", "DataType">>) = table[Field(t, <<"Name">>)].type
      BY <1>2
    <3> QED BY <1>3, <1>5, <3>1
  <2> QED BY <1>0, <1>3, <1>4, <2>1
<1>7. ASSUME NEW t \in C
      PROVE  LET n == Field(t, <<"Name">>) IN
             n \in DOMAIN table /\ Read(n) = [table[n] EXCEPT !.binary = Decoded(@)]
  <2> DEFINE n == Field(t, <<"Name">>)
  <2>0. t \in T
    BY <1>0
  <2>1. n \in DOMAIN table
    BY <1>3, <2>0
  <2>2. Of(n) = {t}
    <3> HIDE DEF Field, T, C, used
    <3> QED BY <1>0, <1>3, <1>6, <2>0
  <2>3. Last(n) = t
    <3>1. PICK i : i = Numerals[t]
      OBVIOUS
    <3>2. i \in Int
      BY <1>1, <2>0, <3>1, ProtocolAssumption
    <3>3. i <= i
      BY <3>2
    <3> HIDE DEF Of, n
    <3>4. \A u \in Of(n) : u = t
      BY <2>2
    <3> QED BY <2>2, <3>1, <3>3, <3>4
  <2>4. /\ Field(t, <<"Value", "DataType">>) = table[n].type
        /\ Field(t, <<"Value", "StringValue">>) = table[n].text
        /\ Field(t, <<"Value", "BinaryValue">>) = table[n].binary
    <3>1. name[t] = n
      BY <2>0
    <3> HIDE DEF Field, T, name, n
    <3> QED BY <1>2, <2>0, <3>1
  <2> HIDE DEF n
  <2>6. Read(n) = [type |-> table[n].type, text |-> table[n].text, binary |-> Decoded(table[n].binary)]
    <3> HIDE DEF Field, Last
    <3> QED BY <2>3, <2>4
  <2>7. [table[n] EXCEPT !.binary = Decoded(@)]
          = [type |-> table[n].type, text |-> table[n].text, binary |-> Decoded(table[n].binary)]
    BY <1>5, <2>1, DecodedAttribute
  <2> HIDE DEF Read
  <2>8. n \in DOMAIN table /\ Read(n) = [table[n] EXCEPT !.binary = Decoded(@)]
    BY <2>1, <2>6, <2>7, Zenon
  <2> QED BY <2>8 DEF n
<1> DEFINE N(t) == Field(t, <<"Name">>)
           q == ParseQueryAttrs(f, prefix)
<1>8. q = [n \in {N(t) : t \in used} |-> Read(n)]
  BY DEF ParseQueryAttrs
<1>9. /\ \A t \in C : N(t) \in DOMAIN table /\ Read(N(t)) = [table[N(t)] EXCEPT !.binary = Decoded(@)]
      /\ {N(t) : t \in T} = DOMAIN table
  BY <1>3, <1>7
<1> HIDE DEF Read, Field, used, N, C, T, q
<1>10. DOMAIN q = {N(t) : t \in C} /\ \A n \in DOMAIN q : q[n] = Read(n)
  BY <1>6, <1>8
<1>11. DOMAIN q \subseteq DOMAIN table /\ (Gapless(f, prefix) => DOMAIN q = DOMAIN table)
  BY <1>0, <1>9, <1>10
<1>12. \A n \in DOMAIN q : q[n] = [table[n] EXCEPT !.binary = Decoded(@)]
  BY <1>9, <1>10
<1> QED BY <1>11, <1>12 DEF TypedKept, q

\* What joins two sequences has the parts of both.
LEMMA Joined ==
  ASSUME NEW S, NEW a \in Seq(S), NEW b \in Seq(S), NEW c \in Seq(S), Len(c) = Len(a) + Len(b),
         \A i \in 1..Len(a) : c[i] = a[i], \A i \in 1..Len(b) : c[Len(a) + i] = b[i]
  PROVE  a \o b = c
<1>1. PICK d : d = a \o b
  OBVIOUS
<1>2. /\ d \in Seq(S) /\ Len(d) = Len(a) + Len(b)
      /\ \A i \in 1..(Len(a) + Len(b)) : d[i] = IF i <= Len(a) THEN a[i] ELSE b[i - Len(a)]
  BY <1>1, ConcatProperties
<1>3. PICK m \in Nat : m = Len(a)
  OBVIOUS
<1>4. PICK n \in Nat : n = Len(b)
  OBVIOUS
<1>5. ASSUME NEW i \in 1..(m + n) PROVE d[i] = c[i]
  <2>1. CASE i <= m
    <3>1. i \in 1..m
      BY <1>3, <2>1
    <3> QED BY <1>2, <1>3, <1>4, <2>1, <3>1
  <2>2. CASE ~(i <= m)
    <3>1. i - m \in 1..n /\ m + (i - m) = i
      BY <1>3, <1>4, <2>2
    <3>2. d[i] = b[i - m]
      BY <1>2, <1>3, <1>4, <2>2
    <3>3. c[m + (i - m)] = b[i - m]
      BY <1>3, <1>4, <3>1
    <3> QED BY <3>1, <3>2, <3>3
  <2> QED BY <2>1, <2>2
<1> QED BY <1>1, <1>2, <1>3, <1>4, <1>5, SeqEqual

\* Keys of two parts and of three.
LEMMA ShortKeys ==
  ASSUME NEW p, NEW t, NEW x
  PROVE  <<p>> \o <<t>> \o <<x>> = <<p, t, x>> /\ <<p, t>> \o <<x>> = <<p, t, x>>
<1> DEFINE S == {p, t, x}
<1>1. <<p>> \in Seq(S) /\ <<t>> \in Seq(S) /\ <<x>> \in Seq(S)
  OBVIOUS
<1>2. <<p, t>> \in Seq(S) /\ <<p, t, x>> \in Seq(S)
  OBVIOUS
<1>3. <<p>> \o <<t>> = <<p, t>>
  <2>1. PICK a, b, c : a = <<p>> /\ b = <<t>> /\ c = <<p, t>>
    OBVIOUS
  <2>2. a \in Seq(S) /\ b \in Seq(S) /\ c \in Seq(S)
    BY <1>1, <1>2, <2>1
  <2>3. Len(a) = 1 /\ Len(b) = 1 /\ Len(c) = 2 /\ a[1] = p /\ b[1] = t /\ c[1] = p /\ c[2] = t
    BY <2>1
  <2>4. /\ Len(c) = Len(a) + Len(b) /\ \A i \in 1..Len(a) : c[i] = a[i]
        /\ \A i \in 1..Len(b) : c[Len(a) + i] = b[i]
    BY <2>3
  <2> HIDE DEF S
  <2>5. a \o b = c
    BY <2>2, <2>4, Joined
  <2> QED BY <2>1, <2>5
<1>4. <<p, t>> \o <<x>> = <<p, t, x>>
  <2>1. PICK a, b, c : a = <<p, t>> /\ b = <<x>> /\ c = <<p, t, x>>
    OBVIOUS
  <2>2. a \in Seq(S) /\ b \in Seq(S) /\ c \in Seq(S)
    BY <1>1, <1>2, <2>1
  <2>3. /\ Len(a) = 2 /\ Len(b) = 1 /\ Len(c) = 3 /\ a[1] = p /\ a[2] = t /\ b[1] = x
        /\ c[1] = p /\ c[2] = t /\ c[3] = x
    BY <2>1
  <2>4. /\ Len(c) = Len(a) + Len(b) /\ \A i \in 1..Len(a) : c[i] = a[i]
        /\ \A i \in 1..Len(b) : c[Len(a) + i] = b[i]
    BY <2>3
  <2> HIDE DEF S
  <2>5. a \o b = c
    BY <2>2, <2>4, Joined
  <2> QED BY <2>1, <2>5
<1> QED BY <1>3, <1>4

\* A table under a prefix is read as it was said.
LEMMA TableIsRead ==
  ASSUME NEW f, IsForm(f), NEW prefix, NEW key, NEW table, IsTable(table), NEW max,
         SaysTable(f, prefix, key, table, max)
  PROVE  NamedValues(f, prefix, key, max) = table
<1> DEFINE T    == Parts(f, <<prefix>>)
           N(t) == Get(f, <<prefix, t, key>>)
           K(t) == f[<<prefix, t, key>>]
           name == [t \in T |-> N(t)]
<1>1. /\ {name[t] : t \in DOMAIN name} = DOMAIN table /\ "" \notin DOMAIN table
      /\ \A t, u \in DOMAIN name : name[t] = name[u] => t = u
  BY DEF SaysTable, NamesEach
<1>2. \A t \in T : t \in DOMAIN Numerals /\ Numerals[t] \in 1..max
  BY DEF SaysTable
<1>3. \A t \in T : Get(f, <<prefix, t, "Value">>) = table[N(t)]
  <2>1. \A t \in T : Get(f, <<prefix, t, "Value">>) = table[name[t]]
    BY DEF SaysTable
  <2> QED BY <2>1
<1>4. /\ {N(t) : t \in T} = DOMAIN table /\ \A t, u \in T : N(t) = N(u) => t = u
      /\ \A t \in T : N(t) \in DOMAIN table /\ N(t) # ""
      /\ \A n \in DOMAIN table : \E t \in T : N(t) = n
  <2>1. DOMAIN name = T /\ \A t \in T : name[t] = N(t)
    OBVIOUS
  <2> HIDE DEF N, name, T
  <2>2. {name[t] : t \in DOMAIN name} = {name[t] : t \in T}
    BY <2>1
  <2>3. {name[t] : t \in T} = {N(t) : t \in T}
    BY <2>1
  <2>4. {N(t) : t \in T} = DOMAIN table /\ "" \notin DOMAIN table
    BY <1>1, <2>2, <2>3
  <2>0. \A t, u \in DOMAIN name : name[t] = name[u] => t = u
    BY <1>1
  <2>5. \A t, u \in T : N(t) = N(u) => t = u
    BY <2>0, <2>1
  <2>6. /\ \A t \in T : N(t) \in DOMAIN table /\ N(t) # ""
        /\ \A n \in DOMAIN table : \E t \in T : N(t) = n
    BY <2>4
  <2> QED BY <2>4, <2>5, <2>6
<1>5. IsSequence(<<prefix>>)
  BY TuplesAreSequences
<1>6. Indices(f, <<prefix>>, 1) = T
  <2>1. ASSUME NEW t \in T PROVE t \in Indices(f, <<prefix>>, 1)
    <3>1. <<prefix, t, key>> \in DOMAIN f
      BY <1>4 DEF Get
    <3>2. <<prefix>> \o <<t>> \o <<key>> \in DOMAIN f
      BY <3>1, ShortKeys
    <3> QED BY <1>2, <1>5, <3>2, FieldSeen
  <2> QED BY <1>5, <2>1, IndexFacts
<1> DEFINE used  == {t \in Within(Indices(f, <<prefix>>, 1), max) : N(t) # ""}
           Of(n) == {t \in used : K(t) = n}
           Last(n) == CHOOSE t \in Of(n) : \A u \in Of(n) : Numerals[u] <= Numerals[t]
<1>7. used = T
  <2> HIDE DEF T
  <2> QED BY <1>2, <1>4, <1>6 DEF Within
<1>8. \A t \in T : K(t) = N(t)
  BY <1>4 DEF Get
<1>13. /\ {N(t) : t \in T} = DOMAIN table /\ \A t, u \in T : N(t) = N(u) => t = u
       /\ \A n \in DOMAIN table : \E t \in T : N(t) = n
  <2> HIDE DEF N, T
  <2> QED BY <1>4, Zenon
<1>9. ASSUME NEW n \in DOMAIN table PROVE Get(f, <<prefix, Last(n), "Value">>) = table[n]
  <2>1. PICK t \in T : N(t) = n
    BY <1>13
  <2>2. Of(n) = {t}
    <3> HIDE DEF T, used, N, K
    <3> QED BY <1>7, <1>8, <1>13, <2>1
  <2>3. Last(n) = t
    <3>1. PICK i : i = Numerals[t]
      OBVIOUS
    <3>2. i \in Int
      BY <1>2, <2>1, <3>1, ProtocolAssumption
    <3>3. i <= i
      BY <3>2
    <3> HIDE DEF Of
    <3>4. \A u \in Of(n) : u = t
      BY <2>2
    <3> QED BY <2>2, <3>1, <3>3, <3>4
  <2> HIDE DEF Last, N, T
  <2> QED BY <1>3, <2>1, <2>3
<1>10. NamedValues(f, prefix, key, max)
         = [n \in {K(t) : t \in used} |-> Get(f, <<prefix, Last(n), "Value">>)]
  BY DEF NamedValues
<1>11. {K(t) : t \in used} = DOMAIN table
  <2> HIDE DEF T, used, N, K
  <2> QED BY <1>7, <1>8, <1>13
<1> HIDE DEF Last, used, K
<1>12. [n \in DOMAIN table |-> Get(f, <<prefix, Last(n), "Value">>)] = table
  BY <1>9 DEF IsTable
<1> QED BY <1>10, <1>11, <1>12

\* Numbers in a row, in order.
LEMMA NumbersInOrder ==
  ASSUME NEW n \in Nat, NEW numbers, NEW number \in Numbering(n, numbers), NEW T,
         T = {number[i] : i \in 1..n}
  PROVE  InOrder(T) = number /\ DOMAIN number = 1..n
<1>1. number \in [1..n -> {t \in DOMAIN Numerals : Numerals[t] \in numbers}]
      /\ \A i, j \in 1..n : i < j => Numerals[number[i]] < Numerals[number[j]]
  BY DEF Numbering
<1>2. number \in [1..n -> T]
  BY <1>1
<1>3. \A i \in 1..n : Numerals[number[i]] \in Int
  BY <1>1, ProtocolAssumption
<1>4. \A i, j \in 1..n : i < j => Numerals[number[i]] < Numerals[number[j]]
  BY <1>1
<1>5. Sorted(T, Numerals) = number
  <2>1. PICK value : value = Numerals
    OBVIOUS
  <2>2. \A i \in 1..n : value[number[i]] \in Int
    BY <1>3, <2>1
  <2>3. \A i, j \in 1..n : i < j => value[number[i]] < value[number[j]]
    BY <1>4, <2>1
  <2>4. Sorted(T, value) = number
    BY <1>2, <2>2, <2>3, SortedSequence, ZenonT(40)
  <2> QED BY <2>1, <2>4
<1>6. DOMAIN number = 1..n
  BY <1>2
<1> QED BY <1>5, <1>6 DEF InOrder

\* A list under a prefix is read as it was said.
LEMMA ListIsRead ==
  ASSUME NEW f, IsForm(f), NEW prefix, NEW names, NEW max, SaysList(f, prefix, names, max)
  PROVE  NameList(f, prefix, max) = names
<1>1. IsSequence(names) /\ \A i \in DOMAIN names : names[i] # ""
  BY DEF SaysList
<1>2. PICK number \in Numbering(Len(names), 1..max) :
        /\ Parts(f, <<prefix>>) = {number[i] : i \in DOMAIN names}
        /\ \A i \in DOMAIN names : Get(f, <<prefix, number[i]>>) = names[i]
  BY DEF SaysList
<1>3. Len(names) \in Nat /\ DOMAIN names = 1..Len(names) /\ names = [i \in 1..Len(names) |-> names[i]]
  BY <1>1, SequenceFacts
<1> DEFINE T == Parts(f, <<prefix>>)
           used == {t \in Within(Indices(f, <<prefix>>, 0), max) : Get(f, <<prefix, t>>) # ""}
<1>4. IsSequence(<<prefix>>) /\ Len(<<prefix>>) = 1
  BY TuplesAreSequences
<1>5. \A t \in T : t \in DOMAIN Numerals /\ Numerals[t] \in 1..max /\ Get(f, <<prefix, t>>) # ""
  <2>1. \A i \in DOMAIN names : number[i] \in DOMAIN Numerals /\ Numerals[number[i]] \in 1..max
    BY <1>2, <1>3 DEF Numbering
  <2> QED BY <1>1, <1>2, <2>1
<1>6. Indices(f, <<prefix>>, 0) = T
  <2>1. \A k \in Under(f, <<prefix>>) : Len(k) > Len(<<prefix>>) + 0
    <3>1. Len(<<prefix>>) + 0 = Len(<<prefix>>)
      BY <1>4
    <3> QED BY <3>1 DEF Under
  <2>2. T \subseteq Indices(f, <<prefix>>, 0)
    BY <1>4, <1>5, <2>1, IndexFacts DEF Parts
  <2> QED BY <1>4, <2>2, IndexFacts
<1>7. used = T
  <2> HIDE DEF T
  <2> QED BY <1>5, <1>6 DEF Within
<1>8. InOrder(used) = number /\ DOMAIN number = 1..Len(names)
  BY <1>2, <1>3, <1>7, NumbersInOrder
<1>9. \A i \in 1..Len(names) : f[<<prefix, number[i]>>] = names[i]
  BY <1>1, <1>2, <1>3 DEF Get
<1>10. NameList(f, prefix, max) = [j \in DOMAIN InOrder(used) |-> f[<<prefix, InOrder(used)[j]>>]]
  BY DEF NameList
<1> HIDE DEF used
<1> QED BY <1>3, <1>8, <1>9, <1>10

\* Names up to 20 and perhaps a single one.
LEMMA NamesAreRead ==
  ASSUME NEW f, IsForm(f), NEW prefix, NEW names, SaysNames(f, prefix, names)
  PROVE  NameList(f, prefix, 20)
           \o (IF Get(f, <<prefix>>) = "" THEN <<>> ELSE <<f[<<prefix>>]>>) = names
<1>1. CASE Get(f, <<prefix>>) = "" /\ SaysList(f, prefix, names, 20)
  <2>1. NameList(f, prefix, 20) = names
    BY <1>1, ListIsRead
  <2>2. IsSequence(names)
    BY <1>1 DEF SaysList
  <2>3. names \o <<>> = names
    BY <2>2, ConcatEmptySeq DEF IsSequence
  <2> QED BY <1>1, <2>1, <2>3
<1>2. CASE /\ Get(f, <<prefix>>) # "" /\ names = <<Get(f, <<prefix>>)>>
           /\ Parts(f, <<prefix>>) = {}
  <2>1. Indices(f, <<prefix>>, 0) = {}
    BY <1>2, TuplesAreSequences, IndexFacts
  <2>2. {t \in Within(Indices(f, <<prefix>>, 0), 20) : Get(f, <<prefix, t>>) # ""} = {}
    BY <2>1 DEF Within
  <2>3. InOrder({}) = <<>>
    <3>1. Cardinality({}) = 0
      BY FS_EmptySet
    <3> QED BY <3>1 DEF InOrder, Sorted
  <2>4. NameList(f, prefix, 20) = <<>>
    <3> DEFINE used == InOrder({t \in Within(Indices(f, <<prefix>>, 0), 20) : Get(f, <<prefix, t>>) # ""})
               K(j) == f[<<prefix, used[j]>>]
    <3>1. NameList(f, prefix, 20) = [j \in DOMAIN used |-> K(j)]
      BY DEF NameList
    <3>2. used = <<>>
      BY <2>2, <2>3
    <3> HIDE DEF used, K
    <3>3. DOMAIN used = {}
      BY <3>2
    <3>4. [j \in {} |-> K(j)] = <<>>
      OBVIOUS
    <3> QED BY <3>1, <3>3, <3>4
  <2>5. f[<<prefix>>] = Get(f, <<prefix>>)
    BY <1>2 DEF Get
  <2>6. <<Get(f, <<prefix>>)>> \in Seq({Get(f, <<prefix>>)})
    OBVIOUS
  <2>7. <<>> \o <<Get(f, <<prefix>>)>> = <<Get(f, <<prefix>>)>>
    BY <2>6, ConcatEmptySeq
  <2> QED BY <1>2, <2>4, <2>5, <2>7
<1> QED BY <1>1, <1>2 DEF SaysNames

\* The attributes of a queue are read as they were said.
LEMMA AttributesAreRead ==
  ASSUME NEW f, IsForm(f), NEW attrs, SaysAttributes(f, attrs)
  PROVE  ParseQueryAttributes(f) = attrs
<1> DEFINE said == {n \in DOMAIN attrs : <<n>> \in DOMAIN f}
           rest == [n \in DOMAIN attrs \ said |-> attrs[n]]
           flat == {k[1] : k \in {k \in DOMAIN f : Len(k) = 1 /\ ~IsKnownParam(k[1])}}
           indexed == NamedValues(f, "Attribute", "Name", 20)
<1>1. /\ IsTable(attrs) /\ SaysTable(f, "Attribute", "Name", rest, 20)
      /\ \A n \in said : f[<<n>>] = attrs[n] /\ ~IsKnownParam(n)
      /\ \A k \in DOMAIN f : Len(k) = 1 => k[1] \in said \/ IsKnownParam(k[1])
  BY DEF SaysAttributes
<1>2. flat = said
  <2>1. ASSUME NEW n \in said PROVE n \in flat
    <3>1. PICK k : k = <<n>>
      OBVIOUS
    <3>2. k \in DOMAIN f /\ Len(k) = 1 /\ k[1] = n /\ ~IsKnownParam(n)
      BY <1>1, <3>1, TuplesAreSequences
    <3> HIDE DEF said
    <3> QED BY <3>2
  <2>2. ASSUME NEW k \in DOMAIN f, Len(k) = 1, ~IsKnownParam(k[1]) PROVE k[1] \in said
    BY <1>1, <2>2
  <2> HIDE DEF said
  <2> QED BY <2>1, <2>2
<1>3. indexed = rest
  <2>1. IsTable(rest)
    BY DEF IsTable
  <2> HIDE DEF rest
  <2> QED BY <1>1, <2>1, TableIsRead
<1>4. ParseQueryAttributes(f) = [n \in DOMAIN indexed \cup flat |-> IF n \in flat THEN f[<<n>>] ELSE indexed[n]]
  BY DEF ParseQueryAttributes
<1>5. DOMAIN rest \cup said = DOMAIN attrs
  OBVIOUS
<1>6. \A n \in DOMAIN attrs : (IF n \in said THEN f[<<n>>] ELSE rest[n]) = attrs[n]
  BY <1>1
<1> HIDE DEF rest, said, flat, indexed
<1> QED BY <1>1, <1>2, <1>3, <1>4, <1>5, <1>6 DEF IsTable

\* A parameter is read as it was said.
LEMMA TextIsRead ==
  ASSUME NEW f, NEW name, NEW text, SaysText(f, Spellings(name), text)
  PROVE  GetParam(f, name) = text
<1>1. PICK s \in Spellings(name) :
        Get(f, <<s>>) = text /\ \A other \in Spellings(name) \ {s} : Get(f, <<other>>) = ""
  BY DEF SaysText
<1>2. name \in Spellings(name) /\ (name \in DOMAIN Lower => Lower[name] \in Spellings(name))
  BY DEF Spellings
<1>3. s = name \/ (name \in DOMAIN Lower /\ s = Lower[name])
  BY <1>1 DEF Spellings
<1> QED BY <1>1, <1>2, <1>3 DEF GetParam

\* So is a number.
LEMMA NumberIsRead ==
  ASSUME NEW f, NEW name, NEW number, NEW default, SaysNumber(f, name, number, default)
  PROVE  GetInt(f, name, default) = number
<1>1. PICK text \in {""} \cup DOMAIN Numerals :
        SaysText(f, Spellings(name), text) /\ Stands(text, number, default)
  BY DEF SaysNumber
<1>2. GetParam(f, name) = text
  BY <1>1, TextIsRead
<1> QED BY <1>1, <1>2 DEF GetInt, Stands, Atoi

\* What is kept is also kept when less has to be complete, and an empty table is.
LEMMA KeptAnyway ==
  ASSUME NEW handed, NEW said, NEW a \in BOOLEAN, NEW b \in BOOLEAN, TypedKept(handed, said, a), b => a
  PROVE  TypedKept(handed, said, b)
BY DEF TypedKept

LEMMA NothingKept == \A said : TypedKept(<<>>, said, FALSE)
BY DEF TypedKept

LEMMA GaplessIsBoolean ==
  \A f, prefix : Gapless(f, prefix) \in BOOLEAN /\ GaplessEntries(f) \in BOOLEAN
BY DEF Gapless, GaplessEntries

\* An entry is read as it was said, but for the attributes of the system and
\* those of the message whose numbers leave a gap.
LEMMA EntryIsRead ==
  ASSUME NEW f, IsForm(f), NEW p, NEW t, NEW e, SaysEntry(f, <<p, t>>, e)
  PROVE  EntryKept(
         [id |-> Get(f, <<p, t, "Id">>), body |-> Get(f, <<p, t, "MessageBody">>),
          delay |-> Atoi(Get(f, <<p, t, "DelaySeconds">>)),
          visibility |-> Atoi(Get(f, <<p, t, "VisibilityTimeout">>)),
          handle |-> Get(f, <<p, t, "ReceiptHandle">>),
          dedup |-> Get(f, <<p, t, "MessageDeduplicationId">>),
          group |-> Get(f, <<p, t, "MessageGroupId">>),
          msgAttrs |-> ParseQueryAttrs(f, <<p, t, "MessageAttribute">>),
          sysAttrs |-> <<>>], e, Gapless(f, <<p, t, "MessageAttribute">>), FALSE)
<1> DEFINE q == [id |-> Get(f, <<p, t, "Id">>), body |-> Get(f, <<p, t, "MessageBody">>),
                 delay |-> Atoi(Get(f, <<p, t, "DelaySeconds">>)),
                 visibility |-> Atoi(Get(f, <<p, t, "VisibilityTimeout">>)),
                 handle |-> Get(f, <<p, t, "ReceiptHandle">>),
                 dedup |-> Get(f, <<p, t, "MessageDeduplicationId">>),
                 group |-> Get(f, <<p, t, "MessageGroupId">>),
                 msgAttrs |-> ParseQueryAttrs(f, <<p, t, "MessageAttribute">>),
                 sysAttrs |-> <<>>]
<1>1. /\ Get(f, <<p, t, "Id">>) = e.id /\ Get(f, <<p, t, "MessageBody">>) = e.body
      /\ Get(f, <<p, t, "ReceiptHandle">>) = e.handle
      /\ Get(f, <<p, t, "MessageDeduplicationId">>) = e.dedup
      /\ Get(f, <<p, t, "MessageGroupId">>) = e.group
  <2>1. \A x \in DOMAIN EntryTexts : Get(f, <<p, t, EntryTexts[x]>>) = e[x]
    BY ShortKeys DEF SaysEntry
  <2> QED BY <2>1 DEF EntryTexts
<1>2. /\ Atoi(Get(f, <<p, t, "DelaySeconds">>)) = e.delay
      /\ Atoi(Get(f, <<p, t, "VisibilityTimeout">>)) = e.visibility
  <2>1. \A x \in DOMAIN EntryNumbers : Stands(Get(f, <<p, t, EntryNumbers[x]>>), e[x], 0)
    BY ShortKeys DEF SaysEntry
  <2>2. /\ Stands(Get(f, <<p, t, "DelaySeconds">>), e.delay, 0)
        /\ Stands(Get(f, <<p, t, "VisibilityTimeout">>), e.visibility, 0)
    BY <2>1 DEF EntryNumbers
  <2>3. ASSUME NEW text, NEW n, Stands(text, n, 0) PROVE Atoi(text) = n
    BY <2>3, ProtocolAssumption DEF Stands, Atoi
  <2> QED BY <2>2, <2>3
<1>3. TypedKept(ParseQueryAttrs(f, <<p, t, "MessageAttribute">>), e.msgAttrs,
                Gapless(f, <<p, t, "MessageAttribute">>))
  <2>1. SaysTyped(f, <<p, t, "MessageAttribute">>, e.msgAttrs)
    BY ShortKeys DEF SaysEntry
  <2> QED BY <2>1, TriplesAreSequences, TypedIsRead
<1>4. EntryFields \ {"msgAttrs", "sysAttrs"} = {"id", "body", "handle", "dedup", "group", "delay", "visibility"}
  BY DEF EntryFields, EntryTexts, EntryNumbers
<1>5. \A x \in {"id", "body", "handle", "dedup", "group", "delay", "visibility"} : q[x] = e[x]
  BY <1>1, <1>2
<1>6. TypedKept(q.msgAttrs, e.msgAttrs, Gapless(f, <<p, t, "MessageAttribute">>))
  BY <1>3
<1>7. TypedKept(q.sysAttrs, e.sysAttrs, FALSE)
  BY NothingKept
<1> HIDE DEF q
<1>8. EntryKept(q, e, Gapless(f, <<p, t, "MessageAttribute">>), FALSE)
  BY <1>4, <1>5, <1>6, <1>7 DEF EntryKept, TablesKept
<1> QED BY <1>8 DEF q

\* The entries of a batch are read as they were said.
LEMMA EntriesAreRead ==
  ASSUME NEW f, IsForm(f), NEW entries, SaysEntries(f, entries)
  PROVE  LET q == ParseBatchEntries(f) IN
         /\ DOMAIN q = DOMAIN entries
         /\ \A i \in DOMAIN entries : EntryKept(q[i], entries[i], GaplessEntries(f), FALSE)
<1> DEFINE Read(p, t) ==
        [id |-> Get(f, <<p, t, "Id">>), body |-> Get(f, <<p, t, "MessageBody">>),
         delay |-> Atoi(Get(f, <<p, t, "DelaySeconds">>)),
         visibility |-> Atoi(Get(f, <<p, t, "VisibilityTimeout">>)),
         handle |-> Get(f, <<p, t, "ReceiptHandle">>),
         dedup |-> Get(f, <<p, t, "MessageDeduplicationId">>),
         group |-> Get(f, <<p, t, "MessageGroupId">>),
         msgAttrs |-> ParseQueryAttrs(f, <<p, t, "MessageAttribute">>),
         sysAttrs |-> <<>>]
      Seen(p) == Indices(f, <<p>>, 1)
      used == {p \in BatchPrefixes : Seen(p) # {}}
      first == CHOOSE p \in used : TRUE
      q == ParseBatchEntries(f)
<1>1. PICK p \in BatchPrefixes, number \in Numbering(Len(entries), Int) :
        /\ Parts(f, <<p>>) = {number[i] : i \in DOMAIN entries}
        /\ \A k \in Under(f, <<p>>) : Len(k) > 2
        /\ \A i \in DOMAIN entries : SaysEntry(f, <<p, number[i]>>, entries[i])
        /\ \A other \in BatchPrefixes \ {p} : Parts(f, <<other>>) = {}
  BY DEF SaysEntries
<1>2. Len(entries) \in Nat /\ DOMAIN entries = 1..Len(entries)
  BY SequenceFacts DEF SaysEntries
<1>3. \A other : Seen(other) \subseteq Parts(f, <<other>>)
  BY TuplesAreSequences, IndexFacts
<1>4. Seen(p) = Parts(f, <<p>>)
  <2>1. \A i \in DOMAIN entries : number[i] \in DOMAIN Numerals
    BY <1>2 DEF Numbering
  <2>2. ASSUME NEW k \in Under(f, <<p>>) PROVE k[Len(<<p>>) + 1] \in Seen(p)
    <3>1. k[Len(<<p>>) + 1] \in Parts(f, <<p>>)
      BY DEF Parts
    <3>2. k[Len(<<p>>) + 1] \in DOMAIN Numerals
      BY <1>1, <2>1, <3>1
    <3>3. IsSequence(<<p>>) /\ Len(<<p>>) = 1
      BY TuplesAreSequences
    <3>4. Len(k) > Len(<<p>>) + 1
      BY <1>1, <3>3
    <3> QED BY <3>2, <3>3, <3>4, IndexFacts
  <2>3. Parts(f, <<p>>) \subseteq Seen(p)
    <3> HIDE DEF Seen
    <3> QED BY <2>2 DEF Parts
  <2> QED BY <1>3, <2>3
<1>5. InOrder(Seen(p)) = number /\ DOMAIN number = DOMAIN entries
  BY <1>1, <1>2, <1>4, NumbersInOrder
<1>6. used \subseteq {p}
  BY <1>1, <1>3
<1>7. ASSUME NEW i \in DOMAIN entries
      PROVE  EntryKept(Read(p, number[i]), entries[i], GaplessEntries(f), FALSE)
  <2> DEFINE gapless == Gapless(f, <<p, number[i], "MessageAttribute">>)
  <2>1. EntryKept(Read(p, number[i]), entries[i], gapless, FALSE)
    BY <1>1, EntryIsRead
  <2>2. number[i] \in Parts(f, <<p>>)
    BY <1>1
  <2>3. GaplessEntries(f) => gapless
    BY <2>2 DEF GaplessEntries
  <2>4. gapless \in BOOLEAN /\ GaplessEntries(f) \in BOOLEAN
    BY GaplessIsBoolean
  <2> HIDE DEF gapless, Read
  <2>5. TypedKept(Read(p, number[i]).msgAttrs, entries[i].msgAttrs, gapless)
    BY <2>1 DEF EntryKept, TablesKept
  <2>6. TypedKept(Read(p, number[i]).msgAttrs, entries[i].msgAttrs, GaplessEntries(f))
    BY <2>3, <2>4, <2>5, KeptAnyway
  <2> QED BY <2>1, <2>6 DEF EntryKept, TablesKept
<1>8. ParseBatchEntries(f) =
        IF used = {} THEN <<>>
        ELSE [j \in DOMAIN InOrder(Seen(first)) |-> Read(first, InOrder(Seen(first))[j])]
  BY DEF ParseBatchEntries
<1> HIDE DEF Read, Seen
<1>9. CASE used = {}
  <2>1. Seen(p) = {}
    BY <1>1, <1>9
  <2>2. DOMAIN entries = {}
    <3>1. Parts(f, <<p>>) = {number[i] : i \in DOMAIN entries}
      BY <1>1
    <3>2. {number[i] : i \in DOMAIN entries} = {}
      BY <1>4, <2>1, <3>1
    <3> QED BY <3>2
  <2> QED BY <1>8, <1>9, <2>2
<1>10. CASE used # {}
  <2>1. first = p
    BY <1>6, <1>10
  <2>2. ParseBatchEntries(f) = [j \in DOMAIN number |-> Read(p, number[j])]
    BY <1>5, <1>8, <1>10, <2>1
  <2> HIDE DEF q
  <2>3. q = [j \in DOMAIN number |-> Read(p, number[j])]
    BY <2>2 DEF q
  <2>4. DOMAIN q = DOMAIN entries /\ \A i \in DOMAIN entries : q[i] = Read(p, number[i])
    BY <1>5, <2>3
  <2>5. \A i \in DOMAIN entries : EntryKept(q[i], entries[i], GaplessEntries(f), FALSE)
    <3>1. \A i \in DOMAIN entries : EntryKept(Read(p, number[i]), entries[i], GaplessEntries(f), FALSE)
      BY <1>7
    <3> QED BY <2>4, <3>1, Zenon
  <2> QED BY <2>4, <2>5 DEF q
<1> QED BY <1>9, <1>10

\* What a form says is what the server reads: the attributes of a queue where the
\* action uses them, those of messages up to a gap, and the system attributes of
\* entries nowhere.
LEMMA FormIsRead ==
  ASSUME NEW f, NEW m, FormSays(f, m)
  PROVE  FormKept(QueryRequest(f), m, f)
<1> DEFINE q == QueryRequest(f)
<1>1. IsForm(f)
  BY DEF FormSays
<1>2. q.action = m.action
  <2>1. PICK s \in {"Action", "action"} :
          Get(f, <<s>>) = m.action /\ \A other \in {"Action", "action"} \ {s} : Get(f, <<other>>) = ""
    BY DEF FormSays, SaysText
  <2>2. q.action = QueryAction(f)
    BY DEF QueryRequest
  <2> HIDE DEF q
  <2> QED BY <2>1, <2>2 DEF QueryAction
<1>3. \A x \in DOMAIN TextParams : GetParam(f, TextParams[x]) = m[x]
  BY TextIsRead DEF FormSays
<1>4. \A x \in DOMAIN NumberParams : GetInt(f, NumberParams[x].name, NumberParams[x].default) = m[x]
  BY NumberIsRead DEF FormSays
<1>5. /\ q.url = m.url /\ q.name = m.name /\ q.body = m.body /\ q.handle = m.handle /\ q.prefix = m.prefix
      /\ q.dedup = m.dedup /\ q.group = m.group /\ q.source = m.source /\ q.destination = m.destination
      /\ q.task = m.task
  BY <1>3 DEF TextParams, QueryRequest
<1>6. /\ q.delay = m.delay /\ q.visibility = m.visibility /\ q.max = m.max /\ q.wait = m.wait
      /\ q.rate = m.rate
  BY <1>4 DEF NumberParams, QueryRequest
<1>7. /\ TypedKept(ParseQueryAttrs(f, <<"MessageAttribute">>), m.msgAttrs, Gapless(f, <<"MessageAttribute">>))
      /\ TypedKept(ParseQueryAttrs(f, <<"MessageSystemAttribute">>), m.sysAttrs,
                   Gapless(f, <<"MessageSystemAttribute">>))
  BY <1>1, TuplesAreSequences, TypedIsRead DEF FormSays
<1>8. GetAttributeNames(f) = m.attrNames /\ GetMessageAttributeNames(f) = m.msgAttrNames
  BY <1>1, NamesAreRead DEF FormSays, GetAttributeNames, GetMessageAttributeNames
<1>9. GetTags(f) = m.tags /\ GetTagKeys(f) = m.tagKeys
  BY <1>1, TableIsRead, ListIsRead DEF FormSays, GetTags, GetTagKeys
<1>10. /\ DOMAIN ParseBatchEntries(f) = DOMAIN m.entries
       /\ \A i \in DOMAIN m.entries : EntryKept(ParseBatchEntries(f)[i], m.entries[i], GaplessEntries(f), FALSE)
  BY <1>1, EntriesAreRead DEF FormSays
<1>11. UsesAttributes(m.action) => ParseQueryAttributes(f) = m.attrs
  BY <1>1, AttributesAreRead DEF FormSays
<1>12. /\ q.msgAttrs = ParseQueryAttrs(f, <<"MessageAttribute">>)
       /\ q.sysAttrs = ParseQueryAttrs(f, <<"MessageSystemAttribute">>)
       /\ q.entries = ParseBatchEntries(f) /\ q.attrs = ParseQueryAttributes(f)
       /\ q.attrNames = m.attrNames /\ q.msgAttrNames = m.msgAttrNames
       /\ q.tags = m.tags /\ q.tagKeys = m.tagKeys
  BY <1>8, <1>9 DEF QueryRequest
<1> HIDE DEF q
<1>13. FieldsKept(q, m)
  <2>1. ASSUME NEW x \in MeaningFields \ {"attrs", "msgAttrs", "sysAttrs", "entries"} PROVE q[x] = m[x]
    BY <1>2, <1>5, <1>6, <1>12 DEF MeaningFields, TextParams, NumberParams
  <2>2. UsesAttributes(m.action) => q.attrs = m.attrs
    BY <1>11, <1>12
  <2> QED BY <2>1, <2>2 DEF FieldsKept
<1>14. TablesKept(q, m, Gapless(f, <<"MessageAttribute">>), Gapless(f, <<"MessageSystemAttribute">>))
  BY <1>7, <1>12 DEF TablesKept
<1>15. EntriesKept(q, m, GaplessEntries(f), FALSE)
  BY <1>10, <1>12 DEF EntriesKept
<1> QED BY <1>13, <1>14, <1>15 DEF FormKept, q

\* The fields of an object are read as they were said.
LEMMA FieldsAreRead ==
  ASSUME NEW o, NEW n
  PROVE  /\ \A text : HasText(o, n, text) => Text(o, n) = text
         /\ \A number : HasNumber(o, n, number, 0) => Number(o, n) = number
         /\ \A number, default : HasNumber(o, n, number, default) => IntOr(o, n, default) = number
<1>1. ASSUME NEW text, HasText(o, n, text) PROVE Text(o, n) = text
  <2>1. CASE n \in DOMAIN o
    <3>1. o[n] = [text |-> text]
      BY <1>1, <2>1 DEF HasText
    <3>2. "text" \in DOMAIN o[n] /\ o[n].text = text
      BY <3>1
    <3> QED BY <2>1, <3>2 DEF Text, IsText
  <2>2. CASE n \notin DOMAIN o
    <3>1. text = ""
      BY <1>1, <2>2 DEF HasText
    <3> QED BY <2>2, <3>1 DEF Text
  <2> QED BY <2>1, <2>2
<1>2. ASSUME NEW number, NEW default, HasNumber(o, n, number, default)
      PROVE  IntOr(o, n, default) = number /\ (default = 0 => Number(o, n) = number)
  BY <1>2 DEF HasNumber, IntOr, Number
<1> QED BY <1>1, <1>2

\* So are a list of texts,
LEMMA TextsAreRead ==
  ASSUME NEW o, NEW n, NEW texts, HasTexts(o, n, texts)
  PROVE  Texts(o, n) = texts
<1> DEFINE l == List(o, n)
           J == {i \in DOMAIN l : IsText(l[i])}
           read == ElementsAt(l, J)
<1>1. Texts(o, n) = [i \in DOMAIN read |-> read[i].text]
  BY DEF Texts
<1>2. IsSequence(texts) /\ l = [i \in DOMAIN texts |-> [text |-> texts[i]]]
  <2>1. CASE n \in DOMAIN o
    <3>1. IsSequence(texts) /\ o[n] = [list |-> [i \in DOMAIN texts |-> [text |-> texts[i]]]]
      BY <2>1 DEF HasTexts
    <3> QED BY <2>1, <3>1 DEF List
  <2>2. CASE n \notin DOMAIN o
    <3>1. texts = <<>> /\ l = <<>>
      BY <2>2 DEF HasTexts, List
    <3>2. <<>> = [i \in DOMAIN <<>> |-> [text |-> <<>>[i]]]
      OBVIOUS
    <3>3. IsSequence(<<>>)
      BY DEF IsSequence
    <3> QED BY <3>1, <3>2, <3>3
  <2> QED BY <2>1, <2>2
<1>3. IsSequence(l) /\ J = DOMAIN l
  <2>1. Len(texts) \in Nat /\ DOMAIN texts = 1..Len(texts)
    BY <1>2, SequenceFacts
  <2>2. DOMAIN l = 1..Len(texts) /\ \A i \in DOMAIN l : IsText(l[i])
    BY <1>2, <2>1 DEF IsText
  <2>3. l = [i \in 1..Len(texts) |-> l[i]]
    BY <1>2, <2>1
  <2> HIDE DEF l
  <2>4. IsSequence(l)
    BY <2>1, <2>2, <2>3 DEF IsSequence
  <2> QED BY <2>2, <2>4
<1>4. read = l
  <2> HIDE DEF l, J
  <2> QED BY <1>3, AllElements
<1> HIDE DEF read, l
<1>5. DOMAIN l = DOMAIN texts /\ \A i \in DOMAIN texts : l[i].text = texts[i]
  BY <1>2
<1>6. texts = [i \in DOMAIN texts |-> texts[i]]
  <2>1. DOMAIN texts = 1..Len(texts) /\ texts = [i \in 1..Len(texts) |-> texts[i]]
    BY <1>2, SequenceFacts
  <2> QED BY <2>1
<1> QED BY <1>1, <1>4, <1>5, <1>6

\* a table of texts
LEMMA TextMapIsRead ==
  ASSUME NEW o, NEW n, NEW table, HasTextMap(o, n, table)
  PROVE  TextMap(o, n) = table
<1> DEFINE m == Map(o, n)
<1>1. TextMap(o, n) = [k \in {k \in DOMAIN m : IsText(m[k])} |-> m[k].text]
  BY DEF TextMap
<1>2. IsTable(table) /\ m = [k \in DOMAIN table |-> [text |-> table[k]]]
  <2>1. CASE n \in DOMAIN o
    <3>1. IsTable(table) /\ o[n] = [map |-> [k \in DOMAIN table |-> [text |-> table[k]]]]
      BY <2>1 DEF HasTextMap
    <3> QED BY <2>1, <3>1 DEF Map, IsMap
  <2>2. CASE n \notin DOMAIN o
    <3>1. table = <<>> /\ m = <<>>
      BY <2>2 DEF HasTextMap, Map
    <3>2. <<>> = [k \in DOMAIN <<>> |-> [text |-> <<>>[k]]]
      OBVIOUS
    <3>3. IsTable(<<>>)
      BY DEF IsTable
    <3> QED BY <3>1, <3>2, <3>3
  <2> QED BY <2>1, <2>2
<1> HIDE DEF m
<1>3. {k \in DOMAIN m : IsText(m[k])} = DOMAIN table /\ \A k \in DOMAIN table : m[k].text = table[k]
  BY <1>2 DEF IsText
<1> QED BY <1>1, <1>2, <1>3 DEF IsTable

\* and one of typed values.
LEMMA TypedMapIsRead ==
  ASSUME NEW o, NEW n, NEW table, HasTyped(o, n, table)
  PROVE  TypedKept(ParseAttrsFromMap(Map(o, n)), table, TRUE)
<1> DEFINE m == Map(o, n)
           Read(k) == [type |-> Text(m[k].map, "DataType"), text |-> Text(m[k].map, "StringValue"),
                       binary |-> Decoded(Text(m[k].map, "BinaryValue"))]
<1>1. ParseAttrsFromMap(m) = [k \in {k \in DOMAIN m : IsMap(m[k])} |-> Read(k)]
  BY DEF ParseAttrsFromMap
<1>2. CASE n \in DOMAIN o
  <2>1. /\ IsTable(table) /\ "map" \in DOMAIN o[n] /\ DOMAIN o[n].map = DOMAIN table
        /\ \A k \in DOMAIN table :
             /\ IsAttribute(table[k]) /\ "map" \in DOMAIN o[n].map[k]
             /\ HasText(o[n].map[k].map, "DataType", table[k].type)
             /\ HasText(o[n].map[k].map, "StringValue", table[k].text)
             /\ HasText(o[n].map[k].map, "BinaryValue", table[k].binary)
    BY <1>2 DEF HasTyped
  <2>2. m = o[n].map
    BY <1>2, <2>1 DEF Map, IsMap
  <2> HIDE DEF m
  <2>3. {k \in DOMAIN m : IsMap(m[k])} = DOMAIN table
    BY <2>1, <2>2 DEF IsMap
  <2>4. ASSUME NEW k \in DOMAIN table PROVE Read(k) = [table[k] EXCEPT !.binary = Decoded(@)]
    <3>1. /\ Text(m[k].map, "DataType") = table[k].type /\ Text(m[k].map, "StringValue") = table[k].text
          /\ Text(m[k].map, "BinaryValue") = table[k].binary
      BY <2>1, <2>2, FieldsAreRead
    <3>2. HasFields(table[k], {"type", "text", "binary"})
      BY <2>1 DEF IsAttribute
    <3>3. [table[k] EXCEPT !.binary = Decoded(@)]
            = [type |-> table[k].type, text |-> table[k].text, binary |-> Decoded(table[k].binary)]
      BY <3>2, DecodedAttribute
    <3>4. Read(k) = [type |-> table[k].type, text |-> table[k].text, binary |-> Decoded(table[k].binary)]
      BY <3>1
    <3> HIDE DEF Read
    <3> QED BY <3>3, <3>4, Zenon
  <2> HIDE DEF Read
  <2>5. PICK q : q = ParseAttrsFromMap(m)
    OBVIOUS
  <2>6. DOMAIN q = DOMAIN table /\ \A k \in DOMAIN q : q[k] = Read(k)
    BY <1>1, <2>3, <2>5
  <2>7. TypedKept(q, table, TRUE)
    BY <2>4, <2>6 DEF TypedKept
  <2> QED BY <2>5, <2>7 DEF m
<1>3. CASE n \notin DOMAIN o
  <2>1. table = <<>> /\ m = <<>>
    BY <1>3 DEF HasTyped, Map
  <2>2. {k \in DOMAIN m : IsMap(m[k])} = {}
    BY <2>1
  <2> HIDE DEF Read
  <2>3. [k \in {} |-> Read(k)] = <<>>
    OBVIOUS
  <2>4. ParseAttrsFromMap(m) = <<>>
    BY <1>1, <2>2, <2>3
  <2>5. TypedKept(<<>>, table, TRUE)
    BY <2>1 DEF TypedKept
  <2> HIDE DEF m
  <2>6. TypedKept(ParseAttrsFromMap(m), table, TRUE)
    BY <2>4, <2>5
  <2> QED BY <2>6 DEF m
<1> QED BY <1>2, <1>3

\* The entries of a batch are read as they were said, but for the attributes of
\* messages.
LEMMA ObjectEntriesAreRead ==
  ASSUME NEW o, NEW entries, HasEntries(o, entries)
  PROVE  LET q == JSONBatchEntries(o) IN
         /\ DOMAIN q = DOMAIN entries
         /\ \A i \in DOMAIN entries : EntryKept(q[i], entries[i], FALSE, TRUE)
<1> DEFINE l == List(o, "Entries")
           maps == ElementsAt(l, {i \in DOMAIN l : IsMap(l[i])})
           Read(m) ==
             [id |-> Text(m, "Id"), body |-> Text(m, "MessageBody"), delay |-> Number(m, "DelaySeconds"),
              visibility |-> Number(m, "VisibilityTimeout"), handle |-> Text(m, "ReceiptHandle"),
              dedup |-> Text(m, "MessageDeduplicationId"), group |-> Text(m, "MessageGroupId"),
              msgAttrs |-> <<>>, sysAttrs |-> ParseAttrsFromMap(Map(m, "MessageSystemAttributes"))]
           q == JSONBatchEntries(o)
<1>1. JSONBatchEntries(o) = [i \in DOMAIN maps |-> Read(maps[i].map)]
  BY DEF JSONBatchEntries
<1>2. ASSUME NEW m, NEW e, HasEntry(m, e) PROVE EntryKept(Read(m), e, FALSE, TRUE)
  <2>1. /\ HasFields(e, EntryFields)
        /\ \A x \in DOMAIN EntryTexts : HasText(m, EntryTexts[x], e[x])
        /\ \A x \in DOMAIN EntryNumbers : HasNumber(m, EntryNumbers[x], e[x], 0)
        /\ HasTyped(m, "MessageSystemAttributes", e.sysAttrs)
    BY <1>2 DEF HasEntry
  <2>2. \A x \in DOMAIN EntryTexts : Text(m, EntryTexts[x]) = e[x]
    BY <2>1, FieldsAreRead
  <2>3. /\ Text(m, "Id") = e.id /\ Text(m, "MessageBody") = e.body /\ Text(m, "ReceiptHandle") = e.handle
        /\ Text(m, "MessageDeduplicationId") = e.dedup /\ Text(m, "MessageGroupId") = e.group
    BY <2>2 DEF EntryTexts
  <2>4. \A x \in DOMAIN EntryNumbers : Number(m, EntryNumbers[x]) = e[x]
    BY <2>1, FieldsAreRead
  <2>5. Number(m, "DelaySeconds") = e.delay /\ Number(m, "VisibilityTimeout") = e.visibility
    BY <2>4 DEF EntryNumbers
  <2>6. TypedKept(ParseAttrsFromMap(Map(m, "MessageSystemAttributes")), e.sysAttrs, TRUE)
    BY <2>1, TypedMapIsRead
  <2>7. EntryFields \ {"msgAttrs", "sysAttrs"} = {"id", "body", "handle", "dedup", "group", "delay", "visibility"}
    BY DEF EntryFields, EntryTexts, EntryNumbers
  <2>8. \A x \in {"id", "body", "handle", "dedup", "group", "delay", "visibility"} : Read(m)[x] = e[x]
    BY <2>3, <2>5
  <2>9. TypedKept(Read(m).msgAttrs, e.msgAttrs, FALSE) /\ TypedKept(Read(m).sysAttrs, e.sysAttrs, TRUE)
    BY <2>6, NothingKept
  <2> HIDE DEF Read
  <2> QED BY <2>7, <2>8, <2>9 DEF EntryKept, TablesKept
<1>3. CASE "Entries" \in DOMAIN o
  <2>1. /\ IsSequence(entries) /\ "list" \in DOMAIN o["Entries"] /\ IsSequence(o["Entries"].list)
        /\ Len(o["Entries"].list) = Len(entries)
        /\ \A i \in DOMAIN entries : "map" \in DOMAIN o["Entries"].list[i]
                                     /\ HasEntry(o["Entries"].list[i].map, entries[i])
    BY <1>3 DEF HasEntries
  <2>2. l = o["Entries"].list
    BY <1>3, <2>1 DEF List
  <2> HIDE DEF l
  <2>3. /\ IsSequence(l) /\ DOMAIN l = DOMAIN entries
        /\ \A i \in DOMAIN entries : IsMap(l[i]) /\ HasEntry(l[i].map, entries[i])
    BY <2>1, <2>2, SequenceFacts DEF IsMap
  <2>4. {i \in DOMAIN l : IsMap(l[i])} = DOMAIN l
    BY <2>3
  <2>5. maps = l
    BY <2>3, <2>4, AllElements
  <2> HIDE DEF maps, Read, q
  <2>6. DOMAIN q = DOMAIN entries /\ \A i \in DOMAIN entries : q[i] = Read(l[i].map)
    BY <1>1, <2>3, <2>5 DEF q
  <2>7. \A i \in DOMAIN entries : EntryKept(Read(l[i].map), entries[i], FALSE, TRUE)
    BY <1>2, <2>3
  <2>8. \A i \in DOMAIN entries : EntryKept(q[i], entries[i], FALSE, TRUE)
    BY <2>6, <2>7, Zenon
  <2> QED BY <2>6, <2>8 DEF q
<1>4. CASE "Entries" \notin DOMAIN o
  <2>1. entries = <<>> /\ l = <<>>
    BY <1>4 DEF HasEntries, List
  <2>2. {i \in DOMAIN l : IsMap(l[i])} = DOMAIN l /\ IsSequence(l) /\ DOMAIN l = {}
    <3>1. IsSequence(<<>>)
      BY DEF IsSequence
    <3>2. DOMAIN l = {}
      BY <2>1
    <3> HIDE DEF l
    <3> QED BY <2>1, <3>1, <3>2
  <2>3. maps = l
    <3> HIDE DEF l
    <3> QED BY <2>2, AllElements
  <2>4. DOMAIN maps = {} /\ DOMAIN entries = {}
    BY <2>1, <2>2, <2>3
  <2> HIDE DEF maps, Read
  <2> QED BY <1>1, <2>4
<1> QED BY <1>3, <1>4

\* What an object says is what the server reads, the action aside.
LEMMA ObjectIsRead ==
  ASSUME NEW target, NEW o, NEW m, ObjectSays(o, m), m.action = JSONRequest(target, o).action
  PROVE  ObjectKept(JSONRequest(target, o), m)
<1> DEFINE q == JSONRequest(target, o)
<1>1. q.action = m.action
  OBVIOUS
<1>2. \A x \in DOMAIN TextParams : Text(o, TextParams[x]) = m[x]
  BY FieldsAreRead DEF ObjectSays
<1>3. \A x \in DOMAIN NumberParams : HasNumber(o, NumberParams[x].name, m[x], NumberParams[x].default)
  BY DEF ObjectSays
<1>4. \A x \in DOMAIN NumberParams : IntOr(o, NumberParams[x].name, NumberParams[x].default) = m[x]
  BY <1>3, FieldsAreRead
<1>5. Number(o, "DelaySeconds") = m.delay /\ Number(o, "MaxNumberOfMessagesPerSecond") = m.rate
  <2>1. HasNumber(o, "DelaySeconds", m.delay, 0) /\ HasNumber(o, "MaxNumberOfMessagesPerSecond", m.rate, 0)
    BY <1>3 DEF NumberParams
  <2> QED BY <2>1, FieldsAreRead
<1>6. /\ q.url = m.url /\ q.name = m.name /\ q.body = m.body /\ q.handle = m.handle /\ q.prefix = m.prefix
      /\ q.dedup = m.dedup /\ q.group = m.group /\ q.source = m.source /\ q.destination = m.destination
      /\ q.task = m.task
  BY <1>2 DEF TextParams, JSONRequest
<1>7. /\ q.delay = m.delay /\ q.visibility = m.visibility /\ q.max = m.max /\ q.wait = m.wait
      /\ q.rate = m.rate
  BY <1>4, <1>5 DEF NumberParams, JSONRequest
<1>8. /\ TextMap(o, "Attributes") = m.attrs /\ TextMap(o, "Tags") = m.tags
      /\ Texts(o, "AttributeNames") = m.attrNames /\ Texts(o, "TagKeys") = m.tagKeys
      /\ Texts(o, "MessageAttributeNames") = m.msgAttrNames
      /\ TypedKept(ParseAttrsFromMap(Map(o, "MessageAttributes")), m.msgAttrs, TRUE)
      /\ TypedKept(ParseAttrsFromMap(Map(o, "MessageSystemAttributes")), m.sysAttrs, TRUE)
  BY TextMapIsRead, TextsAreRead, TypedMapIsRead DEF ObjectSays
<1>9. /\ DOMAIN JSONBatchEntries(o) = DOMAIN m.entries
      /\ \A i \in DOMAIN m.entries : EntryKept(JSONBatchEntries(o)[i], m.entries[i], FALSE, TRUE)
  BY ObjectEntriesAreRead DEF ObjectSays
<1>10. /\ q.attrs = m.attrs /\ q.tags = m.tags /\ q.attrNames = m.attrNames /\ q.tagKeys = m.tagKeys
       /\ q.msgAttrNames = m.msgAttrNames
       /\ q.msgAttrs = ParseAttrsFromMap(Map(o, "MessageAttributes"))
       /\ q.sysAttrs = ParseAttrsFromMap(Map(o, "MessageSystemAttributes"))
       /\ q.entries = JSONBatchEntries(o)
  BY <1>8 DEF JSONRequest
<1> HIDE DEF q
<1>11. FieldsKept(q, m)
  <2>1. ASSUME NEW x \in MeaningFields \ {"msgAttrs", "sysAttrs", "entries"} PROVE q[x] = m[x]
    BY <1>1, <1>6, <1>7, <1>10 DEF MeaningFields, TextParams, NumberParams
  <2> QED BY <2>1 DEF FieldsKept
<1>12. TablesKept(q, m, TRUE, TRUE)
  BY <1>8, <1>10 DEF TablesKept
<1>13. EntriesKept(q, m, FALSE, TRUE)
  BY <1>9, <1>10 DEF EntriesKept
<1> QED BY <1>11, <1>12, <1>13 DEF ObjectKept, q
================================================================================
