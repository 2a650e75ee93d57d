------------------------------ MODULE FrontProofs ------------------------------
(***************************************************************************)
(* Theorems about Front, for all constants satisfying its assumptions: any *)
(* number of goroutines, queues, buckets, credentials and starts, and any  *)
(* configurations and requests.                                            *)
(***************************************************************************)
EXTENDS Front, FrontLemmas

ErrorAnswers ==
  [action : {"error"}, code : Errors \cup {"InternalError", "InvalidParameterValue"}]

HandlerAnswers == UNION {Answers[a] : a \in DOMAIN Answers}

CallRecord ==
  [at : {"idle", "auth", "limit", "allow", "handle", "write"},
   req : {None} \cup {Requests[r] : r \in DOMAIN Requests},
   bucket : Nat, cred : Nat, gone : SUBSET Nat,
   answer : {None} \cup HandlerAnswers \cup ErrorAnswers]

\* A request that is served was sent, and holds a bucket of its queue and a
\* credential that was there after it came.
CallOK(c) ==
  /\ c.at # "idle" => \E r \in DOMAIN Requests : c.req = Requests[r]
  /\ c.at = "auth" => c.cred = 0
  /\ c.at = "allow" => /\ LimiterName(c.req) \in Limited /\ c.bucket \in DOMAIN buckets
                       /\ buckets[c.bucket].of = LimiterName(c.req)
  /\ c.at \in {"limit", "allow", "handle"} => c.cred \notin c.gone
  /\ c.gone \subseteq revoked

CallsInv ==
  /\ setup \in Setups
  /\ call \in [Procs -> CallRecord]
  /\ \A p \in Procs : CallOK(call[p])

FrontInv == CredInv /\ LimiterInv /\ CallsInv

\* What the calls rest on when they are not all dropped.
Around ==
  /\ setup' = setup /\ revoked \subseteq revoked'
  /\ \A b \in DOMAIN buckets : b \in DOMAIN buckets' /\ buckets'[b].of = buckets[b].of

LEMMA IdleOK == Idle \in CallRecord /\ (Idle.at = "idle" /\ Idle.gone = {})
BY DEF Idle, CallRecord, None

\* A call that goes on stays as it should be, whatever the others do.
LEMMA CallStays ==
  ASSUME Around, NEW c, CallOK(c)
  PROVE  CallOK(c)'
BY DEF CallOK, Around, LimiterName, Limit

LEMMA CallsSame ==
  ASSUME CallsInv, Around, call' = call
  PROVE  CallsInv'
<1>1. \A p \in Procs : CallOK(call[p])'
  <2>1. ASSUME NEW p \in Procs
        PROVE  CallOK(call[p])'
    <3>1. PICK c : c = call[p]
      OBVIOUS
    <3>2. CallOK(c)'
      BY <3>1, CallStays DEF CallsInv
    <3>3. call'[p] = c
      BY <3>1
    <3> QED BY <3>2, <3>3 DEF CallOK, LimiterName, Limit
  <2> QED BY <2>1
<1> QED BY <1>1 DEF CallsInv, Around

\* One call goes on.
LEMMA CallGoesOn ==
  ASSUME CallsInv, Around, NEW p \in Procs, NEW c \in CallRecord, CallOK(c)',
         call' = [call EXCEPT ![p] = c]
  PROVE  CallsInv'
<1>1. call' \in [Procs -> CallRecord] /\ call'[p] = c /\ \A q \in Procs : q # p => call'[q] = call[q]
  BY DEF CallsInv
<1>2. ASSUME NEW q \in Procs
      PROVE  CallOK(call[q])'
  <2>1. CASE q = p
    <3>1. call'[q] = c
      BY <1>1, <2>1
    <3> QED BY <3>1 DEF CallOK, LimiterName, Limit
  <2>2. CASE q # p
    <3>1. PICK d : d = call[q]
      OBVIOUS
    <3>2. CallOK(d)'
      BY <3>1, CallStays DEF CallsInv
    <3>3. call'[q] = d
      BY <1>1, <2>2, <3>1
    <3> QED BY <3>2, <3>3 DEF CallOK, LimiterName, Limit
  <2> QED BY <2>1, <2>2
<1> QED BY <1>1, <1>2 DEF CallsInv, Around

\* A call that is answered leaves nothing behind.
LEMMA ReplyKeeps ==
  ASSUME CallsInv, Around, NEW p \in Procs, Reply(p)
  PROVE  CallsInv'
<1>1. PICK c : c = Idle
  OBVIOUS
<1>2. c \in CallRecord /\ c.at = "idle" /\ c.gone = {}
  BY <1>1, IdleOK
<1>3. CallOK(c)'
  BY <1>2 DEF CallOK
<1>4. call' = [call EXCEPT ![p] = c]
  BY <1>1 DEF Reply
<1> QED BY <1>2, <1>3, <1>4, CallGoesOn

\* The steps that leave credentials and buckets alone, or change them in the
\* allowed ways.
LEMMA AroundFacts ==
  ASSUME LimiterInv, CredStep, LimiterStep, setup' = setup
  PROVE  Around
BY BucketsStay, RevokedGrows DEF Around

LEMMA StepKeeps ==
  ASSUME FrontInv, CredStep, LimiterStep, CallsInv'
  PROVE  FrontInv'
BY CredStepKeeps, LimiterStepKeeps DEF FrontInv

\* A step of one request that changes neither credentials nor buckets.
LEMMA Alone ==
  ASSUME FrontInv, UNCHANGED <<credVars, limiterVars, setup>>
  PROVE  Around /\ CredStep /\ LimiterStep
<1>1. CredStep /\ LimiterStep
  BY DEF credVars, CredStep, LookedUp, LimiterStep
<1> QED BY <1>1, AroundFacts DEF FrontInv

LEMMA BeginKeeps ==
  ASSUME FrontInv, NEW p \in Procs, NEW r \in setup.requests, Begin(p, r)
  PROVE  FrontInv'
<1>1. /\ call' = [call EXCEPT ![p] = [Idle EXCEPT !.at = "auth", !.req = Requests[r], !.gone = revoked]]
      /\ UNCHANGED <<credVars, limiterVars, setup>>
  BY DEF Begin
<1>2. r \in DOMAIN Requests /\ revoked \in SUBSET Nat
  BY FrontAssumption DEF FrontInv, CallsInv, CredInv, IdsInv
<1>3. PICK c : c = [Idle EXCEPT !.at = "auth", !.req = Requests[r], !.gone = revoked]
  OBVIOUS
<1>4. c = [at |-> "auth", req |-> Requests[r], bucket |-> 0, cred |-> 0, gone |-> revoked, answer |-> None]
  BY <1>3 DEF Idle
<1>5. c \in CallRecord
  BY <1>2, <1>4 DEF CallRecord
<1>6. revoked' = revoked
  BY <1>1 DEF credVars
<1>7. CallOK(c)'
  BY <1>2, <1>4, <1>6 DEF CallOK
<1>8. CallsInv'
  BY <1>1, <1>3, <1>5, <1>7, CallGoesOn, Alone DEF FrontInv
<1> QED BY <1>1, <1>8, Alone, StepKeeps

\* A request that moves on with its place alone changed.
LEMMA GotoKeeps ==
  ASSUME FrontInv, NEW p \in Procs, NEW at \in {"limit", "handle"}, Goto(p, at), Around,
         call[p].at # "idle", call[p].cred \notin call[p].gone
  PROVE  CallsInv'
<1>1. call[p] \in CallRecord /\ CallOK(call[p])
  BY DEF FrontInv, CallsInv
<1>2. PICK c : c = [call[p] EXCEPT !.at = at]
  OBVIOUS
<1>3. call' = [call EXCEPT ![p] = c]
  BY <1>2 DEF Goto
<1>4. /\ c \in CallRecord /\ c.at = at /\ c.req = call[p].req
      /\ c.cred = call[p].cred /\ c.gone = call[p].gone
  BY <1>1, <1>2 DEF CallRecord
<1>5. CallOK(c)'
  BY <1>1, <1>4 DEF CallOK, Around
<1> QED BY <1>3, <1>4, <1>5, CallGoesOn DEF FrontInv

\* A credential that lets a request through is there, and so was not deleted.
LEMMA AuthenticateKeeps ==
  ASSUME FrontInv, NEW p \in Procs, Authenticate(p)
  PROVE  FrontInv'
<1>1. CredStep /\ LimiterStep /\ setup' = setup
  BY DEF Authenticate, CredStep, LookedUp, LimiterStep
<1>2. Around
  BY <1>1, AroundFacts DEF FrontInv
<1>3. PICK d \in Lookup(AccessKey(R(p))) :
        \/ call' = [call EXCEPT ![p].at = "limit", ![p].cred = d.id]
        \/ Reply(p)
  BY Zenon DEF Authenticate
<1>4. CASE call' = [call EXCEPT ![p].at = "limit", ![p].cred = d.id]
  <2>1. d = Missing \/ d \in creds
    <3>1. d = Missing \/ d \in GetByAccessKeyID(AccessKey(R(p)))
      BY <1>3, Zenon DEF Lookup
    <3> QED BY <3>1, LookupFacts DEF FrontInv, WithKey
  <2>2. d.id \in Nat /\ d.id \notin revoked
    <3>1. Missing.id = 0
      BY DEF Missing
    <3>2. 0 \notin revoked
      BY DEF FrontInv, CredInv, IdsInv
    <3> QED BY <2>1, <3>1, <3>2 DEF FrontInv, CredInv, IdsInv
  <2>3. call[p] \in CallRecord /\ CallOK(call[p]) /\ call[p].at = "auth"
    BY DEF FrontInv, CallsInv, Authenticate, At
  <2>4. PICK c : c = [call[p] EXCEPT !.at = "limit", !.cred = d.id]
    OBVIOUS
  <2>5. call' = [call EXCEPT ![p] = c]
    BY <1>4, <2>4 DEF FrontInv, CallsInv
  <2>6. /\ c \in CallRecord /\ c.at = "limit" /\ c.req = call[p].req
        /\ c.cred = d.id /\ c.gone = call[p].gone
    BY <2>2, <2>3, <2>4 DEF CallRecord
  <2>7. CallOK(c)'
    BY <1>2, <2>2, <2>3, <2>6 DEF CallOK, Around
  <2>8. CallsInv'
    BY <1>2, <2>5, <2>6, <2>7, CallGoesOn DEF FrontInv
  <2> QED BY <1>1, <2>8, StepKeeps
<1>5. CASE Reply(p)
  BY <1>1, <1>2, <1>5, ReplyKeeps, StepKeeps DEF FrontInv
<1> QED BY <1>3, <1>4, <1>5

\* Of a request that is served, its place and what goes with it.
LEMMA CallFacts ==
  ASSUME FrontInv, NEW p \in Procs
  PROVE  /\ call[p] \in CallRecord /\ CallOK(call[p])
         /\ At(p, "auth") => call[p].cred \notin call[p].gone
         /\ ~At(p, "idle") => LimiterName(R(p)) \in Limited \cup {NoQueue}
<1>1. call[p] \in CallRecord /\ CallOK(call[p])
  BY DEF FrontInv, CallsInv
<1>2. 0 \notin revoked
  BY DEF FrontInv, CredInv, IdsInv
<1>3. At(p, "auth") => call[p].cred \notin call[p].gone
  BY <1>1, <1>2 DEF CallOK, At
<1>4. ASSUME ~At(p, "idle") PROVE LimiterName(R(p)) \in Limited \cup {NoQueue}
  <2>1. PICK r \in DOMAIN Requests : R(p) = Requests[r]
    BY <1>1, <1>4 DEF CallOK, At, R
  <2>2. ExtractQueueName(R(p).path) \in Limited \cup {NoQueue} /\ Shared \in Limited
    BY <2>1, FrontAssumption, RateLimiterAssumption
  <2> QED BY <2>2 DEF LimiterName
<1> QED BY <1>1, <1>3, <1>4

LEMMA SkipAuthKeeps ==
  ASSUME FrontInv, NEW p \in Procs, SkipAuth(p)
  PROVE  FrontInv'
<1>1. /\ Goto(p, "limit") /\ At(p, "auth") /\ UNCHANGED <<credVars, limiterVars, setup>>
  BY DEF SkipAuth
<1>2. CallsInv'
  BY <1>1, Alone, GotoKeeps, CallFacts DEF At
<1> QED BY <1>1, <1>2, Alone, StepKeeps

LEMMA PassLimiterKeeps ==
  ASSUME FrontInv, NEW p \in Procs, PassLimiter(p)
  PROVE  FrontInv'
<1>1. /\ Goto(p, "handle") /\ At(p, "limit") /\ UNCHANGED <<credVars, limiterVars, setup>>
  BY DEF PassLimiter
<1>2. CallsInv'
  BY <1>1, Alone, GotoKeeps, CallFacts DEF At, CallOK
<1> QED BY <1>1, <1>2, Alone, StepKeeps

\* The bucket that a request takes out of the map is the one of its queue.
LEMMA TakeLimiterKeeps ==
  ASSUME FrontInv, NEW p \in Procs, TakeLimiter(p)
  PROVE  FrontInv'
<1>1. /\ At(p, "limit") /\ LimiterName(R(p)) # NoQueue /\ setup' = setup
      /\ CredStep
  BY DEF TakeLimiter, credVars, CredStep, LookedUp
<1>2. PICK b \in 1..MaxBuckets :
        /\ GetLimiter(LimiterName(R(p)), b)
        /\ call' = [call EXCEPT ![p].at = "allow", ![p].bucket = b]
  BY DEF TakeLimiter
<1>3. LimiterName(R(p)) \in Limited /\ b \in Nat
  BY <1>1, CallFacts, RateLimiterAssumption DEF At
<1>4. LimiterStep
  BY <1>2, <1>3 DEF LimiterStep
<1>5. Around /\ LimiterInv'
  BY <1>1, <1>4, AroundFacts, LimiterStepKeeps DEF FrontInv
<1>6. limiters'[LimiterName(R(p))] = b /\ b # 0
  <2>1. limiters \in [Limited -> Nat] /\ Len(buckets) \in Nat
    BY BucketFacts DEF FrontInv, LimiterInv, LimiterType
  <2> QED BY <1>2, <1>3, <2>1 DEF GetLimiter, limiterVars
<1>7. b \in DOMAIN buckets' /\ buckets'[b].of = LimiterName(R(p))
  BY <1>3, <1>5, <1>6 DEF LimiterInv
<1>8. call[p] \in CallRecord /\ CallOK(call[p]) /\ call[p].at = "limit"
  BY <1>1, CallFacts DEF At
<1>9. PICK c : c = [call[p] EXCEPT !.at = "allow", !.bucket = b]
  OBVIOUS
<1>10. call' = [call EXCEPT ![p] = c]
  BY <1>2, <1>9 DEF FrontInv, CallsInv
<1>11. /\ c \in CallRecord /\ c.at = "allow" /\ c.req = R(p) /\ c.bucket = b
       /\ c.cred = call[p].cred /\ c.gone = call[p].gone
  BY <1>3, <1>8, <1>9 DEF CallRecord, R
<1>12. LimiterName(c.req)' = LimiterName(R(p))
  BY <1>1, <1>11 DEF LimiterName, Limit
<1>13. CallOK(c)'
  BY <1>3, <1>5, <1>7, <1>8, <1>11, <1>12 DEF CallOK, Around, R
<1>14. CallsInv'
  BY <1>5, <1>10, <1>11, <1>13, CallGoesOn DEF FrontInv
<1> QED BY <1>1, <1>4, <1>14, StepKeeps

LEMMA AllowKeeps ==
  ASSUME FrontInv, NEW p \in Procs, Allow(p)
  PROVE  FrontInv'
<1>1. /\ At(p, "allow") /\ Goto(p, "handle") /\ setup' = setup /\ CredStep
      /\ Take(LimiterName(R(p)), call[p].bucket)
  BY DEF Allow, credVars, CredStep, LookedUp
<1>2. LimiterStep
  BY <1>1, CallFacts DEF CallOK, At, R, LimiterStep
<1>3. Around
  BY <1>1, <1>2, AroundFacts DEF FrontInv
<1>4. CallsInv'
  BY <1>1, <1>3, GotoKeeps, CallFacts DEF At, CallOK
<1> QED BY <1>1, <1>2, <1>4, StepKeeps

LEMMA AnsweredKeeps ==
  ASSUME FrontInv, NEW p \in Procs, Refuse(p) \/ Write(p)
  PROVE  FrontInv'
<1>1. Reply(p) /\ UNCHANGED <<credVars, limiterVars, setup>>
  BY DEF Refuse, Write
<1>2. CallsInv'
  BY <1>1, Alone, ReplyKeeps DEF FrontInv
<1> QED BY <1>1, <1>2, Alone, StepKeeps

LEMMA HandleKeeps ==
  ASSUME FrontInv, NEW p \in Procs, Handle(p)
  PROVE  FrontInv'
<1>1. At(p, "handle") /\ UNCHANGED <<credVars, limiterVars, setup>>
  BY DEF Handle
<1>2. PICK a \in HandlerAnswers \cup ErrorAnswers : Answer(p, a)
  <2>1. CASE ~Readable(p)
    <3>1. \/ Answer(p, [action |-> "error", code |-> "InternalError"])
          \/ Answer(p, [action |-> "error", code |-> "InvalidParameterValue"])
      <4>1. CASE HandedBody(p).size > MaxBodySize
        BY <2>1, <4>1 DEF Handle
      <4>2. CASE ~(HandedBody(p).size > MaxBodySize)
        BY <2>1, <4>2 DEF Handle
      <4> QED BY <4>1, <4>2
    <3>2. \A e \in {"InternalError", "InvalidParameterValue"} : [action |-> "error", code |-> e] \in ErrorAnswers
      BY DEF ErrorAnswers
    <3> QED BY <3>1, <3>2
  <2>2. CASE Readable(p)
    <3>1. \/ Parsed(p).action \in DOMAIN Answers /\ \E a \in Answers[Parsed(p).action] : Answer(p, a)
          \/ \E e \in Errors : Answer(p, [action |-> "error", code |-> e])
      BY <2>2 DEF Handle
    <3>2. CASE \E e \in Errors : Answer(p, [action |-> "error", code |-> e])
      <4>1. PICK e \in Errors : Answer(p, [action |-> "error", code |-> e])
        BY <3>2
      <4>2. [action |-> "error", code |-> e] \in ErrorAnswers
        BY <4>1 DEF ErrorAnswers
      <4> QED BY <4>1, <4>2
    <3>3. CASE Parsed(p).action \in DOMAIN Answers /\ \E a \in Answers[Parsed(p).action] : Answer(p, a)
      BY <3>3 DEF HandlerAnswers
    <3> QED BY <3>1, <3>2, <3>3
  <2> QED BY <2>1, <2>2
<1>3. call[p] \in CallRecord /\ CallOK(call[p]) /\ call[p].at = "handle"
  BY <1>1, CallFacts DEF At
<1>4. PICK c : c = [call[p] EXCEPT !.at = "write", !.answer = a]
  OBVIOUS
<1>5. call' = [call EXCEPT ![p] = c]
  BY <1>2, <1>4 DEF Answer, FrontInv, CallsInv
<1>6. c \in CallRecord /\ c.at = "write" /\ c.req = call[p].req /\ c.gone = call[p].gone
  BY <1>2, <1>3, <1>4 DEF CallRecord
<1>7. revoked' = revoked
  BY <1>1 DEF credVars
<1>8. CallOK(c)'
  BY <1>3, <1>6, <1>7 DEF CallOK
<1>9. CallsInv'
  BY <1>1, <1>5, <1>6, <1>8, Alone, CallGoesOn DEF FrontInv
<1> QED BY <1>1, <1>9, Alone, StepKeeps

\* The process ends, and with it every call and every bucket.
LEMMA RestartKeeps ==
  ASSUME FrontInv, Restart
  PROVE  FrontInv'
<1>1. /\ Crash /\ LimiterReset /\ setup' = setup
      /\ call' = [p \in Procs |-> Idle]
  BY DEF Restart
<1>2. CredInv'
  BY <1>1, CredStepKeeps DEF FrontInv, CredStep
<1>3. LimiterInv'
  BY <1>1, LimiterAgain
<1>4. \A p \in Procs : CallOK(call[p])'
  BY <1>1, IdleOK DEF CallOK
<1>5. CallsInv'
  BY <1>1, <1>4, IdleOK DEF FrontInv, CallsInv
<1> QED BY <1>2, <1>3, <1>5 DEF FrontInv

\* Time, the cleanup, the start of the server and the web interface.
LEMMA OtherKeeps ==
  ASSUME FrontInv, Tick \/ CleanLimiters \/ (Manage /\ UNCHANGED frontVars) \/ UNCHANGED vars
  PROVE  FrontInv'
<1>1. CredStep /\ LimiterStep /\ setup' = setup /\ call' = call
  <2>1. CASE Tick
    BY <2>1 DEF Tick, credVars, CredStep, LookedUp, LimiterStep
  <2>2. CASE CleanLimiters
    BY <2>2 DEF CleanLimiters, credVars, CredStep, LookedUp, LimiterStep
  <2>3. CASE Manage /\ UNCHANGED frontVars
    BY <2>3 DEF Manage, frontVars, CredStep, LimiterStep
  <2>4. CASE UNCHANGED vars
    BY <2>4 DEF vars, credVars, CredStep, LookedUp, LimiterStep
  <2> QED BY <2>1, <2>2, <2>3, <2>4
<1>2. CallsInv'
  BY <1>1, AroundFacts, CallsSame DEF FrontInv
<1> QED BY <1>1, <1>2, StepKeeps

\* The invariant on which the theorems rest.
LEMMA FrontInvariant == Spec => []FrontInv
<1>1. Init => FrontInv
  <2> SUFFICES ASSUME Init PROVE FrontInv
    OBVIOUS
  <2>1. CredInv /\ LimiterInv
    BY CredInitially, LimiterInitially DEF Init
  <2>2. setup \in Setups /\ call = [p \in Procs |-> Idle]
    BY DEF Init
  <2>3. CallsInv
    BY <2>2, IdleOK DEF CallsInv, CallOK
  <2> QED BY <2>1, <2>3 DEF FrontInv
<1>2. FrontInv /\ [Next]_vars => FrontInv'
  BY BeginKeeps, AuthenticateKeeps, SkipAuthKeeps, PassLimiterKeeps, TakeLimiterKeeps, AllowKeeps,
     AnsweredKeeps, HandleKeeps, RestartKeeps, OtherKeeps DEF Next, Serve
<1> QED BY <1>1, <1>2, PTL DEF Spec

\* Every variable keeps its type; the bucket a request holds is of its queue.
THEOREM TypesAreKept == Spec => []TypeOK
<1>1. FrontInv => TypeOK
  <2> SUFFICES ASSUME FrontInv PROVE TypeOK
    OBVIOUS
  <2>1. \A c \in creds : c.id \in 1..(nextId - 1)
    BY DEF FrontInv, CredInv, IdsInv
  <2>2. phase = "down" => config = <<>>
    BY DEF FrontInv, CredInv, SeedInv
  <2>3. \A n \in Limited : limiters[n] # 0 =>
          limiters[n] \in DOMAIN buckets /\ buckets[limiters[n]].of = n
    BY DEF FrontInv, LimiterInv
  <2>4. \A b \in DOMAIN buckets : buckets[b].tokens \in 0..Burst
    BY BucketFacts DEF FrontInv, LimiterInv
  <2>5. \A p \in Procs : At(p, "allow") =>
          call[p].bucket \in DOMAIN buckets /\ buckets[call[p].bucket].of = LimiterName(R(p))
    BY CallFacts DEF CallOK, At, R
  <2> QED BY <2>1, <2>2, <2>3, <2>4, <2>5 DEF TypeOK
<1> QED BY <1>1, FrontInvariant, PTL

\* No two credentials have one key (Import and the generators of the web
\* interface), whatever fails and whenever the server stops.
THEOREM KeysAreUnique == Spec => []UniqueKeys
<1>1. FrontInv => UniqueKeys
  BY CredHolds DEF FrontInv
<1> QED BY <1>1, FrontInvariant, PTL

\* A start that finds some of its credentials in the store seeds the others.
THEOREM SeedingCompletes == Spec => []ConfiguredKeysAreThere
<1>1. FrontInv => ConfiguredKeysAreThere
  BY CredHolds DEF FrontInv
<1> QED BY <1>1, FrontInvariant, PTL

\* A credential that the web interface has deleted authenticates no request that
\* comes afterwards.
THEOREM RevocationTakesEffect == Spec => []RevokedIsRefused
<1>1. FrontInv => RevokedIsRefused
  BY CallFacts DEF RevokedIsRefused, CallOK, At
<1> QED BY <1>1, FrontInvariant, PTL

\* The limiters let through what they are to let through, and what strays
\* through buckets that the cleanup has dropped.
THEOREM LimitIsKept == Spec => []LimitHolds
<1>1. FrontInv => LimitHolds
  BY LimiterHolds DEF FrontInv
<1> QED BY <1>1, FrontInvariant, PTL

\* A request is refused only when its own queue has used up its tokens.
THEOREM OnlySpentIsRefused == Spec => RefusedOnlyWhenSpent
<1> DEFINE Spent == \A p \in Procs : Refused(p) =>
             ideal[IF Limit = "global" THEN Shared ELSE R(p).path[2]] <= 0
<1>1. FrontInv /\ [Next]_vars => [Spent]_vars
  <2> SUFFICES ASSUME FrontInv, Next, NEW p \in Procs, Refused(p)
               PROVE  ideal[IF Limit = "global" THEN Shared ELSE R(p).path[2]] <= 0
    OBVIOUS
  <2>1. call[p].at = "allow" /\ call'[p].at = "idle" /\ phase' = "up" /\ call'[p] # call[p]
    BY DEF Refused, At
  <2>2. call \in [Procs -> CallRecord]
    BY DEF FrontInv, CallsInv
  <2>3. ASSUME NEW q \in Procs, \/ \E r \in setup.requests : Begin(q, r)
                                \/ Authenticate(q) \/ SkipAuth(q) \/ PassLimiter(q) \/ TakeLimiter(q)
                                \/ Handle(q) \/ Write(q)
        PROVE  FALSE
    <3>1. call[q].at # "allow"
      BY <2>3 DEF Begin, Authenticate, SkipAuth, PassLimiter, TakeLimiter, Handle, Write, At
    <3>2. q # p
      BY <2>1, <3>1
    <3>3. CASE \/ \E r \in setup.requests : Begin(q, r)
               \/ SkipAuth(q) \/ PassLimiter(q) \/ TakeLimiter(q) \/ Write(q)
      BY <2>1, <2>2, <3>2, <3>3 DEF Begin, SkipAuth, PassLimiter, TakeLimiter, Write, Goto, Reply
    <3>4. CASE Authenticate(q)
      <4>1. PICK d : \/ call' = [call EXCEPT ![q].at = "limit", ![q].cred = d.id]
                     \/ Reply(q)
        BY <3>4, Zenon DEF Authenticate
      <4> QED BY <4>1, <2>1, <2>2, <3>2 DEF Reply
    <3>5. CASE Handle(q)
      <4>1. PICK a : Answer(q, a)
        BY <3>5 DEF Handle
      <4> QED BY <4>1, <2>1, <2>2, <3>2 DEF Answer
    <3> QED BY <2>3, <3>3, <3>4, <3>5
  <2>4. ~Restart /\ ~Tick /\ ~CleanLimiters /\ ~(Manage /\ UNCHANGED frontVars)
    BY <2>1 DEF Restart, Crash, Stop, Tick, CleanLimiters, frontVars
  <2>5. PICK q \in Procs : Allow(q) \/ Refuse(q)
    BY <2>3, <2>4 DEF Next, Serve
  <2>6. Refuse(p)
    <3>1. q = p
      <4>1. CASE Allow(q)
        BY <2>1, <2>2, <4>1 DEF Allow, Goto
      <4>2. CASE Refuse(q)
        BY <2>1, <2>2, <4>2 DEF Refuse, Reply
      <4> QED BY <2>5, <4>1, <4>2
    <3>2. ~Allow(p)
      <4>1. [call[p] EXCEPT !.at = "handle"].at = "handle"
        BY <2>2 DEF CallRecord
      <4>2. Allow(p) => call'[p] = [call[p] EXCEPT !.at = "handle"]
        BY <2>2 DEF Allow, Goto
      <4> QED BY <2>1, <4>1, <4>2
    <3> QED BY <2>5, <3>1, <3>2
  <2>7. /\ call[p].bucket \in DOMAIN buckets /\ buckets[call[p].bucket].of = LimiterName(R(p))
        /\ LimiterName(R(p)) \in Limited
    BY <2>1, CallFacts DEF CallOK, At, R
  <2>8. ideal[LimiterName(R(p))] <= 0
    BY <2>6, <2>7, LimiterHolds DEF Refuse, FrontInv
  <2>9. LimiterName(R(p)) = IF Limit = "global" THEN Shared ELSE R(p).path[2]
    BY <2>7, RateLimiterAssumption DEF LimiterName, ExtractQueueName
  <2> QED BY <2>8, <2>9
<1> QED BY <1>1, FrontInvariant, PTL DEF Spec, RefusedOnlyWhenSpent

(***************************************************************************)
(* What authentication lets through                                        *)
(***************************************************************************)
\* Hashes and HMACs are equal for equal arguments only.
LEMMA Injective ==
  ASSUME NEW a, NEW b, NEW x, NEW y
  PROVE  /\ HMAC(a, x) = HMAC(b, y) <=> a = b /\ x = y
         /\ Hash(x) = Hash(y) <=> x = y
BY DEF HMAC, Hash

LEMMA SigningKeys ==
  ASSUME NEW a, NEW b, NEW date, NEW region, NEW service
  PROVE  DeriveSigningKey(a, date, region, service) = DeriveSigningKey(b, date, region, service) <=> a = b
<1> DEFINE Dated(k) == HMAC(<<"AWS4", k>>, date)
           Regional(k) == HMAC(Dated(k), region)
           Serving(k) == HMAC(Regional(k), service)
<1>1. <<"AWS4", a>> = <<"AWS4", b>> <=> a = b
  OBVIOUS
<1>2. Dated(a) = Dated(b) <=> a = b
  BY <1>1, Injective
<1>3. Regional(a) = Regional(b) <=> Dated(a) = Dated(b)
  BY Injective
<1>4. Serving(a) = Serving(b) <=> Regional(a) = Regional(b)
  BY Injective
<1>5. HMAC(Serving(a), "aws4_request") = HMAC(Serving(b), "aws4_request") <=> Serving(a) = Serving(b)
  BY Injective
<1> QED BY <1>2, <1>3, <1>4, <1>5, Zenon DEF DeriveSigningKey

\* A record with its fields.
LEMMA CoveredFields ==
  ASSUME NEW s, HasFields(s, {"method", "path", "query", "headers", "body", "date"})
  PROVE  s = [method |-> s.method, path |-> s.path, query |-> s.query, body |-> s.body,
              headers |-> s.headers, date |-> s.date]
BY DEF HasFields

\* The canonical request of what came is the one of what was signed just when
\* nothing that it tells apart has changed.
LEMMA CanonicalFacts ==
  ASSUME NEW r, Signed(r)
  PROVE  /\ BuildCanonicalRequest(r, r.auth.signed, Hash(Cut(r.body)))
              = [method |-> r.signedAs.method, uri |-> r.signedAs.path, query |-> r.signedAs.query,
                 headers |-> r.signedAs.headers, payload |-> Hash(r.signedAs.body)]
           <=> /\ r.method = r.signedAs.method /\ CanonicalURIPath(r.path) = r.signedAs.path
               /\ CanonicalQueryString(r.query) = r.signedAs.query
               /\ CanonicalHeaders(r, r.auth.signed) = r.signedAs.headers
               /\ Cut(r.body) = r.signedAs.body
<1>1. Hash(Cut(r.body)) = Hash(r.signedAs.body) <=> Cut(r.body) = r.signedAs.body
  BY Injective
<1> QED BY <1>1 DEF BuildCanonicalRequest

\* A signed request passes with a credential just when it is genuine.
LEMMA SignatureIsRight ==
  ASSUME NEW r, NEW c, Signed(r), Complete(r.auth), Presents(r), c # Missing
  PROVE  SigV4Verdict(r, setup.region, c) = "ok" <=> Genuine(r, c)
<1> DEFINE d == r.auth.credential
           s == r.signedAs
           stated == IF "x-amz-content-sha256" \in DOMAIN r.headers
                     THEN r.headers["x-amz-content-sha256"] ELSE <<Hash(Cut(r.body))>>
           canon == BuildCanonicalRequest(r, r.auth.signed, Hash(Cut(r.body)))
           sent == [method |-> s.method, uri |-> s.path, query |-> s.query, headers |-> s.headers,
                    payload |-> Hash(s.body)]
           same == /\ r.method = s.method /\ CanonicalURIPath(r.path) = s.path
                   /\ CanonicalQueryString(r.query) = s.query
                   /\ CanonicalHeaders(r, r.auth.signed) = s.headers /\ Cut(r.body) = s.body
<1>1. /\ HasFields(s, {"method", "path", "query", "headers", "body", "date"})
      /\ r.auth.signature = ClientSignature(r) /\ r.scope = <<d[3], d[4]>>
  BY DEF Presents
<1>2. RestoredBody(r) = Cut(r.body)
  BY DEF RestoredBody
<1>3. canon = sent <=> same
  BY CanonicalFacts
<1>4. Covered(r) = s <=> AmzDate(r) = s.date /\ same
  <2>1. s = [method |-> s.method, path |-> s.path, query |-> s.query, body |-> s.body,
             headers |-> s.headers, date |-> s.date]
    BY <1>1, CoveredFields, Zenon
  <2>2. Covered(r) = [method |-> r.method, path |-> CanonicalURIPath(r.path),
                      query |-> CanonicalQueryString(r.query), body |-> Cut(r.body),
                      headers |-> CanonicalHeaders(r, r.auth.signed), date |-> AmzDate(r)]
    BY <1>2 DEF Covered
  <2>3. Covered(r).method = r.method /\ Covered(r).path = CanonicalURIPath(r.path)
        /\ Covered(r).body = Cut(r.body) /\ Covered(r).query = CanonicalQueryString(r.query)
        /\ Covered(r).headers = CanonicalHeaders(r, r.auth.signed) /\ Covered(r).date = AmzDate(r)
    BY <2>2
  <2> QED BY <2>1, <2>2, <2>3, Zenon
<1>6. r.auth.signature = Signature(r, d, r.auth.signed, c.secret, Hash(Cut(r.body)))
      <=> r.secret = c.secret /\ AmzDate(r) = s.date /\ same
  <2> HIDE DEF canon, sent, same
  <2>1. ClientSignature(r) = HMAC(DeriveSigningKey(r.secret, d[2], d[3], d[4]),
                                  <<s.date, Tail(d), Hash(sent)>>)
    BY DEF ClientSignature, sent
  <2>2. Signature(r, d, r.auth.signed, c.secret, Hash(Cut(r.body)))
          = HMAC(DeriveSigningKey(c.secret, d[2], d[3], d[4]), <<AmzDate(r), Tail(d), Hash(canon)>>)
    BY DEF Signature, StringToSign, canon
  <2>3. <<s.date, Tail(d), Hash(sent)>> = <<AmzDate(r), Tail(d), Hash(canon)>>
        <=> AmzDate(r) = s.date /\ Hash(sent) = Hash(canon)
    OBVIOUS
  <2>4. Hash(sent) = Hash(canon) <=> same
    BY <1>3, Injective, Zenon
  <2>5. DeriveSigningKey(r.secret, d[2], d[3], d[4]) = DeriveSigningKey(c.secret, d[2], d[3], d[4])
        <=> r.secret = c.secret
    <3> HIDE DEF d
    <3> QED BY SigningKeys
  <2>6. ClientSignature(r) = Signature(r, d, r.auth.signed, c.secret, Hash(Cut(r.body)))
        <=> r.secret = c.secret /\ AmzDate(r) = s.date /\ Hash(sent) = Hash(canon)
    <3> DEFINE key(x) == DeriveSigningKey(x, d[2], d[3], d[4])
               X == <<s.date, Tail(d), Hash(sent)>>
               Y == <<AmzDate(r), Tail(d), Hash(canon)>>
    <3>1. HMAC(key(r.secret), X) = HMAC(key(c.secret), Y) <=> key(r.secret) = key(c.secret) /\ X = Y
      <4> HIDE DEF key, X, Y
      <4> QED BY Injective
    <3> QED BY <2>1, <2>2, <2>3, <2>5, <3>1, Zenon
  <2> QED BY <1>1, <2>4, <2>6, Zenon
<1>7. stated = <<Hash(Cut(r.body))>>
      <=> ("x-amz-content-sha256" \in DOMAIN r.headers =>
             r.headers["x-amz-content-sha256"] = <<Hash(RestoredBody(r))>>)
  BY <1>2
<1>8. SigV4Verdict(r, setup.region, c) = "ok"
      <=> /\ d[4] = "sqs" /\ ~(setup.region # "" /\ d[3] # setup.region)
          /\ stated = <<Hash(Cut(r.body))>>
          /\ r.auth.signature = Signature(r, d, r.auth.signed, c.secret, Hash(Cut(r.body)))
  BY DEF SigV4Verdict
<1>9. Genuine(r, c)
      <=> /\ r.secret = c.secret /\ d[4] = "sqs" /\ setup.region \in {"", d[3]}
          /\ AmzDate(r) = s.date /\ same
          /\ stated = <<Hash(Cut(r.body))>>
  <2>1. r.scope[1] = d[3] /\ r.scope[2] = d[4]
    <3>1. r.scope = <<d[3], d[4]>>
      BY <1>1, Zenon
    <3> HIDE DEF d
    <3> QED BY <3>1
  <2> HIDE DEF d, s, same, stated
  <2> QED BY <1>4, <1>7, <2>1 DEF Genuine, s
<1> HIDE DEF d, s, stated, same
<1> QED BY <1>6, <1>8, <1>9

\* A request with its credentials in parameters passes just when it has the
\* secret of the key.
LEMMA SecretIsRight ==
  ASSUME NEW r, NEW c, ~Signed(r), LegacyKey(r) # "", Presents(r), c # Missing, c.secret # ""
  PROVE  LegacyVerdict(r, c) = "ok" <=> Genuine(r, c)
<1>1. LegacySecret(r) = r.secret
  BY DEF Presents
<1> QED BY <1>1 DEF LegacyVerdict, Genuine

\* Authentication (verifyLegacyQuery and verifySigV4 with what they read, cut,
\* sort and hash) lets a request through when its client had the secret and the
\* canonical form of what the handler will be given is the one that was signed,
\* with its body and its date, and only then; whatever encodeURI and the joining
\* of header values do, of which nothing is assumed.
THEOREM AuthenticationHolds == Spec => []AuthenticationIsRight
<1>1. FrontInv => AuthenticationIsRight
  <2> SUFFICES ASSUME FrontInv, NEW p \in Procs, At(p, "auth"), NEW c \in WithKey(AccessKey(R(p)))
               PROVE  Verify(R(p), setup.region, c) = "ok" <=> Genuine(R(p), c)
    BY DEF AuthenticationIsRight
  <2>1. PICK n \in DOMAIN Requests : R(p) = Requests[n]
    BY CallFacts DEF CallOK, At, R
  <2>2. Presents(R(p))
    BY <2>1, ClientsAssumption
  <2>3. c \in creds /\ c.key = AccessKey(R(p))
    BY DEF WithKey
  <2>4. Filled(c) /\ 1 <= c.id
    BY <2>3, Zenon DEF FrontInv, CredInv, IdsInv
  <2>5. AccessKey(R(p)) # "" /\ c.secret # "" /\ c # Missing
    <3>1. Missing.id = 0
      BY DEF Missing
    <3>2. c # Missing
      BY <2>4, <3>1
    <3> QED BY <2>3, <2>4, <3>2 DEF Filled
  <2>6. CASE Signed(R(p))
    BY <2>2, <2>5, <2>6, SignatureIsRight DEF AccessKey, Verify
  <2>7. CASE ~Signed(R(p))
    BY <2>2, <2>5, <2>7, SecretIsRight DEF AccessKey, Verify
  <2> QED BY <2>6, <2>7
<1> QED BY <1>1, FrontInvariant, PTL

(***************************************************************************)
(* What a handler is given                                                 *)
(***************************************************************************)
\* A request that has passed authentication is complete, and what its handler
\* will be given has the canonical form, the body and the date its client signed.
Intact(c) ==
  c.at \in {"limit", "allow", "handle"} /\ Auth /\ Signed(c.req) =>
    Complete(c.req.auth) /\ Covered(c.req) = c.req.signedAs

IntactInv == \A p \in Procs : Intact(call[p])

\* A signature vouches for the request it came with.
LEMMA VerifiedIsIntact ==
  ASSUME NEW r, NEW c, Signed(r), Presents(r), Verify(r, setup.region, c) = "ok"
  PROVE  Complete(r.auth) /\ Covered(r) = r.signedAs
<1>1. SigV4Verdict(r, setup.region, c) = "ok"
  BY DEF Verify
<1>2. Complete(r.auth) /\ c # Missing
  BY <1>1 DEF SigV4Verdict
<1>3. Genuine(r, c)
  BY <1>1, <1>2, SignatureIsRight
<1> QED BY <1>2, <1>3 DEF Genuine

\* A call that goes on intact leaves the others as they were.
LEMMA IntactGoesOn ==
  ASSUME FrontInv, IntactInv, setup' = setup, NEW p \in Procs, NEW c,
         call' = [call EXCEPT ![p] = c], Intact(c)
  PROVE  IntactInv'
<1>1. call'[p] = c /\ \A q \in Procs : q # p => call'[q] = call[q]
  BY DEF FrontInv, CallsInv
<1> QED BY <1>1 DEF IntactInv, Intact, Auth

\* One that moves on with its request is as intact as it was.
LEMMA IntactMoves ==
  ASSUME FrontInv, IntactInv, setup' = setup, NEW p \in Procs, NEW c,
         call' = [call EXCEPT ![p] = c], c.req = R(p), At(p, "limit") \/ At(p, "allow") \/ ~Auth
  PROVE  IntactInv'
<1>1. Intact(c)
  BY DEF IntactInv, Intact, At, R
<1> QED BY <1>1, IntactGoesOn

\* Only a verified request gets past authentication.
LEMMA AuthenticateIntact ==
  ASSUME FrontInv, IntactInv, NEW p \in Procs, Authenticate(p)
  PROVE  IntactInv'
<1>1. setup' = setup /\ call[p] \in CallRecord /\ CallOK(call[p]) /\ call[p].at = "auth"
  BY CallFacts DEF Authenticate, At
<1>2. PICK d \in Lookup(AccessKey(R(p))) :
        IF Verify(R(p), setup.region, d) = "ok"
        THEN call' = [call EXCEPT ![p].at = "limit", ![p].cred = d.id]
        ELSE Reply(p)
  BY Zenon DEF Authenticate
<1>3. CASE Verify(R(p), setup.region, d) = "ok"
  <2>1. PICK c : c = [call[p] EXCEPT !.at = "limit", !.cred = d.id]
    OBVIOUS
  <2>2. call' = [call EXCEPT ![p] = c]
    BY <1>2, <1>3, <2>1 DEF FrontInv, CallsInv
  <2>3. c.req = R(p)
    BY <1>1, <2>1 DEF CallRecord, R
  <2>4. Presents(R(p))
    BY <1>1, ClientsAssumption DEF CallOK, R
  <2>5. Intact(c)
    BY <1>3, <2>3, <2>4, VerifiedIsIntact DEF Intact
  <2> QED BY <1>1, <2>2, <2>5, IntactGoesOn
<1>4. CASE ~(Verify(R(p), setup.region, d) = "ok")
  <2>1. call' = [call EXCEPT ![p] = Idle]
    BY <1>2, <1>4 DEF Reply
  <2>2. Intact(Idle)
    BY DEF Intact, Idle
  <2> QED BY <1>1, <2>1, <2>2, IntactGoesOn
<1> QED BY <1>3, <1>4

\* Every step that serves a request,
LEMMA ServeIntact ==
  ASSUME FrontInv, IntactInv, NEW p \in Procs, Serve(p)
  PROVE  IntactInv'
<1>1. call[p] \in CallRecord
  BY CallFacts
<1>2. CASE Authenticate(p)
  BY <1>2, AuthenticateIntact
<1>3. CASE Refuse(p) \/ Write(p)
  <2>1. setup' = setup /\ call' = [call EXCEPT ![p] = Idle]
    BY <1>3 DEF Refuse, Write, Reply
  <2>2. Intact(Idle)
    BY DEF Intact, Idle
  <2> QED BY <2>1, <2>2, IntactGoesOn
<1>4. CASE SkipAuth(p) \/ PassLimiter(p) \/ Allow(p)
  <2>1. PICK at \in {"limit", "handle"} : Goto(p, at)
    BY <1>4 DEF SkipAuth, PassLimiter, Allow
  <2>2. setup' = setup /\ (At(p, "limit") \/ At(p, "allow") \/ ~Auth)
    BY <1>4 DEF SkipAuth, PassLimiter, Allow
  <2>3. PICK c : c = [call[p] EXCEPT !.at = at]
    OBVIOUS
  <2>4. call' = [call EXCEPT ![p] = c]
    BY <2>1, <2>3 DEF Goto
  <2>5. c.req = R(p)
    BY <1>1, <2>3 DEF CallRecord, R
  <2> QED BY <2>2, <2>4, <2>5, IntactMoves
<1>5. CASE TakeLimiter(p)
  <2>1. setup' = setup /\ At(p, "limit")
    BY <1>5 DEF TakeLimiter
  <2>2. PICK b \in 1..MaxBuckets : call' = [call EXCEPT ![p].at = "allow", ![p].bucket = b]
    BY <1>5 DEF TakeLimiter
  <2>3. PICK c : c = [call[p] EXCEPT !.at = "allow", !.bucket = b]
    OBVIOUS
  <2>4. call' = [call EXCEPT ![p] = c]
    BY <2>2, <2>3 DEF FrontInv, CallsInv
  <2>5. c.req = R(p)
    BY <1>1, <2>3 DEF CallRecord, R
  <2> QED BY <2>1, <2>4, <2>5, IntactMoves
<1>6. CASE Handle(p)
  <2>1. setup' = setup
    BY <1>6 DEF Handle
  <2>2. PICK a : Answer(p, a)
    BY <1>6 DEF Handle
  <2>3. PICK c : c = [call[p] EXCEPT !.at = "write", !.answer = a]
    OBVIOUS
  <2>4. call' = [call EXCEPT ![p] = c]
    BY <2>2, <2>3 DEF Answer, FrontInv, CallsInv
  <2>5. c.at = "write"
    BY <1>1, <2>3 DEF CallRecord
  <2> QED BY <2>1, <2>4, <2>5, IntactGoesOn DEF Intact
<1> QED BY <1>2, <1>3, <1>4, <1>5, <1>6 DEF Serve

\* and every step of the system.
LEMMA StepIntact ==
  ASSUME FrontInv, IntactInv, [Next]_vars
  PROVE  IntactInv'
<1>1. ASSUME NEW p \in Procs, NEW r \in setup.requests, Begin(p, r) PROVE IntactInv'
  <2>1. PICK c : c = [Idle EXCEPT !.at = "auth", !.req = Requests[r], !.gone = revoked]
    OBVIOUS
  <2>2. setup' = setup /\ call' = [call EXCEPT ![p] = c]
    BY <1>1, <2>1 DEF Begin
  <2>3. c.at = "auth"
    BY <2>1 DEF Idle
  <2> QED BY <2>2, <2>3, IntactGoesOn DEF Intact
<1>2. ASSUME Restart PROVE IntactInv'
  BY <1>2 DEF Restart, IntactInv, Intact, Idle
<1>3. ASSUME Tick \/ CleanLimiters \/ (Manage /\ UNCHANGED frontVars) \/ UNCHANGED vars PROVE IntactInv'
  <2>1. setup' = setup /\ call' = call
    BY <1>3 DEF Tick, CleanLimiters, frontVars, vars
  <2> QED BY <2>1 DEF IntactInv, Intact, Auth
<1> QED BY <1>1, <1>2, <1>3, ServeIntact DEF Next

\* A signed request reaches its handler with the method, the body and the date
\* that were signed (verifySigV4 over the body that readAndRestoreBody puts back),
\* and with a path, a query and headers that encodeURI and the joining of values
\* write as the signed ones.
THEOREM SignedIsIntact == Spec => []IntactInv
<1>1. Init => IntactInv
  BY DEF Init, IntactInv, Intact, Idle
<1>2. FrontInv /\ IntactInv /\ [Next]_vars => IntactInv'
  BY StepIntact
<1> QED BY <1>1, <1>2, FrontInvariant, PTL DEF Spec

\* A body that a handler is given and can read is the one that was sent, unless
\* it is a form with its credentials in it that is too long.
LEMMA WholeBody ==
  ASSUME FrontInv, IntactInv, NEW p \in Procs, At(p, "handle"), Readable(p),
         ~(Auth /\ ~Signed(R(p)) /\ ReadsForm(R(p)) /\ R(p).body.size > MaxBodySize)
  PROVE  ReadsBody(p) => HandedBody(p) = R(p).body
<1>1. PICK r \in DOMAIN Requests : R(p) = Requests[r]
  BY CallFacts DEF CallOK, At, R
<1>2. CASE ~Auth
  BY <1>2 DEF HandedBody
<1>3. CASE Auth /\ R(p).body.size <= MaxBodySize
  BY <1>3 DEF HandedBody, RestoredBody, Cut
<1>4. CASE Auth /\ ~(R(p).body.size <= MaxBodySize)
  <2>1. PICK body : body = HandedBody(p)
    OBVIOUS
  <2>2. body = R(p).body \/ (body = Cut(R(p).body) /\ (Signed(R(p)) \/ ReadsForm(R(p))))
    BY <1>4, <2>1 DEF HandedBody, RestoredBody
  <2>3. Cut(R(p).body).whole = FALSE
    BY <1>4 DEF Cut
  <2>4. CASE Signed(R(p))
    <3>1. Complete(R(p).auth) /\ Covered(R(p)) = R(p).signedAs
      BY <1>4, <2>4 DEF IntactInv, Intact, At, R
    <3>2. R(p).signedAs.body.whole
      BY <1>1, <2>4, <3>1, ClientsAssumption DEF Presents
    <3>3. R(p).signedAs.body = Cut(R(p).body)
      BY <2>4, <3>1 DEF Covered, RestoredBody
    <3> QED BY <2>3, <3>2, <3>3
  <2>5. CASE ~Signed(R(p)) /\ ~ReadsForm(R(p))
    BY <2>1, <2>2, <2>5
  <2>6. CASE ~Signed(R(p)) /\ ReadsForm(R(p))
    <3>1. ~(R(p).body.size > MaxBodySize)
      BY <1>4, <2>6
    <3>2. R(p).body.size \in Nat /\ MaxBodySize \in Nat
      BY <1>1, FrontAssumption, AuthenticationAssumption
    <3>3. R(p).body.size <= MaxBodySize
      BY <3>1, <3>2
    <3> QED BY <3>3, <1>4
  <2> QED BY <2>4, <2>5, <2>6
<1> QED BY <1>2, <1>3, <1>4

\* The request a handler is given (ParseRequest of the two adapters, behind the
\* middleware that may have read the body before) is what its client meant, in
\* whatever spelling, numbers and order it came in, but for the attributes that
\* the code drops: those of the message in the entries of a JSON batch, those of
\* the system in the entries of a form, and in a form those of a message whose
\* numbers leave a gap; a binary that is not base64 becomes empty.
THEOREM RequestsAreRead == Spec => []HandlerGetsWhatWasSent
<1>1. FrontInv /\ IntactInv => HandlerGetsWhatWasSent
  <2> SUFFICES ASSUME FrontInv, IntactInv, NEW p \in Procs, At(p, "handle"), Readable(p),
                      ~(Auth /\ ~Signed(R(p)) /\ ReadsForm(R(p)) /\ R(p).body.size > MaxBodySize)
               PROVE  IF JSON(p) THEN ObjectKept(Parsed(p), R(p).meant)
                      ELSE FormKept(Parsed(p), R(p).meant, SentForm(R(p)))
    BY DEF HandlerGetsWhatWasSent
  <2> DEFINE m == R(p).meant
  <2>1. Conveys(R(p))
    BY CallFacts, MeaningsAssumption DEF CallOK, At, R
  <2>2. CASE JSON(p)
    <3> DEFINE o == Fields(R(p).body.params)
    <3>1. HandedBody(p) = R(p).body
      BY <2>2, WholeBody DEF ReadsBody
    <3>2. ObjectSays(o, m) /\ m.action = IF Target(p) = <<>> THEN "" ELSE Target(p)[Len(Target(p))]
      BY <2>1, <2>2 DEF Conveys, JSON, Target
    <3>3. Parsed(p) = JSONRequest(Target(p), o)
      BY <2>2, <3>1 DEF Parsed
    <3>4. PICK t : t = Target(p)
      OBVIOUS
    <3> HIDE DEF m, o
    <3>5. m.action = JSONRequest(t, o).action
      BY <3>2, <3>4 DEF JSONRequest
    <3>6. ObjectKept(JSONRequest(t, o), m)
      BY <3>2, <3>5, ObjectIsRead
    <3>7. ObjectKept(Parsed(p), m)
      BY <3>3, <3>4, <3>6, Zenon
    <3> QED BY <2>2, <3>7 DEF m
  <2>3. CASE ~JSON(p)
    <3> DEFINE f == SentForm(R(p))
    <3>1. R(p).method = "POST" => HandedBody(p) = R(p).body
      BY <2>3, WholeBody DEF ReadsBody
    <3>2. FormSays(f, m)
      BY <2>1, <2>3 DEF Conveys, JSON
    <3>3. Parsed(p) = QueryRequest(f)
      BY <2>3, <3>1 DEF Parsed, SentForm
    <3> HIDE DEF m, f
    <3>4. FormKept(QueryRequest(f), m, f)
      BY <3>2, FormIsRead
    <3>5. FormKept(Parsed(p), m, f)
      BY <3>3, <3>4, Zenon
    <3> QED BY <2>3, <3>5 DEF m, f
  <2> QED BY <2>2, <2>3
<1> QED BY <1>1, FrontInvariant, SignedIsIntact, PTL

(***************************************************************************)
(* What a client reads                                                     *)
(***************************************************************************)
\* A field that is left out when it is empty is read as empty.
LEMMA OmittedFields ==
  ASSUME NEW optional, NEW doc, NEW f \in DOMAIN doc
  PROVE  /\ Optional(Omitting(optional, doc), f) = doc[f]
         /\ f \notin optional => Omitting(optional, doc)[f] = doc[f]
BY DEF Optional, Omitting

\* A map is read back from its elements, in whatever order they are.
LEMMA ElementsByKey ==
  ASSUME NEW f, NEW k, NEW v, k # v
  PROVE  ByKey(Elements(f, k, v), k, v) = [n \in DOMAIN f |-> f[n]]
<1> DEFINE el(n) == [x \in {k, v} |-> IF x = k THEN n ELSE f[n]]
           E == Elements(f, k, v)
<1>1. E = {el(n) : n \in DOMAIN f}
  BY DEF Elements
<1>2. \A n \in DOMAIN f : el(n)[k] = n /\ el(n)[v] = f[n]
  OBVIOUS
<1> HIDE DEF el, E
<1>3. {e[k] : e \in E} = DOMAIN f
  BY <1>1, <1>2
<1>4. ASSUME NEW n \in DOMAIN f PROVE (CHOOSE e \in E : e[k] = n)[v] = f[n]
  <2>1. el(n) \in E /\ el(n)[k] = n
    BY <1>1, <1>2
  <2>2. PICK e : e = CHOOSE x \in E : x[k] = n
    OBVIOUS
  <2>3. e \in E /\ e[k] = n
    BY <2>1, <2>2
  <2>4. PICK m \in DOMAIN f : e = el(m)
    BY <1>1, <2>3
  <2>5. e[k] = m /\ e[v] = f[m]
    BY <1>2, <2>4
  <2>6. m = n
    BY <2>3, <2>5
  <2> QED BY <2>2, <2>5, <2>6, Zenon
<1>5. ByKey(E, k, v) = [n \in {e[k] : e \in E} |-> (CHOOSE e \in E : e[k] = n)[v]]
  BY DEF ByKey
<1>6. [n \in {e[k] : e \in E} |-> (CHOOSE e \in E : e[k] = n)[v]]
        = [n \in DOMAIN f |-> (CHOOSE e \in E : e[k] = n)[v]]
  BY <1>3
<1>7. [n \in DOMAIN f |-> (CHOOSE e \in E : e[k] = n)[v]] = [n \in DOMAIN f |-> f[n]]
  BY <1>4
<1> QED BY <1>5, <1>6, <1>7 DEF E

LEMMA ValueIsRead ==
  ASSUME NEW a, HasFields(a, {"type", "text", "binary"})
  PROVE  ReadValue(AttributeValue(a)) = a
<1> DEFINE doc == [DataType |-> a.type, StringValue |-> a.text, BinaryValue |-> a.binary]
           opt == {"StringValue", "BinaryValue"}
<1>1. DOMAIN doc = {"DataType", "StringValue", "BinaryValue"}
  OBVIOUS
<1>2. doc.DataType = a.type /\ doc.StringValue = a.text /\ doc.BinaryValue = a.binary
  OBVIOUS
<1> HIDE DEF doc
<1>3. /\ Omitting(opt, doc).DataType = a.type
      /\ Optional(Omitting(opt, doc), "StringValue") = a.text
      /\ Optional(Omitting(opt, doc), "BinaryValue") = a.binary
  BY <1>1, <1>2, OmittedFields
<1>4. ReadValue(AttributeValue(a)) = [type |-> a.type, text |-> a.text, binary |-> a.binary]
  BY <1>3, Zenon DEF ReadValue, AttributeValue, doc
<1>5. a = [type |-> a.type, text |-> a.text, binary |-> a.binary]
  BY DEF HasFields
<1> QED BY <1>4, <1>5

LEMMA ValuesAreRead ==
  ASSUME NEW m, IsMessage(m)
  PROVE  [n \in DOMAIN AttributeValues(m) |-> ReadValue(AttributeValues(m)[n])] = m.attrs
<1>1. IsTable(m.attrs) /\ \A n \in DOMAIN m.attrs : HasFields(m.attrs[n], {"type", "text", "binary"})
  BY DEF IsMessage
<1>2. DOMAIN AttributeValues(m) = DOMAIN m.attrs
  BY DEF AttributeValues
<1>3. \A n \in DOMAIN m.attrs : ReadValue(AttributeValues(m)[n]) = m.attrs[n]
  BY <1>1, ValueIsRead DEF AttributeValues
<1> QED BY <1>1, <1>2, <1>3 DEF IsTable

\* The parts of a message that both protocols write in the same way.
LEMMA FixedFields ==
  ASSUME NEW m
  PROVE  /\ Fixed(m).MessageId = m.id /\ Fixed(m).ReceiptHandle = m.handle
         /\ Fixed(m).MD5OfBody = m.md5 /\ Fixed(m).Body = m.body
         /\ Optional(Fixed(m), "MD5OfMessageAttributes") = m.md5Attrs
         /\ Optional(Fixed(m), "MD5OfMessageSystemAttributes") = m.md5Sys
         /\ Optional(Fixed(m), "SequenceNumber") = m.seq
<1> DEFINE doc == [MessageId |-> m.id, ReceiptHandle |-> m.handle, MD5OfBody |-> m.md5, Body |-> m.body,
                   MD5OfMessageAttributes |-> m.md5Attrs, MD5OfMessageSystemAttributes |-> m.md5Sys,
                   SequenceNumber |-> m.seq]
<1>1. DOMAIN doc = {"MessageId", "ReceiptHandle", "MD5OfBody", "Body"} \cup Checksums
  BY DEF Checksums
<1>2. /\ doc.MessageId = m.id /\ doc.ReceiptHandle = m.handle /\ doc.MD5OfBody = m.md5 /\ doc.Body = m.body
      /\ doc.MD5OfMessageAttributes = m.md5Attrs /\ doc.MD5OfMessageSystemAttributes = m.md5Sys
      /\ doc.SequenceNumber = m.seq
  OBVIOUS
<1> HIDE DEF doc
<1>3. \A f \in {"MessageId", "ReceiptHandle", "MD5OfBody", "Body"} :
        f \in DOMAIN doc /\ f \notin Checksums
  BY <1>1 DEF Checksums
<1>4. \A f \in {"MessageId", "ReceiptHandle", "MD5OfBody", "Body"} : Omitting(Checksums, doc)[f] = doc[f]
  BY <1>3, OmittedFields
<1>5. \A f \in Checksums : Optional(Omitting(Checksums, doc), f) = doc[f]
  BY <1>1, OmittedFields
<1>6. Fixed(m) = Omitting(Checksums, doc)
  BY DEF Fixed, doc
<1>7. {"MD5OfMessageAttributes", "MD5OfMessageSystemAttributes", "SequenceNumber"} = Checksums
  BY DEF Checksums
<1> QED BY <1>2, <1>4, <1>5, <1>6, <1>7

LEMMA SystemFields ==
  ASSUME NEW m
  PROVE  /\ Optional(SystemAttributes(m), "SentTimestamp") = m.sent
         /\ Optional(SystemAttributes(m), "ApproximateReceiveCount") = m.received
         /\ Optional(SystemAttributes(m), "ApproximateFirstReceiveTimestamp") = m.first
         /\ IsTable(SystemAttributes(m))
<1> DEFINE doc == [SentTimestamp |-> m.sent, ApproximateReceiveCount |-> m.received,
                   ApproximateFirstReceiveTimestamp |-> m.first]
           opt == {"SentTimestamp", "ApproximateReceiveCount", "ApproximateFirstReceiveTimestamp"}
<1>1. DOMAIN doc = opt
  OBVIOUS
<1>2. /\ doc.SentTimestamp = m.sent /\ doc.ApproximateReceiveCount = m.received
      /\ doc.ApproximateFirstReceiveTimestamp = m.first
  OBVIOUS
<1> HIDE DEF doc
<1>3. SystemAttributes(m) = Omitting(opt, doc)
  BY DEF SystemAttributes, doc
<1>4. \A f \in opt : Optional(Omitting(opt, doc), f) = doc[f]
  BY <1>1, OmittedFields
<1>5. IsTable(Omitting(opt, doc))
  BY DEF IsTable, Omitting
<1> QED BY <1>2, <1>3, <1>4, <1>5

\* A message, out of whatever its two maps were written as.
LEMMA MessageIsRead ==
  ASSUME NEW m, IsMessage(m)
  PROVE  ReadMessage(Fixed(m), SystemAttributes(m), AttributeValues(m)) = m
<1> DEFINE whole == [id |-> m.id, handle |-> m.handle, md5 |-> m.md5, body |-> m.body,
                     md5Attrs |-> m.md5Attrs, md5Sys |-> m.md5Sys, seq |-> m.seq, sent |-> m.sent,
                     received |-> m.received, first |-> m.first, attrs |-> m.attrs]
<1>1. ReadMessage(Fixed(m), SystemAttributes(m), AttributeValues(m)) = whole
  BY FixedFields, SystemFields, ValuesAreRead, Zenon DEF ReadMessage
<1>2. HasFields(m, ReceiptFields \cup {"handle", "body", "sent", "received", "first", "attrs"})
  BY DEF IsMessage
<1>3. whole = m
  BY <1>2 DEF HasFields, ReceiptFields
<1> QED BY <1>1, <1>3

LEMMA MessagesAreRead ==
  ASSUME NEW m, IsMessage(m)
  PROVE  ReadXMLMessage(BuildXMLMessage(m)) = m /\ ReadJSONMessage(BuildJSONMessage(m)) = m
<1>1. ReadJSONMessage(BuildJSONMessage(m)) = m
  BY MessageIsRead DEF ReadJSONMessage, BuildJSONMessage
<1>2. ByKey(Elements(SystemAttributes(m), "Name", "Value"), "Name", "Value") = SystemAttributes(m)
  BY ElementsByKey, SystemFields DEF IsTable
<1>3. ByKey(Elements(AttributeValues(m), "Name", "Value"), "Name", "Value") = AttributeValues(m)
  <2>1. AttributeValues(m) = [n \in DOMAIN AttributeValues(m) |-> AttributeValues(m)[n]]
    BY DEF AttributeValues
  <2> QED BY <2>1, ElementsByKey
<1>4. ReadXMLMessage(BuildXMLMessage(m)) = m
  BY <1>2, <1>3, MessageIsRead DEF ReadXMLMessage, BuildXMLMessage
<1> QED BY <1>1, <1>4

\* The parts of what SendMessage and its batch answer, with the message's or the
\* entry's identifier under id.
LEMMA ReceiptIsRead ==
  ASSUME NEW m, NEW id \in {"MessageId", "Id"}
  PROVE  /\ Receipt(id, m).MessageId = m.id /\ Receipt(id, m).MD5OfMessageBody = m.md5
         /\ id = "Id" => Receipt(id, m).Id = m.entry
         /\ Optional(Receipt(id, m), "MD5OfMessageAttributes") = m.md5Attrs
         /\ Optional(Receipt(id, m), "MD5OfMessageSystemAttributes") = m.md5Sys
         /\ Optional(Receipt(id, m), "SequenceNumber") = m.seq
         /\ DOMAIN Receipt(id, m) \subseteq {id, "MessageId", "MD5OfMessageBody"} \cup Checksums
<1> DEFINE doc == [x \in {id, "MessageId", "MD5OfMessageBody"} \cup Checksums |->
       CASE x = "MessageId" -> m.id [] x = "MD5OfMessageBody" -> m.md5
         [] x = "MD5OfMessageAttributes" -> m.md5Attrs
         [] x = "MD5OfMessageSystemAttributes" -> m.md5Sys
         [] x = "SequenceNumber" -> m.seq [] OTHER -> m.entry]
<1>1. DOMAIN doc = {id, "MessageId", "MD5OfMessageBody"} \cup Checksums
  OBVIOUS
<1>2. doc["MessageId"] = m.id /\ doc["MD5OfMessageBody"] = m.md5 /\ (id = "Id" => doc["Id"] = m.entry)
  BY DEF Checksums
<1>3. /\ doc["MD5OfMessageAttributes"] = m.md5Attrs /\ doc["MD5OfMessageSystemAttributes"] = m.md5Sys
      /\ doc["SequenceNumber"] = m.seq
  BY DEF Checksums
<1> HIDE DEF doc
<1>4. \A f \in {id, "MessageId", "MD5OfMessageBody"} : Omitting(Checksums, doc)[f] = doc[f]
  BY <1>1, OmittedFields DEF Checksums
<1>5. \A f \in Checksums : Optional(Omitting(Checksums, doc), f) = doc[f]
  BY <1>1, OmittedFields
<1>6. Receipt(id, m) = Omitting(Checksums, doc)
  BY DEF Receipt, doc
<1>7. DOMAIN Omitting(Checksums, doc) \subseteq DOMAIN doc
  BY DEF Omitting
<1>8. {"MD5OfMessageAttributes", "MD5OfMessageSystemAttributes", "SequenceNumber"} = Checksums
  BY DEF Checksums
<1> QED BY <1>1, <1>2, <1>3, <1>4, <1>5, <1>6, <1>7, <1>8

LEMMA SentIsRead ==
  ASSUME NEW m, HasFields(m, ReceiptFields)
  PROVE  ReadReceipt(Receipt("MessageId", m)) = m
<1>1. ReadReceipt(Receipt("MessageId", m))
        = [id |-> m.id, md5 |-> m.md5, md5Attrs |-> m.md5Attrs, md5Sys |-> m.md5Sys, seq |-> m.seq]
  BY ReceiptIsRead DEF ReadReceipt
<1> QED BY <1>1 DEF HasFields, ReceiptFields

\* A result of a batch, with the checksums where the action has them.
LEMMA ResultIsRead ==
  ASSUME NEW b, NEW action, HasFields(b, ResultFields(action))
  PROVE  (IF action = "SendMessageBatch" THEN ReadSendResult(ResultOf(action, b))
          ELSE ReadResult(ResultOf(action, b))) = b
<1>1. CASE action = "SendMessageBatch"
  <2>1. ReadSendResult(SendResult(b))
          = [entry |-> b.entry, id |-> b.id, md5 |-> b.md5, md5Attrs |-> b.md5Attrs,
             md5Sys |-> b.md5Sys, seq |-> b.seq]
    BY ReceiptIsRead DEF ReadSendResult, SendResult
  <2>2. b = [entry |-> b.entry, id |-> b.id, md5 |-> b.md5, md5Attrs |-> b.md5Attrs,
             md5Sys |-> b.md5Sys, seq |-> b.seq]
    BY <1>1 DEF HasFields, ResultFields, ReceiptFields
  <2> QED BY <1>1, <2>1, <2>2 DEF ResultOf
<1>2. CASE action # "SendMessageBatch"
  BY <1>2 DEF ResultOf, Result, ReadResult, HasFields, ResultFields
<1> QED BY <1>1, <1>2

LEMMA ErrorIsRead ==
  ASSUME NEW e, HasFields(e, {"entry", "code", "fault"})
  PROVE  ReadError(Error(e)) = e
BY DEF HasFields, ReadError, Error

LEMMA TaskIsRead ==
  ASSUME NEW t, HasFields(t, TaskFields)
  PROVE  ReadTask(MoveTask(t)) = t
<1> DEFINE doc == [TaskHandle |-> t.handle, SourceArn |-> t.source, DestinationArn |-> t.destination,
                   Status |-> t.status, MaxNumberOfMessagesPerSecond |-> t.rate,
                   ApproximateNumberOfMessagesMoved |-> t.moved]
           opt == {"MaxNumberOfMessagesPerSecond"}
           firm == {"TaskHandle", "SourceArn", "DestinationArn", "Status", "ApproximateNumberOfMessagesMoved"}
<1>1. DOMAIN doc = firm \cup opt
  OBVIOUS
<1>2. /\ doc.TaskHandle = t.handle /\ doc.SourceArn = t.source /\ doc.DestinationArn = t.destination
      /\ doc.Status = t.status /\ doc.MaxNumberOfMessagesPerSecond = t.rate
      /\ doc.ApproximateNumberOfMessagesMoved = t.moved
  OBVIOUS
<1> HIDE DEF doc
<1>3. \A f \in firm : Omitting(opt, doc)[f] = doc[f]
  BY <1>1, OmittedFields
<1>4. Optional(Omitting(opt, doc), "MaxNumberOfMessagesPerSecond") = t.rate
  BY <1>1, <1>2, OmittedFields
<1>5. ReadTask(MoveTask(t))
        = [handle |-> t.handle, source |-> t.source, destination |-> t.destination, status |-> t.status,
           rate |-> t.rate, moved |-> t.moved]
  BY <1>2, <1>3, <1>4 DEF ReadTask, MoveTask, doc
<1>6. t = [handle |-> t.handle, source |-> t.source, destination |-> t.destination, status |-> t.status,
           rate |-> t.rate, moved |-> t.moved]
  BY DEF HasFields, TaskFields
<1> QED BY <1>5, <1>6

LEMMA BatchNames ==
  /\ DOMAIN BatchEntryName = Batches
  /\ \A a \in Batches : BatchEntryName[a] \notin {"Code", "BatchResultErrorEntry"}
BY DEF BatchEntryName, Batches

\* The sequences of an answer, element by element.
LEMMA ListsAreRead ==
  ASSUME NEW r, IsResponse(r)
  PROVE  /\ r.action = "ReceiveMessage" =>
              /\ Each(ReadXMLMessage, Each(BuildXMLMessage, r.messages)) = r.messages
              /\ Each(ReadJSONMessage, Each(BuildJSONMessage, r.messages)) = r.messages
         /\ r.action = "ListMessageMoveTasks" => Each(ReadTask, Each(MoveTask, r.tasks)) = r.tasks
         /\ r.action \in Batches =>
              /\ ReadResults(r.action, [i \in DOMAIN r.results |-> ResultOf(r.action, r.results[i])]) = r.results
              /\ Each(ReadError, Each(Error, r.errors)) = r.errors
<1>1. ASSUME r.action = "ReceiveMessage"
      PROVE  /\ Each(ReadXMLMessage, Each(BuildXMLMessage, r.messages)) = r.messages
             /\ Each(ReadJSONMessage, Each(BuildJSONMessage, r.messages)) = r.messages
  <2>1. IsTable(r.messages) /\ \A i \in DOMAIN r.messages : IsMessage(r.messages[i])
    BY <1>1 DEF IsResponse, Batches
  <2>2. \A i \in DOMAIN r.messages : /\ ReadXMLMessage(BuildXMLMessage(r.messages[i])) = r.messages[i]
                                     /\ ReadJSONMessage(BuildJSONMessage(r.messages[i])) = r.messages[i]
    BY <2>1, MessagesAreRead
  <2> QED BY <2>1, <2>2 DEF Each, IsTable
<1>2. ASSUME r.action = "ListMessageMoveTasks"
      PROVE  Each(ReadTask, Each(MoveTask, r.tasks)) = r.tasks
  <2>1. IsTable(r.tasks) /\ \A i \in DOMAIN r.tasks : HasFields(r.tasks[i], TaskFields)
    BY <1>2 DEF IsResponse, Batches
  <2>2. \A i \in DOMAIN r.tasks : ReadTask(MoveTask(r.tasks[i])) = r.tasks[i]
    BY <2>1, TaskIsRead
  <2> QED BY <2>1, <2>2 DEF Each, IsTable
<1>3. ASSUME r.action \in Batches
      PROVE  /\ ReadResults(r.action, [i \in DOMAIN r.results |-> ResultOf(r.action, r.results[i])]) = r.results
             /\ Each(ReadError, Each(Error, r.errors)) = r.errors
  <2>1. /\ IsTable(r.results) /\ IsTable(r.errors)
        /\ \A i \in DOMAIN r.results : HasFields(r.results[i], ResultFields(r.action))
        /\ \A i \in DOMAIN r.errors : HasFields(r.errors[i], {"entry", "code", "fault"})
    <3>1. IsBatchResponse(r)
      BY <1>3 DEF IsResponse, Batches
    <3> QED BY <3>1 DEF IsBatchResponse
  <2>2. \A i \in DOMAIN r.errors : ReadError(Error(r.errors[i])) = r.errors[i]
    BY <2>1, ErrorIsRead
  <2>3. Each(ReadError, Each(Error, r.errors)) = r.errors
    BY <2>1, <2>2 DEF Each, IsTable
  <2>4. \A i \in DOMAIN r.results :
          (IF r.action = "SendMessageBatch" THEN ReadSendResult(ResultOf(r.action, r.results[i]))
           ELSE ReadResult(ResultOf(r.action, r.results[i]))) = r.results[i]
    BY <2>1, ResultIsRead
  <2>5. ReadResults(r.action, [i \in DOMAIN r.results |-> ResultOf(r.action, r.results[i])]) = r.results
    BY <2>1, <2>4 DEF ReadResults, Each, IsTable
  <2> QED BY <2>3, <2>5
<1> QED BY <1>1, <1>2, <1>3

\* An answer that both protocols write in the same way.
LEMMA CommonIsRead ==
  ASSUME NEW r, IsResponse(r),
         r.action \in {"SendMessage", "StartMessageMoveTask", "CancelMessageMoveTask"}
  PROVE  /\ MarshalXMLResponse(r) = [Result |-> MarshalJSONResponse(r)]
         /\ {"Code", "Type"} \cap DOMAIN MarshalJSONResponse(r) = {}
         /\ ReadCommon(r.action, MarshalJSONResponse(r)) = r
<1>1. CASE r.action = "SendMessage"
  <2>1. /\ MarshalXMLResponse(r) = [Result |-> Receipt("MessageId", r.message)]
        /\ MarshalJSONResponse(r) = Receipt("MessageId", r.message)
    BY <1>1, BatchNames DEF MarshalXMLResponse, MarshalJSONResponse, Batches
  <2>2. HasFields(r, {"action", "message"}) /\ HasFields(r.message, ReceiptFields)
    BY <1>1 DEF IsResponse, Batches
  <2>3. {"Code", "Type"} \cap DOMAIN Receipt("MessageId", r.message) = {}
    <3>1. DOMAIN Receipt("MessageId", r.message) \subseteq {"MessageId", "MD5OfMessageBody"} \cup Checksums
      BY ReceiptIsRead
    <3> QED BY <3>1 DEF Checksums
  <2>4. ReadCommon(r.action, MarshalJSONResponse(r)) = [action |-> r.action, message |-> r.message]
    BY <1>1, <2>1, <2>2, SentIsRead DEF ReadCommon
  <2>5. r = [action |-> r.action, message |-> r.message]
    BY <2>2 DEF HasFields
  <2> QED BY <2>1, <2>3, <2>4, <2>5
<1>2. CASE r.action = "StartMessageMoveTask"
  <2>1. /\ MarshalXMLResponse(r) = [Result |-> [TaskHandle |-> r.task.handle]]
        /\ MarshalJSONResponse(r) = [TaskHandle |-> r.task.handle]
    BY <1>2, BatchNames DEF MarshalXMLResponse, MarshalJSONResponse, Batches
  <2>2. HasFields(r, {"action", "task"}) /\ HasFields(r.task, {"handle"})
    BY <1>2 DEF IsResponse, Batches
  <2>3. ReadCommon(r.action, MarshalJSONResponse(r))
          = [action |-> r.action, task |-> [handle |-> r.task.handle]]
    BY <1>2, <2>1 DEF ReadCommon
  <2>4. r.task = [handle |-> r.task.handle]
    BY <2>2 DEF HasFields
  <2>5. r = [action |-> r.action, task |-> r.task]
    BY <2>2 DEF HasFields
  <2> QED BY <2>1, <2>3, <2>4, <2>5
<1>3. CASE r.action = "CancelMessageMoveTask"
  <2>1. /\ MarshalXMLResponse(r) = [Result |-> [ApproximateNumberOfMessagesMoved |-> r.task.moved]]
        /\ MarshalJSONResponse(r) = [ApproximateNumberOfMessagesMoved |-> r.task.moved]
    BY <1>3, BatchNames DEF MarshalXMLResponse, MarshalJSONResponse, Batches
  <2>2. HasFields(r, {"action", "task"}) /\ HasFields(r.task, {"moved"})
    BY <1>3 DEF IsResponse, Batches
  <2>3. ReadCommon(r.action, MarshalJSONResponse(r)) = [action |-> r.action, task |-> [moved |-> r.task.moved]]
    BY <1>3, <2>1 DEF ReadCommon
  <2>4. r.task = [moved |-> r.task.moved]
    BY <2>2 DEF HasFields
  <2>5. r = [action |-> r.action, task |-> r.task]
    BY <2>2 DEF HasFields
  <2> QED BY <2>1, <2>3, <2>4, <2>5
<1> QED BY <1>1, <1>2, <1>3

\* Every answer is read back from its JSON text.
LEMMA JSONIsRead ==
  ASSUME NEW r, IsResponse(r)
  PROVE  ReadJSON(r.action, MarshalResponse(r, TRUE)) = r
<1>1. CASE r.action = "error"
  <2>1. HasFields(r, {"action", "code"})
    BY <1>1 DEF IsResponse, Batches
  <2>2. ReadJSON(r.action, MarshalResponse(r, TRUE)) = [action |-> "error", code |-> r.code]
    <3>1. MarshalResponse(r, TRUE) = [Type |-> <<"com.amazonaws.sqs", r.code>>]
      BY <1>1 DEF MarshalResponse, ToJSON
    <3>2. PICK d : d = [Type |-> <<"com.amazonaws.sqs", r.code>>]
      OBVIOUS
    <3>3. "Type" \in DOMAIN d /\ d.Type[2] = r.code
      BY <3>2
    <3>4. ReadJSON("error", d) = [action |-> "error", code |-> d.Type[2]]
      BY <3>3, BatchNames DEF ReadJSON, Batches
    <3> QED BY <1>1, <3>1, <3>2, <3>3, <3>4
  <2>3. r = [action |-> r.action, code |-> r.code]
    BY <2>1 DEF HasFields
  <2> QED BY <1>1, <2>2, <2>3
<1>2. r.action # "error" => MarshalResponse(r, TRUE) = MarshalJSONResponse(r)
  BY DEF MarshalResponse
<1>3. CASE r.action \in {"CreateQueue", "GetQueueUrl"}
  <2>1. MarshalJSONResponse(r) = [QueueUrl |-> r.url]
    BY <1>3, BatchNames DEF MarshalJSONResponse, Batches
  <2>2. HasFields(r, {"action", "url"})
    BY <1>3 DEF IsResponse, Batches
  <2>3. "Type" \notin DOMAIN MarshalJSONResponse(r)
    BY <1>3, <2>1
  <2>4. ReadJSON(r.action, MarshalJSONResponse(r)) = [action |-> r.action, url |-> r.url]
    BY <1>3, <2>1, <2>3, BatchNames DEF ReadJSON, Batches
  <2>5. r = [action |-> r.action, url |-> r.url]
    BY <2>2 DEF HasFields
  <2> QED BY <1>2, <1>3, <2>4, <2>5
<1>4. CASE r.action \in {"ListQueues", "ListDeadLetterSourceQueues"}
  <2>1. MarshalJSONResponse(r) = [QueueUrls |-> r.urls]
    BY <1>4, BatchNames DEF MarshalJSONResponse, Batches
  <2>2. HasFields(r, {"action", "urls"})
    BY <1>4 DEF IsResponse, Batches
  <2>3. "Type" \notin DOMAIN MarshalJSONResponse(r)
    BY <1>4, <2>1
  <2>4. ReadJSON(r.action, MarshalJSONResponse(r)) = [action |-> r.action, urls |-> r.urls]
    BY <1>4, <2>1, <2>3, BatchNames DEF ReadJSON, Batches
  <2>5. r = [action |-> r.action, urls |-> r.urls]
    BY <2>2 DEF HasFields
  <2> QED BY <1>2, <1>4, <2>4, <2>5
<1>5. CASE r.action = "ReceiveMessage"
  <2>1. MarshalJSONResponse(r) = [Messages |-> Each(BuildJSONMessage, r.messages)]
    BY <1>5, BatchNames DEF MarshalJSONResponse, Batches
  <2>2. HasFields(r, {"action", "messages"})
    BY <1>5 DEF IsResponse, Batches
  <2>3. "Type" \notin DOMAIN MarshalJSONResponse(r)
    BY <1>5, <2>1
  <2>4. ReadJSON(r.action, MarshalJSONResponse(r))
          = [action |-> r.action, messages |-> Each(ReadJSONMessage, Each(BuildJSONMessage, r.messages))]
    BY <1>5, <2>1, <2>3, BatchNames DEF ReadJSON, Batches
  <2>5. Each(ReadJSONMessage, Each(BuildJSONMessage, r.messages)) = r.messages
    BY <1>5, ListsAreRead
  <2>6. r = [action |-> r.action, messages |-> r.messages]
    BY <2>2 DEF HasFields
  <2> QED BY <1>2, <1>5, <2>4, <2>5, <2>6
<1>6. CASE r.action = "GetQueueAttributes"
  <2>1. MarshalJSONResponse(r) = [Attributes |-> r.attrs]
    BY <1>6, BatchNames DEF MarshalJSONResponse, Batches
  <2>2. HasFields(r, {"action", "attrs"})
    BY <1>6 DEF IsResponse, Batches
  <2>3. "Type" \notin DOMAIN MarshalJSONResponse(r)
    BY <1>6, <2>1
  <2>4. ReadJSON(r.action, MarshalJSONResponse(r)) = [action |-> r.action, attrs |-> r.attrs]
    BY <1>6, <2>1, <2>3, BatchNames DEF ReadJSON, Batches
  <2>5. r = [action |-> r.action, attrs |-> r.attrs]
    BY <2>2 DEF HasFields
  <2> QED BY <1>2, <1>6, <2>4, <2>5
<1>7. CASE r.action = "ListQueueTags"
  <2>1. MarshalJSONResponse(r) = [Tags |-> r.tags]
    BY <1>7, BatchNames DEF MarshalJSONResponse, Batches
  <2>2. HasFields(r, {"action", "tags"})
    BY <1>7 DEF IsResponse, Batches
  <2>3. "Type" \notin DOMAIN MarshalJSONResponse(r)
    BY <1>7, <2>1
  <2>4. ReadJSON(r.action, MarshalJSONResponse(r)) = [action |-> r.action, tags |-> r.tags]
    BY <1>7, <2>1, <2>3, BatchNames DEF ReadJSON, Batches
  <2>5. r = [action |-> r.action, tags |-> r.tags]
    BY <2>2 DEF HasFields
  <2> QED BY <1>2, <1>7, <2>4, <2>5
<1>8. CASE r.action \in Batches
  <2>1. MarshalJSONResponse(r) = [Successful |-> [i \in DOMAIN r.results |-> ResultOf(r.action, r.results[i])],
                                   Failed |-> Each(Error, r.errors)]
    BY <1>8, BatchNames DEF MarshalJSONResponse, Batches
  <2>2. HasFields(r, {"action", "results", "errors"})
    BY <1>8 DEF IsResponse, Batches, IsBatchResponse
  <2>3. "Type" \notin DOMAIN MarshalJSONResponse(r)
    BY <1>8, <2>1, BatchNames
  <2>4. ReadJSON(r.action, MarshalJSONResponse(r))
          = [action |-> r.action,
             results |-> ReadResults(r.action, [i \in DOMAIN r.results |-> ResultOf(r.action, r.results[i])]),
             errors |-> Each(ReadError, Each(Error, r.errors))]
    BY <1>8, <2>1, <2>3, BatchNames DEF ReadJSON, Batches
  <2>5. /\ ReadResults(r.action, [i \in DOMAIN r.results |-> ResultOf(r.action, r.results[i])]) = r.results
        /\ Each(ReadError, Each(Error, r.errors)) = r.errors
    BY <1>8, ListsAreRead
  <2>6. r = [action |-> r.action, results |-> r.results, errors |-> r.errors]
    BY <2>2 DEF HasFields
  <2>7. r.action # "error"
    BY <1>8 DEF Batches
  <2> QED BY <1>2, <2>4, <2>5, <2>6, <2>7, Zenon
<1>9. CASE r.action = "ListMessageMoveTasks"
  <2>1. MarshalJSONResponse(r) = [Results |-> Each(MoveTask, r.tasks)]
    BY <1>9, BatchNames DEF MarshalJSONResponse, Batches
  <2>2. HasFields(r, {"action", "tasks"})
    BY <1>9 DEF IsResponse, Batches
  <2>3. "Type" \notin DOMAIN MarshalJSONResponse(r)
    BY <1>9, <2>1
  <2>4. ReadJSON(r.action, MarshalJSONResponse(r))
          = [action |-> r.action, tasks |-> Each(ReadTask, Each(MoveTask, r.tasks))]
    BY <1>9, <2>1, <2>3, BatchNames DEF ReadJSON, Batches
  <2>5. Each(ReadTask, Each(MoveTask, r.tasks)) = r.tasks
    BY <1>9, ListsAreRead
  <2>6. r = [action |-> r.action, tasks |-> r.tasks]
    BY <2>2 DEF HasFields
  <2> QED BY <1>2, <1>9, <2>4, <2>5, <2>6
<1>10. CASE r.action \notin {"error", "CreateQueue", "GetQueueUrl", "ListQueues", "ListDeadLetterSourceQueues",
                            "SendMessage", "ReceiveMessage", "GetQueueAttributes", "ListQueueTags",
                            "StartMessageMoveTask", "CancelMessageMoveTask", "ListMessageMoveTasks"} \cup Batches
  <2>1. MarshalJSONResponse(r) = <<>>
    BY <1>10, BatchNames DEF MarshalJSONResponse, Batches
  <2>2. HasFields(r, {"action"})
    BY <1>10 DEF IsResponse, Batches, IsBatchResponse
  <2>3. "Type" \notin DOMAIN MarshalJSONResponse(r)
    BY <1>10, <2>1, BatchNames
  <2>4. ReadJSON(r.action, MarshalJSONResponse(r)) = [action |-> r.action]
    BY <1>10, <2>1, <2>3, BatchNames DEF ReadJSON, Batches, ReadCommon
  <2>5. r = [action |-> r.action]
    BY <2>2 DEF HasFields
  <2> QED BY <1>2, <1>10, <2>4, <2>5
<1>11. CASE r.action \in {"SendMessage", "StartMessageMoveTask", "CancelMessageMoveTask"}
  <2>1. "Type" \notin DOMAIN MarshalJSONResponse(r) /\ ReadCommon(r.action, MarshalJSONResponse(r)) = r
    BY <1>11, CommonIsRead
  <2>2. ReadJSON(r.action, MarshalJSONResponse(r)) = ReadCommon(r.action, MarshalJSONResponse(r))
    BY <1>11, <2>1, BatchNames DEF ReadJSON, Batches
  <2> QED BY <1>2, <1>11, <2>1, <2>2
<1> QED BY <1>1, <1>3, <1>4, <1>5, <1>6, <1>7, <1>8, <1>9, <1>10, <1>11 DEF Batches

\* What is within the result of an answer.
LEMMA WithinResult ==
  ASSUME NEW action, NEW d
  PROVE  ReadXML(action, [Result |-> d]) = ReadResultXML(action, d)
<1> DEFINE x == [Result |-> d]
<1>1. DOMAIN x = {"Result"} /\ x["Result"] = d
  OBVIOUS
<1> HIDE DEF x
<1>2. ReadXML(action, x) = ReadResultXML(action, d)
  BY <1>1 DEF ReadXML, Inside
<1> QED BY <1>2 DEF x

\* An error is read as one, without its code.
LEMMA XMLErrorIsRead ==
  ASSUME NEW r, IsResponse(r), r.action = "error"
  PROVE  ReadXML(r.action, MarshalResponse(r, FALSE)) = [r EXCEPT !.code = ""]
<1>1. HasFields(r, {"action", "code"})
  BY DEF IsResponse, Batches
<1>2. [r EXCEPT !.code = ""] = [action |-> "error", code |-> ""]
  <2>1. PICK none : none = ""
    OBVIOUS
  <2>2. [r EXCEPT !.code = none] = [action |-> r.action, code |-> none]
    BY <1>1 DEF HasFields
  <2> QED BY <2>1, <2>2
<1>3. PICK e : e = [Code |-> r.code]
  OBVIOUS
<1>4. PICK d : d = [ErrorResponse |-> e]
  OBVIOUS
<1>5. MarshalResponse(r, FALSE) = d
  BY <1>3, <1>4 DEF MarshalResponse, ToXML
<1>6. "ErrorResponse" \in DOMAIN d /\ d["ErrorResponse"] = e
  BY <1>4
<1>7. DOMAIN e = {"Code"}
  BY <1>3
<1>8. Inside(e, "Error") = <<>>
  BY <1>7 DEF Inside
<1>9. Optional(<<>>, "Code") = ""
  BY DEF Optional
<1>10. ReadXML(r.action, d) = [action |-> "error", code |-> ""]
  BY <1>6, <1>8, <1>9 DEF ReadXML
<1> QED BY <1>2, <1>5, <1>10

\* A batch is read but for its errors.
LEMMA XMLBatchIsRead ==
  ASSUME NEW r, IsResponse(r), r.action \in Batches
  PROVE  ReadXML(r.action, MarshalResponse(r, FALSE)) = [r EXCEPT !.errors = <<>>]
<1> DEFINE name == BatchEntryName[r.action]
           results == [i \in DOMAIN r.results |-> ResultOf(r.action, r.results[i])]
           x == [n \in {name} |-> results]
           d == [Result |-> x, BatchResultErrorEntry |-> Each(Error, r.errors)]
<1>1. MarshalResponse(r, FALSE) = d
  <2>1. r.action # "error"
    BY DEF Batches
  <2>2. MarshalXMLResponse(r) = d
    BY BatchNames DEF MarshalXMLResponse, Batches
  <2> HIDE DEF d
  <2> QED BY <2>1, <2>2 DEF MarshalResponse
<1>2. DOMAIN x = {name} /\ x[name] = results /\ name # "BatchResultErrorEntry"
  BY BatchNames
<1>3. DOMAIN d = {"Result", "BatchResultErrorEntry"} /\ d["Result"] = x
  OBVIOUS
<1> HIDE DEF d, x
<1>4. ReadXML(r.action, d) = ReadResultXML(r.action, x)
  BY <1>3 DEF ReadXML, Inside
<1>5. Each(ReadError, Inside(x, "BatchResultErrorEntry")) = <<>>
  <2>1. Inside(x, "BatchResultErrorEntry") = <<>>
    BY <1>2 DEF Inside
  <2>2. Each(ReadError, <<>>) = <<>>
    BY DEF Each
  <2> QED BY <2>1, <2>2
<1>6. ReadResultXML(r.action, x)
        = [action |-> r.action, results |-> ReadResults(r.action, x[name]),
           errors |-> Each(ReadError, Inside(x, "BatchResultErrorEntry"))]
  BY BatchNames DEF ReadResultXML, Batches
<1>7. ReadResults(r.action, results) = r.results
  BY ListsAreRead
<1>8. [r EXCEPT !.errors = <<>>] = [action |-> r.action, results |-> r.results, errors |-> <<>>]
  <2>1. HasFields(r, {"action", "results", "errors"})
    BY DEF IsResponse, Batches, IsBatchResponse
  <2> QED BY <2>1 DEF HasFields
<1> HIDE DEF name, results
<1> QED BY <1>1, <1>2, <1>4, <1>5, <1>6, <1>7, <1>8, Zenon

\* Every other answer is read back from its XML document.
LEMMA XMLIsRead ==
  ASSUME NEW r, IsResponse(r), r.action # "error", r.action \notin Batches
  PROVE  ReadXML(r.action, MarshalResponse(r, FALSE)) = r
<1>1. MarshalResponse(r, FALSE) = MarshalXMLResponse(r)
  BY DEF MarshalResponse
<1>2. CASE r.action \in {"CreateQueue", "GetQueueUrl"}
  <2>1. MarshalXMLResponse(r) = [Result |-> [QueueUrl |-> <<r.url>>]]
    BY <1>2, BatchNames DEF MarshalXMLResponse, Batches
  <2>2. HasFields(r, {"action", "url"})
    BY <1>2 DEF IsResponse, Batches
  <2>3. ReadXML(r.action, MarshalXMLResponse(r)) = ReadResultXML(r.action, [QueueUrl |-> <<r.url>>])
    BY <2>1, WithinResult
  <2>4. ReadResultXML(r.action, [QueueUrl |-> <<r.url>>]) = [action |-> r.action, url |-> r.url]
    BY <1>2, BatchNames DEF ReadResultXML, Batches
  <2>5. r = [action |-> r.action, url |-> r.url]
    BY <2>2 DEF HasFields
  <2> QED BY <1>1, <1>2, <2>3, <2>4, <2>5
<1>3. CASE r.action \in {"ListQueues", "ListDeadLetterSourceQueues"}
  <2>1. MarshalXMLResponse(r) = [Result |-> [QueueUrl |-> r.urls]]
    BY <1>3, BatchNames DEF MarshalXMLResponse, Batches
  <2>2. HasFields(r, {"action", "urls"})
    BY <1>3 DEF IsResponse, Batches
  <2>3. ReadXML(r.action, MarshalXMLResponse(r)) = ReadResultXML(r.action, [QueueUrl |-> r.urls])
    BY <2>1, WithinResult
  <2>4. ReadResultXML(r.action, [QueueUrl |-> r.urls]) = [action |-> r.action, urls |-> r.urls]
    BY <1>3, BatchNames DEF ReadResultXML, Batches
  <2>5. r = [action |-> r.action, urls |-> r.urls]
    BY <2>2 DEF HasFields
  <2> QED BY <1>1, <1>3, <2>3, <2>4, <2>5
<1>4. CASE r.action = "ReceiveMessage"
  <2>1. MarshalXMLResponse(r) = [Result |-> [Message |-> Each(BuildXMLMessage, r.messages)]]
    BY <1>4, BatchNames DEF MarshalXMLResponse, Batches
  <2>2. HasFields(r, {"action", "messages"})
    BY <1>4 DEF IsResponse, Batches
  <2>3. ReadXML(r.action, MarshalXMLResponse(r)) = ReadResultXML(r.action, [Message |-> Each(BuildXMLMessage, r.messages)])
    BY <2>1, WithinResult
  <2>4. ReadResultXML(r.action, [Message |-> Each(BuildXMLMessage, r.messages)])
          = [action |-> r.action, messages |-> Each(ReadXMLMessage, Each(BuildXMLMessage, r.messages))]
    BY <1>4, BatchNames DEF ReadResultXML, Batches
  <2>5. Each(ReadXMLMessage, Each(BuildXMLMessage, r.messages)) = r.messages
    BY <1>4, ListsAreRead
  <2>6. r = [action |-> r.action, messages |-> r.messages]
    BY <2>2 DEF HasFields
  <2> QED BY <1>1, <1>4, <2>3, <2>4, <2>5, <2>6
<1>5. CASE r.action = "GetQueueAttributes"
  <2>1. MarshalXMLResponse(r) = [Result |-> [Attribute |-> Elements(r.attrs, "Name", "Value")]]
    BY <1>5, BatchNames DEF MarshalXMLResponse, Batches
  <2>2. HasFields(r, {"action", "attrs"})
    BY <1>5 DEF IsResponse, Batches
  <2>3. ReadXML(r.action, MarshalXMLResponse(r)) = ReadResultXML(r.action, [Attribute |-> Elements(r.attrs, "Name", "Value")])
    BY <2>1, WithinResult
  <2>4. ReadResultXML(r.action, [Attribute |-> Elements(r.attrs, "Name", "Value")])
          = [action |-> r.action, attrs |-> ByKey(Elements(r.attrs, "Name", "Value"), "Name", "Value")]
    BY <1>5, BatchNames DEF ReadResultXML, Batches
  <2>5. ByKey(Elements(r.attrs, "Name", "Value"), "Name", "Value") = r.attrs
    BY <1>5, ElementsByKey DEF IsResponse, IsTable, Batches
  <2>6. r = [action |-> r.action, attrs |-> r.attrs]
    BY <2>2 DEF HasFields
  <2> QED BY <1>1, <1>5, <2>3, <2>4, <2>5, <2>6
<1>6. CASE r.action = "ListQueueTags"
  <2>1. MarshalXMLResponse(r) = [Result |-> [Tag |-> Elements(r.tags, "Key", "Value")]]
    BY <1>6, BatchNames DEF MarshalXMLResponse, Batches
  <2>2. HasFields(r, {"action", "tags"})
    BY <1>6 DEF IsResponse, Batches
  <2>3. ReadXML(r.action, MarshalXMLResponse(r)) = ReadResultXML(r.action, [Tag |-> Elements(r.tags, "Key", "Value")])
    BY <2>1, WithinResult
  <2>4. ReadResultXML(r.action, [Tag |-> Elements(r.tags, "Key", "Value")])
          = [action |-> r.action, tags |-> ByKey(Elements(r.tags, "Key", "Value"), "Key", "Value")]
    BY <1>6, BatchNames DEF ReadResultXML, Batches
  <2>5. ByKey(Elements(r.tags, "Key", "Value"), "Key", "Value") = r.tags
    BY <1>6, ElementsByKey DEF IsResponse, IsTable, Batches
  <2>6. r = [action |-> r.action, tags |-> r.tags]
    BY <2>2 DEF HasFields
  <2> QED BY <1>1, <1>6, <2>3, <2>4, <2>5, <2>6
<1>7. CASE r.action = "ListMessageMoveTasks"
  <2>1. MarshalXMLResponse(r) = [Result |-> [Results |-> [member |-> Each(MoveTask, r.tasks)]]]
    BY <1>7, BatchNames DEF MarshalXMLResponse, Batches
  <2>2. HasFields(r, {"action", "tasks"})
    BY <1>7 DEF IsResponse, Batches
  <2>3. ReadXML(r.action, MarshalXMLResponse(r)) = ReadResultXML(r.action, [Results |-> [member |-> Each(MoveTask, r.tasks)]])
    BY <2>1, WithinResult
  <2>4. ReadResultXML(r.action, [Results |-> [member |-> Each(MoveTask, r.tasks)]])
          = [action |-> r.action, tasks |-> Each(ReadTask, Each(MoveTask, r.tasks))]
    BY <1>7, BatchNames DEF ReadResultXML, Batches
  <2>5. Each(ReadTask, Each(MoveTask, r.tasks)) = r.tasks
    BY <1>7, ListsAreRead
  <2>6. r = [action |-> r.action, tasks |-> r.tasks]
    BY <2>2 DEF HasFields
  <2> QED BY <1>1, <1>7, <2>3, <2>4, <2>5, <2>6
<1>8. CASE r.action \notin {"CreateQueue", "GetQueueUrl", "ListQueues", "ListDeadLetterSourceQueues",
                            "SendMessage", "ReceiveMessage", "GetQueueAttributes", "ListQueueTags",
                            "StartMessageMoveTask", "CancelMessageMoveTask", "ListMessageMoveTasks"} \cup Batches
  <2>1. MarshalXMLResponse(r) = <<>>
    BY <1>8, BatchNames DEF MarshalXMLResponse, Batches
  <2>2. HasFields(r, {"action"})
    BY <1>8 DEF IsResponse, Batches, IsBatchResponse
  <2>3. "ErrorResponse" \notin DOMAIN MarshalXMLResponse(r) /\ Inside(MarshalXMLResponse(r), "Result") = <<>>
    BY <2>1 DEF Inside
  <2>4. ReadXML(r.action, MarshalXMLResponse(r)) = [action |-> r.action]
    BY <1>8, <2>3, BatchNames DEF ReadXML, ReadResultXML, Batches, ReadCommon
  <2>5. r = [action |-> r.action]
    BY <2>2 DEF HasFields
  <2> QED BY <1>1, <1>8, <2>4, <2>5
<1>9. CASE r.action \in {"SendMessage", "StartMessageMoveTask", "CancelMessageMoveTask"}
  <2>1. /\ MarshalXMLResponse(r) = [Result |-> MarshalJSONResponse(r)]
        /\ ReadCommon(r.action, MarshalJSONResponse(r)) = r
    BY <1>9, CommonIsRead
  <2>2. ReadXML(r.action, MarshalXMLResponse(r)) = ReadResultXML(r.action, MarshalJSONResponse(r))
    BY <2>1, WithinResult
  <2>3. ReadResultXML(r.action, MarshalJSONResponse(r)) = ReadCommon(r.action, MarshalJSONResponse(r))
    BY <1>9, BatchNames DEF ReadResultXML, Batches
  <2> QED BY <1>1, <2>1, <2>2, <2>3
<1> QED BY <1>2, <1>3, <1>4, <1>5, <1>6, <1>7, <1>8, <1>9

\* A client reads what the handler answered (MarshalResponse and the types of
\* protocol/marshal.go): whatever the messages, attributes, results and tasks are,
\* empty fields left out and maps turned into elements included, and errors in
\* JSON.  In XML it misses what is not where docs/api-reference.md:577 and the
\* libraries of AWS have it, the code of an error and the errors of a batch, and
\* nothing else.
THEOREM AnswersAreRead == Spec => []RepliesCarryTheAnswer
<1>1. FrontInv => RepliesCarryTheAnswer
  <2> SUFFICES ASSUME FrontInv, NEW p \in Procs
               PROVE  LET a    == call[p].answer
                          read == IF JSON(p) THEN ReadJSON(a.action, Written(p))
                                  ELSE ReadXML(a.action, Written(p))
                      IN
                      \/ read = a
                      \/ ~JSON(p) /\ a.action = "error" /\ read = [a EXCEPT !.code = ""]
                      \/ ~JSON(p) /\ a.action \in Batches /\ a.errors # <<>> /\ read = [a EXCEPT !.errors = <<>>]
    BY Zenon DEF RepliesCarryTheAnswer
  <2>1. call[p].answer \in {None} \cup HandlerAnswers \cup ErrorAnswers
    BY CallFacts DEF CallRecord
  <2>2. IsResponse(call[p].answer)
    <3>1. ASSUME NEW a \in HandlerAnswers PROVE IsResponse(a)
      BY <3>1, AnswersAssumption DEF HandlerAnswers
    <3>2. IsResponse(None)
      BY DEF IsResponse, None, HasFields, Batches
    <3>3. ASSUME NEW a \in ErrorAnswers PROVE IsResponse(a)
      <4>1. a.action = "error" /\ HasFields(a, {"action", "code"})
        BY <3>3 DEF ErrorAnswers, HasFields
      <4> QED BY <4>1 DEF IsResponse, Batches
    <3> QED BY <2>1, <3>1, <3>2, <3>3
  <2>3. CASE JSON(p)
    <3>1. Written(p) = MarshalResponse(call[p].answer, TRUE)
      BY <2>3 DEF Written
    <3> QED BY <2>2, <2>3, <3>1, JSONIsRead
  <2>4. CASE ~JSON(p)
    <3>1. Written(p) = MarshalResponse(call[p].answer, FALSE)
      <4>1. JSON(p) = FALSE
        BY <2>4 DEF JSON, IsJSON
      <4> QED BY <4>1 DEF Written
    <3>2. PICK a : a = call[p].answer
      OBVIOUS
    <3>3. CASE a.action = "error"
      BY <2>2, <2>4, <3>1, <3>2, <3>3, XMLErrorIsRead, Zenon
    <3>4. CASE a.action \in Batches
      <4>1. ReadXML(a.action, Written(p)) = [a EXCEPT !.errors = <<>>]
        BY <2>2, <3>1, <3>2, <3>4, XMLBatchIsRead, Zenon
      <4>2. a.errors = <<>> => [a EXCEPT !.errors = <<>>] = a
        <5>1. HasFields(a, {"action", "results", "errors"})
          BY <2>2, <3>2, <3>4 DEF IsResponse, Batches, IsBatchResponse
        <5> QED BY <5>1 DEF HasFields
      <4> QED BY <2>4, <3>2, <3>4, <4>1, <4>2, Zenon
    <3>5. CASE a.action # "error" /\ a.action \notin Batches
      BY <2>2, <2>4, <3>1, <3>2, <3>5, XMLIsRead, Zenon
    <3> QED BY <3>3, <3>4, <3>5
  <2> QED BY <2>3, <2>4
<1> QED BY <1>1, FrontInvariant, PTL
=============================================================================
