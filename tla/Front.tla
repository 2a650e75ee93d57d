--------------------------------- MODULE Front ---------------------------------
(***************************************************************************)
(* The way of a request from the listener to its handler: the middleware   *)
(* chain that main builds (authentication, then a rate limiter) and        *)
(* handleSQSRequest, which reads the body, parses it and writes what the   *)
(* handler answers.  A request is served by a goroutine; a step is what    *)
(* happens between two accesses to what goroutines share, the credentials  *)
(* and the buckets.                                                        *)
(***************************************************************************)
EXTENDS Credentials, RateLimiter, Protocol, Clients

CONSTANTS
  Requests,  \* [name -> request]: what may arrive
  Answers,   \* [action -> the responses of its handler]
  Errors,    \* the codes a handler may fail with
  Setups,    \* the records [auth, limit, region, ui, backends, configs, requests, calls],
             \* with the names of requests and calls as a bound
  Procs,
  MaxTicks   \* bound

ASSUME FrontAssumption ==
  /\ MaxTicks \in Nat
  /\ \A s \in Setups : s.requests \subseteq DOMAIN Requests
  /\ \A r \in DOMAIN Requests : /\ ExtractQueueName(Requests[r].path) \in Limited \cup {NoQueue}
                                /\ Requests[r].body.size \in Nat

(***************************************************************************)
(* What arrives comes from clients, and what is answered from handlers     *)
(***************************************************************************)
\* What a signature vouches for, with the body that a handler reads: the path,
\* the query and the headers as the canonical request has them, so that what
\* EncodeURI or Join write alike may stand for each other.
Covered(r) ==
  [method |-> r.method, path |-> CanonicalURIPath(r.path), query |-> CanonicalQueryString(r.query),
   body |-> RestoredBody(r), headers |-> CanonicalHeaders(r, r.auth.signed), date |-> AmzDate(r)]

\* The signature of a client over what it sends, with the secret it has.  What it
\* has signed is canonical as the client sees it.
ClientSignature(r) ==
  LET s == r.signedAs
      d == r.auth.credential
  IN
  HMAC(DeriveSigningKey(r.secret, d[2], d[3], d[4]),
       <<s.date, Tail(d),
         Hash([method |-> s.method, uri |-> s.path, query |-> s.query, headers |-> s.headers,
               payload |-> Hash(s.body)])>>)

\* Clients sign a whole body, with a date, or have the secret they know in a
\* parameter.  What they have signed may be changed on the way, but for the header
\* with the signature.
Presents(r) ==
  CASE ~Signed(r) -> LegacySecret(r) = r.secret
    [] Signed(r) /\ Complete(r.auth) ->
         /\ HasFields(r.signedAs, {"method", "path", "query", "headers", "body", "date"})
         /\ r.auth.signature = ClientSignature(r)
         /\ r.scope = <<r.auth.credential[3], r.auth.credential[4]>>
         /\ r.signedAs.body.whole
    [] OTHER -> TRUE

ASSUME ClientsAssumption == \A n \in DOMAIN Requests : Presents(Requests[n])

\* The header X-Amz-Target, split at its dots.
TargetOf(r) == IF "x-amz-target" \in DOMAIN r.headers THEN r.headers["x-amz-target"][1] ELSE <<>>

SpeaksJSON(r) == IsJSON(TargetOf(r), Header(r, "content-type"))

\* The fields of a JSON text by name.
Fields(pairs) == LET f == FormValues(pairs) IN [n \in {k[1] : k \in DOMAIN f} |-> f[<<n>>]]

\* A form is in the body of a POST and in the query string of any other request.
SentForm(r) == FormValues(IF r.method = "POST" THEN r.body.params ELSE r.query)

\* What a request says, in the protocol it speaks, is what its client meant.
Conveys(r) ==
  IF SpeaksJSON(r)
  THEN /\ ObjectSays(Fields(r.body.params), r.meant)
       /\ r.meant.action = IF TargetOf(r) = <<>> THEN "" ELSE TargetOf(r)[Len(TargetOf(r))]
  ELSE FormSays(SentForm(r), r.meant)

ASSUME MeaningsAssumption == \A n \in DOMAIN Requests : Conveys(Requests[n])

ASSUME AnswersAssumption ==
  \A x \in DOMAIN Answers : \A a \in Answers[x] : a.action = x /\ IsResponse(a)

VARIABLES
  setup,  \* the configuration of the server
  call,   \* what each goroutine is doing
  calls, ticks

vars == <<credVars, limiterVars, setup, call, calls, ticks>>

None == [action |-> "none"]

Idle == [at |-> "idle", req |-> None, bucket |-> 0, cred |-> 0, gone |-> {}, answer |-> None]

Init ==
  /\ CredInit /\ LimiterInit
  /\ setup \in Setups /\ backend \in setup.backends
  /\ call = [p \in Procs |-> Idle]
  /\ calls = 0 /\ ticks = 0

At(p, pc) == call[p].at = pc
R(p)      == call[p].req
Auth      == setup.auth
Limit     == setup.limit
Goto(p, pc) == call' = [call EXCEPT ![p].at = pc]
Reply(p)  == call' = [call EXCEPT ![p] = Idle]

Begin(p, r) ==
  /\ phase = "up" /\ At(p, "idle") /\ calls < setup.calls
  /\ calls' = calls + 1
  /\ call' = [call EXCEPT ![p] = [Idle EXCEPT !.at = "auth", !.req = Requests[r], !.gone = revoked]]
  /\ UNCHANGED <<credVars, limiterVars, setup, ticks>>

\* A request without a key has no credential.
Lookup(key) == IF key = "" THEN {Missing} ELSE GetByAccessKeyID(key)

\* No credentials at all, an unknown key, a wrong secret: 403.
Authenticate(p) ==
  /\ At(p, "auth") /\ Auth
  /\ \E c \in Lookup(AccessKey(R(p))) :
       /\ IF Verify(R(p), setup.region, c) = "ok"
          THEN call' = [call EXCEPT ![p].at = "limit", ![p].cred = c.id]
          ELSE Reply(p)
       /\ Fault(AccessKey(R(p)), c)
  /\ UNCHANGED <<backend, creds, nextId, phase, config, seeded, boots, revoked, removed>>
  /\ UNCHANGED <<limiterVars, setup, calls, ticks>>

\* Without a store the middleware is not in the chain.
SkipAuth(p) ==
  /\ At(p, "auth") /\ ~Auth /\ Goto(p, "limit")
  /\ UNCHANGED <<credVars, limiterVars, setup, calls, ticks>>

LimiterName(r) ==
  CASE Limit = "global" -> Shared [] Limit = "queue" -> ExtractQueueName(r.path) [] OTHER -> NoQueue

\* A request without a queue in its path is let through.
PassLimiter(p) ==
  /\ At(p, "limit") /\ LimiterName(R(p)) = NoQueue /\ Goto(p, "handle")
  /\ UNCHANGED <<credVars, limiterVars, setup, calls, ticks>>

TakeLimiter(p) ==
  /\ At(p, "limit") /\ LimiterName(R(p)) # NoQueue
  /\ \E b \in 1..MaxBuckets :
       /\ GetLimiter(LimiterName(R(p)), b)
       /\ call' = [call EXCEPT ![p].at = "allow", ![p].bucket = b]
  /\ UNCHANGED <<credVars, setup, calls, ticks>>

Allow(p) ==
  /\ At(p, "allow")
  /\ Take(LimiterName(R(p)), call[p].bucket) /\ Goto(p, "handle")
  /\ UNCHANGED <<credVars, setup, calls, ticks>>

\* 429, and nothing is taken.
Refuse(p) ==
  /\ At(p, "allow")
  /\ Refuses(call[p].bucket) /\ Reply(p)
  /\ UNCHANGED <<credVars, limiterVars, setup, calls, ticks>>

(***************************************************************************)
(* handleSQSRequest                                                        *)
(***************************************************************************)
HandedBody(p) == IF Auth THEN RestoredBody(R(p)) ELSE R(p).body

Target(p) == TargetOf(R(p))

JSON(p) == SpeaksJSON(R(p))

\* A form of another method than POST is in the query string.
ReadsBody(p) == JSON(p) \/ R(p).method = "POST"

\* MaxBytesReader refuses what is too long,
TooLong(p) == ReadsBody(p) /\ HandedBody(p).size > MaxBodySize

\* and ParseJSONRequest and ParseQueryRequest what they cannot parse.
Readable(p) ==
  /\ ~TooLong(p)
  /\ IF ReadsBody(p) THEN HandedBody(p).parses ELSE R(p).queryParses

Parsed(p) ==
  IF JSON(p) THEN JSONRequest(Target(p), Fields(HandedBody(p).params))
  ELSE QueryRequest(FormValues(IF R(p).method = "POST" THEN HandedBody(p).params ELSE R(p).query))

Answer(p, a) == call' = [call EXCEPT ![p].at = "write", ![p].answer = a]

\* What the handler does is in Handlers: here it answers or fails.
Handle(p) ==
  /\ At(p, "handle")
  /\ IF ~Readable(p)
     THEN Answer(p, [action |-> "error",
                     code |-> IF TooLong(p) THEN "InternalError" ELSE "InvalidParameterValue"])
     ELSE \/ Parsed(p).action \in DOMAIN Answers /\ \E a \in Answers[Parsed(p).action] : Answer(p, a)
          \/ \E e \in Errors : Answer(p, [action |-> "error", code |-> e])
  /\ UNCHANGED <<credVars, limiterVars, setup, calls, ticks>>

\* The document that goes to the client.
Written(p) == MarshalResponse(call[p].answer, JSON(p))

Write(p) ==
  /\ At(p, "write") /\ Reply(p)
  /\ UNCHANGED <<credVars, limiterVars, setup, calls, ticks>>

(***************************************************************************)
(* The rest of the process, and its end                                    *)
(***************************************************************************)
frontVars == <<limiterVars, setup, call, calls, ticks>>

Tick ==
  /\ phase = "up" /\ ticks < MaxTicks /\ ticks' = ticks + 1
  /\ Refilled
  /\ UNCHANGED <<credVars, setup, call, calls>>

\* Only the limiter per queue has a cleanup.
CleanLimiters ==
  /\ phase = "up" /\ Limit = "queue" /\ Cleanup
  /\ UNCHANGED <<credVars, setup, call, calls, ticks>>

Restart ==
  /\ Crash /\ LimiterReset
  /\ call' = [p \in Procs |-> Idle]
  /\ UNCHANGED <<setup, calls, ticks>>

Serve(p) ==
  \/ Authenticate(p) \/ SkipAuth(p) \/ PassLimiter(p) \/ TakeLimiter(p)
  \/ Allow(p) \/ Refuse(p) \/ Handle(p) \/ Write(p)

\* The start of the server and the web interface, which may be off.
Manage ==
  \/ Boot /\ config' \in setup.configs
  \/ SeedLookup \/ SeedDone
  \/ MemoryImport \/ SQLiteImportCheck \/ BadgerImportCheck \/ ImportInsert
  \/ setup.ui /\ (HandleCreateCredential \/ HandleCredentialRoutes)

Next ==
  \/ \E p \in Procs, r \in setup.requests : Begin(p, r)
  \/ \E p \in Procs : Serve(p)
  \/ Tick \/ CleanLimiters \/ Restart
  \/ Manage /\ UNCHANGED frontVars

Spec == Init /\ [][Next]_vars

(***************************************************************************)
(* Properties                                                              *)
(***************************************************************************)
\* Every variable keeps its type; a bucket in the map is of its name, and a
\* request that is about to take a token holds a bucket of its queue.
TypeOK ==
  /\ \A c \in creds : c.id \in 1..(nextId - 1)
  /\ phase = "down" => config = <<>>
  /\ \A n \in Limited : limiters[n] # 0 =>
       limiters[n] \in DOMAIN buckets /\ buckets[limiters[n]].of = n
  /\ \A b \in DOMAIN buckets : buckets[b].tokens \in 0..Burst
  /\ \A p \in Procs : At(p, "allow") =>
       call[p].bucket \in DOMAIN buckets /\ buckets[call[p].bucket].of = LimiterName(R(p))

\* A credential that was deleted before a request came does not serve it.
RevokedIsRefused ==
  \A p \in Procs : At(p, "limit") \/ At(p, "allow") \/ At(p, "handle") => call[p].cred \notin call[p].gone

\* A request is genuine if its client knew the secret of the key and, where it
\* is signed, if it is for this service and region, if the handler will be given
\* the method, the body and the date that were signed, and a path, a query and
\* headers with the canonical form that was signed, and if the hash it states is
\* the one of that body.
Genuine(r, c) ==
  /\ r.secret = c.secret
  /\ Signed(r) => /\ r.scope[2] = "sqs" /\ setup.region \in {"", r.scope[1]}
                  /\ Covered(r) = r.signedAs
                  /\ "x-amz-content-sha256" \in DOMAIN r.headers =>
                       r.headers["x-amz-content-sha256"] = <<Hash(RestoredBody(r))>>

\* Authentication (verifySigV4, verifyLegacyQuery) lets through the genuine
\* requests and no others: what was changed on the way passes only where
\* encodeURI or the joining of header values cannot tell it from what was signed.
AuthenticationIsRight ==
  \A p \in Procs : At(p, "auth") /\ Auth => \A c \in WithKey(AccessKey(R(p))) :
    Verify(R(p), setup.region, c) = "ok" <=> Genuine(R(p), c)

\* Both protocols hand a request to its handler as it was meant, but for the
\* losses ObjectKept and FormKept name (attributes of batch entries, which
\* docs/api-reference.md:352-353 lists as supported, attributes after a gap in
\* their numbers), and the body that authentication has read is still there.
\* Only a body that is too long, and in which authentication has looked for
\* credentials, is cut without an error.
HandlerGetsWhatWasSent ==
  \A p \in Procs : At(p, "handle") /\ Readable(p) =>
    \/ IF JSON(p) THEN ObjectKept(Parsed(p), R(p).meant)
       ELSE FormKept(Parsed(p), R(p).meant, SentForm(R(p)))
    \/ Auth /\ ~Signed(R(p)) /\ ReadsForm(R(p)) /\ R(p).body.size > MaxBodySize

\* A client of either protocol reads in the document it gets what the handler
\* answered: no message, attribute or result of a batch entry is lost, and no
\* error in JSON.  In XML a client that looks for the code of an error within
\* Error (docs/api-reference.md:577-586) reads an error without a code, since
\* errors.go:12-17 writes it right under ErrorResponse, and one that looks for
\* the errors of a batch within its result misses those, which
\* protocol/marshal.go:126 writes beside it.
RepliesCarryTheAnswer ==
  \A p \in Procs : At(p, "write") =>
    LET a    == call[p].answer
        read == IF JSON(p) THEN ReadJSON(a.action, Written(p)) ELSE ReadXML(a.action, Written(p))
    IN
    \/ read = a
    \/ ~JSON(p) /\ a.action = "error" /\ read = [a EXCEPT !.code = ""]
    \/ ~JSON(p) /\ a.action \in Batches /\ a.errors # <<>> /\ read = [a EXCEPT !.errors = <<>>]

Refused(p) == At(p, "allow") /\ call'[p].at = "idle" /\ phase' = "up"

\* A request is refused only when its own queue, the second segment of its path,
\* has used up its tokens, however busy other queues are.
RefusedOnlyWhenSpent ==
  [][\A p \in Procs : Refused(p) =>
       ideal[IF Limit = "global" THEN Shared ELSE R(p).path[2]] <= 0]_vars
=============================================================================
