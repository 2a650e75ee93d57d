---------------------------- MODULE Authentication ----------------------------
(***************************************************************************)
(* How a request is authenticated (apps/go/server/middleware/auth.go), as  *)
(* a function of the request and of the credential its key leads to.       *)
(*                                                                         *)
(* A request is [method, path, query, queryParses, headers, host, body,    *)
(* auth]: the path its segments, the query the sequence of the pairs of it *)
(* that can be read, which may not be all, the headers a function to       *)
(* sequences of values.  The key of a pair is its text split at the dots.  *)
(* A body is [size, params, head, whole, parses, headParses]: its pairs,   *)
(* how many of them end within the first MaxBodySize bytes, whether it was *)
(* not cut, whether its text can be parsed, and whether its first bytes    *)
(* can.  auth is the Authorization header, or NoHeader.  A hash and an     *)
(* HMAC are their arguments.  A credential is [id, key, secret], or        *)
(* Missing for a lookup that finds none.                                   *)
(*                                                                         *)
(* Nothing is assumed of EncodeURI and Join: encodeURI writes every byte   *)
(* that is not UTF-8 in the same way, and joined values may be those of    *)
(* another list, one of which has a comma.                                 *)
(***************************************************************************)
EXTENDS Integers, Sequences, FiniteSets

CONSTANTS
  MaxBodySize,
  EncodeURI(_),  \* how a text is written in the canonical request
  Join(_)        \* the values of a header, trimmed and joined with commas

ASSUME AuthenticationAssumption == MaxBodySize \in Nat

\* A header that is there, with components missing, has empty ones.
NoHeader == [credential |-> <<>>, signed |-> {}, signature |-> <<>>]
Missing  == [id |-> 0, key |-> "", secret |-> ""]

ElementsOf(s) == {s[i] : i \in DOMAIN s}

\* io.LimitReader: what is left of a body that is read and restored.
Cut(body) ==
  IF body.size <= MaxBodySize THEN body
  ELSE [size |-> MaxBodySize, params |-> SubSeq(body.params, 1, body.head), head |-> body.head,
        whole |-> FALSE, parses |-> body.headParses, headParses |-> body.headParses]

(***************************************************************************)
(* Legacy credentials: two parameters of the query string or of a form     *)
(***************************************************************************)
\* url.Values.Get: the first value of a key.
FirstOf(pairs, key) ==
  LET at == {i \in DOMAIN pairs : pairs[i][1] = key}
  IN  IF at = {} THEN "" ELSE pairs[CHOOSE i \in at : \A j \in at : i <= j][2]

\* A form that does not parse has no credentials.
LegacyParam(r, key) ==
  IF FirstOf(r.query, key) # "" \/ r.method # "POST" THEN FirstOf(r.query, key)
  ELSE IF Cut(r.body).parses THEN FirstOf(Cut(r.body).params, key) ELSE ""

LegacyKey(r)    == LegacyParam(r, <<"AWSAccessKeyId">>)
LegacySecret(r) == LegacyParam(r, <<"AWSSecretAccessKey">>)

\* The body is read only when the query string lacks one of the two.
ReadsForm(r) ==
  /\ r.method = "POST"
  /\ FirstOf(r.query, <<"AWSAccessKeyId">>) = "" \/ FirstOf(r.query, <<"AWSSecretAccessKey">>) = ""

LegacyVerdict(r, cred) ==
  CASE LegacyKey(r) = "" \/ LegacySecret(r) = "" -> "MissingAuthenticationToken"
    [] OTHER -> IF cred = Missing THEN "InvalidClientTokenId"
                ELSE IF cred.secret # LegacySecret(r) THEN "SignatureDoesNotMatch" ELSE "ok"

(***************************************************************************)
(* Signature Version 4                                                     *)
(***************************************************************************)
Hash(x)      == <<"sha256", x>>
HMAC(key, x) == <<"hmac", key, x>>

\* The credential of the header: key, date, region, service, aws4_request.
Complete(h) ==
  /\ h.credential # <<>> /\ h.signed # {} /\ h.signature # <<>>
  /\ Len(h.credential) = 5 /\ h.credential[5] = "aws4_request"

CanonicalURIPath(path) == [i \in DOMAIN path |-> EncodeURI(path[i])]

\* A dot is left as it is: a key is encoded part by part.
EncodePair(pair) == <<[i \in DOMAIN pair[1] |-> EncodeURI(pair[1][i])], EncodeURI(pair[2])>>

\* Sorted pairs: how often each one is there.
CanonicalQueryString(query) ==
  LET encoded == [i \in DOMAIN query |-> EncodePair(query[i])] IN
  [pair \in ElementsOf(encoded) |-> Cardinality({i \in DOMAIN encoded : encoded[i] = pair})]

\* The signed headers, with host taken from the request line; one that is
\* missing is empty.
CanonicalHeaders(r, signed) ==
  [name \in signed |-> Join(IF name \in DOMAIN r.headers THEN r.headers[name]
                            ELSE IF name = "host" THEN <<r.host>> ELSE <<>>)]

\* Mutant: the canonical request is built without the query string.
CanonicalWithoutQuery(r, signed, payloadHash) ==
  [method |-> r.method, uri |-> CanonicalURIPath(r.path), query |-> <<>>,
   headers |-> CanonicalHeaders(r, signed), payload |-> payloadHash]

BuildCanonicalRequest(r, signed, payloadHash) ==
  [method |-> r.method, uri |-> CanonicalURIPath(r.path), query |-> CanonicalQueryString(r.query),
   headers |-> CanonicalHeaders(r, signed), payload |-> payloadHash]

DeriveSigningKey(secret, date, region, service) ==
  HMAC(HMAC(HMAC(HMAC(<<"AWS4", secret>>, date), region), service), "aws4_request")

Header(r, name) == IF name \in DOMAIN r.headers THEN r.headers[name][1] ELSE ""

AmzDate(r) == IF Header(r, "x-amz-date") # "" THEN Header(r, "x-amz-date") ELSE Header(r, "date")

\* What a signature covers, and the signature.
StringToSign(r, credential, signed, payloadHash) ==
  <<AmzDate(r), Tail(credential), Hash(BuildCanonicalRequest(r, signed, payloadHash))>>

Signature(r, credential, signed, secret, payloadHash) ==
  HMAC(DeriveSigningKey(secret, credential[2], credential[3], credential[4]),
       StringToSign(r, credential, signed, payloadHash))

\* The header X-Amz-Content-Sha256 holds a hash, here as a sequence of one.
SigV4Verdict(r, region, cred) ==
  LET h      == r.auth
      hash   == Hash(Cut(r.body))
      stated == IF "x-amz-content-sha256" \in DOMAIN r.headers
                THEN r.headers["x-amz-content-sha256"] ELSE <<hash>>
  IN
  IF ~Complete(h) THEN "IncompleteSignature"
  ELSE IF h.credential[4] # "sqs" \/ (region # "" /\ h.credential[3] # region)
       THEN "InvalidSignatureException"
  ELSE IF cred = Missing THEN "InvalidClientTokenId"
  ELSE IF stated # <<hash>> THEN "XAmzContentSHA256Mismatch"
  ELSE IF h.signature # Signature(r, h.credential, h.signed, cred.secret, hash)
       THEN "SignatureDoesNotMatch"
  ELSE "ok"

(***************************************************************************)
(* The middleware                                                          *)
(***************************************************************************)
Signed(r) == r.auth # NoHeader

\* The key that is looked up; none for a request that is refused before.
AccessKey(r) ==
  IF Signed(r) THEN (IF Complete(r.auth) THEN r.auth.credential[1] ELSE "") ELSE LegacyKey(r)

Verify(r, region, cred) == IF Signed(r) THEN SigV4Verdict(r, region, cred) ELSE LegacyVerdict(r, cred)

\* The body the next handler reads.
RestoredBody(r) == IF Signed(r) \/ ReadsForm(r) THEN Cut(r.body) ELSE r.body
=============================================================================
