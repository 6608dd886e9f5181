------------------------------- MODULE SigV4 -------------------------------
(***************************************************************************)
(* Request signing (AWS Signature Version 4) between a client, or the      *)
(* dashboard acting as one, and the verifiers of the SSM, STS, Application *)
(* Auto Scaling, DynamoDB, SQS, Lambda and S3 services.                    *)
(*                                                                         *)
(* Each service keeps a verifier of its own; they differ in the modes they *)
(* know, in what a missing payload hash stands for, in the canonical path  *)
(* and in the checks of dates and header coverage.  The differences are    *)
(* the fields of a service's record in Verifiers; the steps they share are *)
(* written once.  HMAC and SHA-256 are perfect: a digest is the value      *)
(* itself, a signature the record of everything that was signed.           *)
(*                                                                         *)
(* The client is external.  Between it and the verifier a request is       *)
(* delayed, and a proxy or a fault may respell it or damage it.            *)
(***************************************************************************)
EXTENDS Integers, Sequences, FiniteSets, SequencesExt

CONSTANTS
    Calls,          \* the requests clients compose (records; see TypeOK)
    Secrets,        \* the values of the configured secret, "" among them
    Drifts,         \* how far the client's clock is ahead of the server's
    Skew,           \* SIGV4_MAX_CLOCK_SKEW_SECONDS
    LongestExpiry,  \* the 604800 seconds of a presigned URL
    DayLength,      \* how many ticks have the same date
    MaxClock,       \* bound: the server's clock
    MaxChanges      \* bound: changes a request meets on its way

VARIABLES
    service,        \* the verifier
    mode,           \* auth_mode
    secret,         \* the configured secret_access_key
    clock,          \* the server's clock
    call,           \* what the client composed
    signed,         \* the request the client signed
    request,        \* the request as it is now
    changes,        \* what happened to it on its way
    phase           \* "composed", "sent", "accepted", "refused"

vars == <<service, mode, secret, clock, call, signed, request, changes, phase>>

-----------------------------------------------------------------------------
(* Values.                                                                 *)

Nothing == [kind |-> "none"]
Value(x) == [kind |-> "value", of |-> x]
Sha(body) == [kind |-> "sha", of |-> body]
Word(w) == [kind |-> w]
Unsigned == Word("UNSIGNED-PAYLOAD")
StreamingSigned == Word("STREAMING-AWS4-HMAC-SHA256-PAYLOAD")
StreamingSignedTrailer == Word("STREAMING-AWS4-HMAC-SHA256-PAYLOAD-TRAILER")
StreamingUnsignedTrailer == Word("STREAMING-UNSIGNED-PAYLOAD-TRAILER")
StreamingOther == Word("STREAMING-AWS4-ECDSA-P256-SHA256-PAYLOAD")
Streaming == {StreamingSigned, StreamingSignedTrailer, StreamingUnsignedTrailer, StreamingOther}

\* Three query names, in the order of their characters and in the order of
\* their percent-encoded forms: "é" is %C3%A9, which sorts before "z".
ByCharacter == [a |-> 1, z |-> 2, e |-> 3]
ByEncoding == [a |-> 2, z |-> 3, e |-> 1]

DateOf(instant) == instant \div DayLength

\* An empty configured value means "dev".
Configured(value) == IF value = "" THEN "dev" ELSE value

-----------------------------------------------------------------------------
(* Canonical forms.                                                        *)

\* A path is a name, whether a character of it is percent-encoded although it
\* need not be, and whether it has empty or dot segments.  S3 decodes and
\* encodes each segment, Lambda takes the normalised path or the path as sent,
\* the others encode what was sent.
CanonicalUris(style, path) ==
    CASE style = "decoded"    -> {[path EXCEPT !.escaped = FALSE]}
      [] style = "normalized" -> {[path EXCEPT !.dotted = FALSE], path}
      [] OTHER                -> {path}

\* Query items are decoded, sorted and encoded again, in the order of their
\* characters or, by Lambda, of their encoded form.  S3 keeps the query in a
\* map: the last item of a name is the one there is.
DecodedQuery(query) == [i \in DOMAIN query |-> [query[i] EXCEPT !.escaped = FALSE]]
LastOfEach(query) ==
    LET kept == {i \in DOMAIN query : \A j \in DOMAIN query : j > i => query[j].name # query[i].name}
    IN  [n \in 1..Cardinality(kept) |-> query[CHOOSE i \in kept : Cardinality({j \in kept : j <= i}) = n]]
SortedBy(rank, query) ==
    SortSeq(query, LAMBDA p, q : rank[p.name] < rank[q.name] \/ (p.name = q.name /\ p.value < q.value))
CanonicalQuery(style, query) ==
    CASE style = "map"     -> SortedBy(ByCharacter, LastOfEach(DecodedQuery(query)))
      [] style = "encoded" -> SortedBy(ByEncoding, DecodedQuery(query))
      [] OTHER             -> SortedBy(ByCharacter, DecodedQuery(query))

\* Runs of blanks in a header value count as one; a missing header is empty.
HeaderValue(req, name) == IF name \in DOMAIN req.headers THEN req.headers[name].value ELSE Nothing
CanonicalHeaders(req, names) == [n \in names |-> HeaderValue(req, n)]

Data(body) == [i \in DOMAIN body.chunks |-> body.chunks[i].data]

-----------------------------------------------------------------------------
(* The verifiers.                                                          *)

\* Canonical forms: what a service puts together to compute a signature.
SsmForms == [path |-> "sent", query |-> "decoded"]
StsForms == [path |-> "sent", query |-> "decoded"]
ScalingForms == [path |-> "sent", query |-> "decoded"]
DynamoDbForms == [path |-> "sent", query |-> "decoded"]
SqsForms == [path |-> "sent", query |-> "decoded"]
LambdaForms == [path |-> "normalized", query |-> "encoded"]
S3Forms == [path |-> "decoded", query |-> "map"]

\* signed-relaxed checks the shape of a signature; an absent payload hash is
\* the body's own.
SsmVerifier == SsmForms @@ [relaxed |-> {"", "relaxed"}, shaped |-> {"signed-relaxed"}, absent |-> "body",
                            dated |-> FALSE, timed |-> FALSE, covers |-> FALSE, streams |-> FALSE, presigns |-> FALSE]
StsVerifier == StsForms @@ SsmVerifier
\* An absent payload hash is UNSIGNED-PAYLOAD.
ScalingVerifier == ScalingForms @@ [SsmVerifier EXCEPT !.absent = "unsigned"]
DynamoDbVerifier == DynamoDbForms @@ [SsmVerifier EXCEPT !.absent = "unsigned"]
\* Whatever is not relaxed is strict.
SqsVerifier == SqsForms @@ [SsmVerifier EXCEPT !.absent = "unsigned", !.shaped = {}]
\* The date of the scope is the request's.
LambdaVerifier == LambdaForms @@ [SsmVerifier EXCEPT !.dated = TRUE]
\* Whatever is not strict is relaxed; clock, signed headers and chunk signatures are checked.
S3Verifier == S3Forms @@ [relaxed |-> {"", "relaxed", "signed-relaxed"}, shaped |-> {}, absent |-> "unsigned",
                          dated |-> TRUE, timed |-> TRUE, covers |-> TRUE, streams |-> TRUE, presigns |-> TRUE]

Verifiers == [ssm |-> SsmVerifier, sts |-> StsVerifier, scaling |-> ScalingVerifier, dynamodb |-> DynamoDbVerifier,
              sqs |-> SqsVerifier, lambda |-> LambdaVerifier, s3 |-> S3Verifier]
V == Verifiers[service]

Presigned(req) == V.presigns /\ req.auth.via = "query"
SignedAt(req) == IF req.auth.via = "query" THEN req.auth.date ELSE HeaderValue(req, "x-amz-date").of
DeclaredHash(req) == HeaderValue(req, "x-amz-content-sha256")

ParseAuth(req) == req.auth.scheme = "AWS4-HMAC-SHA256" /\ req.auth.wellformed /\ req.auth.names # {}
ValidCredential(req) == req.auth.key = "dev" /\ req.auth.region = "us-east-1" /\ req.auth.service = service
HasDate(req) == req.auth.via = "query" \/ HeaderValue(req, "x-amz-date") # Nothing

\* What a missing x-amz-content-sha256 stands for.
AbsentPayload(req) == IF V.absent = "body" /\ ~Presigned(req) THEN Sha(Data(req.body)) ELSE Unsigned
PayloadHash(req) == IF DeclaredHash(req) = Nothing THEN AbsentPayload(req) ELSE DeclaredHash(req)
DeclaredIsTrusted(req, hash) == hash \in Streaming => V.streams /\ ~Presigned(req) /\ hash # StreamingOther
VerifyPayloadHash(req, hash) ==
    CASE hash = Unsigned        -> TRUE
      [] hash \in Streaming     -> V.streams /\ ~Presigned(req) /\ hash # StreamingOther
      [] OTHER                  -> hash = Sha(Data(req.body))

ScopeDateMatches(req) == DateOf(SignedAt(req)) = req.auth.day
WithinSkew(req) == SignedAt(req) - Skew <= clock /\ clock <= SignedAt(req) + Skew
WithinExpiry(req) == /\ req.auth.expires \in 0..LongestExpiry
                     /\ clock <= SignedAt(req) + req.auth.expires
                     /\ SignedAt(req) <= clock + Skew
Timely(req) == IF Presigned(req) THEN WithinExpiry(req) ELSE WithinSkew(req)

\* host, and every x-amz- header but two, must be among the signed ones.
SignedHeaderCoverage(req) ==
    /\ "host" \in req.auth.names
    /\ DOMAIN req.headers \cap {"x-amz-date", "x-amz-target", "x-amz-copy-source"} \subseteq req.auth.names

Signature(key, req, path, query, hash) ==
    [kind |-> "signature", key |-> key, at |-> SignedAt(req), scope |-> <<req.auth.day, req.auth.region, req.auth.service>>,
     method |-> req.method, path |-> path, query |-> query, expires |-> req.auth.expires,
     headers |-> CanonicalHeaders(req, req.auth.names), hash |-> hash]
ChunkSignature(key, previous, data) == [kind |-> "chunk", key |-> key, previous |-> previous, data |-> data]
TrailerSignature(key, previous, trailer) == [kind |-> "trailer", key |-> key, previous |-> previous, trailer |-> trailer]

VerifyShape(req) ==
    /\ ParseAuth(req) /\ req.auth.service = service /\ HasDate(req)
    /\ DeclaredHash(req) = Nothing \/ VerifyPayloadHash(req, DeclaredHash(req))

VerifyFull(req) ==
    /\ ParseAuth(req) /\ ValidCredential(req) /\ HasDate(req)
    /\ V.timed => Timely(req)
    /\ V.dated => ScopeDateMatches(req)
    /\ V.covers => SignedHeaderCoverage(req)
    /\ VerifyPayloadHash(req, PayloadHash(req))
    /\ \E p \in CanonicalUris(V.path, req.path) :
          req.auth.signature = Signature(Configured(secret), req, p, CanonicalQuery(V.query, req.query), PayloadHash(req))

\* The frames of a STREAMING- body, each signed over the one before it; the
\* terminal empty chunk ends them.
Framed(body) == \E n \in DOMAIN body.chunks : n = Len(body.chunks) /\ \A i \in 1..n : body.chunks[i].data = 0 <=> i = n
ChainedBy(key, seed, chunks) ==
    [i \in 0..Len(chunks) |-> IF i = 0 THEN seed ELSE chunks[i].signature]
VerifyChunkSignatures(req) ==
    LET key == Configured(secret)
        chunks == req.body.chunks
        chain == ChainedBy(key, req.auth.signature, chunks)
    IN  /\ \A i \in DOMAIN chunks : chunks[i].signature = ChunkSignature(key, chain[i - 1], chunks[i].data)
        /\ DeclaredHash(req) = StreamingSignedTrailer =>
              req.body.trailerSignature = TrailerSignature(key, chain[Len(chunks)], req.body.trailer)
DecodeStreaming(req, verified) ==
    DeclaredHash(req) \in Streaming =>
       /\ Framed(req.body)
       /\ verified /\ DeclaredHash(req) \in {StreamingSigned, StreamingSignedTrailer} => VerifyChunkSignatures(req)
       /\ HeaderValue(req, "x-amz-decoded-content-length") \in {Nothing, Value(Len(req.body.chunks) - 1)}

VerifySignature(req) ==
    \/ mode \in V.relaxed
    \/ /\ mode \notin V.relaxed
       /\ req.auth.via # "none"
       /\ IF mode \in V.shaped THEN VerifyShape(req) ELSE VerifyFull(req)
Accepts(req) == VerifySignature(req) /\ (V.streams => DecodeStreaming(req, mode \notin V.relaxed))

-----------------------------------------------------------------------------
(* The client.                                                             *)

\* An SDK's canonical path and query: for S3 the path encoded once, otherwise
\* normalised (or, by some, as sent) and encoded twice; the query by encoded form.
SdkPath == IF service = "s3" THEN [call.path EXCEPT !.escaped = FALSE]
           ELSE IF call.normalizes THEN [call.path EXCEPT !.dotted = FALSE] ELSE call.path
\* The dashboard's signer encodes the path as it sends it.
DashboardPath == call.path
DashboardQuery(query) == SortedBy(ByEncoding, DecodedQuery(query))

StyleHash(body) ==
    CASE call.style \in {"hash", "dashboard"} -> Sha(Data(body))
      [] call.style = "stream"                -> StreamingSigned
      [] call.style = "trailer"               -> StreamingSignedTrailer
      [] call.style = "unsignedTrailer"       -> StreamingUnsignedTrailer
      [] call.style = "otherStream"           -> StreamingOther
      [] call.style = "unsigned"              -> Unsigned
      [] OTHER                                -> Nothing
\* What goes into the signature when no hash header is sent.
HashSigned(body) == IF StyleHash(body) # Nothing THEN StyleHash(body)
                    ELSE IF call.style = "hashless" THEN Sha(Data(body)) ELSE Unsigned

Framing == call.style \in {"stream", "trailer", "unsignedTrailer", "otherStream"}
PlainBody == [chunks |-> [i \in DOMAIN call.data |-> [data |-> call.data[i], signature |-> Nothing]]
                         \o (IF Framing THEN <<[data |-> 0, signature |-> Nothing]>> ELSE <<>>),
              trailer |-> 1, trailerSignature |-> Nothing]
Headers(at) ==
    LET with(name, v) == IF v = Nothing THEN <<>> ELSE (name :> [value |-> v, padded |-> FALSE])
    IN  ("host" :> [value |-> Value(0), padded |-> FALSE])
        @@ (IF call.via # "query" THEN with("x-amz-date", Value(at)) ELSE <<>>)
        @@ (IF call.via # "query" THEN with("x-amz-content-sha256", StyleHash(PlainBody)) ELSE <<>>)
        @@ (IF Framing THEN with("x-amz-decoded-content-length", Value(Len(call.data))) ELSE <<>>)
        @@ [n \in call.extra |-> [value |-> Value(1), padded |-> FALSE]]
Unsealed(at, key) ==
    [method |-> "PUT", path |-> call.path, query |-> call.query, headers |-> Headers(at), body |-> PlainBody,
     auth |-> [via |-> call.via, scheme |-> call.scheme, wellformed |-> TRUE, key |-> key, day |-> DateOf(at), date |-> at,
               region |-> "us-east-1", service |-> service, names |-> call.names,
               expires |-> call.expires, signature |-> Nothing]]

\* Chunks are signed one after the other, from the request's own signature.
SignChunks(key, seed, body) ==
    LET sig[i \in 0..Len(body.chunks)] == IF i = 0 THEN seed ELSE ChunkSignature(key, sig[i - 1], body.chunks[i].data)
    IN  [body EXCEPT !.chunks = [i \in DOMAIN @ |-> [@[i] EXCEPT !.signature = sig[i]]],
                     !.trailerSignature = IF call.style = "trailer" THEN TrailerSignature(key, sig[Len(body.chunks)], body.trailer)
                                          ELSE Nothing]
Sealed(key, req) ==
    LET seed == IF call.style = "dashboard"
                THEN Signature(key, req, DashboardPath, DashboardQuery(call.query), Sha(Data(req.body)))
                ELSE Signature(key, req, SdkPath, SortedBy(ByEncoding, DecodedQuery(call.query)), HashSigned(req.body))
    IN  [req EXCEPT !.auth.signature = seed,
                    !.body = IF call.style \in {"stream", "trailer"} THEN SignChunks(key, seed, @) ELSE @]

\* The client signs by its own clock with the secret it was given; the
\* dashboard takes the configured one as it stands, empty or not.
KeyHeld == IF call.style = "dashboard" THEN secret ELSE IF call.holds THEN Configured(secret) ELSE "other"
Sign(drift) ==
    /\ phase = "composed"
    /\ request' = Sealed(KeyHeld, Unsealed(clock + drift, "dev"))
    /\ signed' = request'
    /\ phase' = "sent"
    /\ UNCHANGED <<service, mode, secret, clock, call, changes>>

-----------------------------------------------------------------------------
(* The way to the service.                                                 *)

Meets(what, req) ==
    /\ Cardinality(changes) < MaxChanges /\ what \notin changes
    /\ request' = req /\ request' # request
    /\ changes' = changes \cup {what}
    /\ UNCHANGED <<service, mode, secret, clock, call, signed, phase>>

\* Proxies fold blanks, reorder query items and respell what need not be encoded.
Pad(n) == n \in DOMAIN request.headers /\ Meets("padded", [request EXCEPT !.headers[n].padded = TRUE])
Reorder == Meets("reordered", [request EXCEPT !.query = Reverse(@)])
RespellPath == Meets("respelled", [request EXCEPT !.path.escaped = ~@])
RespellQuery == request.query # <<>> /\ Meets("respelledQuery", [request EXCEPT !.query[1].escaped = ~@])
AddDots == Meets("dotted", [request EXCEPT !.path.dotted = TRUE])
AddHeader(n) == n \notin DOMAIN request.headers
                /\ Meets("added", [request EXCEPT !.headers = @ @@ (n :> [value |-> Value(2), padded |-> FALSE])])
\* Faults.
ChangeHeader(n) == n \in DOMAIN request.headers \cap {"host", "x-amz-target", "x-amz-copy-source"}
                   /\ Meets("changed", [request EXCEPT !.headers[n].value = Value(3)])
ChangeQuery == request.query # <<>> /\ Meets("changedQuery", [request EXCEPT !.query[1].value = 3 - @])
ChangeData(i) == i \in DOMAIN request.body.chunks /\ request.body.chunks[i].data # 0
                 /\ Meets("damaged", [request EXCEPT !.body.chunks[i].data = 3 - @])
DropChunk(i) == i \in DOMAIN request.body.chunks
                /\ Meets("dropped", [request EXCEPT !.body.chunks = RemoveAt(@, i)])
SwapChunks == /\ Len(request.body.chunks) > 2
              /\ Meets("swapped", [request EXCEPT !.body.chunks = [@ EXCEPT ![1] = request.body.chunks[2], ![2] = request.body.chunks[1]]])
ChangeTrailer == Framing /\ Meets("trailer", [request EXCEPT !.body.trailer = 2])
LoseSignature == Meets("stripped", [request EXCEPT !.auth.via = "none"])
Garble == Meets("garbled", [request EXCEPT !.auth.wellformed = FALSE])

\* Only S3's verifier reads the clock.
Tick == /\ phase = "sent" /\ V.timed /\ clock < MaxClock
        /\ clock' = clock + 1
        /\ UNCHANGED <<service, mode, secret, call, signed, request, changes, phase>>

Receive ==
    /\ phase = "sent"
    /\ phase' = IF Accepts(request) THEN "accepted" ELSE "refused"
    /\ UNCHANGED <<service, mode, secret, clock, call, signed, request, changes>>

Init ==
    /\ call \in Calls
    /\ service = call.service
    /\ mode \in {"relaxed", "signed-relaxed", "strict"}
    /\ secret \in Secrets
    /\ clock = 2 /\ changes = {} /\ phase = "composed"
    /\ request = Nothing /\ signed = Nothing

Transit == phase = "sent" /\
          (\/ \E n \in {"host", "x-amz-target"} : Pad(n)
           \/ Reorder \/ RespellPath \/ RespellQuery \/ AddDots
           \/ \E n \in {"x-amz-user-agent", "x-amz-copy-source"} : AddHeader(n)
           \/ \E n \in {"host", "x-amz-target", "x-amz-copy-source"} : ChangeHeader(n)
           \/ ChangeQuery \/ SwapChunks \/ ChangeTrailer \/ LoseSignature \/ Garble
           \/ \E i \in 1..3 : ChangeData(i) \/ DropChunk(i))

Next == (\E d \in Drifts : Sign(d)) \/ Transit \/ Tick \/ Receive

Spec == Init /\ [][Next]_vars

-----------------------------------------------------------------------------
(* Properties.                                                             *)

TypeOK ==
    /\ service \in DOMAIN Verifiers /\ secret \in Secrets /\ call \in Calls
    /\ clock \in 2..MaxClock /\ Cardinality(changes) <= MaxChanges
    /\ phase \in {"composed", "sent", "accepted", "refused"}
    /\ phase # "composed" => request.auth.via \in {"header", "query", "none"}

\* What a handler sees of a path, a query and the headers a signature names.
PathRead(req) == [req.path EXCEPT !.escaped = FALSE, !.dotted = IF V.path = "normalized" THEN FALSE ELSE @]
QueryRead(req) == CanonicalQuery(V.query, req.query)
HeadersRead(req) == [n \in signed.auth.names |-> HeaderValue(req, n)]
\* A payload counts as signed unless the client chose not to sign it.
PayloadSigned == call.style \in {"hash", "hashless", "dashboard", "stream", "trailer"} /\ call.via = "header"

\* A strict verifier acts on a request only as someone holding the configured
\* secret signed it: the same method, path, query, signed headers and, where
\* the payload is signed, the same bytes in the same order; S3 only in its
\* time, and with no behaviour-changing header that was not signed.
ActedAsSigned ==
    phase = "accepted" /\ mode = "strict" =>
       /\ signed.auth.signature.key = Configured(secret)
       /\ request.method = signed.method /\ PathRead(request) = PathRead(signed)
       /\ QueryRead(request) = QueryRead(signed) /\ HeadersRead(request) = HeadersRead(signed)
       /\ PayloadSigned => Data(request.body) = Data(signed.body)
       /\ call.style = "trailer" => request.body.trailer = signed.body.trailer
       /\ service = "s3" => /\ "x-amz-copy-source" \in DOMAIN request.headers => "x-amz-copy-source" \in signed.auth.names
                            /\ SignedAt(request) - Skew <= clock
                            /\ clock <= SignedAt(request) + (IF call.via = "query" THEN call.expires ELSE Skew)

\* Whatever the mode, a payload hash that a service other than S3 in a relaxed
\* mode was sent describes the body it acts on.
HashDescribesBody ==
    phase = "accepted" /\ mode \notin V.relaxed /\ DeclaredHash(request).kind = "sha" =>
       DeclaredHash(request).of = Data(request.body)

\* The signature a client makes of a request is the one its service computes,
\* also after a proxy folded blanks or reordered the query, respelled S3's
\* path or added dot segments to Lambda's.
Harmless == {"padded", "reordered", "respelledQuery"}
            \cup (IF service = "s3" THEN {"respelled"} ELSE {})
            \cup (IF service = "lambda" /\ call.normalizes THEN {"dotted"} ELSE {})
\* Out of the verifiers' reach: a payload hash signed but not sent, where an
\* absent hash stands for an unsigned payload (Application Auto Scaling,
\* DynamoDB, SQS); names whose order changes when they are encoded, but for
\* Lambda; a name twice in a query of S3, which keeps one.
Verifiable ==
    /\ call.style = "hashless" => V.absent = "body"
    /\ call.style = "plain" => V.absent = "unsigned" \/ call.via = "query"
    /\ Framing => V.streams /\ call.style # "otherStream"
    /\ V.query # "encoded" => \A i \in DOMAIN call.query : call.query[i].name # "e"
    /\ V.query = "map" => \A i, j \in DOMAIN call.query : call.query[i].name = call.query[j].name => i = j
    /\ call.path.dotted => V.path = "normalized" \/ (~call.normalizes /\ service # "s3") \/ service = "s3"
    /\ V.covers => call.extra \cap {"x-amz-target", "x-amz-copy-source"} \subseteq call.names
    /\ call.via = "query" => V.presigns /\ call.expires <= LongestExpiry /\ call.style = "plain"
    /\ call.style = "dashboard" => service = "lambda" /\ secret # ""
SignedIsAccepted ==
    phase = "refused" /\ call.holds /\ Verifiable /\ changes \subseteq Harmless
    /\ call.scheme = "AWS4-HMAC-SHA256" /\ call.via # "none"
       => V.timed /\ ~Timely(request)

=============================================================================
