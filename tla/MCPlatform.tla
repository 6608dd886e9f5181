----------------------------- MODULE MCPlatform -----------------------------
(***************************************************************************)
(* The parts that every service shares and the services that keep little,  *)
(* for TLC: request framing, request signatures, the parameter store, the  *)
(* scaling registry, the credentials, the Redis control API and the event  *)
(* relay.  A behaviour is one of one component: its variables are          *)
(* v1, v2 ... (the parameter store and the relay have their own), the rest *)
(* stay as they are.                                                       *)
(***************************************************************************)
EXTENDS Ssm, EventRelay

VARIABLES component, v1, v2, v3, v4, v5, v6, v7, v8, v9, v10, v11, v12, v13

others == <<v1, v2, v3, v4, v5, v6, v7, v8, v9, v10, v11, v12, v13>>
-----------------------------------------------------------------------------
(* Requests as they are framed. *)

D(n) == [i \in 1..n |-> <<"data", i>>]
Bare == [head |-> 1, lengths |-> <<>>, codings |-> <<>>, plus |-> FALSE, data |-> <<>>, chunks |-> <<>>, trailers |-> <<>>]
Sized(n) == [Bare EXCEPT !.lengths = <<n>>, !.data = D(n)]
Chunk(n, e) == [ext |-> e, data |-> D(n), skew |-> 0]
Chunked(cs, ts) == [Bare EXCEPT !.codings = <<"chunked">>, !.chunks = cs, !.trailers = ts]
One == Chunk(1, 0)
Zero == Chunk(0, 0)

\* Right requests at the limits, and requests framed in ways a reader may misread.
Requested ==
  { <<[Bare EXCEPT !.head = h]>> : h \in {4, 5, 9} }
  \cup { <<Sized(n)>> : n \in 1..3 }
  \cup { <<Chunked(cs, ts)>> : cs \in {<<One, Zero>>, <<One, One, Zero>>, <<Chunk(2, 1), Zero>>, <<One, One, One, Zero>>, <<Chunk(1, 4), Zero>>, <<One, Chunk(0, 2)>>},
                               ts \in {<<>>, <<1>>, <<1, 1>>} }
  \cup { <<[Sized(1) EXCEPT !.lengths = ls]>> : ls \in {<<1, 1>>, <<1, 0>>, <<-1>>} }
  \cup { <<[Sized(1) EXCEPT !.plus = TRUE]>>, <<[Chunked(<<One, Zero>>, <<>>) EXCEPT !.plus = TRUE]>>,
         <<[Chunked(<<One, Zero>>, <<>>) EXCEPT !.lengths = <<0>>]>>,
         <<[Chunked(<<One, Zero>>, <<>>) EXCEPT !.codings = <<"gzip", "chunked">>]>>,
         <<[Chunked(<<One, Zero>>, <<>>) EXCEPT !.codings = <<"gzip">>]>>,
         <<Chunked(<<[One EXCEPT !.skew = 1], Zero>>, <<>>)>>, <<Chunked(<<[Chunk(2, 0) EXCEPT !.skew = -1], Zero>>, <<>>)>>,
         <<Sized(1), Sized(1)>>, <<Chunked(<<One, Zero>>, <<1>>), Sized(1)>> }

F == INSTANCE HttpFraming WITH
        Messages <- Requested, MaxHeader <- 6, MaxLine <- 3, MaxBody <- 2, ReadSize <- 3, MaxFaults <- 1,
        reader <- v1, sent <- v2, wire <- v3, whole <- v4, buf <- v5, phase <- v6,
        need <- v7, out <- v8, framing <- v9, accepted <- v10, verdict <- v11,
        listener <- v12, faults <- v13
-----------------------------------------------------------------------------
(* Requests as they are signed. *)

P(e, d) == [name |-> "p", escaped |-> e, dotted |-> d]
Q(n, v) == [name |-> n, value |-> v, escaped |-> FALSE]
SignedPlainly == [service |-> "ssm", style |-> "hash", via |-> "header", scheme |-> "AWS4-HMAC-SHA256", holds |-> TRUE, normalizes |-> TRUE,
          path |-> P(FALSE, FALSE), query |-> <<>>, data |-> <<1>>, extra |-> {}, names |-> {"host", "x-amz-date"}, expires |-> 0]
Verifiers == {"ssm", "sts", "scaling", "dynamodb", "sqs", "lambda", "s3"}
Targeted == [SignedPlainly EXCEPT !.extra = {"x-amz-target"}, !.names = @ \cup {"x-amz-target"}]

\* Every way of signing to every verifier, then the cases that tell the services apart.
Signed ==
    { [Targeted EXCEPT !.service = s, !.style = y, !.query = <<Q("a", 1), Q("z", 2)>>] :
        s \in Verifiers, y \in {"hash", "hashless", "unsigned", "plain", "otherStream"} }
    \cup { [SignedPlainly EXCEPT !.service = s, !.query = q, !.path = p, !.normalizes = z] :
             s \in {"ssm", "lambda", "s3"}, q \in {<<Q("z", 1), Q("e", 1)>>, <<Q("a", 2), Q("a", 1)>>},
             p \in {P(TRUE, FALSE), P(FALSE, TRUE)}, z \in BOOLEAN }
    \cup { [SignedPlainly EXCEPT !.service = s, !.holds = FALSE] : s \in Verifiers }
    \cup { [SignedPlainly EXCEPT !.service = s, !.scheme = "Basic"] : s \in {"sts", "s3"} }
    \cup { [SignedPlainly EXCEPT !.service = s, !.via = "none"] : s \in {"sts", "s3"} }
    \cup { [SignedPlainly EXCEPT !.service = "s3", !.style = y, !.data = <<1, 2>>] : y \in {"stream", "trailer", "unsignedTrailer"} }
    \cup { [SignedPlainly EXCEPT !.service = "s3", !.via = "query", !.style = "plain", !.names = {"host"}, !.expires = x] : x \in 0..4 }
    \cup { [SignedPlainly EXCEPT !.service = "s3", !.extra = {"x-amz-copy-source"}],
           [SignedPlainly EXCEPT !.service = "lambda", !.style = "dashboard", !.query = <<Q("z", 1), Q("e", 1)>>],
           [SignedPlainly EXCEPT !.service = "lambda", !.style = "dashboard", !.path = P(TRUE, TRUE)] }

G == INSTANCE SigV4 WITH
        Calls <- Signed, Secrets <- {"", "own"}, Drifts <- {0, 2}, Skew <- 1, LongestExpiry <- 3,
        DayLength <- 3, MaxClock <- 5, MaxChanges <- 2,
        service <- v1, mode <- v2, secret <- v3, clock <- v4, call <- v5, signed <-
        v6, request <- v7, changes <- v8, phase <- v9
-----------------------------------------------------------------------------
(* Parameters. *)

Asked(n, t, k, o) == [name |-> n, value |-> Value(t, 1), kind |-> k, overwrite |-> o, description |-> "", keyId |-> "", tier |-> "", dataType |-> ""]
MCPuts ==
    { Asked(1, t, k, TRUE) : t \in {"x", "y"}, k \in {"", "String", "SecureString"} }
    \cup { Asked(n, "x", "String", FALSE) : n \in {1, 2, 3, 9} }
    \cup { [Asked(1, "x", "String", TRUE) EXCEPT !.value = Value("x", s), !.tier = t, !.description = "d", !.dataType = y] :
            s \in {0, 2}, t \in {"", "Advanced", "Gold"}, y \in {"", "image"} }
-----------------------------------------------------------------------------
(* Scalable targets, policies and actions. *)

NoChange == [min |-> "unset", max |-> "unset", role |-> "unset", suspended |-> "unset"]
Scalings == { [ops |-> {"register"}, registrations |-> {[NoChange EXCEPT !.min = "0"], [NoChange EXCEPT !.max = "5"], [NoChange EXCEPT !.role = "r", !.suspended = "s"]}],
                 [ops |-> {"register", "policy", "action"}, registrations |-> {NoChange}],
                 [ops |-> {"tag"}, registrations |-> {}] }

A == INSTANCE Scaling WITH
        Targets <- {<<"t", "read">>, <<"t", "write">>}, Names <- {"p"}, Arns <- {"arn"}, Tags <- {"k", "l"},
        Workloads <- Scalings, MaxTime <- 2, MaxFaults <- 1,
        workload <- v1, st <- v2, disk <- v3, up <- v4, told <- v5, clock <- v6,
        faults <- v7
-----------------------------------------------------------------------------
(* Pub/Sub schemas. *)

Body(t, d) == [type |-> t, def |-> d, rev |-> -1, revs |-> <<>>]
Sent(bodies, n) == [bodies |-> bodies, revisions |-> n]
Drafts == {[Body("AVRO", d) EXCEPT !.rev = 0] : d \in {"object", "other object"}}
Carried == {Body("AVRO", "text"), [Body("", "text") EXCEPT !.revs = <<[type |-> "", def |-> "text", rev |-> -1]>>]}
Evolutions == { <<Sent(Drafts, 3), Sent({}, 0)>>, <<Sent(Carried, 2), Sent({Body("AVRO", "object")}, 1)>> }
C == INSTANCE Schemas WITH
        Names <- {1, 2}, Workloads <- Evolutions, Inlines <- {[type |-> t, def |-> d] : t \in {"", "AVRO", "XSD"}, d \in {"", "object", "text"}},
        PageSize <- 1, MaxFaults <- 1,
        workload <- v1, schemas <- v2, dirty <- v3, file <- v4, up <- v5, said <- v6, pager <- v7, faults <- v8
-----------------------------------------------------------------------------
(* Roles assumed. *)

Given(d) == [role |-> "role", session |-> "name", duration |-> d, policy |-> "absent"]
Absent == [k \in {"role", "session", "duration", "policy"} |-> "absent"]
Assumptions ==
    { [method |-> "GET", query |-> Given("absent"), form |-> Absent, wanted |-> 4],
      [method |-> "GET", query |-> Given("shortest"), form |-> Given("longest"), wanted |-> 2],
      [method |-> "POST", query |-> Given("shortest"), form |-> Given("longest"), wanted |-> 6],
      [method |-> "POST", query |-> Absent, form |-> Given("over"), wanted |-> 0],
      [method |-> "POST", query |-> Absent, form |-> [Given("absent") EXCEPT !.policy = "malformed"], wanted |-> 0] }

T == INSTANCE Sts WITH
        Tasks <- {"t1", "t2"}, Requests <- Assumptions, Pids <- {1}, Tags <- <<"akid">>,
        MinDuration <- 2, MaxDuration <- 6, DefaultDuration <- 4, MaxTime <- 3, MaxIssues <- 2,
        clock <- v1, counter <- v2, pid <- v3, task <- v4, issued <- v5
-----------------------------------------------------------------------------
(* The Redis control API. *)

Caller(host, origin, password) ==
    [host |-> host, origin |-> origin, crossSite |-> FALSE, password |-> password]

Console == Caller("bare", "own", TRUE)
Stranger == Caller("bare", "absent", FALSE)
ForeignPage == Caller("bare", "foreign", FALSE)
Rebound == Caller("public", "own", FALSE)
CrossSite == [host |-> "bare", origin |-> "absent", crossSite |-> TRUE, password |-> FALSE]

Ask(op, method, from) ==
    [op |-> op, method |-> method, key |-> "k1", db |-> 0,
     command |-> "GET", wellFormed |-> TRUE, from |-> from]

Executing(name) == [Ask("exec", "POST", Console) EXCEPT !.command = name]

RedisCalls ==
    {Ask("status", "GET", Console), Ask("keys", "GET", ForeignPage),
     Ask("key", "GET", Console), Ask("select-db", "POST", Console),
     [Ask("select-db", "POST", Console) EXCEPT !.db = 3],
     Ask("delete", "DELETE", Console), Ask("delete", "DELETE", Stranger),
     Ask("expire", "POST", Console), [Ask("expire", "POST", Console) EXCEPT !.wellFormed = FALSE],
     Ask("flush", "DELETE", Console), Ask("flush", "GET", ForeignPage),
     Ask("flush", "DELETE", Rebound), Ask("flush", "DELETE", CrossSite),
     Executing("SET"), Executing("GET"), Executing("SELECT")}

R == INSTANCE RedisApi WITH
        Requests <- {"r1", "r2"}, Calls <- RedisCalls, Keys <- {"k1"}, Databases <- 3, Counted <- FALSE,
        DefaultCount <- 1, InitialDb <- 1, MaxFaults <- 1,
        strict <- v1, redis <- v2, clients <- v3, current_db <- v4, database_count
        <- v5, phase <- v6, tasks <- v7, events <- v8, changed <- v9, faults <- v10

ASSUME ComponentConstants == R!RedisApiAssumption /\ EventRelayAssumption
-----------------------------------------------------------------------------
PlatformInit ==
    /\ Init /\ RelayInit
    /\ \/ component \in {"parameters", "relay"}
          /\ v1 = "idle" /\ v2 = "idle" /\ v3 = "idle" /\ v4 = "idle" /\ v5 =
             "idle" /\ v6 = "idle" /\ v7 = "idle" /\ v8 = "idle" /\ v9 = "idle"
             /\ v10 = "idle" /\ v11 = "idle" /\ v12 = "idle" /\ v13 = "idle"
       \/ component = "framing" /\ F!Init
       \/ component = "signing" /\ G!Init
          /\ v10 = "idle" /\ v11 = "idle" /\ v12 = "idle" /\ v13 = "idle"
       \/ component = "scaling" /\ A!Init
          /\ v8 = "idle" /\ v9 = "idle" /\ v10 = "idle" /\ v11 = "idle" /\ v12 =
             "idle" /\ v13 = "idle"
       \/ component = "sts" /\ T!Init
          /\ v6 = "idle" /\ v7 = "idle" /\ v8 = "idle" /\ v9 = "idle" /\ v10 =
             "idle" /\ v11 = "idle" /\ v12 = "idle" /\ v13 = "idle"
       \/ component = "schemas" /\ C!Init
          /\ v9 = "idle" /\ v10 = "idle" /\ v11 = "idle" /\ v12 =
             "idle" /\ v13 = "idle"
       \/ component = "redis" /\ R!Init
          /\ v11 = "idle" /\ v12 = "idle" /\ v13 = "idle"

PlatformNext ==
    /\ UNCHANGED component
    /\ \/ component = "parameters" /\ Next /\ UNCHANGED relayVars /\ UNCHANGED others
       \/ component = "framing" /\ F!Next /\ UNCHANGED <<vars, relayVars>>
       \/ component = "signing" /\ G!Next /\ UNCHANGED <<vars, relayVars>> /\ UNCHANGED <<v10, v11, v12, v13>>
       \/ component = "scaling" /\ A!Next /\ UNCHANGED <<vars, relayVars>> /\ UNCHANGED <<v8, v9, v10, v11, v12, v13>>
       \/ component = "sts" /\ T!Next /\ UNCHANGED <<vars, relayVars>> /\ UNCHANGED <<v6, v7, v8, v9, v10, v11, v12, v13>>
       \/ component = "schemas" /\ C!Next /\ UNCHANGED <<vars, relayVars>> /\ UNCHANGED <<v9, v10, v11, v12, v13>>
       \/ component = "redis" /\ R!Next /\ UNCHANGED <<vars, relayVars>> /\ UNCHANGED <<v11, v12, v13>>
       \/ component = "relay" /\ RelayNext /\ UNCHANGED vars /\ UNCHANGED others

PlatformSpec == PlatformInit /\ [][PlatformNext]_<<component, vars, relayVars, others>>
-----------------------------------------------------------------------------
(* Properties. *)

\* Every reader of HTTP requests acts on a request whose size is within its
\* limits however the network split it, and with the body its client sent; it
\* holds no more than its limits in memory, and no tracked connection outlives
\* its service (the read_request functions, body.rs).
RequestsFramed ==
    component = "framing" =>
       F!SplitsDoNotMatter /\ F!BodyAsSent /\ F!NeverEmptied /\ F!Bounded /\ F!NoneOutlives

\* A strict verifier acts on a request only as the holder of the secret signed
\* it, and refuses none that reached it as it was signed (the sigv4.rs files).
SignaturesBind ==
    component = "signing" => G!ActedAsSigned /\ G!HashDescribesBody /\ G!SignedIsAccepted

\* What the answers told of targets, policies, actions and tags is kept, and
\* is what a describe shows (applicationautoscaling, server.rs).
ScalingKept == component = "scaling" => A!TypeOK /\ A!AnsweredIsKept /\ A!DescribedIsTold

\* No two answers share a credential, and each lasts as asked (sts, server.rs).
CredentialsFresh == component = "sts" => T!TypeOK /\ T!IssuedOnce /\ T!ExpiryAsAsked

\* The control API works on the database its request read, reads only its own
\* replies, announces what it changed, and lets no stranger change anything
\* (redis-control, server.rs and http.rs).
RedisHonest ==
    component = "redis" =>
       /\ R!SelectionExists /\ R!OnItsDatabase /\ R!RepliesInStep
       /\ R!ChangesAnnounced /\ R!StrangersHarmless

\* A request is acted on as it was sent and signed, or not at all.
RequestsAuthentic == RequestsFramed /\ SignaturesBind

\* Schemas and their revisions are what the answers said, in memory and on
\* disk, and REST and gRPC show and judge them alike (pubsub, server.rs).
SchemasKept ==
    component = "schemas" =>
       C!AnsweredIsKept /\ C!CleanIsSaved /\ C!RevisionsOrdered /\ C!PagingComplete /\ C!ApisAgree

\* The scaling, token and schema services keep what they told their clients.
ControlPlanesKept == ScalingKept /\ CredentialsFresh /\ SchemasKept
=============================================================================
