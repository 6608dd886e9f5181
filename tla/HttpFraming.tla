----------------------------- MODULE HttpFraming -----------------------------
(***************************************************************************)
(* How the services accept a connection and read an HTTP/1.1 request off   *)
(* it.  Every service carries its own reader; they differ in the few       *)
(* points a Reader record names, one record per service.  A byte is a      *)
(* token <<kind, value>>: "h" a byte of the head, "crlf" and "end" the two *)
(* halves of its terminator (the message's number as the value), "size"    *)
(* and "ext" bytes of a chunk line or trailer, "cr" and "lf" a line's end, *)
(* "data" a byte of the body.  Reads return any non-empty piece of what    *)
(* the client has sent.                                                    *)
(***************************************************************************)
EXTENDS Integers, Sequences, FiniteSets, SequencesExt

CONSTANTS Messages,   \* the sequences of messages a client may send
          MaxHeader,  \* MAX_HEADER_BYTES, also the framing allowance
          MaxLine,    \* MAX_LINE of body.rs
          MaxBody,    \* MAX_BODY_BYTES
          ReadSize,   \* the buffer of one read
          MaxFaults   \* accept failures in a run

VARIABLES reader,     \* which service's reader this is
          sent,       \* the messages the client meant to send
          wire,       \* the bytes sent and not yet read; the client has closed after them
          whole,      \* whether the client closed after its last byte
          buf,        \* bytes read and not yet consumed
          phase,      \* what the reader is reading
          need,       \* bytes the sized body or chunk still lacks, or the trailers' allowance
          out,        \* the decoded body so far
          framing,    \* framing bytes charged to this body
          accepted,   \* the requests acted on: their message and body
          verdict,    \* how the connection ended
          listener,   \* the accept loop
          faults      \* accept failures so far

vars == <<reader, sent, wire, whole, buf, phase, need, out, framing, accepted, verdict, listener, faults>>
body == <<need, out, framing>>

----------------------------------------------------------------------------
(* The readers.                                                             *)

\* A fixed-length body only: one Content-Length of digits, no transfer coding;
\* what it cannot read is dropped without an answer.
FixedLength == [recheck |-> TRUE, repeats |-> "refuse", coding |-> "none", plus |-> FALSE, short |-> "drop",
                budget |-> "none", lines |-> "exact", answers |-> FALSE, keeps |-> FALSE, tracked |-> FALSE, timed |-> FALSE, retries |-> FALSE]
Ssm == FixedLength
Sts == FixedLength
AppAutoScaling == FixedLength
DynamoDbReader == FixedLength
SqsReader == FixedLength
PubSubReader == FixedLength
RedisControl == FixedLength
Dashboard == FixedLength
MailReader == FixedLength
\* The mailbox answers 400, times out, accepts "+n" and retries every accept failure.
Mailbox == [FixedLength EXCEPT !.plus = TRUE, !.answers = TRUE, !.timed = TRUE, !.retries = TRUE]

\* Also one exact "chunked", never together with a length, within a framing budget.
BigQueryReader == [FixedLength EXCEPT !.coding = "exact", !.budget = "five"]
RedshiftReader == BigQueryReader
GcsReader == BigQueryReader

\* Repeated headers are joined, a coding that mentions "chunked" wins over any
\* length, and a sized body cut short is taken as it is.
S3Reader == [FixedLength EXCEPT !.recheck = FALSE, !.repeats = "agree", !.coding = "contains", !.plus = TRUE,
             !.short = "take", !.lines = "once"]
S3Console == S3Reader

\* The shared body.rs: a coding wins over a length and must be "chunked"; errors are answered.
BodyReader == [FixedLength EXCEPT !.recheck = FALSE, !.repeats = "join", !.coding = "wins", !.budget = "one",
               !.lines = "line", !.answers = TRUE, !.tracked = TRUE, !.plus = TRUE]
LambdaReader == BodyReader
CloudRunReader == [BodyReader EXCEPT !.repeats = "last"]
\* Lambda's runtime API: a kept-alive connection whose unread bytes start the next request.
RuntimeApi == [S3Reader EXCEPT !.repeats = "last", !.short = "drop", !.keeps = TRUE, !.tracked = TRUE, !.retries = TRUE]

\* Readers that behave alike are one member.
Readers == {Ssm, Sts, AppAutoScaling, DynamoDbReader, SqsReader, PubSubReader, RedisControl, Dashboard,
            MailReader, Mailbox, BigQueryReader, RedshiftReader, GcsReader, S3Reader, S3Console,
            LambdaReader, CloudRunReader, RuntimeApi}

----------------------------------------------------------------------------
(* Messages as the client frames them.  A message is a record: head (bytes  *)
(* before the terminator), lengths (its Content-Length values, -1 where it  *)
(* is no number), codings (its Transfer-Encoding values), plus (a length or *)
(* size is written "+n"), data (a sized body), chunks ([ext, data, skew]    *)
(* each, skew what the size line says too much) and trailers (lengths).     *)

Repeat(n, t) == [i \in 1..n |-> t]
LineEnd == <<<<"cr", 0>>, <<"lf", 0>>>>
Flatten(ss) == FoldLeft(LAMBDA a, b : a \o b, <<>>, ss)
ChunkBytes(c) == <<<<"size", Len(c.data) + c.skew>>>> \o Repeat(c.ext, <<"ext", 0>>) \o LineEnd
                 \o (IF c.data = <<>> THEN <<>> ELSE c.data \o LineEnd)
Bytes(i, m) ==
  Repeat(m.head, <<"h", 0>>) \o <<<<"crlf", 0>>, <<"end", i>>>>
  \o (IF m.codings = <<>> THEN m.data
      ELSE Flatten([c \in DOMAIN m.chunks |-> ChunkBytes(m.chunks[c])])
           \o Flatten([t \in DOMAIN m.trailers |-> Repeat(m.trailers[t], <<"ext", 0>>) \o LineEnd]) \o LineEnd)

\* The body the client meant.
Meant(m) == IF m.codings = <<>> THEN m.data ELSE Flatten([c \in DOMAIN m.chunks |-> m.chunks[c].data])

----------------------------------------------------------------------------
(* What a head says about the body.                                         *)

\* How a header's repeated values are kept: the last one, or all of them.
Folded(r, values) == IF r.repeats = "last" /\ values # <<>> THEN <<Last(values)>> ELSE values

Duplicated(r, m) == r.repeats = "refuse" /\ (Len(m.lengths) > 1 \/ Len(m.codings) > 1)

IsChunked(r, m) ==
  LET c == Folded(r, m.codings)
  IN IF r.coding = "contains" THEN \E i \in DOMAIN c : c[i] = "chunked" ELSE r.coding # "none" /\ c = <<"chunked">>

CodingRefused(r, m) ==
  /\ r.coding # "contains" /\ m.codings # <<>>
  /\ ~IsChunked(r, m) \/ (r.coding = "exact" /\ m.lengths # <<>>)

\* The length a reader works with; -1 when it refuses the header.
ContentLength(r, m) ==
  LET c == Folded(r, m.lengths)
  IN CASE c = <<>> -> 0
       [] r.repeats = "agree" -> IF \A i \in DOMAIN c : c[i] = c[1] THEN c[1] ELSE -1
       [] OTHER -> IF Len(c) = 1 /\ (m.plus => r.plus) THEN c[1] ELSE -1

Judged(r, m) ==
  CASE Duplicated(r, m) \/ CodingRefused(r, m) -> "refused"
    [] IsChunked(r, m) -> "chunkSize"
    [] ContentLength(r, m) \in 0..MaxBody -> "sized"
    [] OTHER -> "refused"

----------------------------------------------------------------------------
(* Reading.                                                                 *)

\* The place of the first such byte in the buffer, 0 without one.
Find(kind) == LET at == {i \in DOMAIN buf : buf[i][1] = kind} IN IF at = {} THEN 0 ELSE CHOOSE i \in at : \A j \in at : i <= j
\* A buffer that already holds more than a head may hold cannot become one.
HeadTooLong == IF Find("end") = 0 THEN Len(buf) > MaxHeader ELSE reader.recheck /\ Find("end") > MaxHeader

\* The line's length with its end, and the limits on it.
LineLength == Find("lf")
LineLimit == CASE reader.lines = "exact" -> IF phase = "trailers" THEN need ELSE MaxHeader
               [] reader.lines = "line" -> MaxLine + Len(LineEnd)
               [] OTHER -> MaxHeader
LineTooLong ==
  IF LineLength = 0
  THEN Len(buf) >= LineLimit + (IF reader.lines = "once" THEN 1 ELSE 0)
  ELSE reader.lines # "once" /\ LineLength > LineLimit

Budget(n) == CASE reader.budget = "five" -> 5 * n + MaxHeader [] reader.budget = "one" -> n + MaxHeader [] OTHER -> n + 1000
\* The charge for a line, and for the end of a chunk's data where that is counted.
Charged(n) == IF reader.budget = "none" THEN 0 ELSE framing + n

Drop(n) == SubSeq(buf, n + 1, Len(buf))
Ended(how) == /\ verdict' = how /\ phase' = "closed" /\ buf' = <<>>
              /\ UNCHANGED <<reader, sent, wire, whole, accepted, listener, faults, body>>
Refused == Ended(IF reader.answers THEN "answered" ELSE "dropped")
\* The request goes to the service; a one-shot connection ends with the answer.
Act(i, bytes, rest) ==
  /\ accepted' = Append(accepted, [message |-> i, body |-> bytes])
  /\ phase' = IF reader.keeps THEN "head" ELSE "closed"
  /\ verdict' = IF reader.keeps THEN verdict ELSE "served"
  /\ buf' = IF reader.keeps THEN rest ELSE <<>>
  /\ out' = <<>> /\ need' = 0 /\ framing' = 0
  /\ UNCHANGED <<reader, sent, wire, whole, listener, faults>>
\* The message being read.
Current == Len(accepted) + 1

Waiting ==
  CASE phase = "head" -> Find("end") = 0 /\ ~HeadTooLong
    [] phase = "sized" -> Len(buf) < need
    [] phase \in {"chunkSize", "trailers"} -> LineLength = 0 /\ ~LineTooLong
    [] phase = "chunkData" -> Len(buf) < need + 2
    [] OTHER -> FALSE

Fill ==
  /\ Waiting
  /\ \E n \in 1..ReadSize :
       /\ n <= Len(wire)
       /\ buf' = buf \o SubSeq(wire, 1, n)
       /\ wire' = SubSeq(wire, n + 1, Len(wire))
  /\ UNCHANGED <<reader, sent, whole, phase, accepted, verdict, listener, faults, body>>

\* The client closed: a head that never began is a clean close, and S3 takes
\* what has come of a sized body.
EndOfInput ==
  /\ Waiting /\ wire = <<>>
  /\ CASE phase = "head" -> Ended("dropped")
       [] phase = "sized" /\ reader.short = "take" -> Act(Current, buf, <<>>)
       [] OTHER -> Refused

\* The mailbox gives a head and a body ten seconds each.
TimesOut == reader.timed /\ Waiting /\ Refused

ReadHead ==
  /\ phase = "head" /\ ~Waiting
  /\ LET m == sent[Current] IN
     IF HeadTooLong THEN IF reader.timed THEN Refused ELSE Ended("dropped")
     ELSE IF Judged(reader, m) = "refused" THEN Refused
     ELSE /\ phase' = Judged(reader, m)
          /\ need' = IF phase' = "sized" THEN ContentLength(reader, m) ELSE 0
          /\ buf' = Drop(Find("end"))
          /\ UNCHANGED <<reader, sent, wire, whole, accepted, verdict, listener, faults, out, framing>>

ReadSized ==
  /\ phase = "sized" /\ ~Waiting
  /\ Act(Current, SubSeq(buf, 1, need), Drop(need))

\* A size the body has room for.
Room(size) == Len(out) + size <= MaxBody

\* A chunk-size line: within its limit and the budget, a size in hexadecimal
\* that the body still has room for.
ReadSizeLine ==
  /\ phase = "chunkSize" /\ ~Waiting
  /\ LET cost == Charged(LineLength) size == buf[1][2] IN
     IF LineTooLong \/ cost > Budget(Len(out)) \/ buf[1][1] # "size"
        \/ (sent[Current].plus /\ reader.lines # "once") \/ ~Room(size)
     THEN Refused
     ELSE /\ phase' = IF size = 0 THEN "trailers" ELSE "chunkData"
          /\ need' = IF size = 0 THEN MaxHeader ELSE size
          /\ framing' = cost
          /\ buf' = Drop(LineLength)
          /\ UNCHANGED <<reader, sent, wire, whole, accepted, verdict, listener, faults, out>>

ReadChunk ==
  /\ phase = "chunkData" /\ ~Waiting
  /\ IF buf[need + 1][1] # "cr" \/ buf[need + 2][1] # "lf" THEN Refused
     ELSE /\ out' = out \o SubSeq(buf, 1, need)
          /\ framing' = IF reader.budget = "five" THEN framing + 2 ELSE framing
          /\ buf' = Drop(need + 2)
          /\ phase' = "chunkSize" /\ need' = 0
          /\ UNCHANGED <<reader, sent, wire, whole, accepted, verdict, listener, faults>>

\* Trailer lines until an empty one; the end of input never ends them.
ReadTrailer ==
  /\ phase = "trailers" /\ ~Waiting
  /\ LET cost == Charged(LineLength) IN
     IF LineTooLong \/ cost > Budget(Len(out)) THEN Refused
     ELSE IF LineLength = 2 THEN Act(Current, out, Drop(2))
     ELSE /\ need' = need - LineLength
          /\ framing' = cost
          /\ buf' = Drop(LineLength)
          /\ UNCHANGED <<reader, sent, wire, whole, phase, accepted, verdict, listener, faults, out>>

----------------------------------------------------------------------------
(* The accept loop.                                                         *)

rest == <<reader, sent, wire, whole, buf, accepted, body>>

Accept ==
  /\ listener = "open" /\ phase = "connecting"
  /\ phase' = "head"
  /\ UNCHANGED <<rest, verdict, listener, faults>>

\* Out of descriptors, or a peer gone before the accept: back off and go on.
AcceptFailsForNow ==
  /\ listener = "open" /\ faults < MaxFaults
  /\ listener' = "backoff" /\ faults' = faults + 1
  /\ UNCHANGED <<rest, phase, verdict>>

BackOffEnds == listener = "backoff" /\ listener' = "open" /\ UNCHANGED <<rest, phase, verdict, faults>>

\* What stopping does to a connection: Lambda and Cloud Run cancel it, the
\* others leave it to end by itself.
StopConnection ==
  IF reader.tracked /\ phase # "closed" /\ phase # "connecting"
  THEN phase' = "closed" /\ verdict' = "aborted" ELSE UNCHANGED <<phase, verdict>>

\* A broken listener stops the service, except where every failure is retried.
AcceptFailsForGood ==
  /\ listener = "open" /\ faults < MaxFaults
  /\ faults' = faults + 1
  /\ IF reader.retries THEN listener' = "backoff" /\ UNCHANGED <<phase, verdict>>
     ELSE listener' = "failed" /\ StopConnection
  /\ UNCHANGED rest

Shutdown ==
  /\ listener \in {"open", "backoff"}
  /\ listener = "backoff" => reader.timed    \* the mailbox watches for it while backing off
  /\ listener' = "stopped" /\ StopConnection
  /\ UNCHANGED <<rest, faults>>

Init ==
  /\ reader \in Readers
  /\ sent \in Messages
  /\ LET all == Flatten([i \in DOMAIN sent |-> Bytes(i, sent[i])])
     IN \E n \in 0..Len(all) : wire = SubSeq(all, 1, n) /\ whole = (n = Len(all))
  /\ buf = <<>> /\ phase = "connecting" /\ need = 0 /\ out = <<>> /\ framing = 0
  /\ accepted = <<>> /\ verdict = "open" /\ listener = "open" /\ faults = 0

Next ==
  \/ Fill \/ EndOfInput \/ TimesOut \/ ReadHead \/ ReadSized \/ ReadSizeLine \/ ReadChunk \/ ReadTrailer
  \/ Accept \/ AcceptFailsForNow \/ BackOffEnds \/ AcceptFailsForGood \/ Shutdown

Spec == Init /\ [][Next]_vars
----------------------------------------------------------------------------
(* Properties.                                                              *)

TypeOK ==
  /\ reader \in Readers /\ sent \in Messages
  /\ phase \in {"connecting", "head", "sized", "chunkSize", "chunkData", "trailers", "closed"}
  /\ need \in Nat /\ framing \in Nat /\ faults \in 0..MaxFaults
  /\ verdict \in {"open", "served", "dropped", "answered", "aborted"}
  /\ (verdict # "open") = (phase = "closed")
  /\ listener \in {"open", "backoff", "stopped", "failed"}
  /\ Len(out) <= MaxBody

\* A message a correct client may send: one length that is right, or one
\* "chunked" coding with right sizes, the last of them zero.
WellFramed(m) ==
  /\ ~m.plus
  /\ \/ m.codings = <<>> /\ m.lengths = (IF m.lengths = <<>> /\ m.data = <<>> THEN <<>> ELSE <<Len(m.data)>>)
     \/ /\ m.codings = <<"chunked">> /\ m.lengths = <<>>
        /\ \A c \in DOMAIN m.chunks : m.chunks[c].skew = 0 /\ ((m.chunks[c].data = <<>>) <=> (c = Len(m.chunks)))

\* The lines of a chunked body, and what the reader has been charged and has
\* decoded when it has read the first k of them.
Lines(m) == [c \in DOMAIN m.chunks |-> 1 + m.chunks[c].ext + 2] \o [t \in DOMAIN m.trailers |-> m.trailers[t] + 2] \o <<2>>
SumOf(s) == FoldLeft(LAMBDA a, b : a + b, 0, s)
DecodedBefore(m, k) == SumOf([c \in DOMAIN m.chunks |-> IF c < k THEN Len(m.chunks[c].data) ELSE 0])
ChargedBy(m, k) == SumOf(SubSeq(Lines(m), 1, k))
                   + (IF reader.budget = "five" THEN 2 * Cardinality({c \in DOMAIN m.chunks : c < k /\ m.chunks[c].data # <<>>}) ELSE 0)
LineRoom(slack) == IF reader.lines = "line" THEN MaxLine + 2 ELSE MaxHeader + (IF reader.lines = "once" THEN slack ELSE 0)

\* What the limits allow, with slack where a limit is only checked between reads.
Allowed(m, slack) ==
  /\ m.head + 2 <= MaxHeader + (IF reader.recheck THEN 0 ELSE slack)
  /\ Len(Meant(m)) <= MaxBody
  /\ m.codings # <<>> =>
       /\ reader.coding # "none"
       /\ \A k \in DOMAIN Lines(m) : Lines(m)[k] <= LineRoom(slack)
       /\ reader.lines = "exact" => SumOf(m.trailers) + 2 * Len(m.trailers) + 2 <= MaxHeader
       /\ reader.budget # "none" => \A k \in DOMAIN Lines(m) : ChargedBy(m, k) <= Budget(DecodedBefore(m, k))

\* Whether a well-framed request is acted on depends on its size alone, not
\* on how the network split it: within the limits it is, beyond them it is
\* not, at every boundary of every reader.
SplitsDoNotMatter ==
  (/\ phase = "closed" /\ verdict # "aborted" /\ ~reader.timed
   /\ whole /\ Len(sent) = 1 /\ WellFramed(sent[1]))
  => /\ Allowed(sent[1], 0) => accepted # <<>>
     /\ accepted # <<>> => Allowed(sent[1], ReadSize)

\* What a service acts on is the body its client sent: requests in order, on
\* a kept-alive connection too, and no part of one taken for another.  A
\* client that closed early is never served, except by S3, which takes what
\* came of a sized body.
BodyAsSent ==
  (\A k \in DOMAIN sent : WellFramed(sent[k])) =>
    \A k \in DOMAIN accepted :
      /\ accepted[k].message = k
      /\ \/ accepted[k].body = Meant(sent[k])
         \/ reader.short = "take" /\ ~whole /\ IsPrefix(accepted[k].body, Meant(sent[k]))

\* A badly framed request is never acted on with its body lost: not by a
\* reader that keeps every repeated header and knows what it can decode.
NeverEmptied ==
  (reader.repeats # "last" /\ reader.coding # "contains") =>
    \A k \in DOMAIN accepted : accepted[k].body = <<>> => Meant(sent[k]) = <<>>

\* What a connection holds in memory is bounded by the limits and one read.
Bounded ==
  /\ phase \in {"head", "chunkSize", "trailers"} => Len(buf) <= MaxHeader + ReadSize
  /\ phase \in {"sized", "chunkData"} => Len(buf) <= MaxHeader + ReadSize \/ Len(buf) < need + 2 + ReadSize

\* A tracked connection does not outlive its service (Lambda, Cloud Run and
\* the runtime API cancel theirs).
NoneOutlives == (listener \in {"stopped", "failed"} /\ reader.tracked) => phase \in {"connecting", "closed"}

=============================================================================
