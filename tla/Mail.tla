-------------------------------- MODULE Mail --------------------------------
(***************************************************************************)
(* The SMTP sink (src/services/mail/src) and the mailbox server that shows *)
(* what it stores (src/services/mailbox/src).  A session reads lines; a    *)
(* message that ends is parsed, its bytes put in the blob store and one    *)
(* line appended to messages.jsonl.  Deletes rewrite that log.  The log is *)
(* mirrored in an index loaded on first use.  Every message received is    *)
(* announced to the mailbox's event streams.                               *)
(*                                                                         *)
(* Abstractions: a line is the number of its leading dots, the length of   *)
(* the rest and its ending; a recipient is the transaction that named it;  *)
(* ids and receive times are one counter; commands that only reply (NOOP,  *)
(* a syntax error, a command out of sequence) are left out.                *)
(***************************************************************************)
EXTENDS Integers, FiniteSets, Sequences, SequencesExt, TLC

CONSTANTS
    Clients,        \* SMTP connections
    Streams,        \* event stream connections
    Readers,        \* mailbox list requests
    None,
    MaxSessions,    \* connection slots (512 in the code)
    MaxStreams,     \* event stream slots (64)
    StreamRoom,     \* events a stream may fall behind (16)
    Workloads       \* what happens: commands, drafts, limits, requests

ASSUME MailAssumption == {MaxSessions, MaxStreams, StreamRoom} \subseteq Nat
ASSUME WorkloadsAssumption ==
    \A w \in Workloads :
        /\ w.messages \in Nat
        /\ w.endings \subseteq BOOLEAN
        /\ w.drafts \subseteq Seq([dots : Nat, rest : Nat, crlf : BOOLEAN])

VARIABLES
    session,    \* what the server keeps for each connection
    client,     \* what each client has left to send of its message
    log,        \* messages.jsonl: its complete lines
    tail,       \* an unterminated last line, or None
    index,      \* the log in memory, or None
    blobs,      \* the bodies in the blob store
    feed,       \* ids of messages received and not yet announced
    announcing, \* the message the event task is projecting, or None
    streams,    \* event streams
    reading,    \* list requests
    nextId,
    crashes,
    up,
    acked,      \* history: the messages answered 250, by id
    gone,       \* history: ids whose deletion was answered
    announced,  \* history: ids sent to the event streams, in order
    workload

vars == <<session, client, log, tail, index, blobs, feed, announcing, streams, reading, nextId,
          crashes, up, acked, gone, announced, workload>>
storeVars == <<log, tail, index, blobs>>
smtpVars == <<session, client>>
eventVars == <<feed, announcing, streams, announced>>

Called(op) == op \in workload.ops

(***************************************************************************)
(* Lines.  CRLF clients put a dot before a line of their message that      *)
(* starts with one; a line that follows a bare LF is not a line to them.   *)
(***************************************************************************)
Line(dots, rest, crlf) == [dots |-> dots, rest |-> rest, crlf |-> crlf]
Text(line) == <<line.dots, line.rest>>
StartsDotDot(line) == line.dots >= 2
Unstuffed(line) == IF StartsDotDot(line) THEN <<line.dots - 1, line.rest>> ELSE Text(line)
Length(text) == text[1] + text[2] + 2
Size(raw) == FoldLeft(LAMBDA n, text : n + Length(text), 0, raw)

\* What a client sends for a draft: stuffed lines, then the terminator.
Wire(draft, crlf) ==
    [i \in 1..Len(draft) + 1 |->
        IF i > Len(draft) THEN Line(1, 0, crlf)
        ELSE IF (i = 1 \/ draft[i - 1].crlf = crlf) /\ draft[i].dots > 0
             THEN [draft[i] EXCEPT !.dots = @ + 1]
             ELSE draft[i]]

(***************************************************************************)
(* The log.                                                                *)
(***************************************************************************)
Entry(id, body, txn, to) == [id |-> id, body |-> body, txn |-> txn, to |-> to, deleted |-> FALSE]

\* read_log: an unterminated last line counts when it parses.
Parsed == IF tail # None /\ tail.whole THEN Append(log, tail.entry) ELSE log
\* drop_torn_tail, before every append: newline for a whole record, truncation of a torn one.
Repaired == Parsed
AppendedToTail(e) == IF tail # None /\ ~tail.whole THEN log ELSE Append(Parsed, e)
Appended(e) == Append(Repaired, e)
Loaded == IF index = None THEN Parsed ELSE index
\* append keeps the index in step only if it is loaded.
IndexAfter(e) == IF index = None THEN None ELSE Append(index, e)
Alive(entries) == {e \in Range(entries) : ~e.deleted}
AliveIds(entries) == {e.id : e \in Alive(entries)}
Find(entries, id) == CHOOSE e \in Alive(entries) : e.id = id

\* A tombstone keeps its id and loses its contents.
Tombstone(e) == [e EXCEPT !.deleted = TRUE, !.to = <<>>]
Rewritten(ids) == [i \in 1..Len(Loaded) |-> IF Loaded[i].id \in ids THEN Tombstone(Loaded[i]) ELSE Loaded[i]]

\* A delete leaves the blobs: messages with the same bytes share one.
BlobsKept(ids) == blobs

\* list_all: newest first.
NewestFirst(entries) == Reverse(SetToSortSeq(AliveIds(entries), <))

(***************************************************************************)
(* Sessions.                                                               *)
(***************************************************************************)
NoEnvelope == [open |-> FALSE, txn |-> 0, to |-> <<>>]
Fresh == [pc |-> "ready", greeted |-> FALSE, authed |-> FALSE, crlfSeen |-> FALSE, lastCrlf |-> FALSE,
          envelope |-> NoEnvelope, txns |-> 0, raw |-> <<>>, oversized |-> FALSE, id |-> 0]
Closed == [Fresh EXCEPT !.pc = "closed"]
Quiet == [crlf |-> TRUE, draft |-> <<>>, left |-> <<>>, gone |-> FALSE]

Sessions == {c \in Clients : session[c].pc # "closed"}
Ready(c) == up /\ session[c].pc = "ready" /\ ~client[c].gone
\* The line a command arrives on says how the client ends its lines.
Heard(c) == [session[c] EXCEPT !.lastCrlf = client[c].crlf, !.crlfSeen = @ \/ client[c].crlf]
ResetEnvelope(s) == [s EXCEPT !.envelope = NoEnvelope, !.raw = <<>>, !.oversized = FALSE]
EndSession(c) == /\ session' = [session EXCEPT ![c] = Closed]
                 /\ client' = [client EXCEPT ![c] = Quiet]

\* serve_smtp: a connection beyond the slots is dropped.
Connect(c) ==
    /\ c \in workload.clients /\ up /\ session[c].pc = "closed"
    /\ Cardinality(Sessions) < MaxSessions
    /\ \E crlf \in workload.endings :
         client' = [client EXCEPT ![c] = [Quiet EXCEPT !.crlf = crlf]]
    /\ session' = [session EXCEPT ![c] = Fresh]
    /\ UNCHANGED <<storeVars, eventVars, reading, nextId, crashes, up, acked, gone, workload>>

\* A step of the session that touches nothing else.
InSession(c, s) ==
    /\ session' = [session EXCEPT ![c] = s]
    /\ UNCHANGED <<client, storeVars, eventVars, reading, nextId, crashes, up, acked, gone, workload>>

Helo(c) == Ready(c) /\ (Called("Rset") \/ ~session[c].greeted) /\ InSession(c, [ResetEnvelope(Heard(c)) EXCEPT !.greeted = TRUE])

\* A new MAIL replaces the envelope; one that declares too large a size drops it.
MailStarted(s) ==
    [s EXCEPT !.envelope = [open |-> TRUE, txn |-> s.txns + 1, to |-> <<>>], !.txns = @ + 1]
MailCommand(c) ==
    /\ Ready(c) /\ session[c].greeted /\ session[c].txns < workload.txns
    /\ \E size \in workload.sizes :
         InSession(c, IF size > workload.maxBytes THEN ResetEnvelope(Heard(c)) ELSE MailStarted(Heard(c)))

Rcpt(c) ==
    /\ Ready(c) /\ session[c].envelope.open
    /\ Len(session[c].envelope.to) < workload.maxRecipients
    /\ InSession(c, [Heard(c) EXCEPT !.envelope.to = Append(@, session[c].envelope.txn)])

Rset(c) == Ready(c) /\ Called("Rset") /\ InSession(c, ResetEnvelope(Heard(c)))

Complete(envelope) == envelope.open /\ envelope.to # <<>>

Data(c) ==
    /\ Ready(c) /\ Complete(session[c].envelope)
    /\ \E draft \in workload.drafts :
         /\ client[c].crlf \/ \A i \in 1..Len(draft) : ~draft[i].crlf
         /\ draft # <<>> => Last(draft).crlf = client[c].crlf
         /\ client' = [client EXCEPT ![c] = [@ EXCEPT !.draft = draft, !.left = Wire(draft, client[c].crlf)]]
    /\ session' = [session EXCEPT ![c] = [Heard(c) EXCEPT !.pc = "data", !.raw = <<>>, !.oversized = FALSE]]
    /\ UNCHANGED <<storeVars, eventVars, reading, nextId, crashes, up, acked, gone, workload>>

\* AUTH: one or two more lines, then a comparison that only strict mode heeds.
Auth(c) ==
    /\ Ready(c) /\ Called("Auth") /\ workload.auth # "off"
    /\ session[c].greeted /\ ~session[c].authed /\ ~session[c].envelope.open
    /\ \/ \E pc \in {"plain", "user"} : InSession(c, [Heard(c) EXCEPT !.pc = pc])
       \/ InSession(c, [Heard(c) EXCEPT !.pc = "pass"])         \* LOGIN with an initial response
AuthLine(c) ==
    /\ up /\ session[c].pc \in {"plain", "user", "pass"}
    /\ \/ /\ session[c].pc = "user"
          /\ InSession(c, [Heard(c) EXCEPT !.pc = "pass"])
       \/ /\ session[c].pc \in {"plain", "pass"}
          /\ \E right \in BOOLEAN :
               InSession(c, [Heard(c) EXCEPT !.pc = "ready", !.authed = workload.auth # "strict" \/ right])
       \/ /\ session[c].pc = "plain"                            \* cancelled or malformed: PLAIN goes on
          /\ InSession(c, [Heard(c) EXCEPT !.pc = "ready"])
       \/ /\ session[c].pc # "plain"                            \* LOGIN ends the session
          /\ EndSession(c)
          /\ UNCHANGED <<storeVars, eventVars, reading, nextId, crashes, up, acked, gone, workload>>

(***************************************************************************)
(* DATA.                                                                   *)
(***************************************************************************)
\* Both line breaks around the dot must be the kind the client uses.
AnyDot(s, line) == Text(line) = <<1, 0>>
Terminates(s, line) ==
    LET seen == s.crlfSeen \/ line.crlf IN
    Text(line) = <<1, 0>> /\ (IF seen THEN line.crlf /\ s.lastCrlf ELSE ~line.crlf /\ ~s.lastCrlf)

\* A line of the message is unstuffed and kept, unless the message is too large.
Stored(s, line) ==
    IF s.oversized THEN s
    ELSE IF workload.maxBytes > 0 /\ Size(s.raw) + Length(Unstuffed(line)) > workload.maxBytes
         THEN [s EXCEPT !.oversized = TRUE]
         ELSE [s EXCEPT !.raw = Append(@, Unstuffed(line))]

LineRead(s, line) ==
    LET t == [s EXCEPT !.lastCrlf = line.crlf, !.crlfSeen = @ \/ line.crlf] IN
    IF ~Terminates(s, line) THEN Stored(t, line)
    ELSE IF s.oversized THEN [ResetEnvelope(t) EXCEPT !.pc = "ready"]
    ELSE [t EXCEPT !.pc = "receive"]

DataLine(c) ==
    /\ up /\ session[c].pc = "data" /\ client[c].left # <<>>
    /\ session' = [session EXCEPT ![c] = LineRead(@, Head(client[c].left))]
    /\ client' = [client EXCEPT ![c].left = Tail(@)]
    /\ UNCHANGED <<storeVars, eventVars, reading, nextId, crashes, up, acked, gone, workload>>

\* The connection ends: EOF, an idle timeout or a line over the limit.
Hangup(c) ==
    /\ Called("Hangup") /\ up /\ session[c].pc \in {"ready", "data", "plain", "user", "pass"}
    /\ EndSession(c)
    /\ UNCHANGED <<storeVars, eventVars, reading, nextId, crashes, up, acked, gone, workload>>

\* EOF after part of a line: what arrived is read as a line that has no ending.
CutLine(c) ==
    /\ Called("Hangup") /\ up /\ session[c].pc = "data" /\ client[c].left # <<>>
    /\ Head(client[c].left).dots > 0
    /\ \E dots \in 1..Head(client[c].left).dots :
         session' = [session EXCEPT ![c] =
             LET t == LineRead(@, Line(dots, 0, FALSE)) IN IF t.pc = "receive" THEN t ELSE Closed]
    /\ client' = [client EXCEPT ![c] = IF session'[c].pc = "closed" THEN Quiet ELSE [Quiet EXCEPT !.crlf = FALSE, !.gone = TRUE]]
    /\ UNCHANGED <<storeVars, eventVars, reading, nextId, crashes, up, acked, gone, workload>>

(***************************************************************************)
(* Receiving: parse, blob, log, event, reply.                              *)
(***************************************************************************)
\* 451: the transaction is over either way.
Failed(c) == /\ session' = [session EXCEPT ![c] = [ResetEnvelope(@) EXCEPT !.pc = "ready"]]
             /\ client' = [client EXCEPT ![c].left = <<>>]

PutBlob(c) ==
    /\ up /\ session[c].pc = "receive" /\ nextId <= workload.messages
    /\ \/ /\ blobs' = blobs \cup {session[c].raw}
          /\ session' = [session EXCEPT ![c] = [@ EXCEPT !.pc = "append", !.id = nextId]]
          /\ UNCHANGED client
       \/ /\ Called("Fail") /\ Failed(c)
          /\ UNCHANGED blobs
    /\ nextId' = nextId + 1
    /\ UNCHANGED <<log, tail, index, eventVars, reading, crashes, up, acked, gone, workload>>

Received(c) == Entry(session[c].id, session[c].raw, session[c].envelope.txn, session[c].envelope.to)

\* append: under the lock; the index follows only if it is loaded.
AppendMessage(c) ==
    /\ up /\ session[c].pc = "append"
    /\ tail' = None
    /\ \/ /\ log' = Appended(Received(c))
          /\ index' = IndexAfter(Received(c))
          /\ session' = [session EXCEPT ![c].pc = "emit"]
          /\ UNCHANGED client
       \/ /\ Called("Fail") /\ Failed(c)
          /\ log' = Repaired /\ UNCHANGED index
    /\ UNCHANGED <<blobs, eventVars, reading, nextId, crashes, up, acked, gone, workload>>

Emit(c) ==
    /\ up /\ session[c].pc = "emit"
    /\ feed' = Append(feed, session[c].id)
    /\ acked' = acked \cup {Received(c)}
    /\ session' = [session EXCEPT ![c] = [ResetEnvelope(@) EXCEPT !.pc = "ready"]]
    /\ UNCHANGED <<client, storeVars, announcing, streams, announced, reading, nextId, crashes, up, gone, workload>>

(***************************************************************************)
(* Deleting, from the control surface or the mailbox's API.  The rewrite   *)
(* replaces the log by a rename, under the lock.                           *)
(***************************************************************************)
\* host_allowed, trusted_host: an address, a name without dots, a local domain or one that is configured.
TrustedHost(req) == req.host \in {"address", "bare", "local", "configured"}
\* browser_guard::allowed: what a browser may have sent across sites does not delete.
Allowed(req) ==
    /\ TrustedHost(req)
    /\ req.origin \in {"absent", "same", "loopback"}
    /\ req.origin = "absent" => ~req.crossSite
Requests == [host : {"address", "bare", "local", "configured", "other"}, origin : {"absent", "same", "loopback", "foreign"}, crossSite : BOOLEAN, credentials : BOOLEAN]
Authorised(req) == workload.auth = "strict" => req.credentials

Rewrite(ids) ==
    /\ log' = Rewritten(ids) /\ index' = log' /\ tail' = None
    /\ blobs' = BlobsKept(ids)
    /\ gone' = gone \cup (ids \cap AliveIds(Loaded))
    /\ UNCHANGED <<smtpVars, eventVars, reading, nextId, crashes, up, acked, workload>>

Delete ==
    /\ Called("Delete") /\ up
    /\ \E req \in Requests : Allowed(req) /\ Authorised(req)
    /\ \E id \in AliveIds(Loaded) : Rewrite({id})
DeleteAll ==
    /\ Called("DeleteAll") /\ up
    /\ \E req \in Requests : Allowed(req) /\ Authorised(req)
    /\ Rewrite(AliveIds(Loaded))

(***************************************************************************)
(* The mailbox's lists: the ids first, then one message at a time.         *)
(***************************************************************************)
Idle == [pc |-> "idle", ids |-> <<>>, at |-> 1, start |-> 0, limit |-> 0, query |-> None, total |-> 0,
         items |-> <<>>, began |-> {}]

\* paging: a position outside the page is skipped.
OnPage(r, position) == position >= r.start /\ position - r.start < r.limit
Matches(e, query) == e.body = query

BeginList(r) ==
    /\ Called("List") /\ up /\ reading[r].pc = "idle"
    /\ \E start \in 0..1, query \in {None} \cup workload.queries :
         reading' = [reading EXCEPT ![r] =
             [Idle EXCEPT !.pc = "list", !.ids = NewestFirst(Loaded), !.start = start, !.limit = workload.page,
                          !.query = query, !.total = IF query = None THEN Cardinality(AliveIds(Loaded)) ELSE 0,
                          !.began = AliveIds(Loaded)]]
    /\ index' = Loaded
    /\ UNCHANGED <<smtpVars, log, tail, blobs, eventVars, nextId, crashes, up, acked, gone, workload>>

\* get, then the raw bytes: a message deleted in between is skipped or shown empty.
ListNext(r) ==
    /\ up /\ reading[r].pc = "list" /\ reading[r].at <= Len(reading[r].ids)
    /\ LET s == reading[r]
           id == s.ids[s.at]
           wanted == s.query # None \/ OnPage(s, s.at - 1)
           found == wanted /\ id \in AliveIds(Loaded)
           hit == found /\ (s.query = None \/ Matches(Find(Loaded, id), s.query))
           position == IF s.query = None THEN s.at - 1 ELSE s.total
       IN reading' = [reading EXCEPT ![r] =
              [s EXCEPT !.at = @ + 1,
                        !.total = IF hit /\ s.query # None THEN @ + 1 ELSE @,
                        !.items = IF hit /\ OnPage(s, position) THEN Append(@, id) ELSE @]]
    /\ index' = Loaded
    /\ UNCHANGED <<smtpVars, log, tail, blobs, eventVars, nextId, crashes, up, acked, gone, workload>>

EndList(r) ==
    /\ up /\ reading[r].pc = "list" /\ reading[r].at > Len(reading[r].ids)
    /\ reading' = [reading EXCEPT ![r] =
           [@ EXCEPT !.pc = "done", !.total = IF reading[r].query # None /\ reading[r].start > @ THEN 0 ELSE @]]
    /\ UNCHANGED <<smtpVars, storeVars, eventVars, nextId, crashes, up, acked, gone, workload>>
ForgetList(r) ==
    /\ reading[r].pc \in {"done", "read"}
    /\ reading' = [reading EXCEPT ![r] = Idle]
    /\ UNCHANGED <<smtpVars, storeVars, eventVars, nextId, crashes, up, acked, gone, workload>>

(***************************************************************************)
(* One message: its record, then its bytes, which are looked up anew.      *)
(***************************************************************************)
BeginRead(r) ==
    /\ Called("Read") /\ up /\ reading[r].pc = "idle"
    /\ \E id \in AliveIds(Loaded) :
         reading' = [reading EXCEPT ![r] = [Idle EXCEPT !.pc = "raw", !.ids = <<id>>]]
    /\ index' = Loaded
    /\ UNCHANGED <<smtpVars, log, tail, blobs, eventVars, nextId, crashes, up, acked, gone, workload>>
\* read_raw: no bytes found shows the message empty.
RawOf(id) == IF id \in AliveIds(Loaded) /\ Find(Loaded, id).body \in blobs THEN <<id>> ELSE <<>>
EndRead(r) ==
    /\ up /\ reading[r].pc = "raw"
    /\ reading' = [reading EXCEPT ![r].pc = "read", ![r].items = RawOf(reading[r].ids[1])]
    /\ UNCHANGED <<smtpVars, storeVars, eventVars, nextId, crashes, up, acked, gone, workload>>

(***************************************************************************)
(* Event streams.                                                          *)
(***************************************************************************)
NoStream == [open |-> FALSE, buffer |-> <<>>, lagged |-> FALSE, seen |-> <<>>, from |-> 0]
Open == {s \in Streams : streams[s].open}

Subscribe(s) ==
    /\ Called("Subscribe") /\ up /\ ~streams[s].open
    /\ Cardinality(Open) < MaxStreams
    /\ streams' = [streams EXCEPT ![s] = [NoStream EXCEPT !.open = TRUE, !.from = Len(announced)]]
    /\ UNCHANGED <<smtpVars, storeVars, feed, announcing, announced, reading, nextId, crashes, up, acked, gone, workload>>
Unsubscribe(s) ==
    /\ streams[s].open
    /\ streams' = [streams EXCEPT ![s] = NoStream]
    /\ UNCHANGED <<smtpVars, storeVars, feed, announcing, announced, reading, nextId, crashes, up, acked, gone, workload>>

\* The event task takes one event at a time; nobody listening, or the message gone, drops it.
TakeEvent ==
    /\ up /\ announcing = None /\ feed # <<>>
    /\ feed' = Tail(feed)
    /\ announcing' = IF Open # {} /\ Head(feed) \in AliveIds(Loaded) THEN [id |-> Head(feed), pc |-> "project"] ELSE None
    /\ index' = IF Open # {} THEN Loaded ELSE index
    /\ UNCHANGED <<smtpVars, log, tail, blobs, streams, announced, reading, nextId, crashes, up, acked, gone, workload>>
\* publish: deleted during the projection, it is not announced.
Recheck ==
    /\ up /\ announcing # None /\ announcing.pc = "project"
    /\ announcing' = IF announcing.id \in AliveIds(Loaded) THEN [announcing EXCEPT !.pc = "send"] ELSE None
    /\ UNCHANGED <<smtpVars, storeVars, feed, streams, announced, reading, nextId, crashes, up, acked, gone, workload>>

\* broadcast: a stream that falls StreamRoom behind has lost its oldest event.
Offered(st, id) ==
    IF Len(st.buffer) < StreamRoom THEN [st EXCEPT !.buffer = Append(@, id)]
    ELSE [st EXCEPT !.buffer = Append(Tail(@), id), !.lagged = TRUE]
Announce ==
    /\ up /\ announcing # None /\ announcing.pc = "send"
    /\ streams' = [s \in Streams |-> IF streams[s].open THEN Offered(streams[s], announcing.id) ELSE streams[s]]
    /\ announced' = IF Open = {} THEN announced ELSE Append(announced, announcing.id)
    /\ announcing' = None
    /\ UNCHANGED <<smtpVars, storeVars, feed, reading, nextId, crashes, up, acked, gone, workload>>

\* stream_events: a lagged stream ends; the page reloads its list when it reconnects.
DeliveredSkipping(st) ==
    [st EXCEPT !.seen = Append(@, Head(st.buffer)), !.buffer = Tail(@), !.lagged = FALSE]
Delivered(st) ==
    IF st.lagged THEN NoStream ELSE [st EXCEPT !.seen = Append(@, Head(st.buffer)), !.buffer = Tail(@)]
StreamRecv(s) ==
    /\ up /\ streams[s].open /\ streams[s].buffer # <<>>
    /\ streams' = [streams EXCEPT ![s] = Delivered(@)]
    /\ UNCHANGED <<smtpVars, storeVars, feed, announcing, announced, reading, nextId, crashes, up, acked, gone, workload>>

(***************************************************************************)
(* Process.  A crash while a line is being appended may leave part of it,  *)
(* or all of it but its newline.                                           *)
(***************************************************************************)
Down ==
    /\ session' = [c \in Clients |-> Closed] /\ client' = [c \in Clients |-> Quiet]
    /\ index' = None /\ feed' = <<>> /\ announcing' = None
    /\ streams' = [s \in Streams |-> NoStream] /\ reading' = [r \in Readers |-> Idle]
    /\ up' = FALSE
    /\ UNCHANGED <<nextId, acked, gone, announced, workload>>

Crash ==
    /\ up /\ crashes < workload.crashes /\ crashes' = crashes + 1
    /\ Down
    /\ \/ UNCHANGED <<log, tail, blobs>>
       \/ \E c \in Clients, whole \in BOOLEAN :
            /\ session[c].pc = "append"
            /\ log' = Repaired /\ tail' = [entry |-> Received(c), whole |-> whole]
            /\ UNCHANGED blobs

\* A shutdown drops the sessions; ephemeral storage goes with the process.
Shutdown ==
    /\ Called("Shutdown") /\ up /\ crashes < workload.crashes /\ crashes' = crashes + 1
    /\ \A c \in Clients : session[c].pc \notin {"receive", "append", "emit"}
    /\ IF workload.ephemeral
       THEN /\ log' = <<>> /\ tail' = None /\ blobs' = {}
            /\ acked' = {} /\ gone' = {}
            /\ session' = [c \in Clients |-> Closed] /\ client' = [c \in Clients |-> Quiet]
            /\ index' = None /\ feed' = <<>> /\ announcing' = None
            /\ streams' = [s \in Streams |-> NoStream] /\ reading' = [r \in Readers |-> Idle]
            /\ up' = FALSE
            /\ UNCHANGED <<nextId, announced, workload>>
       ELSE Down /\ UNCHANGED <<log, tail, blobs>>

\* The mailbox loads the log before it serves; the mail service on first use.
Start ==
    /\ ~up /\ up' = TRUE
    /\ index' \in {None, Parsed}
    /\ UNCHANGED <<smtpVars, log, tail, blobs, eventVars, reading, nextId, crashes, acked, gone, workload>>

Init ==
    /\ session = [c \in Clients |-> Closed] /\ client = [c \in Clients |-> Quiet]
    /\ log = <<>> /\ tail = None /\ index = None /\ blobs = {}
    /\ feed = <<>> /\ announcing = None /\ announced = <<>>
    /\ streams = [s \in Streams |-> NoStream] /\ reading = [r \in Readers |-> Idle]
    /\ nextId = 1 /\ crashes = 0 /\ up = TRUE /\ acked = {} /\ gone = {}
    /\ workload \in Workloads

Next ==
    \/ \E c \in Clients :
         Connect(c) \/ Helo(c) \/ MailCommand(c) \/ Rcpt(c) \/ Rset(c) \/ Data(c) \/ Auth(c) \/ AuthLine(c)
         \/ DataLine(c) \/ Hangup(c) \/ CutLine(c) \/ PutBlob(c) \/ AppendMessage(c) \/ Emit(c)
    \/ Delete \/ DeleteAll
    \/ \E r \in Readers : BeginList(r) \/ ListNext(r) \/ EndList(r) \/ ForgetList(r) \/ BeginRead(r) \/ EndRead(r)
    \/ \E s \in Streams : Subscribe(s) \/ Unsubscribe(s) \/ StreamRecv(s)
    \/ TakeEvent \/ Recheck \/ Announce
    \/ Crash \/ Shutdown \/ Start

Spec == Init /\ [][Next]_vars

(***************************************************************************)
(* Properties.                                                             *)
(***************************************************************************)
\* Every variable has its shape, and what is stored names recipients.
TypeOK ==
    /\ \A c \in Clients : session[c].pc \in {"closed", "ready", "data", "plain", "user", "pass", "receive", "append", "emit"}
    /\ \A e \in Range(log) : e.id \in 1..workload.messages /\ (e.deleted \/ e.to # <<>>)
    /\ tail = None \/ tail.whole \in BOOLEAN
    /\ nextId \in 1..workload.messages + 1
    /\ Cardinality(Sessions) <= MaxSessions /\ Cardinality(Open) <= MaxStreams

\* A message answered 250 and not deleted can be read back, with its body and its recipients, whatever
\* crashes and torn appends came in between (smtp.rs handle_data, store.rs append and drop_torn_tail).
AckedKept == \A m \in acked : m.id \in gone \/ m \in Alive(Parsed)

\* A message whose deletion was answered stays deleted (store.rs rewrite).
DeletedStay == gone \cap AliveIds(Parsed) = {}

\* The index says what the file says (store.rs ensure_loaded, append, rewrite).
IndexFresh == index # None => index = Parsed

\* Every message that can be listed has its bytes (store.rs append puts the blob before the line), and
\* a message is shown empty only when it was deleted while it was read (routes.rs read_raw).
RawPresent ==
    /\ \A e \in Alive(Parsed) : e.body \in blobs
    /\ \A r \in Readers : reading[r].pc = "read" /\ reading[r].items = <<>> => reading[r].ids[1] \in gone

\* Client and server agree where a message ends, bare LF and lone dots in it included: no line of a
\* message is ever read as a command, and no terminator as content (smtp.rs handle_data).
InStep ==
    \A c \in Clients :
        /\ session[c].pc = "ready" => client[c].left = <<>>
        /\ session[c].pc = "data" => client[c].left # <<>>

\* What a CRLF client's message holds arrives: each line unstuffed, in order, and only when the
\* client sent all of it (smtp.rs handle_data).
BodyAsSent ==
    \A c \in Clients :
        session[c].pc \in {"receive", "append", "emit"} /\ client[c].crlf
            /\ (\A i \in 1..Len(client[c].draft) : client[c].draft[i].crlf) =>
        /\ client[c].left = <<>>
        /\ session[c].raw = [i \in 1..Len(client[c].draft) |-> Text(client[c].draft[i])]

\* A stored message carries the recipients of one transaction only (smtp.rs reset_envelope).
OneTransaction == \A e \in Range(Parsed) : \A i \in 1..Len(e.to) : e.to[i] = e.txn

\* A stream that is open has been sent every announcement since it subscribed, in order, or is about
\* to end because it fell behind (http.rs stream_events).
NoGap ==
    \A s \in Open :
        LET since == SubSeq(announced, streams[s].from + 1, Len(announced)) IN
        /\ IsPrefix(streams[s].seen, since)
        /\ ~streams[s].lagged => streams[s].seen \o streams[s].buffer = since

\* A finished list has, newest first and once, every message of its page that was there all along
\* (routes.rs compat_list and ui_list).
ListingRight ==
    \A r \in Readers : reading[r].pc = "done" =>
        LET s == reading[r]
            here == AliveIds(Parsed)
            page == {s.ids[i] : i \in {j \in 1..Len(s.ids) : OnPage(s, j - 1)}}
        IN /\ \A i, j \in 1..Len(s.items) : i < j => s.items[i] > s.items[j]
           /\ Len(s.items) <= s.limit
           /\ Range(s.items) \subseteq s.began
           /\ s.query = None => page \cap here \subseteq Range(s.items)
           /\ s.query # None /\ s.start = 0 /\ s.total <= s.limit =>
                  {e.id : e \in {x \in Alive(Parsed) : Matches(x, s.query)}} \cap s.began \subseteq Range(s.items)

\* The store keeps what was answered, drops what was deleted and can show all it lists.
StoreSafe == AckedKept /\ DeletedStay /\ IndexFresh /\ RawPresent

\* A message is stored as its client sent it, in a session that stays in step.
SessionsSafe == TypeOK /\ InStep /\ BodyAsSent /\ OneTransaction
=============================================================================
