----------------------------- MODULE EventRelay -----------------------------
(***************************************************************************)
(* Live events: a service changes something and emits an event; the relay  *)
(* (services/event-relay) numbers it and offers it to every connected      *)
(* client through a bounded queue; the dashboard (services/dashboard,      *)
(* events.rs) copies the frames to the browser; the page's EventClient     *)
(* (web/dashboard, eventClient.ts) hands them to its listeners and         *)
(* reconnects.  The relay keeps no history: whatever a page may have       *)
(* missed it learns by loading the services' state again, which it does    *)
(* on every hello and resync frame.                                        *)
(*                                                                         *)
(* One browser page; every WebSocket it opens is a new connection.  An     *)
(* event is the number the relay gave it, and "happened" the changes made  *)
(* so far, so that loading the state again means knowing all of these.     *)
(***************************************************************************)
EXTENDS Integers, Sequences, FiniteSets

CONSTANTS Conns,          \* the connections the page may open, one after another
          Services,       \* the services that emit
          Topics,         \* the services the page asked for; empty: all
          QueueSize,      \* CLIENT_QUEUE_SIZE
          MaxWire,        \* frames the sockets hold before a write waits
          MaxEvents       \* bound on the changes

NoOne == "no one"

EventRelayAssumption ==
    /\ NoOne \notin Conns
    /\ QueueSize \in Nat \ {0} /\ MaxEvents \in Nat /\ MaxWire \in Nat \ {0}
    /\ Topics \subseteq Services

VARIABLES happened,   \* changes made, in order: their services
          emitted,    \* how many of them were sent to the relay's channel
          seq,        \* the relay's sequence number
          fanning,    \* the clients the current event is still to be offered to
          overflow,   \* the client whose full queue refused the event, its flag not yet set
          clients,    \* the registered clients (RelayState.clients)
          conn,       \* each connection: its task, queue, flag and frames under way
          page,       \* the page's EventClient
          stopping

relayVars == <<happened, emitted, seq, fanning, overflow, clients, conn, page, stopping>>

Wanted(service) == Topics = {} \/ service \in Topics

\* Event numbers that concern the page among the first n.
Concerning(n) == {m \in 1 .. n : Wanted(happened[m])}

Closed == [pc |-> "closed", queue |-> <<>>, dropped |-> FALSE, wire |-> <<>>, held |-> 0]

RelayInit ==
    /\ happened = <<>> /\ emitted = 0 /\ seq = 0
    /\ fanning = {} /\ overflow = NoOne
    /\ clients = {}
    /\ conn = [c \in Conns |-> [Closed EXCEPT !.pc = "unused"]]
    /\ page = [ws |-> NoOne, listening |-> FALSE, retrying |-> FALSE,
               known |-> {}, last |-> 0]
    /\ stopping = FALSE
-----------------------------------------------------------------------------
(* The services and the relay's reader. *)

\* A service commits a change and then sends its event.
Change(service) ==
    /\ Len(happened) < MaxEvents
    /\ happened' = Append(happened, service)
    /\ UNCHANGED <<emitted, seq, fanning, overflow, clients, conn, page, stopping>>

Emit ==
    /\ emitted < Len(happened)
    /\ emitted' = emitted + 1
    /\ UNCHANGED <<happened, seq, fanning, overflow, clients, conn, page, stopping>>

\* The reader takes the next event, numbers it and locks the client table.
Receive ==
    /\ ~stopping /\ fanning = {} /\ overflow = NoOne /\ seq < emitted
    /\ seq' = seq + 1
    /\ fanning' = clients
    /\ UNCHANGED <<happened, emitted, overflow, clients, conn, page, stopping>>

Full(c) == Len(conn[c].queue) >= QueueSize

\* Client::enqueue without waiting: skipped by topic, queued, or refused.
Enqueue(c) ==
    /\ c \in fanning /\ overflow = NoOne
    /\ fanning' = fanning \ {c}
    /\ \/ /\ ~Wanted(happened[seq])
          /\ UNCHANGED <<conn, overflow>>
       \/ /\ Wanted(happened[seq]) /\ conn[c].pc # "closed" /\ ~Full(c)
          /\ conn' = [conn EXCEPT ![c].queue = Append(@, seq)]
          /\ UNCHANGED overflow
       \/ /\ Wanted(happened[seq]) /\ (conn[c].pc = "closed" \/ Full(c))
          /\ overflow' = c
          /\ UNCHANGED conn
    /\ UNCHANGED <<happened, emitted, seq, clients, page, stopping>>

NeverFlagged(c) == conn

\* The flag is set after the refusal, in a step of its own.
Flagged(c) == [conn EXCEPT ![c].dropped = TRUE]

SetDropped ==
    /\ overflow # NoOne
    /\ conn' = Flagged(overflow)
    /\ overflow' = NoOne
    /\ UNCHANGED <<happened, emitted, seq, fanning, clients, page, stopping>>
-----------------------------------------------------------------------------
(* A client's task. *)

TableFree == fanning = {} /\ overflow = NoOne

\* The handshake: host and origin are checked, a peer that sends nothing is
\* given up; the client is registered before the hello is written.
Handshake(c, accepted) ==
    /\ conn[c].pc = "connecting" /\ ~stopping
    /\ \/ /\ accepted /\ TableFree
          /\ clients' = clients \cup {c}
          /\ conn' = [conn EXCEPT ![c].pc = "hello"]
       \/ /\ ~accepted
          /\ conn' = [conn EXCEPT ![c] = Closed]
          /\ UNCHANGED clients
    /\ UNCHANGED <<happened, emitted, seq, fanning, overflow, page, stopping>>

\* The hello carries the current number.
SendHello(c) ==
    /\ conn[c].pc = "hello"
    /\ conn' = [conn EXCEPT ![c].pc = "serving", ![c].wire = Append(@, [type |-> "hello", seq |-> seq])]
    /\ UNCHANGED <<happened, emitted, seq, fanning, overflow, clients, page, stopping>>

\* The next event leaves the queue ...
Pop(c) ==
    /\ conn[c].pc = "serving" /\ conn[c].queue # <<>>
    /\ conn' = [conn EXCEPT ![c].pc = "sending", ![c].held = Head(conn[c].queue),
                            ![c].queue = Tail(@)]
    /\ UNCHANGED <<happened, emitted, seq, fanning, overflow, clients, page, stopping>>

\* ... and is written, after a resync frame when the flag was taken.
Frames(c) ==
    (IF conn[c].dropped THEN <<[type |-> "resync", seq |-> conn[c].held]>> ELSE <<>>)
       \o <<[type |-> "event", seq |-> conn[c].held]>>

Send(c) ==
    /\ conn[c].pc = "sending" /\ Len(conn[c].wire) < MaxWire
    /\ conn' = [conn EXCEPT ![c].pc = "serving", ![c].dropped = FALSE, ![c].held = 0,
                            ![c].wire = @ \o Frames(c)]
    /\ UNCHANGED <<happened, emitted, seq, fanning, overflow, clients, page, stopping>>

\* The keepalive carries the current number.
Ping(c) ==
    /\ conn[c].pc = "serving" /\ conn[c].wire = <<>>
    /\ conn' = [conn EXCEPT ![c].wire = <<[type |-> "ping", seq |-> seq]>>]
    /\ UNCHANGED <<happened, emitted, seq, fanning, overflow, clients, page, stopping>>

\* A write fails, the peer closes, or the dashboard's copy of either side
\* ends: the task leaves its loop and takes the client out of the table.
Removed(c) == clients \ {c}

Break(c) ==
    /\ conn[c].pc \in {"hello", "serving", "sending"}
    /\ TableFree
    /\ clients' = Removed(c)
    /\ conn' = [conn EXCEPT ![c] = Closed]
    /\ UNCHANGED <<happened, emitted, seq, fanning, overflow, page, stopping>>

\* Shutdown ends the reader and aborts every client task; an aborted task does
\* not take itself out of the table, which goes with the relay.
Stop ==
    /\ ~stopping /\ TableFree
    /\ stopping' = TRUE
    /\ conn' = [c \in Conns |-> IF conn[c].pc = "unused" THEN conn[c] ELSE Closed]
    /\ UNCHANGED <<happened, emitted, seq, fanning, overflow, clients, page>>
-----------------------------------------------------------------------------
(* The page. *)

Subscribe ==
    /\ ~page.listening
    /\ page' = [page EXCEPT !.listening = TRUE, !.known = {}, !.last = 0]
    /\ UNCHANGED <<happened, emitted, seq, fanning, overflow, clients, conn, stopping>>

\* A connection is opened unless there is one or a retry is waited for.
Open(c) ==
    /\ page.listening /\ page.ws = NoOne /\ ~page.retrying
    /\ conn[c].pc = "unused"
    /\ page' = [page EXCEPT !.ws = c]
    /\ conn' = [conn EXCEPT ![c].pc = "connecting"]
    /\ UNCHANGED <<happened, emitted, seq, fanning, overflow, clients, stopping>>

Retry ==
    /\ page.retrying
    /\ page' = [page EXCEPT !.retrying = FALSE]
    /\ UNCHANGED <<happened, emitted, seq, fanning, overflow, clients, conn, stopping>>

\* A frame of the current connection: an event is applied, a hello or a
\* resync loads everything again.
Applied(frame) ==
    CASE frame.type = "event" ->
           [page EXCEPT !.known = @ \cup {frame.seq}, !.last = frame.seq]
      [] frame.type \in {"hello", "resync"} -> [page EXCEPT !.known = 1 .. Len(happened)]
      [] OTHER -> page

OnMessage(c) ==
    /\ page.ws = c /\ conn[c].wire # <<>>
    /\ page' = Applied(Head(conn[c].wire))
    /\ conn' = [conn EXCEPT ![c].wire = Tail(@)]
    /\ UNCHANGED <<happened, emitted, seq, fanning, overflow, clients, stopping>>

\* The connection is lost: another attempt follows after a delay, also when
\* the relay is gone.
OnClose(c) ==
    /\ page.ws = c /\ conn[c].pc = "closed"
    /\ page' = [page EXCEPT !.ws = NoOne, !.retrying = page.listening]
    /\ UNCHANGED <<happened, emitted, seq, fanning, overflow, clients, conn, stopping>>

\* The last listener leaves: the connection is closed from this side.
Unsubscribe ==
    /\ page.listening
    /\ page' = [page EXCEPT !.listening = FALSE, !.ws = NoOne, !.retrying = FALSE]
    /\ UNCHANGED <<happened, emitted, seq, fanning, overflow, clients, conn, stopping>>

RelayNext ==
    \/ \E service \in Services : Change(service)
    \/ Emit \/ Receive \/ SetDropped \/ Stop
    \/ Subscribe \/ Retry \/ Unsubscribe
    \/ \E c \in Conns :
          \/ Enqueue(c) \/ SendHello(c) \/ Pop(c) \/ Send(c) \/ Ping(c) \/ Break(c)
          \/ Open(c) \/ OnMessage(c) \/ OnClose(c)
          \/ \E accepted \in BOOLEAN : Handshake(c, accepted)

RelaySpec == RelayInit /\ [][RelayNext]_relayVars
-----------------------------------------------------------------------------
(* Properties. *)

\* A page that shows an event knows everything that went before it: an event
\* dropped for a full queue was covered by a resync in between.
KnownInOrder == Concerning(page.last) \subseteq page.known \/ ~page.listening

\* When a connected page has nothing left to receive, it knows every change
\* the relay passed on since, and the one exception is announced: an event
\* was dropped and the resync goes out before the next event.
NothingMissed ==
    \A c \in Conns :
       (/\ page.listening /\ page.ws = c /\ conn[c].pc = "serving" /\ TableFree
        /\ conn[c].queue = <<>> /\ conn[c].wire = <<>>) =>
             Concerning(seq) \subseteq page.known \/ conn[c].dropped

\* The table holds exactly the clients whose task serves them, so that no
\* event is offered to a connection that is gone.
TableExact ==
    /\ stopping \/ \A c \in clients : conn[c].pc \in {"hello", "serving", "sending"}
    /\ \A c \in Conns : conn[c].pc \in {"serving", "sending"} => c \in clients
    /\ \A c \in Conns : Len(conn[c].queue) <= QueueSize

\* What a page knows of the events, and whom the relay offers them to.
EventsKnown == KnownInOrder /\ NothingMissed /\ TableExact
=============================================================================
