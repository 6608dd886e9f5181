-------------------------- MODULE EventRelayProofs --------------------------
(***************************************************************************)
(* What EventRelay guarantees for every choice of its constants: a page    *)
(* that shows an event knows everything that went before it, a page with   *)
(* nothing left to receive has missed nothing unannounced, and the relay   *)
(* offers events to connected pages only.                                  *)
(*                                                                         *)
(* The invariant follows an event along the connection's pipeline: the     *)
(* queue, the event the task holds, the frames on the wire, the page.  At  *)
(* every place in it, whatever went before is further ahead, or a frame    *)
(* that makes the page load everything is, or the flag is set that puts    *)
(* such a frame before the next event.                                     *)
(***************************************************************************)
EXTENDS EventRelay, TLAPS

-----------------------------------------------------------------------------
(***************************************************************************)
(* The invariant.                                                          *)
(***************************************************************************)

\* One of the first n frames of w makes the page load everything.
Reload(w, n) == \E j \in 1..n : w[j].type \in {"hello", "resync"}

\* The page, which knows k, will know m once it has the first n frames of w.
Told(k, w, n, m) == m \in k \/ \E j \in 1..n : w[j].type = "event" /\ w[j].seq = m

\* C: the events that concern the page.  What went before an event on the wire is known
\* when the event arrives.
WireOk(C, k, w) ==
    \A i \in 1..Len(w) : w[i].type = "event" =>
       Reload(w, i - 1) \/ \A m \in C : m < w[i].seq => Told(k, w, i - 1, m)

\* The page will load everything before the next event from the queue.
Sure(x) == x.dropped = TRUE \/ Reload(x.wire, Len(x.wire))

\* Event m is ahead of the first n in the queue of connection x, or one of these.
Ahead(k, x, n, m) ==
    \/ Told(k, x.wire, Len(x.wire), m)
    \/ x.pc = "sending" /\ x.held = m
    \/ \E j \in 1..n : x.queue[j] = m

\* Nothing that went before an event in the pipeline is missing, up to event `off'.
QueueOk(C, k, x, off) ==
    /\ x.pc = "sending" => \A m \in C : m < x.held => Told(k, x.wire, Len(x.wire), m)
    /\ \A i \in 1..Len(x.queue) : \A m \in C : m < x.queue[i] => Ahead(k, x, i - 1, m)
    /\ \A m \in C : m <= off => Ahead(k, x, Len(x.queue), m)

Flow(C, k, x, off) == WireOk(C, k, x.wire) /\ (Sure(x) \/ QueueOk(C, k, x, off))

Served == {"serving", "sending"}
Registered == {"hello", "serving", "sending"}

Frame(top) == [type : {"hello", "resync", "event", "ping"}, seq : 0..top]

ConnFields == {"pc", "queue", "dropped", "wire", "held"}

\* A connection as the relay's tasks keep it; `top' is the last number given.
IsConn(x, top) ==
    /\ x = [f \in ConnFields |-> x[f]]
    /\ x.pc \in Registered \cup {"unused", "connecting", "closed"}
    /\ x.queue \in Seq(1..top)
    /\ Len(x.queue) <= QueueSize
    /\ x.dropped \in BOOLEAN
    /\ x.wire \in Seq(Frame(top))
    /\ x.held \in 0..top
    /\ x.pc \notin Served => x.wire = <<>>

PageFields == {"ws", "listening", "retrying", "known", "last"}

Types ==
    /\ happened \in Seq(Services)
    /\ emitted \in 0..Len(happened)
    /\ seq \in 0..emitted
    /\ clients \subseteq Conns
    /\ fanning \subseteq clients
    /\ overflow \in clients \cup {NoOne}
    /\ stopping \in BOOLEAN
    /\ conn = [c \in Conns |-> conn[c]]
    /\ \A c \in Conns : IsConn(conn[c], seq)
    /\ page = [f \in PageFields |-> page[f]]
    /\ page.ws \in Conns \cup {NoOne}
    /\ page.listening \in BOOLEAN
    /\ page.listening = FALSE => page.ws = NoOne
    /\ page.last \in 0..seq

\* The client table, and the events that are offered under its lock.
Table ==
    /\ stopping = TRUE => fanning = {} /\ overflow = NoOne
    /\ stopping = FALSE => \A c \in clients : conn[c].pc \in Registered
    /\ \A c \in Conns : conn[c].pc \in Registered => c \in clients
    /\ fanning # {} \/ overflow # NoOne => seq \in 1..emitted
    /\ overflow \notin fanning

\* The last event that was offered to connection c, and taken or skipped.
Offered(c) == IF c \in fanning \/ c = overflow THEN seq - 1 ELSE seq

\* The events that concern the page.
Wants == Concerning(Len(happened))

\* What the page shows, and what is on its way to it.
Pipeline ==
    /\ \A m \in Wants : m <= page.last => m \in page.known
    /\ \A c \in Conns : page.ws = c /\ conn[c].pc \in Served =>
          Flow(Wants, page.known, conn[c], Offered(c))

RelayInv == Types /\ Table /\ Pipeline

-----------------------------------------------------------------------------
(***************************************************************************)
(* The pipeline of a connection, step by step.                             *)
(***************************************************************************)

LEMMA FramesAreNumbered ==
  ASSUME NEW top \in Nat, NEW x, IsConn(x, top)
  PROVE  /\ x.wire \in Seq(Frame(top))
         /\ \A i \in 1..Len(x.wire) : x.wire[i] \in Frame(top) /\ x.wire[i].seq \in 0..top
<1>1. x.wire \in Seq(Frame(top))
  BY DEF IsConn
<1>2. \A i \in 1..Len(x.wire) : x.wire[i] \in Frame(top)
  BY <1>1
<1>3. \A f \in Frame(top) : f.seq \in 0..top
  BY DEF Frame
<1> QED
  BY <1>1, <1>2, <1>3

\* Events yet to be emitted concern no frame.
LEMMA MoreHappens ==
  ASSUME NEW top \in Nat, NEW x, IsConn(x, top), NEW C \in SUBSET Nat, NEW D \in SUBSET Nat,
         \A m \in D : m \in C \/ m > top, NEW off \in Int, off <= top, NEW k, Flow(C, k, x, off)
  PROVE  Flow(D, k, x, off)
<1>1. \A i \in 1..Len(x.wire) : x.wire[i].seq \in 0..top
  BY FramesAreNumbered
<1>2. x.held \in 0..top /\ \A i \in 1..Len(x.queue) : x.queue[i] \in 1..top
  BY DEF IsConn
<1>3. WireOk(D, k, x.wire)
  BY <1>1 DEF Flow, WireOk
<1>4. ASSUME QueueOk(C, k, x, off) PROVE QueueOk(D, k, x, off)
  BY <1>2, <1>4 DEF QueueOk
<1> QED
  BY <1>3, <1>4 DEF Flow

\* An event that does not concern the page is skipped.
LEMMA SkipFlows ==
  ASSUME NEW n \in Nat, NEW C \in SUBSET Nat, n \notin C, NEW k, NEW x, Flow(C, k, x, n - 1)
  PROVE  Flow(C, k, x, n)
<1>1. \A m \in C : m <= n => m <= n - 1
  OBVIOUS
<1> QED
  BY <1>1 DEF Flow, QueueOk

\* An event joins the queue.
LEMMA EnqueueFlows ==
  ASSUME NEW n \in Nat, NEW C \in SUBSET Nat, NEW k, NEW x, NEW y, x.queue \in Seq(Nat),
         y.pc = x.pc, y.dropped = x.dropped, y.wire = x.wire, y.held = x.held,
         y.queue = Append(x.queue, n), Flow(C, k, x, n - 1)
  PROVE  Flow(C, k, y, n)
<1>1. WireOk(C, k, y.wire) /\ (Sure(y) <=> Sure(x))
  BY DEF Flow, Sure
<1>2. ASSUME QueueOk(C, k, x, n - 1) PROVE QueueOk(C, k, y, n)
  <2> DEFINE q == x.queue
             l == Len(x.queue)
  <2>1. /\ l \in Nat /\ Len(y.queue) = l + 1 /\ y.queue[l + 1] = n
        /\ \A i \in 1..l : y.queue[i] = q[i]
    OBVIOUS
  <2>2. \A i \in 0..l, m \in Nat : Ahead(k, x, i, m) => Ahead(k, y, i, m)
    BY <2>1 DEF Ahead
  <2>3. \A m \in C : Ahead(k, x, l, m) \/ m = n => Ahead(k, y, l + 1, m)
    BY <2>1 DEF Ahead
  <2>4. \A m \in C : m <= n - 1 => Ahead(k, x, l, m)
    BY <1>2 DEF QueueOk
  <2>5. \A m \in C : m <= n => Ahead(k, y, l + 1, m)
    BY <2>3, <2>4
  <2>6. \A i \in 1..l : \A m \in C : m < y.queue[i] => Ahead(k, y, i - 1, m)
    BY <1>2, <2>1, <2>2 DEF QueueOk
  <2>7. \A m \in C : m < n => Ahead(k, y, l, m)
    BY <2>1, <2>2, <2>4
  <2>8. \A i \in 1..(l + 1) : \A m \in C : m < y.queue[i] => Ahead(k, y, i - 1, m)
    <3> SUFFICES ASSUME NEW i \in 1..(l + 1), NEW m \in C, m < y.queue[i] PROVE Ahead(k, y, i - 1, m)
      OBVIOUS
    <3>1. CASE i \in 1..l
      BY <2>6, <3>1
    <3>2. CASE i = l + 1
      <4>1. i - 1 = l
        BY <2>1, <3>2
      <4> QED
        BY <2>1, <2>7, <3>2, <4>1
    <3> QED
      BY <2>1, <3>1, <3>2
  <2>9. y.pc = "sending" => \A m \in C : m < y.held => Told(k, y.wire, Len(y.wire), m)
    BY <1>2 DEF QueueOk
  <2> QED
    BY <2>1, <2>5, <2>8, <2>9 DEF QueueOk
<1> QED
  BY <1>1, <1>2 DEF Flow

\* The flag is set: a frame that loads everything goes before the next event.
LEMMA FlagFlows ==
  ASSUME NEW C, NEW k, NEW x, NEW y, y.wire = x.wire, y.dropped = TRUE, NEW off, NEW o,
         Flow(C, k, x, off)
  PROVE  Flow(C, k, y, o)
  BY DEF Flow, Sure

\* The page knows everything that concerns it.
LEMMA AllKnownFlows ==
  ASSUME NEW C, NEW k, C \subseteq k, NEW x, NEW off
  PROVE  Flow(C, k, x, off)
  BY DEF Flow, WireOk, QueueOk, Told, Ahead

\* The task takes the first event of the queue.
LEMMA PopFlows ==
  ASSUME NEW C \in SUBSET Nat, NEW k, NEW x, NEW y, NEW off, x.queue \in Seq(Nat), x.queue # <<>>,
         x.pc = "serving", y.pc = "sending", y.dropped = x.dropped, y.wire = x.wire,
         y.held = Head(x.queue), y.queue = Tail(x.queue), Flow(C, k, x, off)
  PROVE  Flow(C, k, y, off)
<1>1. WireOk(C, k, y.wire) /\ (Sure(y) <=> Sure(x))
  BY DEF Flow, Sure
<1>2. ASSUME QueueOk(C, k, x, off) PROVE QueueOk(C, k, y, off)
  <2> DEFINE q == x.queue
             l == Len(x.queue)
  <2>1. /\ l \in Nat /\ l >= 1 /\ Len(y.queue) = l - 1 /\ y.held = q[1]
        /\ \A i \in 1..(l - 1) : y.queue[i] = q[i + 1]
    OBVIOUS
  <2>2. \A m \in C : m < y.held => Told(k, y.wire, Len(y.wire), m)
    <3> SUFFICES ASSUME NEW m \in C, m < y.held PROVE Told(k, y.wire, Len(y.wire), m)
      OBVIOUS
    <3>1. 1 \in 1..l /\ m < q[1]
      BY <2>1
    <3>2. Ahead(k, x, 1 - 1, m)
      BY <1>2, <3>1 DEF QueueOk
    <3> QED
      BY <3>2 DEF Ahead
  <2>3. \A i \in 1..l, m \in Nat : Ahead(k, x, i, m) => Ahead(k, y, i - 1, m)
    <3> SUFFICES ASSUME NEW i \in 1..l, NEW m \in Nat, Ahead(k, x, i, m) PROVE Ahead(k, y, i - 1, m)
      OBVIOUS
    <3>1. CASE Told(k, x.wire, Len(x.wire), m)
      BY <3>1 DEF Ahead
    <3>2. CASE \E j \in 1..i : q[j] = m
      <4>1. PICK j \in 1..i : q[j] = m
        BY <3>2
      <4>2. CASE j = 1
        BY <2>1, <4>1, <4>2 DEF Ahead
      <4>3. CASE j # 1
        <5>1. j - 1 \in 1..(i - 1) /\ j - 1 \in 1..(l - 1) /\ y.queue[j - 1] = q[(j - 1) + 1]
          BY <2>1, <4>1, <4>3
        <5>2. y.queue[j - 1] = m
          BY <4>1, <5>1
        <5> QED
          BY <5>1, <5>2 DEF Ahead
      <4> QED
        BY <4>2, <4>3
    <3> QED
      BY <3>1, <3>2 DEF Ahead
  <2>4. \A i \in 1..(l - 1) : \A m \in C : m < y.queue[i] => Ahead(k, y, i - 1, m)
    <3> SUFFICES ASSUME NEW i \in 1..(l - 1), NEW m \in C, m < y.queue[i] PROVE Ahead(k, y, i - 1, m)
      OBVIOUS
    <3>1. i + 1 \in 1..l /\ m < q[i + 1] /\ (i + 1) - 1 = i /\ i \in 1..l
      BY <2>1
    <3>2. Ahead(k, x, (i + 1) - 1, m)
      BY <1>2, <3>1 DEF QueueOk
    <3> QED
      BY <2>3, <3>1, <3>2
  <2>5. \A m \in C : m <= off => Ahead(k, y, l - 1, m)
    BY <1>2, <2>1, <2>3 DEF QueueOk
  <2> QED
    BY <2>1, <2>2, <2>4, <2>5 DEF QueueOk
<1> QED
  BY <1>1, <1>2 DEF Flow

\* What the frames of w say of an event, and that they load everything, is also said by a
\* longer wire.
LEMMA LongerWire ==
  ASSUME NEW S, NEW w \in Seq(S), NEW v \in Seq(S), Len(w) <= Len(v),
         \A i \in 1..Len(w) : v[i] = w[i], NEW k
  PROVE  /\ \A n \in 0..Len(w) : Reload(v, n) <=> Reload(w, n)
         /\ \A n \in 0..Len(w), m \in Nat : Told(k, v, n, m) <=> Told(k, w, n, m)
         /\ Reload(w, Len(w)) => Reload(v, Len(v))
         /\ \A m \in Nat : Told(k, w, Len(w), m) => Told(k, v, Len(v), m)
<1>1. Len(w) \in Nat /\ Len(v) \in Nat /\ 1..Len(w) \subseteq 1..Len(v)
  OBVIOUS
<1>2. \A n \in 0..Len(w) : 1..n \subseteq 1..Len(w)
  BY <1>1
<1>3. \A n \in 0..Len(w) : Reload(v, n) <=> Reload(w, n)
  BY <1>2 DEF Reload
<1>4. \A n \in 0..Len(w), m \in Nat : Told(k, v, n, m) <=> Told(k, w, n, m)
  BY <1>2 DEF Told
<1>5. Reload(w, Len(w)) => Reload(v, Len(v))
  BY <1>1 DEF Reload
<1>6. \A m \in Nat : Told(k, w, Len(w), m) => Told(k, v, Len(v), m)
  BY <1>1 DEF Told
<1> QED
  BY <1>3, <1>4, <1>5, <1>6

\* A frame that is no event is written.
LEMMA NoticeFlows ==
  ASSUME NEW S, NEW C \in SUBSET Nat, NEW k, NEW w \in Seq(S), NEW f \in S, f.type # "event",
         WireOk(C, k, w)
  PROVE  WireOk(C, k, Append(w, f))
<1> DEFINE v == Append(w, f)
<1>1. /\ v \in Seq(S) /\ Len(v) = Len(w) + 1 /\ Len(w) \in Nat /\ v[Len(v)].type # "event"
      /\ \A i \in 1..Len(w) : v[i] = w[i]
  OBVIOUS
<1> HIDE DEF v
<1>2. /\ \A n \in 0..Len(w) : Reload(v, n) <=> Reload(w, n)
      /\ \A n \in 0..Len(w), m \in Nat : Told(k, v, n, m) <=> Told(k, w, n, m)
  <2>1. Len(w) <= Len(v)
    BY <1>1
  <2> QED
    BY ONLY <1>1, <2>1, LongerWire, w \in Seq(S)
<1>3. WireOk(C, k, v)
  <2> SUFFICES ASSUME NEW i \in 1..Len(v), v[i].type = "event"
               PROVE  Reload(v, i - 1) \/ \A m \in C : m < v[i].seq => Told(k, v, i - 1, m)
    BY DEF WireOk
  <2>1. i \in 1..Len(w) /\ i - 1 \in 0..Len(w) /\ v[i] = w[i]
    BY <1>1
  <2>2. Reload(w, i - 1) \/ \A m \in C : m < w[i].seq => Told(k, w, i - 1, m)
    BY <2>1 DEF WireOk
  <2> QED
    BY <1>2, <2>1, <2>2
<1> QED
  BY <1>3 DEF v

\* An event is written when what went before it is.
LEMMA EventFlows ==
  ASSUME NEW S, NEW C \in SUBSET Nat, NEW k, NEW w \in Seq(S), NEW f \in S, f.type = "event",
         WireOk(C, k, w), Reload(w, Len(w)) \/ \A m \in C : m < f.seq => Told(k, w, Len(w), m)
  PROVE  WireOk(C, k, Append(w, f))
<1> DEFINE v == Append(w, f)
<1>1. /\ v \in Seq(S) /\ Len(v) = Len(w) + 1 /\ Len(w) \in Nat /\ v[Len(v)] = f
      /\ \A i \in 1..Len(w) : v[i] = w[i]
  OBVIOUS
<1> HIDE DEF v
<1>2. /\ \A n \in 0..Len(w) : Reload(v, n) <=> Reload(w, n)
      /\ \A n \in 0..Len(w), m \in Nat : Told(k, v, n, m) <=> Told(k, w, n, m)
  <2>1. Len(w) <= Len(v)
    BY <1>1
  <2> QED
    BY ONLY <1>1, <2>1, LongerWire, w \in Seq(S)
<1>3. WireOk(C, k, v)
  <2> SUFFICES ASSUME NEW i \in 1..Len(v), v[i].type = "event"
               PROVE  Reload(v, i - 1) \/ \A m \in C : m < v[i].seq => Told(k, v, i - 1, m)
    BY DEF WireOk
  <2>1. i - 1 \in 0..Len(w)
    BY <1>1
  <2>2. CASE i \in 1..Len(w)
    <3>1. Reload(w, i - 1) \/ \A m \in C : m < w[i].seq => Told(k, w, i - 1, m)
      BY <1>1, <2>2 DEF WireOk
    <3> QED
      BY <1>1, <1>2, <2>1, <2>2, <3>1
  <2>3. CASE i = Len(v)
    <3>1. i - 1 = Len(w) /\ v[i] = f
      BY <1>1, <2>3
    <3> QED
      BY <1>2, <2>1, <3>1
  <2> QED
    BY <1>1, <2>2, <2>3
<1> QED
  BY <1>3 DEF v

\* The task writes the event it holds, and the frame that loads everything before it when the
\* flag is set.
LEMMA SendFlows ==
  ASSUME NEW top \in Nat, NEW C \in SUBSET Nat, NEW k, NEW x, IsConn(x, top), NEW y, NEW off,
         x.pc = "sending", y.pc = "serving", y.dropped = FALSE, y.queue = x.queue,
         NEW resync \in Frame(top), resync.type = "resync",
         NEW event \in Frame(top), event.type = "event", event.seq = x.held,
         y.wire = IF x.dropped = TRUE THEN Append(Append(x.wire, resync), event)
                  ELSE Append(x.wire, event),
         Flow(C, k, x, off)
  PROVE  Flow(C, k, y, off)
<1> DEFINE S == Frame(top)
           w == x.wire
<1>1. w \in Seq(S) /\ WireOk(C, k, w) /\ resync \in S /\ event \in S /\ resync.type # "event"
  BY FramesAreNumbered DEF Flow
<1>2. CASE x.dropped = TRUE
  <2> DEFINE u == Append(w, resync)
  <2>1. u \in Seq(S) /\ Len(u) \in Nat \ {0} /\ u[Len(u)] = resync
    BY <1>1
  <2>2. WireOk(C, k, u)
    BY <1>1, NoticeFlows
  <2> HIDE DEF u
  <2>3. Reload(u, Len(u))
    BY <2>1 DEF Reload
  <2> DEFINE v == Append(u, event)
  <2>4. v \in Seq(S) /\ Len(u) <= Len(v) /\ \A i \in 1..Len(u) : v[i] = u[i]
    BY <1>1, <2>1
  <2>5. WireOk(C, k, v)
    BY <1>1, <2>1, <2>2, <2>3, EventFlows
  <2> HIDE DEF v
  <2>6. Reload(v, Len(v))
    BY <2>1, <2>3, <2>4, LongerWire
  <2>7. y.wire = v
    BY <1>2 DEF u, v
  <2> QED
    BY <2>5, <2>6, <2>7 DEF Flow, Sure
<1>3. CASE x.dropped # TRUE
  <2> DEFINE v == Append(w, event)
  <2>1. /\ v \in Seq(S) /\ Len(w) \in Nat /\ Len(v) = Len(w) + 1 /\ v[Len(v)] = event
        /\ \A i \in 1..Len(w) : v[i] = w[i]
    BY <1>1
  <2>2. y.wire = v
    BY <1>3
  <2> HIDE DEF v
  <2>3. Reload(w, Len(w)) \/ QueueOk(C, k, x, off)
    BY <1>3 DEF Flow, Sure
  <2>4. WireOk(C, k, v)
    BY <1>1, <2>3, EventFlows DEF v, QueueOk
  <2>5. /\ Reload(w, Len(w)) => Reload(v, Len(v))
        /\ \A m \in Nat : Told(k, w, Len(w), m) => Told(k, v, Len(v), m)
    <3> HIDE DEF w
    <3>1. Len(w) <= Len(v)
      BY <2>1
    <3> QED
      BY ONLY <1>1, <2>1, <3>1, LongerWire
  <2>6. Told(k, v, Len(v), x.held)
    BY <2>1 DEF Told
  <2>7. \A n \in Nat, m \in Nat : Ahead(k, x, n, m) => Ahead(k, y, n, m)
    BY <2>2, <2>5, <2>6 DEF Ahead
  <2>8. ASSUME QueueOk(C, k, x, off) PROVE QueueOk(C, k, y, off)
    <3>1. Len(x.queue) \in Nat /\ \A i \in 1..Len(x.queue) : i - 1 \in Nat
      BY DEF IsConn
    <3>2. y.pc # "sending"
      OBVIOUS
    <3>3. \A i \in 1..Len(y.queue) : \A m \in C : m < y.queue[i] => Ahead(k, y, i - 1, m)
      BY <2>7, <2>8, <3>1 DEF QueueOk
    <3>4. \A m \in C : m <= off => Ahead(k, y, Len(y.queue), m)
      BY <2>7, <2>8, <3>1 DEF QueueOk
    <3> QED
      BY <3>2, <3>3, <3>4 DEF QueueOk
  <2> QED
    BY <2>2, <2>3, <2>4, <2>5, <2>8 DEF Flow, Sure
<1> QED
  BY <1>2, <1>3

\* The keepalive is written to an empty wire.
LEMMA PingFlows ==
  ASSUME NEW C, NEW k, NEW x, NEW y, NEW off, x.wire = <<>>, NEW ping, ping.type = "ping",
         y.wire = <<ping>>, y.pc = x.pc, y.dropped = x.dropped, y.held = x.held, y.queue = x.queue,
         Flow(C, k, x, off)
  PROVE  Flow(C, k, y, off)
<1>1. Len(x.wire) = 0 /\ Len(y.wire) = 1 /\ y.wire[1] = ping
  OBVIOUS
<1>2. WireOk(C, k, y.wire)
  BY <1>1 DEF WireOk
<1>3. ~Reload(x.wire, 0)
  BY DEF Reload
<1>4. \A m : Told(k, x.wire, 0, m) => Told(k, y.wire, 1, m)
  BY DEF Told
<1>5. \A n, m : Ahead(k, x, n, m) => Ahead(k, y, n, m)
  BY <1>1, <1>4 DEF Ahead
<1>6. QueueOk(C, k, x, off) => QueueOk(C, k, y, off)
  BY <1>1, <1>4, <1>5 DEF QueueOk
<1> QED
  BY <1>1, <1>2, <1>3, <1>6 DEF Flow, Sure

\* The page receives a frame that does not load everything.
LEMMA ReceiveFlows ==
  ASSUME NEW top \in Nat, NEW C \in SUBSET Nat, NEW k, NEW x, IsConn(x, top), NEW y, NEW off,
         x.wire # <<>>, y.wire = Tail(x.wire), y.pc = x.pc, y.dropped = x.dropped, y.held = x.held,
         y.queue = x.queue, Head(x.wire).type \notin {"hello", "resync"}, NEW l, k \subseteq l,
         Head(x.wire).type = "event" => Head(x.wire).seq \in l,
         Flow(C, k, x, off)
  PROVE  Flow(C, l, y, off)
<1> DEFINE w == x.wire
           v == y.wire
<1>1. /\ w \in Seq(Frame(top)) /\ Len(w) \in Nat \ {0} /\ Len(v) = Len(w) - 1
      /\ \A i \in 1..Len(v) : v[i] = w[i + 1]
      /\ Head(w) = w[1]
  BY FramesAreNumbered
<1> HIDE DEF w, v
<1>2. \A n \in 1..Len(w) : Reload(w, n) => Reload(v, n - 1)
  <2> SUFFICES ASSUME NEW n \in 1..Len(w), Reload(w, n) PROVE Reload(v, n - 1)
    OBVIOUS
  <2>1. PICK j \in 1..n : w[j].type \in {"hello", "resync"}
    BY DEF Reload
  <2>2. j # 1
    BY <1>1, <2>1 DEF w
  <2>3. j - 1 \in 1..(n - 1) /\ j - 1 \in 1..Len(v) /\ (j - 1) + 1 = j
    BY <1>1, <2>2
  <2>4. v[j - 1].type \in {"hello", "resync"}
    BY <1>1, <2>1, <2>3
  <2> QED
    BY <2>3, <2>4 DEF Reload
<1>3. \A n \in 1..Len(w), m \in Nat : Told(k, w, n, m) => Told(l, v, n - 1, m)
  <2> SUFFICES ASSUME NEW n \in 1..Len(w), NEW m \in Nat, Told(k, w, n, m) PROVE Told(l, v, n - 1, m)
    OBVIOUS
  <2>1. CASE m \in k
    BY <2>1 DEF Told
  <2>2. CASE \E j \in 1..n : w[j].type = "event" /\ w[j].seq = m
    <3>1. PICK j \in 1..n : w[j].type = "event" /\ w[j].seq = m
      BY <2>2
    <3>2. CASE j = 1
      BY <1>1, <3>1, <3>2 DEF Told, w
    <3>3. CASE j # 1
      <4>1. j - 1 \in 1..(n - 1) /\ j - 1 \in 1..Len(v) /\ (j - 1) + 1 = j
        BY <1>1, <3>3
      <4>2. v[j - 1].type = "event" /\ v[j - 1].seq = m
        BY <1>1, <3>1, <4>1
      <4> QED
        BY <4>1, <4>2 DEF Told
    <3> QED
      BY <3>2, <3>3
  <2> QED
    BY <2>1, <2>2 DEF Told
<1>4. WireOk(C, l, v)
  <2> SUFFICES ASSUME NEW i \in 1..Len(v), v[i].type = "event"
               PROVE  Reload(v, i - 1) \/ \A m \in C : m < v[i].seq => Told(l, v, i - 1, m)
    BY DEF WireOk
  <2>1. i + 1 \in 1..Len(w) /\ i \in 1..Len(w) /\ (i + 1) - 1 = i /\ v[i] = w[i + 1]
    BY <1>1
  <2>2. Reload(w, (i + 1) - 1) \/ \A m \in C : m < w[i + 1].seq => Told(k, w, (i + 1) - 1, m)
    BY <2>1 DEF Flow, WireOk, w
  <2> QED
    BY <1>2, <1>3, <2>1, <2>2
<1>5. Len(w) \in 1..Len(w) /\ Len(w) - 1 = Len(v)
  BY <1>1
<1>6. Sure(x) => Sure(y)
  BY <1>2, <1>5 DEF Sure, w, v
<1>7. \A m \in Nat : Told(k, w, Len(w), m) => Told(l, v, Len(v), m)
  BY <1>3, <1>5
<1>8. \A n, m : m \in Nat /\ Ahead(k, x, n, m) => Ahead(l, y, n, m)
  BY <1>7 DEF Ahead, w, v
<1>9. QueueOk(C, k, x, off) => QueueOk(C, l, y, off)
  BY <1>7, <1>8 DEF QueueOk, w, v
<1> QED
  BY <1>4, <1>6, <1>9 DEF Flow, v

-----------------------------------------------------------------------------
(***************************************************************************)
(* A client's task.                                                        *)
(***************************************************************************)

LEMMA MakeConn ==
  ASSUME NEW top, NEW y, y = [f \in ConnFields |-> y[f]], y.pc \in Served, y.queue \in Seq(1..top),
         Len(y.queue) <= QueueSize, y.dropped \in BOOLEAN, y.wire \in Seq(Frame(top)),
         y.held \in 0..top
  PROVE  IsConn(y, top)
<1>1. y.pc \in Registered
  BY DEF Registered, Served
<1> QED
  BY <1>1 DEF IsConn

LEMMA Taken ==
  ASSUME NEW S, NEW q \in Seq(S), q # <<>>
  PROVE  /\ Head(q) \in S /\ Tail(q) \in Seq(S)
         /\ Len(Tail(q)) \in Nat /\ Len(Tail(q)) <= Len(q)
  OBVIOUS

LEMMA Joined ==
  ASSUME NEW S, NEW w \in Seq(S), NEW a \in S, NEW b \in S
  PROVE  /\ w \o (<<>> \o <<b>>) = Append(w, b)
         /\ w \o (<<a>> \o <<b>>) = Append(Append(w, a), b)
  OBVIOUS

\* No connection but c changes.
Only(c) ==
    /\ conn' = [d \in Conns |-> conn'[d]]
    /\ \A d \in Conns : d # c => conn'[d] = conn[d]

Elsewhere == UNCHANGED <<happened, emitted, seq, fanning, overflow, clients, page, stopping>>

LEMMA TaskStep ==
  ASSUME RelayInv, NEW c \in Conns, Elsewhere, Only(c), IsConn(conn'[c], seq),
         conn[c].pc \in Registered, conn'[c].pc \in Registered,
         page.ws = c /\ conn'[c].pc \in Served => Flow(Wants, page.known, conn'[c], Offered(c))
  PROVE  RelayInv'
<1>1. /\ happened' = happened /\ emitted' = emitted /\ seq' = seq /\ fanning' = fanning
      /\ overflow' = overflow /\ clients' = clients /\ page' = page /\ stopping' = stopping
  BY DEF Elsewhere
<1>2. Wants' = Wants
  BY <1>1 DEF Wants, Concerning, Wanted
<1>3. \A d \in Conns : Offered(d)' = Offered(d)
  BY <1>1 DEF Offered
<1>4. Types'
  BY <1>1 DEF RelayInv, Types, Only
<1>5. Table'
  BY <1>1 DEF RelayInv, Types, Table, Only
<1>6. \A d \in Conns : page.ws = d /\ conn'[d].pc \in Served =>
         Flow(Wants, page.known, conn'[d], Offered(d))
  BY DEF RelayInv, Pipeline, Only
<1>7. Pipeline'
  BY <1>1, <1>2, <1>3, <1>6 DEF RelayInv, Pipeline
<1> QED
  BY <1>4, <1>5, <1>7 DEF RelayInv

\* What is known of a connection that changes in some of its fields.
LEMMA ConnFacts ==
  ASSUME RelayInv, NEW c \in Conns
  PROVE  /\ IsConn(conn[c], seq) /\ seq \in Nat
         /\ conn[c].queue \in Seq(1..seq) /\ conn[c].queue \in Seq(Nat)
         /\ conn[c].wire \in Seq(Frame(seq))
         /\ conn[c] = [f \in ConnFields |-> conn[c][f]]
         /\ page.ws = c /\ conn[c].pc \in Served =>
               Flow(Wants, page.known, conn[c], Offered(c))
         /\ Wants \in SUBSET Nat
         /\ DOMAIN conn = Conns
<1>1. IsConn(conn[c], seq) /\ seq \in Nat /\ DOMAIN conn = Conns
  BY DEF RelayInv, Types
<1>2. conn[c].queue \in Seq(1..seq)
  BY <1>1 DEF IsConn
<1>3. conn[c].queue \in Seq(Nat)
  BY <1>1, <1>2
<1>4. Wants \in SUBSET Nat
  BY DEF Wants, Concerning
<1> QED
  BY <1>1, <1>2, <1>3, <1>4 DEF RelayInv, Pipeline, IsConn

LEMMA SendHelloKeeps ==
  ASSUME RelayInv, NEW c \in Conns, SendHello(c)
  PROVE  RelayInv'
<1> DEFINE x == conn[c]
           y == conn'[c]
           hello == [type |-> "hello", seq |-> seq]
<1>1. IsConn(x, seq) /\ seq \in Nat /\ x = [f \in ConnFields |-> x[f]] /\ DOMAIN conn = Conns
  BY ConnFacts
<1>2. x.pc = "hello" /\ x.wire = <<>> /\ Elsewhere
  BY <1>1 DEF SendHello, Elsewhere, IsConn, Served
<1>3. conn' = [conn EXCEPT ![c] = [[x EXCEPT !.pc = "serving"] EXCEPT !.wire = Append(x.wire, hello)]]
  BY <1>1 DEF SendHello, ConnFields
<1>4. Only(c) /\ y = [[x EXCEPT !.pc = "serving"] EXCEPT !.wire = Append(x.wire, hello)]
  BY <1>1, <1>3 DEF Only
<1>5. Append(x.wire, hello) = <<hello>>
  BY <1>2
<1>6. /\ y = [f \in ConnFields |-> y[f]] /\ y.pc = "serving" /\ y.queue = x.queue
      /\ y.dropped = x.dropped /\ y.wire = <<hello>> /\ y.held = x.held
  BY <1>1, <1>4, <1>5 DEF ConnFields
<1> HIDE DEF x, y
<1>7. <<hello>> \in Seq(Frame(seq))
  <2>1. hello \in Frame(seq)
    BY <1>1 DEF Frame
  <2> QED
    BY <2>1
<1>8. IsConn(y, seq)
  BY <1>1, <1>6, <1>7 DEF IsConn, Registered, Served
<1>9. Reload(y.wire, Len(y.wire)) /\ WireOk(Wants, page.known, y.wire)
  <2>1. hello.type = "hello"
    OBVIOUS
  <2> HIDE DEF hello
  <2>2. Len(y.wire) = 1 /\ y.wire[1] = hello
    BY <1>6
  <2> QED
    BY <2>1, <2>2 DEF Reload, WireOk
<1>10. Flow(Wants, page.known, y, Offered(c))
  BY <1>9 DEF Flow, Sure
<1>11. x.pc \in Registered /\ y.pc \in Registered
  BY <1>2, <1>6 DEF Registered
<1> QED
  BY <1>2, <1>4, <1>8, <1>10, <1>11, TaskStep DEF x, y

LEMMA PopKeeps ==
  ASSUME EventRelayAssumption, RelayInv, NEW c \in Conns, Pop(c)
  PROVE  RelayInv'
<1> DEFINE x == conn[c]
           y == conn'[c]
<1>1. /\ IsConn(x, seq) /\ seq \in Nat /\ x = [f \in ConnFields |-> x[f]] /\ DOMAIN conn = Conns
      /\ x.queue \in Seq(1..seq) /\ x.queue \in Seq(Nat) /\ Wants \in SUBSET Nat
      /\ page.ws = c /\ x.pc \in Served => Flow(Wants, page.known, x, Offered(c))
  BY ConnFacts
<1>2. x.pc = "serving" /\ x.queue # <<>> /\ Elsewhere
  BY DEF Pop, Elsewhere
<1>3. conn' = [conn EXCEPT ![c] = [[[x EXCEPT !.pc = "sending"] EXCEPT !.held = Head(x.queue)]
                                      EXCEPT !.queue = Tail(x.queue)]]
  BY <1>1 DEF Pop, ConnFields
<1>4. Only(c) /\ y = [[[x EXCEPT !.pc = "sending"] EXCEPT !.held = Head(x.queue)]
                         EXCEPT !.queue = Tail(x.queue)]
  BY <1>1, <1>3 DEF Only
<1>5. /\ y = [f \in ConnFields |-> y[f]] /\ y.pc = "sending" /\ y.queue = Tail(x.queue)
      /\ y.dropped = x.dropped /\ y.wire = x.wire /\ y.held = Head(x.queue)
  BY <1>1, <1>4 DEF ConnFields
<1> HIDE DEF x, y
<1>6. /\ Head(x.queue) \in 1..seq /\ Tail(x.queue) \in Seq(1..seq)
      /\ Len(Tail(x.queue)) \in Nat /\ Len(Tail(x.queue)) <= Len(x.queue)
  BY <1>1, <1>2, Taken
<1>7. IsConn(y, seq)
  <2>1. Len(Tail(x.queue)) <= QueueSize
    BY <1>1, <1>6 DEF IsConn, EventRelayAssumption
  <2>2. Head(x.queue) \in 0..seq
    BY <1>1, <1>6
  <2>3. x.dropped \in BOOLEAN /\ x.wire \in Seq(Frame(seq))
    BY <1>1 DEF IsConn
  <2>4. y.pc \in Served
    BY <1>5 DEF Served
  <2> QED
    BY <1>5, <1>6, <2>1, <2>2, <2>3, <2>4, MakeConn
<1>8. page.ws = c => Flow(Wants, page.known, y, Offered(c))
  BY <1>1, <1>2, <1>5, PopFlows DEF Served
<1>9. x.pc \in Registered /\ y.pc \in Registered
  BY <1>2, <1>5 DEF Registered
<1> QED
  BY <1>2, <1>4, <1>7, <1>8, <1>9, TaskStep DEF x, y

LEMMA SendKeeps ==
  ASSUME RelayInv, NEW c \in Conns, Send(c)
  PROVE  RelayInv'
<1> DEFINE x == conn[c]
           y == conn'[c]
           resync == [type |-> "resync", seq |-> x.held]
           event == [type |-> "event", seq |-> x.held]
           sent == IF x.dropped = TRUE THEN Append(Append(x.wire, resync), event)
                   ELSE Append(x.wire, event)
<1>1. /\ IsConn(x, seq) /\ seq \in Nat /\ x = [f \in ConnFields |-> x[f]] /\ DOMAIN conn = Conns
      /\ x.wire \in Seq(Frame(seq)) /\ Wants \in SUBSET Nat
      /\ page.ws = c /\ x.pc \in Served => Flow(Wants, page.known, x, Offered(c))
      /\ x.held \in 0..seq /\ x.dropped \in BOOLEAN
  BY ConnFacts DEF IsConn
<1>2. x.pc = "sending" /\ Elsewhere
  BY DEF Send, Elsewhere
<1>3. resync \in Frame(seq) /\ event \in Frame(seq)
  BY <1>1 DEF Frame
<1>4. x.wire \o Frames(c) = sent /\ sent \in Seq(Frame(seq))
  <2>1. Frames(c) = (IF x.dropped THEN <<resync>> ELSE <<>>) \o <<event>>
    BY DEF Frames
  <2> HIDE DEF x, resync, event
  <2>2. x.wire \o (<<>> \o <<event>>) = Append(x.wire, event)
    BY <1>1, <1>3, Joined
  <2>3. x.wire \o (<<resync>> \o <<event>>) = Append(Append(x.wire, resync), event)
    BY <1>1, <1>3, Joined
  <2>4. sent \in Seq(Frame(seq))
    BY <1>1, <1>3
  <2> QED
    BY <1>1, <2>1, <2>2, <2>3, <2>4
<1>5. conn' = [conn EXCEPT ![c] = [[[[x EXCEPT !.pc = "serving"] EXCEPT !.dropped = FALSE]
                                      EXCEPT !.held = 0] EXCEPT !.wire = x.wire \o Frames(c)]]
  BY <1>1 DEF Send, ConnFields
<1>6. Only(c) /\ y = [[[[x EXCEPT !.pc = "serving"] EXCEPT !.dropped = FALSE]
                         EXCEPT !.held = 0] EXCEPT !.wire = x.wire \o Frames(c)]
  BY <1>1, <1>5 DEF Only
<1>7. /\ y = [f \in ConnFields |-> y[f]] /\ y.pc = "serving" /\ y.queue = x.queue
      /\ y.dropped = FALSE /\ y.wire = x.wire \o Frames(c) /\ y.held = 0
  BY <1>1, <1>6 DEF ConnFields
<1>8. resync.type = "resync" /\ event.type = "event" /\ event.seq = x.held
  OBVIOUS
<1> HIDE DEF x, y, resync, event
<1>9. y.wire = sent
  BY <1>4, <1>7
<1>10. IsConn(y, seq)
  <2>1. y.wire \in Seq(Frame(seq))
    BY <1>4, <1>9
  <2>2. x.queue \in Seq(1..seq) /\ Len(x.queue) <= QueueSize
    BY <1>1 DEF IsConn
  <2>3. y.pc \in Served /\ y.held \in 0..seq
    BY <1>1, <1>7 DEF Served
  <2>4. y.dropped \in BOOLEAN
    BY <1>7
  <2> QED
    BY <1>7, <2>1, <2>2, <2>3, <2>4, MakeConn
<1>11. page.ws = c => Flow(Wants, page.known, y, Offered(c))
  BY <1>1, <1>2, <1>3, <1>7, <1>8, <1>9, SendFlows DEF Served
<1>12. x.pc \in Registered /\ y.pc \in Registered
  BY <1>2, <1>7 DEF Registered
<1> QED
  BY <1>2, <1>6, <1>10, <1>11, <1>12, TaskStep DEF x, y

LEMMA PingKeeps ==
  ASSUME RelayInv, NEW c \in Conns, Ping(c)
  PROVE  RelayInv'
<1> DEFINE x == conn[c]
           y == conn'[c]
           ping == [type |-> "ping", seq |-> seq]
<1>1. /\ IsConn(x, seq) /\ seq \in Nat /\ x = [f \in ConnFields |-> x[f]] /\ DOMAIN conn = Conns
      /\ page.ws = c /\ x.pc \in Served => Flow(Wants, page.known, x, Offered(c))
  BY ConnFacts
<1>2. x.pc = "serving" /\ x.wire = <<>> /\ Elsewhere
  BY DEF Ping, Elsewhere
<1>3. conn' = [conn EXCEPT ![c] = [x EXCEPT !.wire = <<ping>>]]
  BY <1>1 DEF Ping
<1>4. Only(c) /\ y = [x EXCEPT !.wire = <<ping>>]
  BY <1>1, <1>3 DEF Only
<1>5. /\ y = [f \in ConnFields |-> y[f]] /\ y.pc = x.pc /\ y.queue = x.queue
      /\ y.dropped = x.dropped /\ y.wire = <<ping>> /\ y.held = x.held
  BY <1>1, <1>4 DEF ConnFields
<1>6. ping \in Frame(seq) /\ ping.type = "ping"
  BY <1>1 DEF Frame
<1> HIDE DEF x, y, ping
<1>7. <<ping>> \in Seq(Frame(seq))
  BY <1>6
<1>8. IsConn(y, seq)
  BY <1>1, <1>2, <1>5, <1>7 DEF IsConn, Registered, Served
<1>9. page.ws = c => Flow(Wants, page.known, y, Offered(c))
  BY <1>1, <1>2, <1>5, <1>6, PingFlows DEF Served
<1>10. x.pc \in Registered /\ y.pc \in Registered
  BY <1>2, <1>5 DEF Registered
<1> QED
  BY <1>2, <1>4, <1>8, <1>9, <1>10, TaskStep DEF x, y

\* The flag is set on the connection whose queue refused the event.
LEMMA SetDroppedKeeps ==
  ASSUME EventRelayAssumption, RelayInv, SetDropped
  PROVE  RelayInv'
<1>1. PICK c \in Conns : c = overflow /\ c \in clients /\ c \notin fanning
  BY DEF SetDropped, RelayInv, Types, Table
<1> DEFINE x == conn[c]
           y == conn'[c]
<1>2. /\ IsConn(x, seq) /\ x = [f \in ConnFields |-> x[f]] /\ DOMAIN conn = Conns
      /\ page.ws = c /\ x.pc \in Served => Flow(Wants, page.known, x, Offered(c))
  BY <1>1, ConnFacts
<1>3. /\ UNCHANGED <<happened, emitted, seq, fanning, clients, page, stopping>>
      /\ overflow' = NoOne
      /\ conn' = [conn EXCEPT ![c] = [x EXCEPT !.dropped = TRUE]]
  BY <1>1 DEF SetDropped, Flagged
<1>4. Only(c) /\ y = [x EXCEPT !.dropped = TRUE]
  BY <1>1, <1>2, <1>3 DEF Only
<1>5. /\ y = [f \in ConnFields |-> y[f]] /\ y.pc = x.pc /\ y.queue = x.queue
      /\ y.dropped = TRUE /\ y.wire = x.wire /\ y.held = x.held
  BY <1>2, <1>4 DEF ConnFields
<1> HIDE DEF x, y
<1>6. IsConn(y, seq)
  <2>1. y.dropped \in BOOLEAN
    BY <1>5
  <2> QED
    BY <1>2, <1>5, <2>1 DEF IsConn
<1>7. page.ws = c /\ y.pc \in Served => Flow(Wants, page.known, y, Offered(c)')
  BY <1>2, <1>5, FlagFlows
<1>8. Wants' = Wants
  BY <1>3 DEF Wants, Concerning, Wanted
<1>9. \A d \in Conns : d # c => Offered(d)' = Offered(d) /\ conn'[d] = conn[d]
  <2>1. NoOne \notin Conns
    BY DEF EventRelayAssumption
  <2> QED
    BY <1>1, <1>3, <1>4, <2>1 DEF Offered, Only
<1>10. \A d \in Conns : conn'[d].pc = conn[d].pc /\ IsConn(conn'[d], seq)
  BY <1>5, <1>6, <1>9 DEF RelayInv, Types, x, y
<1>11. Types'
  BY <1>3, <1>4, <1>10 DEF RelayInv, Types, Only
<1>12. Table'
  <2>1. NoOne \notin fanning
    BY DEF EventRelayAssumption, RelayInv, Types
  <2> QED
    BY <1>1, <1>3, <1>10, <2>1 DEF RelayInv, Types, Table
<1>13. Pipeline'
  <2>1. \A d \in Conns : page.ws = d /\ conn'[d].pc \in Served =>
           Flow(Wants, page.known, conn'[d], Offered(d)')
    BY <1>7, <1>9 DEF RelayInv, Pipeline, y
  <2> QED
    BY <1>3, <1>8, <2>1 DEF RelayInv, Pipeline
<1> QED
  BY <1>11, <1>12, <1>13 DEF RelayInv

\* The relay offers the event to a client: skipped, queued or refused.
LEMMA EnqueueKeeps ==
  ASSUME EventRelayAssumption, RelayInv, NEW c \in Conns, Enqueue(c)
  PROVE  RelayInv'
<1> DEFINE x == conn[c]
           y == conn'[c]
<1>1. /\ c \in fanning /\ overflow = NoOne /\ fanning' = fanning \ {c}
      /\ UNCHANGED <<happened, emitted, seq, clients, page, stopping>>
  BY DEF Enqueue
<1>2. /\ IsConn(x, seq) /\ x = [f \in ConnFields |-> x[f]] /\ DOMAIN conn = Conns
      /\ page.ws = c /\ x.pc \in Served => Flow(Wants, page.known, x, Offered(c))
      /\ x.queue \in Seq(1..seq) /\ x.queue \in Seq(Nat) /\ Wants \in SUBSET Nat
  BY ConnFacts
<1>3. NoOne \notin Conns /\ QueueSize \in Nat
  BY DEF EventRelayAssumption
<1>4. /\ seq \in 1..emitted /\ seq \in Nat /\ seq <= Len(happened) /\ stopping = FALSE
      /\ c \in clients /\ x.pc \in Registered /\ emitted <= Len(happened)
  BY <1>1 DEF RelayInv, Types, Table
<1>5. Offered(c) = seq - 1
  BY <1>1 DEF Offered
<1>6. Wants' = Wants
  BY <1>1 DEF Wants, Concerning, Wanted
<1>7. seq \in Wants <=> Wanted(happened[seq])
  BY <1>4 DEF Wants, Concerning
<1>8. /\ Only(c) /\ IsConn(y, seq) /\ y.pc = x.pc
      /\ overflow' \in {c, NoOne}
      /\ page.ws = c /\ y.pc \in Served => Flow(Wants, page.known, y, Offered(c)')
  <2>1. CASE ~Wanted(happened[seq]) /\ UNCHANGED <<conn, overflow>>
    <3>1. Offered(c)' = seq
      BY <1>1, <1>3, <2>1 DEF Offered
    <3>2. page.ws = c /\ x.pc \in Served => Flow(Wants, page.known, x, seq)
      BY <1>2, <1>4, <1>5, <1>7, <2>1, SkipFlows
    <3>3. Only(c) /\ y = x
      BY <2>1 DEF Only, RelayInv, Types
    <3> QED
      BY <1>1, <1>2, <2>1, <3>1, <3>2, <3>3
  <2>2. CASE /\ Wanted(happened[seq]) /\ ~Full(c) /\ UNCHANGED overflow
             /\ conn' = [conn EXCEPT ![c].queue = Append(@, seq)]
    <3>1. Offered(c)' = seq
      BY <1>1, <1>3, <2>2 DEF Offered
    <3>2. Only(c) /\ y = [x EXCEPT !.queue = Append(x.queue, seq)]
      BY <1>2, <2>2 DEF Only
    <3>3. /\ y = [f \in ConnFields |-> y[f]] /\ y.pc = x.pc /\ y.queue = Append(x.queue, seq)
          /\ y.dropped = x.dropped /\ y.wire = x.wire /\ y.held = x.held
      BY <1>2, <3>2 DEF ConnFields
    <3>4. Len(x.queue) < QueueSize
      BY <1>2, <1>3, <2>2 DEF Full
    <3> HIDE DEF x, y
    <3>5. Append(x.queue, seq) \in Seq(1..seq) /\ Len(Append(x.queue, seq)) <= QueueSize
      BY <1>2, <1>3, <1>4, <3>4
    <3>6. IsConn(y, seq)
      BY <1>2, <3>3, <3>5 DEF IsConn
    <3>7. page.ws = c /\ y.pc \in Served => Flow(Wants, page.known, y, seq)
      BY <1>2, <1>4, <1>5, <3>3, EnqueueFlows
    <3> QED
      BY <1>1, <2>2, <3>1, <3>2, <3>3, <3>6, <3>7
  <2>3. CASE overflow' = c /\ UNCHANGED conn
    <3>1. Offered(c)' = seq - 1
      BY <1>1, <2>3 DEF Offered
    <3>2. Only(c) /\ y = x
      BY <2>3 DEF Only, RelayInv, Types
    <3> QED
      BY <1>2, <1>5, <2>3, <3>1, <3>2
  <2> QED
    BY <2>1, <2>2, <2>3 DEF Enqueue
<1> HIDE DEF x, y
<1>9. \A d \in Conns : d # c => Offered(d)' = Offered(d) /\ conn'[d] = conn[d]
  BY <1>1, <1>3, <1>8 DEF Offered, Only
<1>10. \A d \in Conns : conn'[d].pc = conn[d].pc /\ IsConn(conn'[d], seq)
  BY <1>8, <1>9 DEF RelayInv, Types, x, y
<1>11. Types'
  BY <1>1, <1>4, <1>8, <1>10 DEF RelayInv, Types, Only
<1>12. Table'
  <2>1. overflow' \notin fanning'
    BY <1>1, <1>3, <1>8 DEF RelayInv, Types
  <2> QED
    BY <1>1, <1>4, <1>10, <2>1 DEF RelayInv, Types, Table
<1>13. Pipeline'
  <2>1. \A d \in Conns : page.ws = d /\ conn'[d].pc \in Served =>
           Flow(Wants, page.known, conn'[d], Offered(d)')
    BY <1>8, <1>9 DEF RelayInv, Pipeline, y
  <2> QED
    BY <1>1, <1>6, <2>1 DEF RelayInv, Pipeline
<1> QED
  BY <1>11, <1>12, <1>13 DEF RelayInv

-----------------------------------------------------------------------------
(***************************************************************************)
(* The services and the relay's reader.                                    *)
(***************************************************************************)

LEMMA ChangeKeeps ==
  ASSUME RelayInv, NEW service \in Services, Change(service)
  PROVE  RelayInv'
<1>1. /\ UNCHANGED <<emitted, seq, fanning, overflow, clients, conn, page, stopping>>
      /\ happened' = Append(happened, service)
  BY DEF Change
<1>2. /\ happened \in Seq(Services) /\ Len(happened) \in Nat
      /\ emitted \in 0..Len(happened) /\ seq \in 0..emitted
  BY DEF RelayInv, Types
<1>3. /\ happened' \in Seq(Services) /\ Len(happened') = Len(happened) + 1
      /\ \A m \in 1..Len(happened) : happened'[m] = happened[m]
  BY <1>1, <1>2
<1>4. Types'
  <2>1. emitted' \in 0..Len(happened')
    BY <1>1, <1>2, <1>3
  <2> QED
    BY <1>1, <1>3, <2>1 DEF RelayInv, Types
<1>5. Table'
  BY <1>1 DEF RelayInv, Table
<1>6. seq \in Nat /\ seq <= Len(happened)
  BY <1>2
<1>7. \A m \in Wants' : m \in Wants \/ m > seq
  BY <1>3, <1>2 DEF Wants, Concerning, Wanted
<1>8. Wants \in SUBSET Nat /\ Wants' \in SUBSET Nat
  BY DEF Wants, Concerning
<1>9. \A d \in Conns : Offered(d)' = Offered(d) /\ Offered(d) \in Int /\ Offered(d) <= seq
  BY <1>1, <1>6 DEF Offered
<1>10. ASSUME NEW d \in Conns, page.ws = d, conn[d].pc \in Served
       PROVE  Flow(Wants', page.known, conn[d], Offered(d))
  <2>1. IsConn(conn[d], seq) /\ Flow(Wants, page.known, conn[d], Offered(d))
    BY <1>10 DEF RelayInv, Types, Pipeline
  <2> QED
    BY <1>6, <1>7, <1>8, <1>9, <2>1, MoreHappens
<1>11. \A m \in Wants' : m <= page.last => m \in page.known
  <2>1. page.last \in 0..seq
    BY DEF RelayInv, Types
  <2>2. \A m \in Wants' : m <= page.last => m \in Wants
    BY <1>6, <1>7, <1>8, <2>1
  <2> QED
    BY <2>2 DEF RelayInv, Pipeline
<1>12. Pipeline'
  BY <1>1, <1>9, <1>10, <1>11 DEF Pipeline
<1> QED
  BY <1>4, <1>5, <1>12 DEF RelayInv

LEMMA EmitKeeps ==
  ASSUME RelayInv, Emit
  PROVE  RelayInv'
<1>1. /\ UNCHANGED <<happened, seq, fanning, overflow, clients, conn, page, stopping>>
      /\ emitted' = emitted + 1 /\ emitted < Len(happened)
  BY DEF Emit
<1>2. Len(happened) \in Nat /\ emitted \in 0..Len(happened) /\ seq \in 0..emitted
  BY DEF RelayInv, Types
<1>3. emitted' \in 0..Len(happened) /\ seq \in 0..emitted' /\ 1..emitted \subseteq 1..emitted'
  BY <1>1, <1>2
<1>4. Types' /\ Table'
  BY <1>1, <1>3 DEF RelayInv, Types, Table
<1>5. Wants' = Wants /\ \A d \in Conns : Offered(d)' = Offered(d)
  BY <1>1 DEF Wants, Concerning, Wanted, Offered
<1>6. Pipeline'
  BY <1>1, <1>5 DEF RelayInv, Pipeline
<1> QED
  BY <1>4, <1>6 DEF RelayInv

LEMMA ConnGrows ==
  ASSUME NEW top \in Nat, NEW x, IsConn(x, top)
  PROVE  IsConn(x, top + 1)
<1>1. Frame(top) \subseteq Frame(top + 1) /\ 1..top \subseteq 1..(top + 1) /\ 0..top \subseteq 0..(top + 1)
  BY DEF Frame
<1>2. x.wire \in Seq(Frame(top + 1))
  <2>1. x.wire \in Seq(Frame(top))
    BY DEF IsConn
  <2> QED
    BY <1>1, <2>1
<1>3. x.queue \in Seq(1..(top + 1))
  <2>1. x.queue \in Seq(1..top)
    BY DEF IsConn
  <2> QED
    BY <1>1, <2>1
<1> QED
  BY <1>1, <1>2, <1>3 DEF IsConn

LEMMA ReceiveKeeps ==
  ASSUME EventRelayAssumption, RelayInv, Receive
  PROVE  RelayInv'
<1>1. /\ UNCHANGED <<happened, emitted, overflow, clients, conn, page, stopping>>
      /\ fanning = {} /\ overflow = NoOne /\ seq < emitted /\ seq' = seq + 1 /\ fanning' = clients
      /\ ~stopping
  BY DEF Receive
<1>2. Len(happened) \in Nat /\ emitted \in 0..Len(happened) /\ seq \in 0..emitted /\ seq \in Nat
  BY DEF RelayInv, Types
<1>3. seq' \in 1..emitted /\ seq' \in 0..emitted /\ 0..seq \subseteq 0..seq'
  BY <1>1, <1>2
<1>4. \A d \in Conns : IsConn(conn[d], seq')
  BY <1>1, <1>2, ConnGrows DEF RelayInv, Types
<1>5. Types'
  BY <1>1, <1>3, <1>4 DEF RelayInv, Types
<1>6. NoOne \notin clients
  BY DEF EventRelayAssumption, RelayInv, Types
<1>7. Table'
  BY <1>1, <1>3, <1>6 DEF RelayInv, Types, Table
<1>8. Wants' = Wants
  BY <1>1 DEF Wants, Concerning, Wanted
<1>9. \A d \in Conns : conn[d].pc \in Served => Offered(d)' = Offered(d)
  <2> SUFFICES ASSUME NEW d \in Conns, conn[d].pc \in Served PROVE Offered(d)' = Offered(d)
    OBVIOUS
  <2>1. d \in clients /\ d # NoOne
    BY DEF RelayInv, Table, Served, Registered, EventRelayAssumption
  <2>2. Offered(d)' = seq' - 1 /\ Offered(d) = seq
    BY <1>1, <2>1 DEF Offered
  <2> QED
    BY <1>1, <1>2, <2>2
<1>10. Pipeline'
  BY <1>1, <1>8, <1>9 DEF RelayInv, Pipeline
<1> QED
  BY <1>5, <1>7, <1>10 DEF RelayInv

-----------------------------------------------------------------------------
(***************************************************************************)
(* Connections that come and go.                                           *)
(***************************************************************************)

LEMMA ClosedIsConn ==
  ASSUME EventRelayAssumption, NEW top \in Nat
  PROVE  IsConn(Closed, top) /\ Closed.pc = "closed"
<1>1. /\ Closed = [f \in ConnFields |-> Closed[f]] /\ Closed.pc = "closed" /\ Closed.queue = <<>>
      /\ Closed.dropped = FALSE /\ Closed.wire = <<>> /\ Closed.held = 0
  BY DEF Closed, ConnFields
<1>2. <<>> \in Seq(1..top) /\ <<>> \in Seq(Frame(top)) /\ Len(<<>>) <= QueueSize
  BY DEF EventRelayAssumption
<1>3. Closed.dropped \in BOOLEAN
  BY <1>1
<1>4. Closed.pc \in Registered \cup {"unused", "connecting", "closed"} /\ Closed.held \in 0..top
  BY <1>1
<1> HIDE DEF Closed
<1>5. Closed.queue \in Seq(1..top) /\ Closed.wire \in Seq(Frame(top)) /\ Len(Closed.queue) <= QueueSize
  BY <1>1, <1>2
<1> QED
  BY <1>1, <1>3, <1>4, <1>5 DEF IsConn

\* A connection c is registered, closed or taken out of the table while the table is free.
LEMMA TableStep ==
  ASSUME EventRelayAssumption, RelayInv, NEW c \in Conns, Only(c), IsConn(conn'[c], seq),
         UNCHANGED <<happened, emitted, seq, fanning, overflow, page, stopping>>,
         \/ clients' = clients /\ c \notin clients /\ conn'[c].pc \notin Registered
         \/ TableFree /\ clients' = clients \ {c} /\ conn'[c].pc \notin Registered
         \/ TableFree /\ clients' = clients \cup {c} /\ conn'[c].pc = "hello"
  PROVE  RelayInv'
<1>1. /\ happened' = happened /\ emitted' = emitted /\ seq' = seq /\ fanning' = fanning
      /\ overflow' = overflow /\ page' = page /\ stopping' = stopping
  OBVIOUS
<1>2. Wants' = Wants /\ \A d \in Conns : Offered(d)' = Offered(d)
  BY <1>1 DEF Wants, Concerning, Wanted, Offered
<1>3. /\ clients' \subseteq Conns /\ fanning \subseteq clients'
      /\ overflow \in clients' \cup {NoOne}
  BY DEF RelayInv, Types, TableFree
<1>4. Types'
  BY <1>1, <1>3 DEF RelayInv, Types, Only
<1>5. conn'[c].pc \notin Served
  BY DEF Served, Registered
<1>6. Table'
  <2>1. stopping = FALSE => \A d \in clients' : conn'[d].pc \in Registered
    BY <1>3 DEF RelayInv, Types, Table, Only, Registered
  <2>2. \A d \in Conns : conn'[d].pc \in Registered => d \in clients'
    BY DEF RelayInv, Table, Only
  <2> QED
    BY <1>1, <2>1, <2>2 DEF RelayInv, Table
<1>7. \A d \in Conns : page.ws = d /\ conn'[d].pc \in Served =>
         Flow(Wants, page.known, conn'[d], Offered(d))
  BY <1>5 DEF RelayInv, Pipeline, Only
<1>8. Pipeline'
  BY <1>1, <1>2, <1>7 DEF RelayInv, Pipeline
<1> QED
  BY <1>4, <1>6, <1>8 DEF RelayInv

LEMMA HandshakeKeeps ==
  ASSUME EventRelayAssumption, RelayInv, NEW c \in Conns, NEW accepted \in BOOLEAN,
         Handshake(c, accepted)
  PROVE  RelayInv'
<1> DEFINE x == conn[c]
           y == conn'[c]
<1>1. /\ IsConn(x, seq) /\ x = [f \in ConnFields |-> x[f]] /\ DOMAIN conn = Conns /\ seq \in Nat
  BY ConnFacts
<1>2. /\ x.pc = "connecting" /\ stopping = FALSE
      /\ UNCHANGED <<happened, emitted, seq, fanning, overflow, page, stopping>>
  BY DEF Handshake, RelayInv, Types
<1>3. x.wire = <<>> /\ x.pc \notin Registered
  BY <1>1, <1>2 DEF IsConn, Served, Registered
<1>4. c \notin clients
  BY <1>2, <1>3 DEF RelayInv, Table
<1>5. CASE /\ TableFree /\ clients' = clients \cup {c}
           /\ conn' = [conn EXCEPT ![c].pc = "hello"]
  <2>1. Only(c) /\ y = [x EXCEPT !.pc = "hello"]
    BY <1>1, <1>5 DEF Only
  <2>2. /\ y = [f \in ConnFields |-> y[f]] /\ y.pc = "hello" /\ y.queue = x.queue
        /\ y.dropped = x.dropped /\ y.wire = x.wire /\ y.held = x.held
    BY <1>1, <2>1 DEF ConnFields
  <2> HIDE DEF x, y
  <2>3. IsConn(y, seq)
    BY <1>1, <1>3, <2>2 DEF IsConn, Registered
  <2> QED
    BY <1>2, <1>5, <2>1, <2>2, <2>3, TableStep DEF y
<1>6. CASE conn' = [conn EXCEPT ![c] = Closed] /\ UNCHANGED clients
  <2>1. Only(c) /\ y = Closed
    BY <1>1, <1>6 DEF Only
  <2>2. IsConn(y, seq) /\ y.pc \notin Registered
    BY <1>1, <2>1, ClosedIsConn DEF Registered
  <2> QED
    BY <1>2, <1>4, <1>6, <2>1, <2>2, TableStep
<1> QED
  BY <1>5, <1>6 DEF Handshake

LEMMA BreakKeeps ==
  ASSUME EventRelayAssumption, RelayInv, NEW c \in Conns, Break(c)
  PROVE  RelayInv'
<1>1. /\ UNCHANGED <<happened, emitted, seq, fanning, overflow, page, stopping>>
      /\ TableFree /\ clients' = clients \ {c} /\ conn' = [conn EXCEPT ![c] = Closed]
  BY DEF Break, Removed
<1>2. DOMAIN conn = Conns /\ seq \in Nat
  BY ConnFacts
<1>3. Only(c) /\ conn'[c] = Closed
  BY <1>1, <1>2 DEF Only
<1>4. IsConn(conn'[c], seq) /\ conn'[c].pc \notin Registered
  BY <1>2, <1>3, ClosedIsConn DEF Registered
<1> QED
  BY <1>1, <1>3, <1>4, TableStep

LEMMA StopKeeps ==
  ASSUME EventRelayAssumption, RelayInv, Stop
  PROVE  RelayInv'
<1>1. /\ UNCHANGED <<happened, emitted, seq, fanning, overflow, clients, page>>
      /\ stopping' = TRUE /\ fanning = {} /\ overflow = NoOne
      /\ conn' = [c \in Conns |-> IF conn[c].pc = "unused" THEN conn[c] ELSE Closed]
  BY DEF Stop, TableFree
<1>2. seq \in Nat /\ \A d \in Conns : IsConn(conn[d], seq)
  BY DEF RelayInv, Types
<1>3. \A d \in Conns : IsConn(conn'[d], seq) /\ conn'[d].pc \in {"unused", "closed"}
  BY <1>1, <1>2, ClosedIsConn
<1>4. Types'
  <2>1. conn' = [d \in Conns |-> conn'[d]] /\ stopping' \in BOOLEAN
    BY <1>1
  <2> QED
    BY <1>1, <1>3, <2>1 DEF RelayInv, Types
<1>5. \A d \in Conns : conn'[d].pc \notin Registered /\ conn'[d].pc \notin Served
  BY <1>3 DEF Registered, Served
<1>6. Table'
  BY <1>1, <1>5 DEF RelayInv, Table
<1>7. Wants' = Wants
  BY <1>1 DEF Wants, Concerning, Wanted
<1>8. Pipeline'
  BY <1>1, <1>5, <1>7 DEF RelayInv, Pipeline
<1> QED
  BY <1>4, <1>6, <1>8 DEF RelayInv

-----------------------------------------------------------------------------
(***************************************************************************)
(* The page.                                                               *)
(***************************************************************************)

\* The page changes, but not its connection, or has none any more.
LEMMA PageStep ==
  ASSUME EventRelayAssumption, RelayInv,
         UNCHANGED <<happened, emitted, seq, fanning, overflow, clients, conn, stopping>>,
         page' = [f \in PageFields |-> page'[f]],
         page'.ws = NoOne, page'.listening \in BOOLEAN, page'.last \in 0..seq,
         \A m \in Wants : m <= page'.last => m \in page'.known
  PROVE  RelayInv'
<1>1. /\ happened' = happened /\ emitted' = emitted /\ seq' = seq /\ fanning' = fanning
      /\ overflow' = overflow /\ clients' = clients /\ conn' = conn /\ stopping' = stopping
  OBVIOUS
<1>2. Types' /\ Table'
  BY <1>1 DEF RelayInv, Types, Table
<1>3. Wants' = Wants
  BY <1>1 DEF Wants, Concerning, Wanted
<1>4. NoOne \notin Conns
  BY DEF EventRelayAssumption
<1>5. Pipeline'
  BY <1>1, <1>3, <1>4 DEF Pipeline
<1> QED
  BY <1>2, <1>5 DEF RelayInv

LEMMA SubscribeKeeps ==
  ASSUME EventRelayAssumption, RelayInv, Subscribe
  PROVE  RelayInv'
<1>1. page = [f \in PageFields |-> page[f]] /\ page.ws = NoOne /\ seq \in Nat
  BY DEF Subscribe, RelayInv, Types
<1>2. page' = [[[page EXCEPT !.listening = TRUE] EXCEPT !.known = {}] EXCEPT !.last = 0]
  BY DEF Subscribe
<1>3. /\ page' = [f \in PageFields |-> page'[f]] /\ page'.ws = NoOne /\ page'.listening = TRUE
      /\ page'.last = 0
  BY <1>1, <1>2 DEF PageFields
<1>4. page'.listening \in BOOLEAN
  BY <1>3
<1>5. page'.last \in 0..seq /\ \A m \in Wants : m <= page'.last => m \in page'.known
  BY <1>1, <1>3 DEF Wants, Concerning
<1> QED
  BY <1>3, <1>4, <1>5, PageStep DEF Subscribe

LEMMA LeaveKeeps ==
  ASSUME EventRelayAssumption, RelayInv, Unsubscribe \/ \E c \in Conns : OnClose(c)
  PROVE  RelayInv'
<1>1. /\ page = [f \in PageFields |-> page[f]] /\ page.last \in 0..seq /\ page.listening \in BOOLEAN
      /\ \A m \in Wants : m <= page.last => m \in page.known
  BY DEF RelayInv, Types, Pipeline
<1>2. UNCHANGED <<happened, emitted, seq, fanning, overflow, clients, conn, stopping>>
  BY DEF Unsubscribe, OnClose
<1>3. /\ page' = [f \in PageFields |-> page'[f]] /\ page'.ws = NoOne
      /\ page'.last = page.last /\ page'.known = page.known
      /\ page'.listening = FALSE \/ page'.listening = page.listening
  <2>1. CASE Unsubscribe
    BY <1>1, <2>1 DEF Unsubscribe, PageFields
  <2>2. CASE \E c \in Conns : OnClose(c)
    BY <1>1, <2>2 DEF OnClose, PageFields
  <2> QED
    BY <2>1, <2>2
<1>4. page'.listening \in BOOLEAN
  BY <1>1, <1>3
<1> QED
  BY <1>1, <1>2, <1>3, <1>4, PageStep

LEMMA RetryKeeps ==
  ASSUME RelayInv, Retry
  PROVE  RelayInv'
<1>1. page = [f \in PageFields |-> page[f]]
  BY DEF RelayInv, Types
<1>2. /\ happened' = happened /\ emitted' = emitted /\ seq' = seq /\ fanning' = fanning
      /\ overflow' = overflow /\ clients' = clients /\ conn' = conn /\ stopping' = stopping
  BY DEF Retry
<1>3. /\ page' = [f \in PageFields |-> page'[f]] /\ page'.ws = page.ws
      /\ page'.listening = page.listening /\ page'.last = page.last /\ page'.known = page.known
  BY <1>1 DEF Retry, PageFields
<1>4. Types' /\ Table'
  BY <1>2, <1>3 DEF RelayInv, Types, Table
<1>5. Wants' = Wants /\ \A d \in Conns : Offered(d)' = Offered(d)
  BY <1>2 DEF Wants, Concerning, Wanted, Offered
<1>6. Pipeline'
  BY <1>2, <1>3, <1>5 DEF RelayInv, Pipeline
<1> QED
  BY <1>4, <1>6 DEF RelayInv

LEMMA OpenKeeps ==
  ASSUME EventRelayAssumption, RelayInv, NEW c \in Conns, Open(c)
  PROVE  RelayInv'
<1> DEFINE x == conn[c]
           y == conn'[c]
<1>1. /\ IsConn(x, seq) /\ x = [f \in ConnFields |-> x[f]] /\ DOMAIN conn = Conns
      /\ page = [f \in PageFields |-> page[f]]
  BY ConnFacts DEF RelayInv, Types
<1>2. /\ happened' = happened /\ emitted' = emitted /\ seq' = seq /\ fanning' = fanning
      /\ overflow' = overflow /\ clients' = clients /\ stopping' = stopping
      /\ x.pc = "unused" /\ conn' = [conn EXCEPT ![c].pc = "connecting"]
      /\ page' = [page EXCEPT !.ws = c] /\ page.listening /\ page.ws = NoOne
  BY DEF Open
<1>3. Only(c) /\ y = [x EXCEPT !.pc = "connecting"]
  BY <1>1, <1>2 DEF Only
<1>4. /\ y = [f \in ConnFields |-> y[f]] /\ y.pc = "connecting" /\ y.queue = x.queue
      /\ y.dropped = x.dropped /\ y.wire = x.wire /\ y.held = x.held
  BY <1>1, <1>3 DEF ConnFields
<1>5. /\ page' = [f \in PageFields |-> page'[f]] /\ page'.ws = c
      /\ page'.listening = page.listening /\ page'.last = page.last /\ page'.known = page.known
  BY <1>1, <1>2 DEF PageFields
<1> HIDE DEF x, y
<1>6. x.wire = <<>>
  BY <1>1, <1>2 DEF IsConn, Served
<1>7. IsConn(y, seq) /\ y.pc \notin Registered /\ y.pc \notin Served
  BY <1>1, <1>4, <1>6 DEF IsConn, Registered, Served
<1>8. /\ \A d \in Conns : IsConn(conn'[d], seq)
      /\ \A d \in Conns : conn'[d].pc \in Registered => conn[d].pc \in Registered
      /\ \A d \in Conns : conn'[d].pc \in Registered \/ conn[d].pc \notin Registered
  BY <1>2, <1>3, <1>7 DEF RelayInv, Types, Only, x, y, Registered
<1>9. page'.listening = TRUE
  BY <1>2, <1>5 DEF RelayInv, Types
<1>10. Types'
  BY <1>2, <1>3, <1>5, <1>8, <1>9 DEF RelayInv, Types, Only
<1>11. Table'
  BY <1>2, <1>8 DEF RelayInv, Types, Table
<1>12. Wants' = Wants
  BY <1>2 DEF Wants, Concerning, Wanted
<1>13. Pipeline'
  BY <1>5, <1>7, <1>12 DEF RelayInv, Pipeline, y
<1> QED
  BY <1>10, <1>11, <1>13 DEF RelayInv

LEMMA OnMessageKeeps ==
  ASSUME EventRelayAssumption, RelayInv, NEW c \in Conns, OnMessage(c)
  PROVE  RelayInv'
<1> DEFINE x == conn[c]
           y == conn'[c]
           frame == Head(conn[c].wire)
<1>1. /\ IsConn(x, seq) /\ seq \in Nat /\ x = [f \in ConnFields |-> x[f]] /\ DOMAIN conn = Conns
      /\ x.wire \in Seq(Frame(seq)) /\ Wants \in SUBSET Nat
      /\ page.ws = c /\ x.pc \in Served => Flow(Wants, page.known, x, Offered(c))
  BY ConnFacts
<1>2. /\ happened' = happened /\ emitted' = emitted /\ seq' = seq /\ fanning' = fanning
      /\ overflow' = overflow /\ clients' = clients /\ stopping' = stopping
      /\ page.ws = c /\ x.wire # <<>> /\ page' = Applied(frame)
      /\ conn' = [conn EXCEPT ![c].wire = Tail(x.wire)]
  BY DEF OnMessage
<1>3. Only(c) /\ y = [x EXCEPT !.wire = Tail(x.wire)]
  BY <1>1, <1>2 DEF Only
<1>4. /\ y = [f \in ConnFields |-> y[f]] /\ y.pc = x.pc /\ y.queue = x.queue
      /\ y.dropped = x.dropped /\ y.wire = Tail(x.wire) /\ y.held = x.held
  BY <1>1, <1>3 DEF ConnFields
<1> HIDE DEF y
<1>5. x.pc \in Served /\ Flow(Wants, page.known, x, Offered(c))
  BY <1>1, <1>2 DEF IsConn
<1>6. frame \in Frame(seq) /\ Tail(x.wire) \in Seq(Frame(seq))
  <2> HIDE DEF x
  <2>1. Head(x.wire) \in Frame(seq) /\ Tail(x.wire) \in Seq(Frame(seq))
    BY <1>1, <1>2, Taken
  <2> QED
    BY <2>1 DEF x
<1>7. frame.seq \in 0..seq
  BY <1>6 DEF Frame
<1>8. IsConn(y, seq)
  <2>1. /\ x.queue \in Seq(1..seq) /\ Len(x.queue) <= QueueSize /\ x.dropped \in BOOLEAN
        /\ x.held \in 0..seq
    BY <1>1 DEF IsConn
  <2> HIDE DEF x
  <2> QED
    BY <1>4, <1>5, <1>6, <2>1, MakeConn
<1>9. /\ page = [f \in PageFields |-> page[f]] /\ page.last \in 0..seq
      /\ page.listening \in BOOLEAN /\ page.listening = FALSE => page.ws = NoOne
      /\ \A m \in Wants : m <= page.last => m \in page.known
  BY DEF RelayInv, Types, Pipeline
<1>10. /\ page' = [f \in PageFields |-> page'[f]] /\ page'.ws = page.ws
       /\ page'.listening = page.listening
       /\ frame.type = "event" =>
             page'.known = page.known \cup {frame.seq} /\ page'.last = frame.seq
       /\ frame.type \in {"hello", "resync"} =>
             page'.known = 1..Len(happened) /\ page'.last = page.last
       /\ frame.type \notin {"event", "hello", "resync"} => page' = page
  <2> HIDE DEF frame
  <2>1. CASE frame.type = "event"
    <3>1. page' = [[page EXCEPT !.known = page.known \cup {frame.seq}] EXCEPT !.last = frame.seq]
      BY <1>2, <2>1 DEF Applied
    <3> QED
      BY <1>9, <2>1, <3>1 DEF PageFields
  <2>2. CASE frame.type \in {"hello", "resync"}
    <3>1. page' = [page EXCEPT !.known = 1..Len(happened)]
      BY <1>2, <2>2 DEF Applied
    <3> QED
      BY <1>9, <2>2, <3>1 DEF PageFields
  <2>3. CASE frame.type \notin {"event", "hello", "resync"}
    <3>1. page' = page
      BY <1>2, <2>3 DEF Applied
    <3> QED
      BY <1>9, <2>3, <3>1
  <2> QED
    BY <2>1, <2>2, <2>3
<1>11. Wants \subseteq 1..Len(happened)
  BY DEF Wants, Concerning
<1>12. /\ page'.last \in 0..seq /\ \A m \in Wants : m <= page'.last => m \in page'.known
       /\ Flow(Wants, page'.known, y, Offered(c))
  <2>1. CASE frame.type \in {"hello", "resync"}
    <3>1. Wants \subseteq page'.known /\ page'.last = page.last
      BY <1>10, <1>11, <2>1
    <3>2. Flow(Wants, page'.known, y, Offered(c))
      BY <3>1, AllKnownFlows
    <3> QED
      BY <1>9, <3>1, <3>2
  <2>2. CASE frame.type = "event"
    <3>1. page'.known = page.known \cup {frame.seq} /\ page'.last = frame.seq
      BY <1>10, <2>2
    <3>2. Flow(Wants, page'.known, y, Offered(c))
      <4>1. /\ page.known \subseteq page'.known /\ Head(x.wire).type \notin {"hello", "resync"}
            /\ Head(x.wire).seq \in page'.known
        BY <2>2, <3>1
      <4> HIDE DEF x
      <4> QED
        BY <1>1, <1>2, <1>4, <1>5, <4>1, ReceiveFlows
    <3>3. \A m \in Wants : m < frame.seq => m \in page.known
      <4>1. /\ 1 \in 1..Len(x.wire) /\ x.wire[1] = frame
        BY <1>1, <1>2
      <4>2. WireOk(Wants, page.known, x.wire)
        BY <1>5 DEF Flow
      <4> HIDE DEF x, frame
      <4>3. Reload(x.wire, 1 - 1) \/ \A m \in Wants : m < frame.seq => Told(page.known, x.wire, 1 - 1, m)
        BY <2>2, <4>1, <4>2 DEF WireOk
      <4> QED
        BY <4>3 DEF Reload, Told
    <3>4. \A m \in Wants : m <= frame.seq => m \in page'.known
      <4> DEFINE n == frame.seq
      <4>1. n \in Int /\ \A m \in Wants : m \in Int
        BY <1>1, <1>7
      <4> HIDE DEF n
      <4>2. \A m \in Wants : m <= n => m < n \/ m = n
        BY <4>1
      <4> QED
        BY <3>1, <3>3, <4>2 DEF n
    <3> QED
      BY <1>7, <3>1, <3>2, <3>4
  <2>3. CASE frame.type \notin {"event", "hello", "resync"}
    <3>1. page' = page
      BY <1>10, <2>3
    <3>2. Flow(Wants, page.known, y, Offered(c))
      <4>1. page.known \subseteq page.known /\ Head(x.wire).type \notin {"hello", "resync", "event"}
        BY <2>3
      <4> HIDE DEF x
      <4> QED
        BY <1>1, <1>2, <1>4, <1>5, <4>1, ReceiveFlows
    <3> QED
      BY <1>9, <3>1, <3>2
  <2> QED
    BY <2>1, <2>2, <2>3
<1>13. Wants' = Wants /\ \A d \in Conns : Offered(d)' = Offered(d)
  BY <1>2 DEF Wants, Concerning, Wanted, Offered
<1>14. \A d \in Conns : IsConn(conn'[d], seq) /\ conn'[d].pc = conn[d].pc
  BY <1>3, <1>4, <1>8 DEF RelayInv, Types, Only, x, y
<1>15. Types'
  BY <1>2, <1>3, <1>9, <1>10, <1>12, <1>14 DEF RelayInv, Types, Only
<1>16. Table'
  BY <1>2, <1>14 DEF RelayInv, Types, Table
<1>17. \A d \in Conns : page'.ws = d => Flow(Wants, page'.known, conn'[d], Offered(d))
  BY <1>2, <1>10, <1>12 DEF y
<1>18. Pipeline'
  BY <1>12, <1>13, <1>17 DEF Pipeline
<1> QED
  BY <1>15, <1>16, <1>18 DEF RelayInv

-----------------------------------------------------------------------------
(***************************************************************************)
(* The theorems.                                                           *)
(***************************************************************************)

LEMMA Initially == EventRelayAssumption /\ RelayInit => RelayInv
<1> SUFFICES ASSUME EventRelayAssumption, RelayInit PROVE RelayInv
  OBVIOUS
<1>1. /\ happened = <<>> /\ emitted = 0 /\ seq = 0 /\ fanning = {} /\ overflow = NoOne
      /\ clients = {} /\ stopping = FALSE /\ NoOne \notin Conns
      /\ conn = [c \in Conns |-> [Closed EXCEPT !.pc = "unused"]]
  BY DEF RelayInit, EventRelayAssumption
<1>2. /\ page = [f \in PageFields |-> page[f]] /\ page.ws = NoOne /\ page.listening = FALSE
      /\ page.last = 0
  BY DEF RelayInit, PageFields
<1>3. Len(happened) = 0 /\ happened \in Seq(Services)
  BY <1>1
<1>4. \A c \in Conns : IsConn(conn[c], 0) /\ conn[c].pc = "unused"
  <2> DEFINE x == Closed
             y == [Closed EXCEPT !.pc = "unused"]
  <2>1. IsConn(x, 0)
    BY ClosedIsConn
  <2>2. /\ x.pc = "closed"
        /\ y = [f \in ConnFields |-> y[f]] /\ y.pc = "unused" /\ y.queue = x.queue
        /\ y.dropped = x.dropped /\ y.wire = x.wire /\ y.held = x.held
    BY DEF Closed, ConnFields
  <2>3. \A c \in Conns : conn[c] = y
    BY <1>1
  <2> HIDE DEF x, y
  <2>4. x.wire = <<>>
    BY <2>1, <2>2 DEF IsConn, Served
  <2>5. IsConn(y, 0)
    BY <2>1, <2>2, <2>4 DEF IsConn
  <2> QED
    BY <2>2, <2>3, <2>5
<1>5. Types
  <2>1. conn = [c \in Conns |-> conn[c]] /\ stopping \in BOOLEAN
    BY <1>1
  <2>2. page.listening \in BOOLEAN
    BY <1>2
  <2> QED
    BY <1>1, <1>2, <1>3, <1>4, <2>1, <2>2 DEF Types
<1>6. Table
  BY <1>1, <1>4 DEF Table, Registered
<1>7. Pipeline
  BY <1>2, <1>3, <1>4 DEF Pipeline, Wants, Concerning, Served
<1> QED
  BY <1>5, <1>6, <1>7 DEF RelayInv

LEMMA Preserved == EventRelayAssumption /\ RelayInv /\ [RelayNext]_relayVars => RelayInv'
<1> SUFFICES ASSUME EventRelayAssumption, RelayInv, [RelayNext]_relayVars PROVE RelayInv'
  OBVIOUS
<1>1. CASE UNCHANGED relayVars
  <2>1. Wants' = Wants /\ \A d \in Conns : Offered(d)' = Offered(d)
    BY <1>1 DEF relayVars, Wants, Concerning, Wanted, Offered
  <2>2. Pipeline'
    BY <1>1, <2>1 DEF relayVars, RelayInv, Pipeline
  <2>3. Types' /\ Table'
    BY <1>1 DEF relayVars, RelayInv, Types, Table
  <2> QED
    BY <2>2, <2>3 DEF RelayInv
<1>2. CASE \E service \in Services : Change(service)
  BY <1>2, ChangeKeeps
<1>3. CASE Emit \/ Receive \/ SetDropped \/ Stop
  BY <1>3, EmitKeeps, ReceiveKeeps, SetDroppedKeeps, StopKeeps
<1>4. CASE Subscribe \/ Retry \/ Unsubscribe
  BY <1>4, SubscribeKeeps, RetryKeeps, LeaveKeeps
<1>5. ASSUME NEW c \in Conns,
             \/ Enqueue(c) \/ SendHello(c) \/ Pop(c) \/ Send(c) \/ Ping(c) \/ Break(c)
             \/ Open(c) \/ OnMessage(c) \/ OnClose(c)
             \/ \E accepted \in BOOLEAN : Handshake(c, accepted)
      PROVE  RelayInv'
  BY <1>5, EnqueueKeeps, SendHelloKeeps, PopKeeps, SendKeeps, PingKeeps, BreakKeeps, OpenKeeps,
     OnMessageKeeps, LeaveKeeps, HandshakeKeeps
<1> QED
  BY <1>1, <1>2, <1>3, <1>4, <1>5 DEF RelayNext

\* Wherever an event is on its way to a page, whatever went before it is further ahead, or a
\* frame that makes the page load everything is, or the flag is set that puts one before the
\* next event (services/event-relay, lib.rs: Client::enqueue and serve_client; web/dashboard,
\* eventClient.ts: onmessage).
THEOREM RelayInvariant == EventRelayAssumption => (RelaySpec => []RelayInv)
<1> SUFFICES ASSUME EventRelayAssumption PROVE RelaySpec => []RelayInv
  OBVIOUS
<1>1. RelayInit => RelayInv
  BY Initially
<1>2. RelayInv /\ [RelayNext]_relayVars => RelayInv'
  BY Preserved
<1> QED
  BY <1>1, <1>2, PTL DEF RelaySpec

LEMMA KnownImplied == EventRelayAssumption /\ RelayInv => EventsKnown
<1> SUFFICES ASSUME EventRelayAssumption, RelayInv PROVE EventsKnown
  OBVIOUS
<1>1. /\ Len(happened) \in Nat /\ emitted \in 0..Len(happened) /\ seq \in 0..emitted
      /\ page.last \in 0..seq
  BY DEF RelayInv, Types
<1>2. \A m \in Concerning(page.last) : m \in Wants /\ m <= page.last
  BY <1>1 DEF Concerning, Wants
<1>3. \A m \in Concerning(seq) : m \in Wants /\ m <= seq
  BY <1>1 DEF Concerning, Wants
<1>4. KnownInOrder
  BY <1>2 DEF KnownInOrder, RelayInv, Pipeline
<1>5. NothingMissed
  <2> SUFFICES ASSUME NEW c \in Conns, page.ws = c, conn[c].pc = "serving", TableFree,
                      conn[c].queue = <<>>, conn[c].wire = <<>>, conn[c].dropped # TRUE
               PROVE  Concerning(seq) \subseteq page.known
    BY DEF NothingMissed
  <2> DEFINE x == conn[c]
  <2>1. Offered(c) = seq
    BY DEF TableFree, Offered, EventRelayAssumption
  <2>2. Flow(Wants, page.known, x, seq)
    BY <2>1 DEF RelayInv, Pipeline, Served
  <2>3. Len(x.wire) = 0 /\ Len(x.queue) = 0 /\ x.pc # "sending" /\ x.dropped # TRUE
    OBVIOUS
  <2> HIDE DEF x
  <2>4. \A m \in Wants : m <= seq => Ahead(page.known, x, 0, m)
    <3>1. ~Reload(x.wire, 0)
      BY DEF Reload
    <3>2. QueueOk(Wants, page.known, x, seq)
      BY <2>2, <2>3, <3>1 DEF Flow, Sure
    <3> QED
      BY <2>3, <3>2 DEF QueueOk
  <2>5. \A m \in Wants : m <= seq => m \in page.known
    BY <2>3, <2>4 DEF Ahead, Told
  <2> QED
    BY <1>3, <2>5
<1>6. TableExact
  BY DEF RelayInv, Types, Table, IsConn, Registered, TableExact
<1> QED
  BY <1>4, <1>5, <1>6 DEF EventsKnown

\* However many events there are, however small the queues, and however pages come, go and
\* are dropped for being slow: a page that shows an event knows everything that went before it,
\* a page with nothing left to receive has missed nothing unannounced, and no event is offered
\* to a connection that is gone (services/event-relay, lib.rs: Client::enqueue, serve_client;
\* services/dashboard, events.rs; web/dashboard, eventClient.ts: onmessage).
THEOREM EventsAreKnown == EventRelayAssumption => (RelaySpec => []EventsKnown)
<1> SUFFICES ASSUME EventRelayAssumption PROVE RelaySpec => []EventsKnown
  OBVIOUS
<1>1. RelaySpec => []RelayInv
  BY RelayInvariant
<1>2. RelayInv => EventsKnown
  BY KnownImplied
<1> QED
  BY <1>1, <1>2, PTL

=============================================================================
