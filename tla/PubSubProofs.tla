---------------------------- MODULE PubSubProofs ----------------------------
(***************************************************************************)
(* Theorems about PubSub: what clients were told of leases, ids and        *)
(* stream limits holds, and messages of an ordering key are handed out one *)
(* at a time and in order.                                                 *)
(***************************************************************************)
EXTENDS PubSub, FiniteSetTheorems, NaturalsInduction, WellFoundedInduction, TLAPS

-----------------------------------------------------------------------------
(***************************************************************************)
(* The inductive invariant.                                                *)
(***************************************************************************)

ServerFields ==
  {"topics", "subscriptions", "snapshots", "messages", "deliveries", "nextMessageId", "nextAckId",
   "resourceDirty", "messagesDirty"}

RecordFields == {"message", "ack", "lease", "next", "attempt", "acked"}

SnapshotFields == {"subscription", "expireTime", "deliveries", "backlog"}

SubscriptionFields ==
  {"topic", "detached", "push", "ordering", "retainAcked", "ackDeadline", "retention", "filter",
   "deadLetter", "backoff"}

IsFunction(f) == f = [x \in DOMAIN f |-> f[x]]

\* A record of a message that was given an id up to `top`.  Its ack id is that of a pull
\* with a counter up to `acks`, and then, unless it is acknowledged, it has a lease.
IsRecord(r, top, acks) ==
  /\ r = [f \in RecordFields |-> r[f]]
  /\ r.message \in 1..top /\ r.lease \in Nat /\ r.acked \in BOOLEAN
  /\ r.ack # NoAck => \E c \in 1..acks : r.ack = <<r.message, c>>
  /\ ~r.acked /\ r.ack # NoAck => r.lease # 0

\* No message has two records in one subscription.
IsQueue(v, top, acks) ==
  /\ v = [f \in {"at", "pushed"} |-> v[f]]
  /\ IsFunction(v.at)
  /\ v.pushed \in Nat /\ DOMAIN v.at \subseteq 1..v.pushed
  /\ \A p \in DOMAIN v.at : IsRecord(v.at[p], top, acks)
  /\ \A p, q \in DOMAIN v.at : v.at[p].message = v.at[q].message => p = q

AreDeliveries(d, top, acks) ==
  /\ d = [s \in SubscriptionNames |-> d[s]]
  /\ \A s \in SubscriptionNames : IsQueue(d[s], top, acks)

\* A snapshot has no leases.
AreSnapshots(n, top) ==
  /\ IsFunction(n)
  /\ \A k \in DOMAIN n : /\ n[k] = [f \in SnapshotFields |-> n[k][f]]
                         /\ IsQueue(n[k].deliveries, top, 0)

AreMessages(m, top) == IsFunction(m) /\ DOMAIN m \subseteq 1..top

\* A subscription has a dead-letter policy only if some request of the workload gives one.
AreSubscriptions(w, u) ==
  /\ IsFunction(u)
  /\ DOMAIN u \subseteq SubscriptionNames
  /\ \A s \in DOMAIN u : /\ u[s] = [f \in SubscriptionFields |-> u[s][f]]
                         /\ u[s].ackDeadline \in Nat \ {0}
                         /\ u[s].deadLetter # NoValue => DeadLetters(w)

AreTopics(w, t) == IsFunction(t) /\ DOMAIN t \subseteq w.topics

AreResources(w, t, u, n, top) == AreTopics(w, t) /\ AreSubscriptions(w, u) /\ AreSnapshots(n, top)

\* The messages, the deliveries and the two counters, in memory or in pubsub.json.
AreContents(m, d, top, acks) ==
  top \in Nat /\ acks \in Nat /\ AreMessages(m, top) /\ AreDeliveries(d, top, acks)

\* What clients were told: ids are behind the counters, and who was promised a message has
\* the lease.
IdsBehind(top, acks, giv, pub, prom) ==
  /\ \A a \in giv : \E i \in 1..top, c \in 1..acks : a = <<i, c>>
  /\ pub \subseteq 1..top
  /\ \A k \in DOMAIN prom : k[2] \in 1..top

LeasesStand(d, time, prom) ==
  \A k \in DOMAIN prom : prom[k] > time =>
    \A p \in DOMAIN d[k[1]].at :
      ~d[k[1]].at[p].acked /\ d[k[1]].at[p].message = k[2] => d[k[1]].at[p].lease >= prom[k]

Told(d, top, acks, time, giv, pub, prom) ==
  IdsBehind(top, acks, giv, pub, prom) /\ LeasesStand(d, time, prom)

IsServer(x) == x = [f \in ServerFields |-> x[f]]

\* A server whose snapshots would survive a loss of everything since the file with
\* counter `top` was written.
IsWhole(w, x, top) ==
  /\ IsServer(x)
  /\ AreResources(w, x.topics, x.subscriptions, x.snapshots, top)
  /\ AreContents(x.messages, x.deliveries, x.nextMessageId, x.nextAckId)
  /\ top <= x.nextMessageId

\* The ack ids that hold a lease.
LeasedAcks(v, time) == {v.at[p].ack : p \in {q \in DOMAIN v.at : ~v.at[q].acked /\ v.at[q].lease > time}}

StreamFields == {"subscription", "limit", "bytes", "deadline", "outstanding", "sent", "closing"}

\* A stream's map has every ack id that it sent and that still has a lease.
IsStream(w, c, d, time, giv) ==
  /\ c = [f \in StreamFields |-> c[f]]
  /\ w.streams # {}
  /\ c.subscription \in SubscriptionNames /\ c.limit \in Int /\ c.deadline \in Nat \ {0}
  /\ c.outstanding \subseteq c.sent /\ c.sent \subseteq giv
  /\ IsFiniteSet(c.outstanding)
  /\ c.limit > 0 => Cardinality(c.outstanding) <= c.limit
  /\ LeasedAcks(d[c.subscription], time) \cap c.sent \subseteq c.outstanding

AreStreams(w, z, d, time, giv) ==
  /\ z = [t \in Streams |-> z[t]]
  /\ \A t \in Streams : z[t] # NoValue => IsStream(w, z[t], d, time, giv)

ArePromises(prom) ==
  /\ IsFunction(prom)
  /\ \A k \in DOMAIN prom : k = <<k[1], k[2]>> /\ k[1] \in SubscriptionNames /\ prom[k] \in Nat

\* Snapshots record deliveries.
Captures(w) == "grpc" \in w.snapshotApis

\* The two files, loaded at any moment, keep what clients were told.
FilesSound(w, rf, mf, time, giv, pub, prom) ==
  /\ rf = [f \in {"topics", "subscriptions", "snapshots"} |-> rf[f]]
  /\ mf = [f \in {"messages", "deliveries", "nextMessageId", "nextAckId"} |-> mf[f]]
  /\ AreResources(w, rf.topics, rf.subscriptions, rf.snapshots, mf.nextMessageId)
  /\ AreContents(mf.messages, mf.deliveries, mf.nextMessageId, mf.nextAckId)
  /\ Told(mf.deliveries, mf.nextMessageId, mf.nextAckId, time, giv, pub, prom)

\* So does the running server.  When snapshots can carry messages into resources.json,
\* every message id is behind the counter in pubsub.json.
ServerSound(w, x, top, z, time, giv, pub, prom) ==
  /\ IsWhole(w, x, top)
  /\ Told(x.deliveries, x.nextMessageId, x.nextAckId, time, giv, pub, prom)
  /\ Captures(w) => x.nextMessageId <= top
  /\ AreStreams(w, z, x.deliveries, time, giv)

NoStreams == [t \in Streams |-> NoValue]

\* The inductive invariant.
PubSubInv ==
  /\ workload \in Workloads /\ now \in Nat \ {0} /\ up \in BOOLEAN
  /\ ArePromises(promised)
  /\ FilesSound(workload, resourceFile, messageFile, now, given, published, promised)
  /\ up => ServerSound(workload, server, messageFile.nextMessageId, streams, now, given, published, promised)
  /\ ~up => server = Blank /\ streams = NoStreams

-----------------------------------------------------------------------------
(***************************************************************************)
(* Positions.                                                              *)
(***************************************************************************)

\* A set of positions that is not empty has a last one.
LEMMA LastExists ==
  ASSUME NEW n \in Nat, NEW S \in SUBSET (1..n), S # {}
  PROVE  \E x \in S : \A y \in S : y <= x
<1> DEFINE T == {n - x : x \in S}
<1>0. \A x \in S : x \in Nat /\ 1 <= x /\ x <= n
  OBVIOUS
<1>1. T \in SUBSET Nat /\ T # {}
  <2>1. \A x \in S : n - x \in Nat
    BY <1>0
  <2> QED
    BY <2>1
<1>2. PICK t \in T : \A u \in T : ~(<<u, t>> \in OpToRel(<, Nat))
  BY <1>1, WFMin, NatLessThanWellFounded
<1>3. \A u \in T : ~(u < t)
  BY <1>1, <1>2 DEF OpToRel
<1>4. PICK x \in S : t = n - x
  OBVIOUS
<1>5. \A y \in S : y \in Nat /\ n - y \in T
  BY <1>0
<1>6. \A y \in S : ~(n - y < n - x)
  BY <1>3, <1>4, <1>5
<1>7. \A y \in S : y <= x
  BY <1>0, <1>6
<1> QED
  BY <1>7

\* Positions are finitely many.
LEMMA PositionsFinite ==
  ASSUME NEW n \in Nat, NEW S \in SUBSET (1..n)
  PROVE  IsFiniteSet(S) /\ Cardinality(S) \in Nat
<1>1. IsFiniteSet(1..n)
  BY FS_Interval
<1> QED
  BY <1>1, FS_Subset, FS_CardinalityType

\* The ranks of the positions in S are 1, 2, ... up to their number, one for each.
LEMMA Ranks ==
  ASSUME NEW n \in Nat, NEW S \in SUBSET (1..n)
  PROVE  /\ \A p \in S : Rank(p, S) \in 1..Cardinality(S)
         /\ \A p, q \in S : Rank(p, S) = Rank(q, S) => p = q
<1> DEFINE Upto(p) == {q \in S : q <= p}
<1>0. \A p \in S : p \in Nat
  OBVIOUS
<1>1. \A p \in S : Upto(p) \in SUBSET (1..n) /\ Upto(p) \subseteq S /\ p \in Upto(p) /\ p \in Nat
  <2>1. \A p \in S : p <= p
    BY <1>0
  <2>2. \A p \in S : Upto(p) \subseteq S /\ p \in Upto(p)
    BY <2>1
  <2> QED
    BY <1>0, <2>2
<1>2. IsFiniteSet(S) /\ Cardinality(S) \in Nat
  BY PositionsFinite
<1>3. \A p \in S : IsFiniteSet(Upto(p)) /\ Cardinality(Upto(p)) \in Nat
  BY <1>1, PositionsFinite
<1>4. \A p \in S : Cardinality(Upto(p)) <= Cardinality(S)
  BY <1>1, <1>2, FS_Subset
<1>5. \A p \in S : Cardinality(Upto(p)) # 0
  BY <1>1, <1>3, FS_EmptySet
<1>6. \A p, q \in S : p < q => Cardinality(Upto(p)) < Cardinality(Upto(q))
  <2> SUFFICES ASSUME NEW p \in S, NEW q \in S, p < q
               PROVE  Cardinality(Upto(p)) < Cardinality(Upto(q))
    OBVIOUS
  <2>1. Upto(p) \subseteq Upto(q) /\ q \in Upto(q) /\ q \notin Upto(p)
    BY <1>1
  <2> QED
    BY <1>3, <2>1, FS_Subset
<1>7. \A p \in S : Rank(p, S) = Cardinality(Upto(p))
  BY DEF Rank
<1> HIDE DEF Upto
<1>8. \A p, q \in S : Rank(p, S) = Rank(q, S) => p = q
  <2> SUFFICES ASSUME NEW p \in S, NEW q \in S, Rank(p, S) = Rank(q, S)
               PROVE  p = q
    OBVIOUS
  <2>1. ~(p < q) /\ ~(q < p)
    BY <1>3, <1>6, <1>7
  <2> QED
    BY <1>1, <2>1
<1> QED
  BY <1>2, <1>3, <1>4, <1>5, <1>7, <1>8

\* Those of A that come after fewer than `max` others are at most `max` (the loop of a pull
\* stops when it has enough).
LEMMA FirstOnes ==
  ASSUME NEW n \in Nat, NEW A \in SUBSET (1..n), NEW max \in Nat,
         NEW T \in SUBSET A, \A p \in T : Cardinality({q \in A : q < p}) < max
  PROVE  Cardinality(T) <= max
<1>1. IsFiniteSet(T) /\ Cardinality(T) \in Nat
  BY PositionsFinite
<1>2. CASE T = {}
  BY <1>2, FS_EmptySet
<1>3. CASE T # {}
  <2>1. PICK x \in T : \A y \in T : y <= x
    BY <1>3, LastExists
  <2> DEFINE L == {q \in A : q < x}
  <2>2. L \in SUBSET (1..n) /\ T \ {x} \subseteq L
    <3>1. \A y \in A : y \in Nat
      OBVIOUS
    <3>2. \A y \in T \ {x} : y \in A /\ y < x
      BY <2>1, <3>1
    <3> QED
      BY <3>2
  <2>3. IsFiniteSet(L) /\ Cardinality(L) \in Nat /\ Cardinality(L) < max
    BY <2>2, PositionsFinite
  <2> HIDE DEF L
  <2>4. Cardinality(T \ {x}) <= Cardinality(L)
    BY <2>2, <2>3, FS_Subset
  <2>5. Cardinality(T \ {x}) = Cardinality(T) - 1
    BY <1>1, FS_RemoveElement
  <2> QED
    BY <1>1, <2>3, <2>4, <2>5
<1> QED
  BY <1>2, <1>3

-----------------------------------------------------------------------------
(***************************************************************************)
(* Records and queues.                                                     *)
(***************************************************************************)

\* A record q that was r: at most its lease has ended, or it is acknowledged.
Calmer(r, q, time) ==
  /\ q.message = r.message
  /\ ~q.acked => /\ ~r.acked
                 /\ \/ q.lease = r.lease /\ q.ack = r.ack
                    \/ q.lease = 0 /\ q.ack = NoAck /\ r.lease <= time

\* A record of a message that had no id before.
IsNew(q, top) == q.message > top /\ (~q.acked => q.lease = 0 /\ q.ack = NoAck)

\* Queue w is what is left of v, and new records.
Calm(v, w, top, time) ==
  \A p \in DOMAIN w.at :
    (p \in DOMAIN v.at /\ Calmer(v.at[p], w.at[p], time)) \/ IsNew(w.at[p], top)

AllCalm(d, e, top, time) == \A s \in SubscriptionNames : Calm(d[s], e[s], top, time)

\* A record stays one when the counters grow.
LEMMA RecordGrows ==
  ASSUME NEW top \in Nat, NEW acks \in Nat, NEW top2 \in Nat, NEW acks2 \in Nat,
         top <= top2, acks <= acks2, NEW r, IsRecord(r, top, acks)
  PROVE  IsRecord(r, top2, acks2)
<1>1. r.message \in 1..top2
  BY DEF IsRecord
<1>2. r.ack # NoAck => \E c \in 1..acks2 : r.ack = <<r.message, c>>
  <2> SUFFICES ASSUME r.ack # NoAck
               PROVE  \E c \in 1..acks2 : r.ack = <<r.message, c>>
    OBVIOUS
  <2>1. PICK c \in 1..acks : r.ack = <<r.message, c>>
    BY DEF IsRecord
  <2>2. c \in 1..acks2
    OBVIOUS
  <2> QED
    BY <2>1, <2>2
<1> QED
  BY <1>1, <1>2 DEF IsRecord

\* A queue stays one when the counters move on.
LEMMA QueueGrows ==
  ASSUME NEW top \in Nat, NEW acks \in Nat, NEW top2 \in Nat, NEW acks2 \in Nat,
         top <= top2, acks <= acks2, NEW v, IsQueue(v, top, acks)
  PROVE  IsQueue(v, top2, acks2)
<1>1. \A p \in DOMAIN v.at : IsRecord(v.at[p], top2, acks2)
  BY RecordGrows DEF IsQueue
<1> QED
  BY <1>1 DEF IsQueue

\* The queues of all subscriptions stay queues when the counters move on.
LEMMA DeliveriesGrow ==
  ASSUME NEW top \in Nat, NEW acks \in Nat, NEW top2 \in Nat, NEW acks2 \in Nat,
         top <= top2, acks <= acks2, NEW d, AreDeliveries(d, top, acks)
  PROVE  AreDeliveries(d, top2, acks2)
BY QueueGrows DEF AreDeliveries

\* Snapshots stay snapshots when the message counter moves on.
LEMMA SnapshotsGrow ==
  ASSUME NEW top \in Nat, NEW top2 \in Nat, top <= top2, NEW n, AreSnapshots(n, top)
  PROVE  AreSnapshots(n, top2)
BY QueueGrows DEF AreSnapshots

\* The queue v with other records.
Refilled(v, at) == [v EXCEPT !.at = at]

\* Records of the same messages at the same positions make a queue.
LEMMA RefilledQueue ==
  ASSUME NEW top, NEW acks, NEW top2, NEW acks2, NEW v, IsQueue(v, top, acks),
         NEW at, IsFunction(at), DOMAIN at \subseteq DOMAIN v.at,
         \A p \in DOMAIN at : IsRecord(at[p], top2, acks2) /\ at[p].message = v.at[p].message
  PROVE  IsQueue(Refilled(v, at), top2, acks2) /\ Refilled(v, at).at = at
<1> DEFINE w == Refilled(v, at)
<1>1. w = [f \in {"at", "pushed"} |-> w[f]] /\ w.at = at /\ w.pushed = v.pushed
  BY DEF IsQueue, Refilled
<1> HIDE DEF w
<1>2. w.pushed \in Nat /\ DOMAIN w.at \subseteq 1..w.pushed
  BY <1>1 DEF IsQueue
<1>3. \A p, q \in DOMAIN at : at[p].message = at[q].message => p = q
  BY DEF IsQueue
<1>4. IsQueue(w, top2, acks2)
  BY <1>1, <1>2, <1>3 DEF IsQueue
<1> QED
  BY <1>1, <1>4 DEF w

\* An empty queue is one for any counters.
LEMMA EmptyQueue ==
  ASSUME NEW top, NEW acks
  PROVE  IsQueue(EmptyVec, top, acks) /\ DOMAIN EmptyVec.at = {}
<1>1. /\ EmptyVec = [f \in {"at", "pushed"} |-> EmptyVec[f]]
      /\ EmptyVec.at = NoFields /\ EmptyVec.pushed = 0
  BY DEF EmptyVec
<1>2. DOMAIN NoFields = {} /\ IsFunction(NoFields)
  BY DEF NoFields, IsFunction
<1> QED
  BY <1>1, <1>2 DEF IsQueue

\* Vec::retain keeps some records as they are.
LEMMA RetainQueue ==
  ASSUME NEW top, NEW acks, NEW v, IsQueue(v, top, acks), NEW S, S \subseteq DOMAIN v.at
  PROVE  /\ IsQueue(Retain(v, S), top, acks)
         /\ DOMAIN Retain(v, S).at = S
         /\ \A p \in S : Retain(v, S).at[p] = v.at[p]
<1>1. CASE S = {}
  <2>1. Retain(v, S) = EmptyVec
    BY <1>1 DEF Retain
  <2> QED
    BY <1>1, <2>1, EmptyQueue
<1>2. CASE S # {}
  <2> DEFINE at == Restrict(v.at, S)
  <2>1. Retain(v, S) = Refilled(v, at)
    BY <1>2 DEF Retain, Refilled
  <2>2. at = [p \in S |-> v.at[p]]
    BY DEF Restrict
  <2>3. IsFunction(at) /\ DOMAIN at = S /\ \A p \in S : at[p] = v.at[p]
    BY <2>2 DEF IsFunction
  <2> HIDE DEF at
  <2>4. \A p \in DOMAIN at : IsRecord(at[p], top, acks) /\ at[p].message = v.at[p].message
    BY <2>3 DEF IsQueue
  <2>5. IsQueue(Refilled(v, at), top, acks) /\ Refilled(v, at).at = at
    BY <2>3, <2>4, RefilledQueue
  <2> QED
    BY <2>1, <2>3, <2>5
<1> QED
  BY <1>1, <1>2

\* A fresh record has neither a lease nor an ack id.
LEMMA FreshFields ==
  ASSUME NEW id
  PROVE  LET r == FreshRecord(id) IN
         /\ r = [f \in RecordFields |-> r[f]] /\ r.message = id
         /\ r.lease = 0 /\ r.acked = FALSE /\ r.ack = NoAck
BY DEF FreshRecord, RecordFields

\* The record that publish_message appends is a record.
LEMMA FreshIsRecord ==
  ASSUME NEW top, NEW acks, NEW id \in 1..top
  PROVE  IsRecord(FreshRecord(id), top, acks)
<1> DEFINE r == FreshRecord(id)
<1>1. /\ r = [f \in RecordFields |-> r[f]] /\ r.message = id
      /\ r.lease = 0 /\ r.acked = FALSE /\ r.ack = NoAck
  BY FreshFields
<1> HIDE DEF r
<1>2. r.message \in 1..top /\ r.lease \in Nat
  BY <1>1
<1>3. r.acked \in BOOLEAN
  BY <1>1, Zenon
<1>4. IsRecord(r, top, acks)
  BY <1>1, <1>2, <1>3, Zenon DEF IsRecord
<1> QED
  BY <1>4 DEF r

\* Pushing records of messages with new ids (publish; the copies of dead letters).
LEMMA PushedQueue ==
  ASSUME NEW top \in Nat, NEW acks \in Nat, NEW v, IsQueue(v, top, acks),
         NEW n \in Nat, NEW ids, DOMAIN ids \subseteq 1..n,
         \A i \in DOMAIN ids : ids[i] = top + i
  PROVE  /\ IsQueue(PushAll(v, ids, n), top + n, acks)
         /\ \A p \in DOMAIN PushAll(v, ids, n).at :
              \/ p \in DOMAIN v.at /\ PushAll(v, ids, n).at[p] = v.at[p]
              \/ IsNew(PushAll(v, ids, n).at[p], top)
<1> DEFINE w == PushAll(v, ids, n)
           slots == {v.pushed + i : i \in DOMAIN ids}
<1>0. /\ v.pushed \in Nat /\ DOMAIN v.at \subseteq 1..v.pushed
      /\ \A p \in DOMAIN v.at : IsRecord(v.at[p], top, acks) /\ v.at[p].message \in 1..top
      /\ \A i \in DOMAIN ids : i \in 1..n
  BY DEF IsQueue, IsRecord
<1>1. CASE slots = {}
  <2>1. w = v
    BY <1>1 DEF PushAll
  <2>2. IsQueue(v, top + n, acks)
    BY QueueGrows
  <2> QED
    BY <2>1, <2>2
<1>2. CASE slots # {}
  <2> DEFINE at == [p \in DOMAIN v.at \cup slots |->
                      IF p \in DOMAIN v.at THEN v.at[p] ELSE FreshRecord(ids[p - v.pushed])]
  <2>1. w = [at |-> at, pushed |-> v.pushed + n]
    BY <1>2 DEF PushAll
  <2>2. w = [f \in {"at", "pushed"} |-> w[f]] /\ w.at = at /\ w.pushed = v.pushed + n
    BY <2>1
  <2>3. \A p \in slots : /\ p \in 1..(v.pushed + n) /\ p \notin DOMAIN v.at
                         /\ p - v.pushed \in DOMAIN ids /\ p > v.pushed
    <3> SUFFICES ASSUME NEW i \in DOMAIN ids
                 PROVE  /\ v.pushed + i \in 1..(v.pushed + n) /\ v.pushed + i \notin DOMAIN v.at
                        /\ (v.pushed + i) - v.pushed \in DOMAIN ids /\ v.pushed + i > v.pushed
      OBVIOUS
    <3>1. i \in 1..n /\ (v.pushed + i) - v.pushed = i
      BY <1>0
    <3> QED
      BY <1>0, <3>1
  <2>4. \A p \in slots : at[p] = FreshRecord(top + (p - v.pushed))
    BY <2>3
  <2>5. /\ \A p \in DOMAIN v.at : at[p] = v.at[p]
        /\ DOMAIN at = DOMAIN v.at \cup slots
        /\ IsFunction(at)
    BY DEF IsFunction
  <2> HIDE DEF at, w
  <2>6. \A p \in slots : /\ at[p].message = top + (p - v.pushed)
                         /\ IsNew(at[p], top) /\ IsRecord(at[p], top + n, acks)
    <3> SUFFICES ASSUME NEW p \in slots
                 PROVE  /\ at[p].message = top + (p - v.pushed)
                        /\ IsNew(at[p], top) /\ IsRecord(at[p], top + n, acks)
      OBVIOUS
    <3>1. p \in Nat /\ p > v.pushed /\ top + (p - v.pushed) \in 1..(top + n)
      BY <1>0, <2>3
    <3>2. PICK id \in 1..(top + n) : id = top + (p - v.pushed)
      BY <3>1
    <3>3. at[p] = FreshRecord(id)
      BY <2>4, <3>2
    <3>4. IsRecord(at[p], top + n, acks)
      BY <3>3, FreshIsRecord
    <3>5. at[p].message = id /\ at[p].lease = 0 /\ at[p].ack = NoAck
      BY <3>3, FreshFields
    <3> QED
      BY <1>0, <3>1, <3>2, <3>4, <3>5 DEF IsNew
  <2>7. DOMAIN at \subseteq 1..(v.pushed + n)
    BY <1>0, <2>3, <2>5
  <2>8. \A p \in DOMAIN v.at : IsRecord(at[p], top + n, acks) /\ at[p].message <= top
    <3> SUFFICES ASSUME NEW p \in DOMAIN v.at
                 PROVE  IsRecord(at[p], top + n, acks) /\ at[p].message <= top
      OBVIOUS
    <3>1. IsRecord(v.at[p], top, acks)
      BY DEF IsQueue
    <3>2. PICK more \in Nat : more = top + n /\ top <= more
      OBVIOUS
    <3>3. IsRecord(v.at[p], more, acks)
      BY <3>1, <3>2, RecordGrows
    <3>4. v.at[p].message <= top
      BY <3>1 DEF IsRecord
    <3> QED
      BY <2>5, <3>2, <3>3, <3>4
  <2>9. \A p \in DOMAIN at : IsRecord(at[p], top + n, acks)
    BY <2>5, <2>6, <2>8
  <2>10. \A p, q \in DOMAIN at : at[p].message = at[q].message => p = q
    <3> SUFFICES ASSUME NEW p \in DOMAIN at, NEW q \in DOMAIN at, at[p].message = at[q].message
                 PROVE  p = q
      OBVIOUS
    <3>1. CASE p \in DOMAIN v.at /\ q \in DOMAIN v.at
      BY <2>5, <3>1 DEF IsQueue
    <3>2. CASE p \in slots /\ q \in slots
      <4>1. p \in Nat /\ q \in Nat
        BY <1>0, <2>3, <3>2
      <4>2. top + (p - v.pushed) = top + (q - v.pushed)
        BY <2>6, <3>2
      <4> QED
        BY <1>0, <4>1, <4>2
    <3>3. \A a \in slots, b \in DOMAIN v.at : at[a].message # at[b].message
      BY <1>0, <2>5, <2>6 DEF IsNew
    <3> QED
      BY <2>5, <3>1, <3>2, <3>3
  <2>11. IsQueue(w, top + n, acks)
    BY <1>0, <2>2, <2>5, <2>7, <2>9, <2>10 DEF IsQueue
  <2> QED
    BY <2>2, <2>5, <2>6, <2>11 DEF w
<1> QED
  BY <1>1, <1>2

-----------------------------------------------------------------------------
(***************************************************************************)
(* Cleaning up.                                                            *)
(***************************************************************************)

\* Server y is x after some records, snapshots and messages were dropped and leases that
\* ran out were ended.
Tidied(x, y, time) ==
  /\ IsServer(y)
  /\ y.topics = x.topics /\ y.subscriptions = x.subscriptions
  /\ y.nextMessageId = x.nextMessageId /\ y.nextAckId = x.nextAckId
  /\ DOMAIN y.messages \subseteq DOMAIN x.messages
  /\ \A id \in DOMAIN y.messages : y.messages[id] = x.messages[id]
  /\ AllCalm(x.deliveries, y.deliveries, x.nextMessageId, time)

\* Two calm steps of a queue are one.
LEMMA CalmTransitive ==
  ASSUME NEW u, NEW v, NEW w, NEW top, NEW time \in Nat,
         Calm(u, v, top, time), Calm(v, w, top, time)
  PROVE  Calm(u, w, top, time)
<1> SUFFICES ASSUME NEW p \in DOMAIN w.at, ~IsNew(w.at[p], top)
             PROVE  p \in DOMAIN u.at /\ Calmer(u.at[p], w.at[p], time)
  BY DEF Calm
<1>1. p \in DOMAIN v.at /\ Calmer(v.at[p], w.at[p], time)
  BY DEF Calm
<1>2. CASE p \in DOMAIN u.at /\ Calmer(u.at[p], v.at[p], time)
  BY <1>1, <1>2 DEF Calmer
<1>3. CASE IsNew(v.at[p], top)
  BY <1>1, <1>3 DEF Calmer, IsNew
<1> QED
  BY <1>1, <1>2, <1>3 DEF Calm

\* What a cleanup of a cleaned up server leaves.
LEMMA TidiedTwice ==
  ASSUME NEW x, NEW y, NEW z, NEW time \in Nat, Tidied(x, y, time), Tidied(y, z, time)
  PROVE  Tidied(x, z, time)
<1>1. AllCalm(x.deliveries, z.deliveries, x.nextMessageId, time)
  BY CalmTransitive DEF AllCalm, Tidied
<1> QED
  BY <1>1 DEF Tidied

\* Deliveries that do not change are calm.
LEMMA CalmSame ==
  ASSUME NEW d, NEW top, NEW time
  PROVE  AllCalm(d, d, top, time)
BY DEF AllCalm, Calm, Calmer

\* A server that does not change is tidied.
LEMMA TidiedSame ==
  ASSUME NEW x, NEW time, IsServer(x)
  PROVE  Tidied(x, x, time)
BY CalmSame DEF Tidied

\* Fewer messages are messages.
LEMMA RestrictedMessages ==
  ASSUME NEW m, NEW top, AreMessages(m, top), NEW S, S \subseteq DOMAIN m
  PROVE  /\ AreMessages(Restrict(m, S), top)
         /\ DOMAIN Restrict(m, S) = S /\ \A id \in S : Restrict(m, S)[id] = m[id]
<1>1. Restrict(m, S) = [id \in S |-> m[id]]
  BY DEF Restrict
<1> QED
  BY <1>1 DEF AreMessages, IsFunction

\* cleanup_unreferenced_messages drops messages only.
LEMMA PrunedFields ==
  ASSUME NEW x, IsServer(x)
  PROVE  LET y == Pruned(x) IN
         /\ IsServer(y)
         /\ \A f \in ServerFields \ {"messages", "messagesDirty"} : y[f] = x[f]
         /\ y.messages = Restrict(x.messages, DOMAIN x.messages \cap Referenced(x))
         /\ x.messagesDirty => y.messagesDirty
<1> DEFINE kept == DOMAIN x.messages \cap Referenced(x)
<1>1. Pruned(x) = [[x EXCEPT !.messages = Restrict(@, kept)]
                      EXCEPT !.messagesDirty = @ \/ kept # DOMAIN x.messages]
  BY DEF Pruned, IsServer, ServerFields
<1> HIDE DEF kept
<1> QED
  BY <1>1 DEF IsServer, ServerFields, kept

\* Dropping the messages that nothing refers to keeps a server whole.
LEMMA PrunedWhole ==
  ASSUME NEW x, NEW top, IsWhole(workload, x, top), NEW time
  PROVE  IsWhole(workload, Pruned(x), top) /\ Tidied(x, Pruned(x), time)
<1> DEFINE y == Pruned(x)
<1>1. /\ IsServer(y)
      /\ \A f \in ServerFields \ {"messages", "messagesDirty"} : y[f] = x[f]
      /\ y.messages = Restrict(x.messages, DOMAIN x.messages \cap Referenced(x))
  BY PrunedFields DEF IsWhole
<1> HIDE DEF y
<1>2. /\ y.topics = x.topics /\ y.subscriptions = x.subscriptions /\ y.snapshots = x.snapshots
      /\ y.deliveries = x.deliveries /\ y.nextMessageId = x.nextMessageId /\ y.nextAckId = x.nextAckId
  BY <1>1 DEF ServerFields
<1>3. /\ AreMessages(y.messages, x.nextMessageId) /\ DOMAIN y.messages \subseteq DOMAIN x.messages
      /\ \A id \in DOMAIN y.messages : y.messages[id] = x.messages[id]
  BY <1>1, RestrictedMessages DEF IsWhole, AreContents
<1>4. IsWhole(workload, y, top)
  BY <1>1, <1>2, <1>3 DEF IsWhole, AreContents
<1>5. Tidied(x, y, time)
  BY <1>1, <1>2, <1>3, CalmSame DEF Tidied
<1> QED
  BY <1>4, <1>5 DEF y

\* Fewer snapshots are snapshots.
LEMMA FewerSnapshots ==
  ASSUME NEW n, NEW top, AreSnapshots(n, top), NEW S
  PROVE  AreSnapshots(Without(n, S), top)
<1>1. Without(n, S) = [k \in DOMAIN n \ S |-> n[k]]
  BY DEF Without, Restrict
<1> QED
  BY <1>1 DEF AreSnapshots, IsFunction

\* cleanup_expired_snapshots
LEMMA DroppedWhole ==
  ASSUME NEW x, NEW top, IsWhole(workload, x, top), NEW time
  PROVE  LET y == SnapshotsDropped(x) IN
         IsWhole(workload, y, top) /\ Tidied(x, y, time) /\ y.deliveries = x.deliveries /\ y.messages = x.messages
<1> DEFINE y == SnapshotsDropped(x)
           expired == {n \in DOMAIN x.snapshots : SnapshotExpired(x.snapshots[n])}
<1>1. y = [[x EXCEPT !.snapshots = Without(@, expired)] EXCEPT !.resourceDirty = @ \/ expired # {}]
  BY DEF SnapshotsDropped, IsWhole, IsServer, ServerFields
<1> HIDE DEF expired
<1>2. /\ IsServer(y) /\ y.snapshots = Without(x.snapshots, expired)
      /\ y.topics = x.topics /\ y.subscriptions = x.subscriptions /\ y.messages = x.messages
      /\ y.deliveries = x.deliveries /\ y.nextMessageId = x.nextMessageId /\ y.nextAckId = x.nextAckId
  BY <1>1 DEF IsWhole, IsServer, ServerFields
<1> HIDE DEF y
<1>3. AreSnapshots(y.snapshots, top)
  BY <1>2, FewerSnapshots DEF IsWhole, AreResources
<1>4. IsWhole(workload, y, top)
  BY <1>2, <1>3 DEF IsWhole, AreContents, AreResources
<1>5. Tidied(x, y, time)
  BY <1>2, CalmSame DEF Tidied
<1> QED
  BY <1>2, <1>4, <1>5 DEF y

\* Trimming keeps records as they are.
LEMMA TrimmedQueue ==
  ASSUME NEW v, NEW top, NEW acks, IsQueue(v, top, acks), NEW x, NEW retention
  PROVE  LET w == TrimmedVec(x, v, retention) IN
         /\ IsQueue(w, top, acks)
         /\ DOMAIN w.at \subseteq DOMAIN v.at
         /\ \A p \in DOMAIN w.at : w.at[p] = v.at[p]
<1> DEFINE S == {p \in DOMAIN v.at : KeptFor(x, v.at[p].message, retention)}
<1>1. TrimmedVec(x, v, retention) = Retain(v, S) /\ S \subseteq DOMAIN v.at
  BY DEF TrimmedVec
<1> HIDE DEF S
<1> QED
  BY <1>1, RetainQueue

\* Trimming snapshots by retention leaves snapshots.
LEMMA TrimmedSnapshots ==
  ASSUME NEW n, NEW top, AreSnapshots(n, top), NEW x
  PROVE  AreSnapshots([k \in DOMAIN n |-> TrimmedSnapshot(x, n[k])], top)
<1> DEFINE m == [k \in DOMAIN n |-> TrimmedSnapshot(x, n[k])]
<1> SUFFICES ASSUME NEW k \in DOMAIN n
             PROVE  /\ m[k] = [f \in SnapshotFields |-> m[k][f]]
                    /\ IsQueue(m[k].deliveries, top, 0)
  BY DEF AreSnapshots, IsFunction
<1>1. PICK snapshot : snapshot = n[k]
  OBVIOUS
<1>2. snapshot = [f \in SnapshotFields |-> snapshot[f]] /\ IsQueue(snapshot.deliveries, top, 0)
  BY <1>1 DEF AreSnapshots
<1>3. PICK t : t = TrimmedSnapshot(x, snapshot)
  OBVIOUS
<1>4. /\ t = [f \in SnapshotFields |-> t[f]]
      /\ t.deliveries = TrimmedVec(x, snapshot.deliveries, workload.retention)
  BY <1>2, <1>3 DEF TrimmedSnapshot, SnapshotFields
<1>5. IsQueue(t.deliveries, top, 0)
  BY <1>2, <1>4, TrimmedQueue
<1>6. m[k] = t
  BY <1>1, <1>3
<1> QED
  BY <1>4, <1>5, <1>6

\* A server with other deliveries and snapshots.
Laid(x, d, n, a, b) ==
  [x EXCEPT !.deliveries = d, !.snapshots = n, !.messagesDirty = a, !.resourceDirty = b]

\* The fields of a server with other deliveries and snapshots.
LEMMA LaidFields ==
  ASSUME NEW x, IsServer(x), NEW d, NEW n, NEW a, NEW b
  PROVE  LET y == Laid(x, d, n, a, b) IN
         /\ IsServer(y) /\ y.deliveries = d /\ y.snapshots = n
         /\ y.messagesDirty = a /\ y.resourceDirty = b
         /\ y.topics = x.topics /\ y.subscriptions = x.subscriptions /\ y.messages = x.messages
         /\ y.nextMessageId = x.nextMessageId /\ y.nextAckId = x.nextAckId
<1> DEFINE y == Laid(x, d, n, a, b)
<1>1. y = [[[[x EXCEPT !.deliveries = d] EXCEPT !.snapshots = n] EXCEPT !.messagesDirty = a]
             EXCEPT !.resourceDirty = b]
  BY DEF Laid
<1> QED
  BY <1>1 DEF IsServer, ServerFields

\* cleanup_retained_messages
LEMMA CleanedWhole ==
  ASSUME NEW x, NEW top, IsWhole(workload, x, top), NEW time \in Nat
  PROVE  IsWhole(workload, RetentionCleaned(x), top) /\ Tidied(x, RetentionCleaned(x), time)
<1> DEFINE y == SnapshotsDropped(x)
           d == [s \in SubscriptionNames |-> TrimmedVec(y, y.deliveries[s], Retention(y, s))]
           n == [k \in DOMAIN y.snapshots |-> TrimmedSnapshot(y, y.snapshots[k])]
           a == y.messagesDirty \/ \E s \in SubscriptionNames : DOMAIN y.deliveries[s].at # DOMAIN d[s].at
           b == y.resourceDirty \/ \E k \in DOMAIN n : DOMAIN y.snapshots[k].deliveries.at # DOMAIN n[k].deliveries.at
           z == Laid(y, d, n, a, b)
<1>1. IsWhole(workload, y, top) /\ Tidied(x, y, time)
  BY DroppedWhole
<1>2. RetentionCleaned(x) = IF workload.retention = 0 \/ y.messages = NoFields THEN y ELSE Pruned(z)
  BY <1>1 DEF RetentionCleaned, Laid, IsWhole, IsServer, ServerFields
<1> HIDE DEF y, a, b
<1>3. AreDeliveries(y.deliveries, y.nextMessageId, y.nextAckId) /\ AreSnapshots(y.snapshots, top)
  BY <1>1 DEF IsWhole, AreContents, AreResources
<1>4. \A s \in SubscriptionNames :
        /\ IsQueue(d[s], y.nextMessageId, y.nextAckId)
        /\ DOMAIN d[s].at \subseteq DOMAIN y.deliveries[s].at
        /\ \A p \in DOMAIN d[s].at : d[s].at[p] = y.deliveries[s].at[p]
  <2> SUFFICES ASSUME NEW s \in SubscriptionNames
               PROVE  /\ IsQueue(d[s], y.nextMessageId, y.nextAckId)
                      /\ DOMAIN d[s].at \subseteq DOMAIN y.deliveries[s].at
                      /\ \A p \in DOMAIN d[s].at : d[s].at[p] = y.deliveries[s].at[p]
    OBVIOUS
  <2>1. IsQueue(y.deliveries[s], y.nextMessageId, y.nextAckId)
    BY <1>3 DEF AreDeliveries
  <2>2. d[s] = TrimmedVec(y, y.deliveries[s], Retention(y, s))
    OBVIOUS
  <2> HIDE DEF d
  <2> QED
    BY <2>1, <2>2, TrimmedQueue
<1>5. AreDeliveries(d, y.nextMessageId, y.nextAckId)
  BY <1>4 DEF AreDeliveries
<1>6. AllCalm(y.deliveries, d, y.nextMessageId, time)
  BY <1>4 DEF AllCalm, Calm, Calmer
<1>7. AreSnapshots(n, top)
  BY <1>3, TrimmedSnapshots
<1> HIDE DEF d, n
<1>8. /\ IsServer(z) /\ z.deliveries = d /\ z.snapshots = n
      /\ z.topics = y.topics /\ z.subscriptions = y.subscriptions /\ z.messages = y.messages
      /\ z.nextMessageId = y.nextMessageId /\ z.nextAckId = y.nextAckId
  BY <1>1, LaidFields DEF IsWhole
<1> HIDE DEF z
<1>9. IsWhole(workload, z, top)
  BY <1>1, <1>5, <1>7, <1>8 DEF IsWhole, AreContents, AreResources
<1>10. Tidied(y, z, time)
  BY <1>6, <1>8 DEF Tidied
<1>11. IsWhole(workload, Pruned(z), top) /\ Tidied(z, Pruned(z), time)
  BY <1>9, PrunedWhole
<1>12. Tidied(x, Pruned(z), time)
  BY <1>1, <1>10, <1>11, TidiedTwice
<1> QED
  BY <1>1, <1>2, <1>11, <1>12

\* The records of s after expire_leases.
EndedAt(x, s) ==
  [p \in DOMAIN x.deliveries[s].at |->
     IF LeaseRanOut(x.deliveries[s].at[p]) THEN LeaseEnded(x, s, x.deliveries[s].at[p])
     ELSE x.deliveries[s].at[p]]

\* A lease that ended leaves neither an ack id nor a time.
LEMMA EndedRecord ==
  ASSUME NEW x, NEW s, NEW r, NEW top, NEW acks, IsRecord(r, top, acks)
  PROVE  LET q == LeaseEnded(x, s, r) IN
         /\ IsRecord(q, top, acks)
         /\ q.message = r.message /\ q.acked = r.acked /\ q.ack = NoAck /\ q.lease = 0
<1> DEFINE q == LeaseEnded(x, s, r)
           later == IF RetryBackoff(x, s, r.attempt) > 0 THEN r.lease + RetryBackoff(x, s, r.attempt) ELSE r.next
<1>1. q = [[[r EXCEPT !.ack = NoAck] EXCEPT !.lease = 0] EXCEPT !.next = later]
  BY DEF LeaseEnded, IsRecord, RecordFields
<1> HIDE DEF later
<1>2. /\ q = [f \in RecordFields |-> q[f]] /\ q.message = r.message /\ q.acked = r.acked
      /\ q.ack = NoAck /\ q.lease = 0
  BY <1>1 DEF IsRecord, RecordFields
<1> HIDE DEF q
<1>3. q.message \in 1..top /\ q.lease \in Nat
  BY <1>2 DEF IsRecord
<1>4. q.acked \in BOOLEAN
  BY <1>2, Zenon DEF IsRecord
<1>5. IsRecord(q, top, acks)
  BY <1>2, <1>3, <1>4, Zenon DEF IsRecord
<1> QED
  BY <1>2, <1>5 DEF q

\* expire_leases ends only leases that ran out.
LEMMA ExpiredWhole ==
  ASSUME NEW x, NEW top, IsWhole(workload, x, top), now \in Nat
  PROVE  /\ IsWhole(workload, LeasesExpired(x), top) /\ Tidied(x, LeasesExpired(x), now)
         /\ LeasesExpired(x).messages = x.messages /\ LeasesExpired(x).snapshots = x.snapshots
         /\ \A s \in SubscriptionNames :
              /\ DOMAIN LeasesExpired(x).deliveries[s].at = DOMAIN x.deliveries[s].at
              /\ \A p \in DOMAIN x.deliveries[s].at :
                   ~LeaseRanOut(LeasesExpired(x).deliveries[s].at[p])
<1> DEFINE y == LeasesExpired(x)
           d == [s \in SubscriptionNames |-> Refilled(x.deliveries[s], EndedAt(x, s))]
           a == x.messagesDirty \/ \E s \in SubscriptionNames :
                  \E p \in DOMAIN x.deliveries[s].at : LeaseRanOut(x.deliveries[s].at[p])
<1>0. IsServer(x) /\ AreDeliveries(x.deliveries, x.nextMessageId, x.nextAckId)
  BY DEF IsWhole, AreContents
<1>1. y = [[x EXCEPT !.deliveries = d] EXCEPT !.messagesDirty = a]
  <2>1. \A s \in SubscriptionNames : "at" \in DOMAIN x.deliveries[s]
    BY <1>0 DEF AreDeliveries, IsQueue
  <2>2. \A s \in SubscriptionNames : Ended(x, s) = Refilled(x.deliveries[s], EndedAt(x, s))
    BY <2>1 DEF Refilled, Ended, EndedAt
  <2>3. d = [s \in SubscriptionNames |-> Ended(x, s)]
    BY <2>2
  <2> HIDE DEF d
  <2> QED
    BY <1>0, <2>3 DEF LeasesExpired, IsServer, ServerFields
<1> HIDE DEF d, a
<1>2. /\ IsServer(y) /\ y.deliveries = d
      /\ y.topics = x.topics /\ y.subscriptions = x.subscriptions /\ y.messages = x.messages
      /\ y.snapshots = x.snapshots
      /\ y.nextMessageId = x.nextMessageId /\ y.nextAckId = x.nextAckId
  BY <1>0, <1>1 DEF IsServer, ServerFields
<1> HIDE DEF y
<1>3. ASSUME NEW s \in SubscriptionNames
      PROVE  /\ IsQueue(d[s], x.nextMessageId, x.nextAckId)
             /\ Calm(x.deliveries[s], d[s], x.nextMessageId, now)
             /\ DOMAIN d[s].at = DOMAIN x.deliveries[s].at
             /\ \A p \in DOMAIN d[s].at : ~LeaseRanOut(d[s].at[p])
  <2>1. PICK v : v = x.deliveries[s]
    OBVIOUS
  <2>2. IsQueue(v, x.nextMessageId, x.nextAckId)
    BY <1>0, <2>1 DEF AreDeliveries
  <2>3. PICK at : at = EndedAt(x, s)
    OBVIOUS
  <2>4. /\ IsFunction(at) /\ DOMAIN at = DOMAIN v.at
        /\ \A p \in DOMAIN at : at[p] = IF LeaseRanOut(v.at[p]) THEN LeaseEnded(x, s, v.at[p]) ELSE v.at[p]
    BY <2>1, <2>3 DEF EndedAt, IsFunction
  <2>5. ASSUME NEW p \in DOMAIN at
        PROVE  /\ IsRecord(at[p], x.nextMessageId, x.nextAckId) /\ at[p].message = v.at[p].message
               /\ Calmer(v.at[p], at[p], now) /\ ~LeaseRanOut(at[p])
    <3>1. IsRecord(v.at[p], x.nextMessageId, x.nextAckId) /\ v.at[p].lease \in Nat
      BY <2>2, <2>4 DEF IsQueue, IsRecord
    <3>2. CASE LeaseRanOut(v.at[p])
      <4>1. at[p] = LeaseEnded(x, s, v.at[p])
        BY <2>4, <3>2
      <4>2. /\ IsRecord(at[p], x.nextMessageId, x.nextAckId)
            /\ at[p].message = v.at[p].message /\ at[p].acked = v.at[p].acked
            /\ at[p].ack = NoAck /\ at[p].lease = 0
        BY <3>1, <4>1, EndedRecord
      <4>3. v.at[p].lease <= now /\ ~v.at[p].acked
        BY <3>1, <3>2 DEF LeaseRanOut, InForce
      <4> QED
        BY <4>2, <4>3 DEF Calmer, LeaseRanOut
    <3>3. CASE ~LeaseRanOut(v.at[p])
      BY <2>4, <3>1, <3>3 DEF Calmer
    <3> QED
      BY <3>2, <3>3
  <2>6. d[s] = Refilled(v, at)
    BY <2>1, <2>3 DEF d
  <2>7. IsQueue(d[s], x.nextMessageId, x.nextAckId) /\ d[s].at = at
    BY <2>2, <2>4, <2>5, <2>6, RefilledQueue
  <2> QED
    BY <2>1, <2>4, <2>5, <2>7 DEF Calm
<1>4. d = [s \in SubscriptionNames |-> d[s]]
  BY DEF d
<1>5. AreDeliveries(d, x.nextMessageId, x.nextAckId)
  BY <1>3, <1>4 DEF AreDeliveries
<1>6. IsWhole(workload, y, top)
  BY <1>2, <1>5 DEF IsWhole, AreContents, AreResources
<1>7. Tidied(x, y, now)
  BY <1>2, <1>3 DEF Tidied, AllCalm
<1> QED
  BY <1>2, <1>3, <1>6, <1>7 DEF y

-----------------------------------------------------------------------------
(***************************************************************************)
(* The scan of a pull.                                                     *)
(***************************************************************************)

\* What the loop takes is unacknowledged and in nobody's hands, and not more than asked for.
LEMMA ScanFacts ==
  ASSUME NEW x, NEW top, IsWhole(workload, x, top), NEW s \in SubscriptionNames, NEW max \in Nat, now \in Nat
  PROVE  LET scan == Scan(x, s, max)
             v == x.deliveries[s]
         IN /\ scan.taken \subseteq DOMAIN v.at /\ scan.dead \subseteq DOMAIN v.at
            /\ scan.taken \cap scan.dead = {}
            /\ \A p \in scan.taken \cup scan.dead :
                 ~v.at[p].acked /\ v.at[p].lease <= now /\ HasMessage(x, s, p)
            /\ scan.dead # {} => DeadLetterTarget(x, s) # NoValue
            /\ IsFiniteSet(scan.taken) /\ Cardinality(scan.taken) <= max
            /\ Cardinality(scan.taken) \in Nat /\ Cardinality(scan.dead) \in Nat
<1> DEFINE v == x.deliveries[s]
           ready == ReadyAt(x, s)
           dead == PoisonedAt(x, s)
           leased == LeasedAt(x, s)
           holding == WaitingAt(x, s) \cup (ready \ dead)
           available == {p \in ready \ dead : ~KeyBlocked(x, s, p, leased, holding)}
           reached == {p \in ready : Cardinality({q \in available : q < p}) < max}
           scan == Scan(x, s, max)
<1>1. scan = [taken |-> available \cap reached, dead |-> dead \cap reached]
  BY DEF Scan
<1>2. scan.taken = available \cap reached /\ scan.dead = dead \cap reached
  BY <1>1
<1>3. IsQueue(v, x.nextMessageId, x.nextAckId)
  BY DEF IsWhole, AreContents, AreDeliveries
<1>4. v.pushed \in Nat /\ DOMAIN v.at \subseteq 1..v.pushed /\ \A p \in DOMAIN v.at : v.at[p].lease \in Nat
  BY <1>3 DEF IsQueue, IsRecord
<1>5. /\ ready \subseteq DOMAIN v.at
      /\ \A p \in ready : ~v.at[p].acked /\ v.at[p].lease <= now /\ HasMessage(x, s, p)
  BY <1>4 DEF ReadyAt, LeasedAt, Unacked, RecordAt, InForce
<1>6. dead \subseteq ready /\ (dead # {} => DeadLetterTarget(x, s) # NoValue)
  BY DEF PoisonedAt
<1> HIDE DEF ready, dead, leased, holding, scan
<1>7. available \subseteq ready /\ available \cap dead = {}
  OBVIOUS
<1>8. \A p \in scan.taken : p \in available /\ Cardinality({q \in available : q < p}) < max
  BY <1>2
<1> HIDE DEF available, reached
<1>9. scan.taken \subseteq available
  BY <1>2
<1>10. available \in SUBSET (1..v.pushed)
  BY <1>4, <1>5, <1>7
<1>11. Cardinality(scan.taken) <= max
  BY <1>4, <1>8, <1>9, <1>10, FirstOnes
<1>12. scan.taken \in SUBSET (1..v.pushed) /\ scan.dead \in SUBSET (1..v.pushed)
  BY <1>2, <1>4, <1>5, <1>6, <1>9, <1>10
<1>13. IsFiniteSet(scan.taken) /\ Cardinality(scan.taken) \in Nat /\ Cardinality(scan.dead) \in Nat
  BY <1>4, <1>12, PositionsFinite
<1>14. /\ scan.taken \subseteq DOMAIN v.at /\ scan.dead \subseteq DOMAIN v.at
       /\ scan.taken \cap scan.dead = {}
       /\ \A p \in scan.taken \cup scan.dead :
            ~v.at[p].acked /\ v.at[p].lease <= now /\ HasMessage(x, s, p)
       /\ scan.dead # {} => DeadLetterTarget(x, s) # NoValue
  BY <1>2, <1>5, <1>6, <1>7, <1>9
<1> QED
  BY <1>11, <1>13, <1>14 DEF scan, v

\* An ack id.
AckId(id, c) == <<id, c>>

\* A record that was taken has a new ack id and a lease.
LEMMA TakenRecord ==
  ASSUME NEW x, NEW s, NEW scan, NEW deadline \in Nat, now \in Nat, now # 0, NEW p,
         NEW top \in Nat, NEW acks \in Nat, x.nextAckId = acks,
         NEW r, r = RecordAt(x, s, p), IsRecord(r, top, acks), ~r.acked,
         NEW n \in Nat, Rank(p, scan.taken) \in 1..n
  PROVE  LET q == Taken(x, s, scan, deadline, p) IN
         /\ IsRecord(q, top, acks + n)
         /\ q.message = r.message /\ ~q.acked /\ q.lease = now + deadline
         /\ q.ack = AckId(r.message, acks + Rank(p, scan.taken))
<1> DEFINE q == Taken(x, s, scan, deadline, p)
           a == <<r.message, acks + Rank(p, scan.taken)>>
<1>1. q = [[[[r EXCEPT !.ack = a] EXCEPT !.lease = now + deadline] EXCEPT !.next = 0]
             EXCEPT !.attempt = r.attempt + 1]
  BY DEF Taken, IsRecord, RecordFields
<1> HIDE DEF a
<1>2. /\ q = [f \in RecordFields |-> q[f]] /\ q.message = r.message /\ q.acked = r.acked
      /\ q.ack = a /\ q.lease = now + deadline
  BY <1>1 DEF IsRecord, RecordFields
<1> HIDE DEF q
<1>3. q.message \in 1..top /\ q.lease \in Nat /\ q.lease # 0
  BY <1>2 DEF IsRecord
<1>4. q.acked \in BOOLEAN
  BY <1>2, Zenon DEF IsRecord
<1>5. PICK c \in 1..(acks + n) : c = acks + Rank(p, scan.taken)
  OBVIOUS
<1>6. \E e \in 1..(acks + n) : q.ack = <<q.message, e>>
  BY <1>2, <1>5 DEF a
<1>7. IsRecord(q, top, acks + n)
  BY <1>2, <1>3, <1>4, <1>6, Zenon DEF IsRecord
<1> QED
  BY <1>2, <1>7 DEF q, a, AckId

\* A released record has no lease.
LEMMA ReleasedRecord ==
  ASSUME NEW r, NEW top, NEW acks, IsRecord(r, top, acks)
  PROVE  LET q == Released(r) IN
         /\ IsRecord(q, top, acks)
         /\ q.message = r.message /\ q.acked = r.acked /\ q.ack = NoAck /\ q.lease = 0
<1> DEFINE q == Released(r)
<1>1. q = [[[r EXCEPT !.ack = NoAck] EXCEPT !.lease = 0] EXCEPT !.next = 0]
  BY DEF Released
<1>2. /\ q = [f \in RecordFields |-> q[f]] /\ q.message = r.message /\ q.acked = r.acked
      /\ q.ack = NoAck /\ q.lease = 0
  BY <1>1 DEF IsRecord, RecordFields
<1> HIDE DEF q
<1>3. q.message \in 1..top /\ q.lease \in Nat
  BY <1>2 DEF IsRecord
<1>4. q.acked \in BOOLEAN
  BY <1>2, Zenon DEF IsRecord
<1>5. IsRecord(q, top, acks)
  BY <1>2, <1>3, <1>4, Zenon DEF IsRecord
<1> QED
  BY <1>2, <1>5 DEF q

\* An acknowledged record has none either.
AckedOf(r) == [Released(r) EXCEPT !.acked = TRUE]

\* An acknowledged record is a record of the same message.
LEMMA AckedRecord ==
  ASSUME NEW r, NEW top, NEW acks, IsRecord(r, top, acks)
  PROVE  LET q == AckedOf(r) IN
         IsRecord(q, top, acks) /\ q.message = r.message /\ q.acked
<1> DEFINE q == AckedOf(r)
<1>1. PICK z : z = Released(r)
  OBVIOUS
<1>2. IsRecord(z, top, acks) /\ z.message = r.message /\ z.ack = NoAck /\ z.lease = 0
  BY <1>1, ReleasedRecord
<1>3. q = [z EXCEPT !.acked = TRUE]
  BY <1>1 DEF AckedOf
<1>4. q = [f \in RecordFields |-> q[f]] /\ q.message = z.message /\ q.ack = z.ack /\ q.lease = z.lease
  BY <1>2, <1>3 DEF IsRecord, RecordFields
<1>5. q.acked = TRUE
  BY <1>2, <1>3 DEF IsRecord, RecordFields
<1> HIDE DEF q
<1>6. q.message \in 1..top /\ q.lease \in Nat
  BY <1>2, <1>4 DEF IsRecord
<1>7. q.acked \in BOOLEAN /\ q.ack = NoAck
  BY <1>2, <1>4, <1>5, Zenon
<1>8. IsRecord(q, top, acks)
  BY <1>4, <1>5, <1>6, <1>7, Zenon DEF IsRecord
<1> QED
  BY <1>2, <1>4, <1>5, <1>8 DEF q

-----------------------------------------------------------------------------
(***************************************************************************)
(* What clients were told.                                                 *)
(***************************************************************************)

\* Nobody has a lease in e that was not one in d.
NoNewLeases(d, e, time) ==
  \A s \in SubscriptionNames : LeasedAcks(e[s], time) \subseteq LeasedAcks(d[s], time)

\* Clients keep what they were told when deliveries only calm down.
LEMMA ToldCalm ==
  ASSUME NEW top \in Nat, NEW acks \in Nat, NEW top2 \in Nat, NEW acks2 \in Nat,
         top <= top2, acks <= acks2, NEW time \in Nat, NEW d, NEW e, AllCalm(d, e, top, time),
         AreDeliveries(d, top, acks), NEW giv, NEW pub, NEW prom, ArePromises(prom),
         Told(d, top, acks, time, giv, pub, prom)
  PROVE  Told(e, top2, acks2, time, giv, pub, prom)
<1>1. IdsBehind(top2, acks2, giv, pub, prom)
  <2>1. 1..top \subseteq 1..top2 /\ 1..acks \subseteq 1..acks2
    OBVIOUS
  <2> QED
    BY <2>1 DEF Told, IdsBehind
<1>2. LeasesStand(e, time, prom)
  <2> SUFFICES ASSUME NEW k \in DOMAIN prom, prom[k] > time, NEW p \in DOMAIN e[k[1]].at,
                      ~e[k[1]].at[p].acked, e[k[1]].at[p].message = k[2]
               PROVE  e[k[1]].at[p].lease >= prom[k]
    BY DEF LeasesStand
  <2>1. PICK s \in SubscriptionNames : s = k[1]
    BY DEF ArePromises
  <2>2. prom[k] \in Nat /\ k[2] \in 1..top
    BY DEF ArePromises, Told, IdsBehind
  <2>3. p \in DOMAIN d[s].at /\ Calmer(d[s].at[p], e[s].at[p], time)
    BY <2>1, <2>2 DEF AllCalm, Calm, IsNew
  <2>4. d[s].at[p].lease \in Nat
    BY <2>3 DEF AreDeliveries, IsQueue, IsRecord
  <2>5. ~d[s].at[p].acked /\ d[s].at[p].message = k[2]
    BY <2>1, <2>3 DEF Calmer
  <2>6. d[s].at[p].lease >= prom[k]
    BY <2>1, <2>3, <2>5 DEF Told, LeasesStand
  <2> QED
    BY <2>1, <2>2, <2>3, <2>4, <2>6 DEF Calmer
<1> QED
  BY <1>1, <1>2 DEF Told

\* Clients that were told less keep it.
LEMMA ToldLess ==
  ASSUME NEW d, NEW top, NEW acks, NEW time \in Nat, NEW giv, NEW pub, NEW prom, NEW prom2,
         Told(d, top, acks, time, giv, pub, prom), ArePromises(prom), AreDeliveries(d, top, acks),
         DOMAIN prom2 \subseteq DOMAIN prom,
         \A k \in DOMAIN prom2 : prom2[k] \in Nat /\ prom2[k] <= prom[k]
  PROVE  Told(d, top, acks, time, giv, pub, prom2)
<1>1. IdsBehind(top, acks, giv, pub, prom2)
  BY DEF Told, IdsBehind
<1>2. LeasesStand(d, time, prom2)
  <2> SUFFICES ASSUME NEW k \in DOMAIN prom2, prom2[k] > time, NEW p \in DOMAIN d[k[1]].at,
                      ~d[k[1]].at[p].acked, d[k[1]].at[p].message = k[2]
               PROVE  d[k[1]].at[p].lease >= prom2[k]
    BY DEF LeasesStand
  <2>1. prom[k] \in Nat /\ k[1] \in SubscriptionNames /\ prom2[k] \in Nat /\ prom2[k] <= prom[k]
    BY DEF ArePromises
  <2>2. d[k[1]].at[p].lease \in Nat
    BY <2>1 DEF AreDeliveries, IsQueue, IsRecord
  <2>3. d[k[1]].at[p].lease >= prom[k]
    BY <2>1 DEF Told, LeasesStand
  <2> QED
    BY <2>1, <2>2, <2>3
<1> QED
  BY <1>1, <1>2 DEF Told

\* Deliveries that calm down have no new leases.
LEMMA CalmQuiet ==
  ASSUME NEW d, NEW e, NEW top, NEW time \in Nat, AllCalm(d, e, top, time)
  PROVE  NoNewLeases(d, e, time)
<1> SUFFICES ASSUME NEW s \in SubscriptionNames, NEW p \in DOMAIN e[s].at,
                    ~e[s].at[p].acked, e[s].at[p].lease > time
             PROVE  e[s].at[p].ack \in LeasedAcks(d[s], time)
  BY DEF NoNewLeases, LeasedAcks
<1>1. ~IsNew(e[s].at[p], top) /\ e[s].at[p].lease # 0
  BY DEF IsNew
<1>2. p \in DOMAIN d[s].at /\ Calmer(d[s].at[p], e[s].at[p], time)
  BY <1>1 DEF AllCalm, Calm
<1>3. ~d[s].at[p].acked /\ d[s].at[p].lease = e[s].at[p].lease /\ d[s].at[p].ack = e[s].at[p].ack
  BY <1>1, <1>2 DEF Calmer
<1> QED
  BY <1>2, <1>3 DEF LeasedAcks

\* Streams stay within their limits when there are no new leases.
LEMMA StreamsQuiet ==
  ASSUME NEW w, NEW z, NEW d, NEW e, NEW time, NEW giv, NEW giv2, giv \subseteq giv2,
         AreStreams(w, z, d, time, giv), NoNewLeases(d, e, time)
  PROVE  AreStreams(w, z, e, time, giv2)
<1> SUFFICES ASSUME NEW t \in Streams, z[t] # NoValue
             PROVE  IsStream(w, z[t], e, time, giv2)
  BY DEF AreStreams
<1>1. PICK c : c = z[t]
  OBVIOUS
<1>2. IsStream(w, c, d, time, giv)
  BY <1>1 DEF AreStreams
<1>3. LeasedAcks(e[c.subscription], time) \subseteq LeasedAcks(d[c.subscription], time)
  BY <1>2 DEF NoNewLeases, IsStream
<1>4. LeasedAcks(e[c.subscription], time) \cap c.sent \subseteq c.outstanding
  BY <1>2, <1>3 DEF IsStream
<1>5. c.sent \subseteq giv2
  BY <1>2 DEF IsStream
<1> QED
  BY <1>1, <1>2, <1>4, <1>5 DEF IsStream

\* Without streams there is nothing to keep.
LEMMA NoneSound ==
  ASSUME NEW w, NEW d, NEW time, NEW giv
  PROVE  AreStreams(w, NoStreams, d, time, giv)
BY DEF AreStreams, NoStreams

-----------------------------------------------------------------------------
(***************************************************************************)
(* Saving.                                                                 *)
(***************************************************************************)

\* Server y is x with the messages m, its dirty flags apart.
Settled(y, x, m) ==
  /\ IsServer(y)
  /\ y.topics = x.topics /\ y.subscriptions = x.subscriptions /\ y.snapshots = x.snapshots
  /\ y.deliveries = x.deliveries /\ y.messages = m
  /\ y.nextMessageId = x.nextMessageId /\ y.nextAckId = x.nextAckId

\* Server y is z, with the fields of `back` put back.
Restored(y, z, back) ==
  /\ IsServer(y)
  /\ \A f \in ServerFields : y[f] = IF f \in DOMAIN back THEN back[f] ELSE z[f]

\* Some of the messages m, as they are.
SomeOf(n, m) == DOMAIN n \subseteq DOMAIN m /\ \A id \in DOMAIN n : n[id] = m[id]

\* pubsub.json of a server with the messages m.
SavedState(x, m) ==
  [messages |-> m, deliveries |-> x.deliveries, nextMessageId |-> x.nextMessageId, nextAckId |-> x.nextAckId]

\* What persist() does with the files and the server.
LEMMA PersistEnds ==
  ASSUME NEW outcome, outcome \in Outcomes, NEW x, NEW top, IsWhole(workload, x, top), NEW back,
         Persist(outcome, x, back)
  PROVE  \E m, y :
           /\ AreMessages(m, x.nextMessageId) /\ SomeOf(m, x.messages)
           /\ Settled(y, x, m)
           /\ up' = ~Killed(outcome)
           /\ Killed(outcome) => server' = Blank
           /\ Failed(outcome) => Restored(server', y, back)
           /\ outcome = "saved" => server' = y
           /\ resourceFile' = resourceFile \/ resourceFile' = ResourcesOf(x)
           /\ ~(x.messagesDirty /\ outcome \in {"saved", "killed"}) => messageFile' = messageFile
           /\ x.messagesDirty /\ outcome \in {"saved", "killed"} => messageFile' = SavedState(x, m)
<1>1. PICK ready : /\ ready = IF x.messagesDirty THEN Pruned(x) ELSE x
                   /\ Persist(outcome, x, back)
  OBVIOUS
<1> DEFINE resources == ready.resourceDirty /\ outcome # "failed"
           state == ready.messagesDirty /\ outcome \in {"saved", "killed"}
           after == [ready EXCEPT !.resourceDirty = @ /\ ~resources, !.messagesDirty = @ /\ ~state]
<1>2. /\ resourceFile' = IF resources THEN ResourcesOf(ready) ELSE resourceFile
      /\ messageFile' = IF state THEN MessagesOf(ready) ELSE messageFile
      /\ up' = ~Killed(outcome)
      /\ server' = CASE Killed(outcome)    -> Blank
                     [] Failed(outcome)    -> PutBack(after, back)
                     [] outcome = "saved"  -> after
  BY <1>1 DEF Persist, The
<1>3. IsServer(x) /\ AreMessages(x.messages, x.nextMessageId)
  BY DEF IsWhole, AreContents
<1>4. /\ IsServer(ready) /\ (ready.messagesDirty <=> x.messagesDirty)
      /\ ready.topics = x.topics /\ ready.subscriptions = x.subscriptions /\ ready.snapshots = x.snapshots
      /\ ready.deliveries = x.deliveries
      /\ ready.nextMessageId = x.nextMessageId /\ ready.nextAckId = x.nextAckId
      /\ AreMessages(ready.messages, x.nextMessageId) /\ SomeOf(ready.messages, x.messages)
  <2>1. CASE ~x.messagesDirty
    BY <1>1, <1>3, <2>1 DEF SomeOf
  <2>2. CASE x.messagesDirty
    <3>1. /\ IsServer(ready)
          /\ \A f \in ServerFields \ {"messages", "messagesDirty"} : ready[f] = x[f]
          /\ ready.messages = Restrict(x.messages, DOMAIN x.messages \cap Referenced(x))
          /\ x.messagesDirty => ready.messagesDirty
      BY <1>1, <1>3, <2>2, PrunedFields
    <3>2. AreMessages(ready.messages, x.nextMessageId) /\ SomeOf(ready.messages, x.messages)
      BY <1>3, <3>1, RestrictedMessages DEF SomeOf
    <3> QED
      BY <2>2, <3>1, <3>2 DEF ServerFields
  <2> QED
    BY <2>1, <2>2
<1>5. PICK a, b : a = (ready.resourceDirty /\ ~resources) /\ b = (ready.messagesDirty /\ ~state)
  OBVIOUS
<1>6. after = [[ready EXCEPT !.resourceDirty = a] EXCEPT !.messagesDirty = b]
  BY <1>4, <1>5 DEF IsServer, ServerFields
<1>7. Settled(after, x, ready.messages)
  <2> HIDE DEF after, resources, state
  <2>1. /\ IsServer(after)
        /\ after.topics = ready.topics /\ after.subscriptions = ready.subscriptions
        /\ after.snapshots = ready.snapshots /\ after.deliveries = ready.deliveries
        /\ after.messages = ready.messages
        /\ after.nextMessageId = ready.nextMessageId /\ after.nextAckId = ready.nextAckId
    BY <1>4, <1>6 DEF IsServer, ServerFields
  <2> QED
    BY <1>4, <2>1 DEF Settled
<1>8. ResourcesOf(ready) = ResourcesOf(x)
  BY <1>4 DEF ResourcesOf
<1>9. MessagesOf(ready) = SavedState(x, ready.messages)
  BY <1>4 DEF MessagesOf, SavedState
<1>10. Restored(PutBack(after, back), after, back)
  <2> HIDE DEF after
  <2>1. DOMAIN after = ServerFields
    BY <1>7 DEF Settled, IsServer
  <2>2. PutBack(after, back) = [f \in ServerFields |-> IF f \in DOMAIN back THEN back[f] ELSE after[f]]
    BY <2>1 DEF PutBack
  <2> QED
    BY <2>2 DEF Restored, IsServer
<1> HIDE DEF after
<1>11. outcome = "saved" => ~Killed(outcome) /\ ~Failed(outcome)
  BY DEF Killed, Failed
<1>12. Failed(outcome) => ~Killed(outcome)
  BY DEF Killed, Failed
<1>13. /\ Killed(outcome) => server' = Blank
       /\ Failed(outcome) => server' = PutBack(after, back)
       /\ outcome = "saved" => server' = after
  BY <1>2, <1>11, <1>12
<1>14. /\ resourceFile' = resourceFile \/ resourceFile' = ResourcesOf(x)
       /\ ~(x.messagesDirty /\ outcome \in {"saved", "killed"}) => messageFile' = messageFile
       /\ x.messagesDirty /\ outcome \in {"saved", "killed"} => messageFile' = SavedState(x, ready.messages)
  BY <1>2, <1>4, <1>8, <1>9
<1> QED
  BY <1>2, <1>4, <1>7, <1>10, <1>13, <1>14

\* The fields a handler puts back belong together.
Coherent(back) ==
  /\ "nextMessageId" \in DOMAIN back => "messages" \in DOMAIN back /\ "deliveries" \in DOMAIN back
  /\ "nextAckId" \in DOMAIN back => "deliveries" \in DOMAIN back

Picked(back, f, b, x) == IF f \in DOMAIN back THEN b[f] ELSE x[f]

\* A server with some fields put back to those of an earlier one b is whole.
LEMMA RestoredWhole ==
  ASSUME NEW w, NEW top \in Nat, NEW x, IsWhole(w, x, top), NEW b, IsWhole(w, b, top),
         b.nextMessageId <= x.nextMessageId, b.nextAckId <= x.nextAckId,
         NEW m, AreMessages(m, x.nextMessageId), NEW z, Settled(z, x, m),
         NEW back, Coherent(back), \A f \in DOMAIN back : back[f] = b[f],
         NEW y, Restored(y, z, back)
  PROVE  /\ IsWhole(w, y, top)
         /\ y.deliveries = Picked(back, "deliveries", b, x)
         /\ y.nextMessageId = Picked(back, "nextMessageId", b, x)
         /\ y.nextAckId = Picked(back, "nextAckId", b, x)
<1>1. \A f \in ServerFields : y[f] = IF f \in DOMAIN back THEN b[f] ELSE z[f]
  BY DEF Restored
<1>2. /\ y.topics = Picked(back, "topics", b, x) /\ y.subscriptions = Picked(back, "subscriptions", b, x)
      /\ y.snapshots = Picked(back, "snapshots", b, x) /\ y.deliveries = Picked(back, "deliveries", b, x)
      /\ y.nextMessageId = Picked(back, "nextMessageId", b, x)
      /\ y.nextAckId = Picked(back, "nextAckId", b, x)
      /\ y.messages = IF "messages" \in DOMAIN back THEN b.messages ELSE m
  BY <1>1 DEF Settled, Picked, ServerFields
<1>3. /\ b.nextMessageId \in Nat /\ x.nextMessageId \in Nat /\ b.nextAckId \in Nat /\ x.nextAckId \in Nat
      /\ top <= b.nextMessageId /\ top <= x.nextMessageId
  BY DEF IsWhole, AreContents
<1>4. y.nextMessageId \in Nat /\ y.nextAckId \in Nat /\ top <= y.nextMessageId
  BY <1>2, <1>3 DEF Picked
<1>5. AreTopics(w, y.topics) /\ AreSubscriptions(w, y.subscriptions) /\ AreSnapshots(y.snapshots, top)
  BY <1>2 DEF Picked, IsWhole, AreResources
<1>6. AreMessages(y.messages, y.nextMessageId)
  <2>1. AreMessages(b.messages, b.nextMessageId) /\ AreMessages(b.messages, x.nextMessageId)
    <3>1. 1..b.nextMessageId \subseteq 1..x.nextMessageId
      BY <1>3
    <3> QED
      BY <3>1 DEF IsWhole, AreContents, AreMessages
  <2> QED
    BY <1>2, <2>1 DEF Coherent, Picked
<1>7. AreDeliveries(y.deliveries, y.nextMessageId, y.nextAckId)
  <2>1. /\ AreDeliveries(b.deliveries, b.nextMessageId, b.nextAckId)
        /\ AreDeliveries(x.deliveries, x.nextMessageId, x.nextAckId)
    BY DEF IsWhole, AreContents
  <2>2. /\ b.nextMessageId <= y.nextMessageId /\ b.nextAckId <= y.nextAckId
    BY <1>2, <1>3 DEF Picked
  <2>3. AreDeliveries(b.deliveries, y.nextMessageId, y.nextAckId)
    BY <1>3, <1>4, <2>1, <2>2, DeliveriesGrow
  <2>4. CASE "deliveries" \in DOMAIN back
    BY <1>2, <2>3, <2>4 DEF Picked
  <2>5. CASE "deliveries" \notin DOMAIN back
    BY <1>2, <2>1, <2>5 DEF Picked, Coherent
  <2> QED
    BY <2>4, <2>5
<1>8. IsWhole(w, y, top)
  BY <1>4, <1>5, <1>6, <1>7 DEF IsWhole, AreResources, AreContents, Restored
<1> QED
  BY <1>2, <1>8

\* A handler that saves keeps the invariant when what it has in memory, what it puts back to,
\* and what it leaves in the files all keep what clients are told.
LEMMA PersistStep ==
  ASSUME PubSubInv, up, workload' = workload, now' = now,
         NEW outcome, outcome \in Outcomes, NEW x, NEW b, NEW back, Persist(outcome, x, back),
         IsWhole(workload, x, messageFile.nextMessageId), IsWhole(workload, b, messageFile.nextMessageId),
         b.nextMessageId = server.nextMessageId, b.nextAckId = server.nextAckId,
         b.nextMessageId <= x.nextMessageId, b.nextAckId <= x.nextAckId,
         Coherent(back), \A f \in DOMAIN back : back[f] = b[f],
         x.nextMessageId = b.nextMessageId \/ (x.messagesDirty /\ "nextMessageId" \in DOMAIN back),
         ArePromises(promised'),
         ~(x.messagesDirty /\ outcome \in {"saved", "killed"}) =>
            Told(messageFile.deliveries, messageFile.nextMessageId, messageFile.nextAckId, now,
                 given', published', promised'),
         outcome \in {"saved", "killed"} \/ (Failed(outcome) /\ "deliveries" \notin DOMAIN back) =>
            Told(x.deliveries, x.nextMessageId, x.nextAckId, now, given', published', promised'),
         outcome = "saved" \/ (Failed(outcome) /\ "deliveries" \notin DOMAIN back) =>
            AreStreams(workload, streams', x.deliveries, now, given'),
         Failed(outcome) /\ "deliveries" \in DOMAIN back =>
            /\ Told(b.deliveries, b.nextMessageId, b.nextAckId, now, given', published', promised')
            /\ AreStreams(workload, streams', b.deliveries, now, given'),
         Killed(outcome) => streams' = NoStreams
  PROVE  PubSubInv'
<1> DEFINE T == messageFile.nextMessageId
<1>1. PICK m, y :
           /\ AreMessages(m, x.nextMessageId) /\ SomeOf(m, x.messages)
           /\ Settled(y, x, m)
           /\ up' = ~Killed(outcome)
           /\ Killed(outcome) => server' = Blank
           /\ Failed(outcome) => Restored(server', y, back)
           /\ outcome = "saved" => server' = y
           /\ resourceFile' = resourceFile \/ resourceFile' = ResourcesOf(x)
           /\ ~(x.messagesDirty /\ outcome \in {"saved", "killed"}) => messageFile' = messageFile
           /\ x.messagesDirty /\ outcome \in {"saved", "killed"} => messageFile' = SavedState(x, m)
  BY PersistEnds
<1>2. /\ FilesSound(workload, resourceFile, messageFile, now, given, published, promised)
      /\ ServerSound(workload, server, T, streams, now, given, published, promised)
      /\ T \in Nat /\ server.nextMessageId \in Nat /\ server.nextAckId \in Nat
      /\ x.nextMessageId \in Nat /\ x.nextAckId \in Nat /\ T <= x.nextMessageId
  BY DEF PubSubInv, FilesSound, ServerSound, IsWhole, AreContents
<1> HIDE DEF T
<1>3. /\ messageFile' = [f \in {"messages", "deliveries", "nextMessageId", "nextAckId"} |-> messageFile'[f]]
      /\ AreContents(messageFile'.messages, messageFile'.deliveries, messageFile'.nextMessageId,
                     messageFile'.nextAckId)
      /\ Told(messageFile'.deliveries, messageFile'.nextMessageId, messageFile'.nextAckId, now,
              given', published', promised')
      /\ T <= messageFile'.nextMessageId
  <2>1. CASE ~(x.messagesDirty /\ outcome \in {"saved", "killed"})
    BY <1>1, <1>2, <2>1 DEF FilesSound, T
  <2>2. CASE x.messagesDirty /\ outcome \in {"saved", "killed"}
    <3>1. messageFile' = SavedState(x, m)
      BY <1>1, <2>2
    <3>2. /\ messageFile' = [f \in {"messages", "deliveries", "nextMessageId", "nextAckId"} |-> messageFile'[f]]
          /\ messageFile'.messages = m /\ messageFile'.deliveries = x.deliveries
          /\ messageFile'.nextMessageId = x.nextMessageId /\ messageFile'.nextAckId = x.nextAckId
      BY <3>1 DEF SavedState
    <3>3. AreContents(m, x.deliveries, x.nextMessageId, x.nextAckId)
      BY <1>1 DEF IsWhole, AreContents
    <3> QED
      BY <1>2, <2>2, <3>2, <3>3
  <2> QED
    BY <2>1, <2>2
<1>4. messageFile'.nextMessageId \in Nat
  BY <1>3 DEF AreContents
<1>5. AreResources(workload, x.topics, x.subscriptions, x.snapshots, messageFile'.nextMessageId)
  BY <1>2, <1>3, <1>4, SnapshotsGrow DEF IsWhole, AreResources, T
<1>6. /\ resourceFile' = [f \in {"topics", "subscriptions", "snapshots"} |-> resourceFile'[f]]
      /\ AreResources(workload, resourceFile'.topics, resourceFile'.subscriptions, resourceFile'.snapshots,
                      messageFile'.nextMessageId)
  <2>1. CASE resourceFile' = resourceFile
    <3>1. AreResources(workload, resourceFile.topics, resourceFile.subscriptions, resourceFile.snapshots,
                       messageFile'.nextMessageId)
      BY <1>2, <1>3, <1>4, SnapshotsGrow DEF FilesSound, AreResources, T
    <3> QED
      BY <1>2, <2>1, <3>1 DEF FilesSound
  <2>2. CASE resourceFile' = ResourcesOf(x)
    <3>1. /\ resourceFile' = [f \in {"topics", "subscriptions", "snapshots"} |-> resourceFile'[f]]
          /\ resourceFile'.topics = x.topics /\ resourceFile'.subscriptions = x.subscriptions
          /\ resourceFile'.snapshots = x.snapshots
      BY <2>2 DEF ResourcesOf
    <3> QED
      BY <1>5, <3>1
  <2> QED
    BY <1>1, <2>1, <2>2
<1>7. FilesSound(workload, resourceFile', messageFile', now, given', published', promised')
  BY <1>3, <1>6 DEF FilesSound
<1>8. CASE Killed(outcome)
  BY <1>1, <1>7, <1>8 DEF PubSubInv
<1>9. CASE Failed(outcome)
  <2>1. Restored(server', y, back) /\ messageFile' = messageFile
    BY <1>1, <1>9 DEF Failed
  <2>2. /\ IsWhole(workload, server', T)
        /\ server'.deliveries = Picked(back, "deliveries", b, x)
        /\ server'.nextMessageId = Picked(back, "nextMessageId", b, x)
        /\ server'.nextAckId = Picked(back, "nextAckId", b, x)
    BY <1>1, <1>2, <2>1, RestoredWhole DEF T
  <2>3. Captures(workload) => server'.nextMessageId <= T
    BY <1>2, <2>2 DEF Picked, ServerSound
  <2>4. /\ Told(server'.deliveries, server'.nextMessageId, server'.nextAckId, now, given', published', promised')
        /\ AreStreams(workload, streams', server'.deliveries, now, given')
    <3>1. CASE "deliveries" \notin DOMAIN back
      <4>1. /\ server'.deliveries = x.deliveries /\ server'.nextMessageId = x.nextMessageId
            /\ server'.nextAckId = x.nextAckId
        BY <2>2, <3>1 DEF Picked, Coherent
      <4> QED
        BY <1>9, <3>1, <4>1
    <3>2. CASE "deliveries" \in DOMAIN back
      <4>1. /\ Told(b.deliveries, b.nextMessageId, b.nextAckId, now, given', published', promised')
            /\ AreStreams(workload, streams', b.deliveries, now, given')
        BY <1>9, <3>2
      <4>2. /\ server'.deliveries = b.deliveries /\ server'.nextMessageId \in Nat /\ server'.nextAckId \in Nat
            /\ b.nextMessageId <= server'.nextMessageId /\ b.nextAckId <= server'.nextAckId
        BY <1>2, <2>2, <3>2 DEF Picked
      <4>3. AreDeliveries(b.deliveries, b.nextMessageId, b.nextAckId)
        BY DEF IsWhole, AreContents
      <4>4. now \in Nat
        BY DEF PubSubInv
      <4>5. Told(b.deliveries, server'.nextMessageId, server'.nextAckId, now, given', published', promised')
        <5>1. AllCalm(b.deliveries, b.deliveries, b.nextMessageId, now)
          BY CalmSame
        <5>2. b.nextMessageId \in Nat /\ b.nextAckId \in Nat
          BY <1>2
        <5>3. ArePromises(promised')
          OBVIOUS
        <5> QED
          BY ONLY <4>1, <4>2, <4>3, <4>4, <5>1, <5>2, <5>3, ToldCalm
      <4> QED
        BY <4>1, <4>2, <4>5
    <3> QED
      BY <3>1, <3>2
  <2>5. up' = TRUE
    BY <1>1, <1>9 DEF Killed, Failed
  <2>6. ServerSound(workload, server', messageFile'.nextMessageId, streams', now, given', published', promised')
    BY <2>1, <2>2, <2>3, <2>4 DEF ServerSound, T
  <2> QED
    BY <1>7, <2>5, <2>6 DEF PubSubInv
<1>10. CASE outcome = "saved"
  <2>1. server' = y /\ up' = TRUE
    BY <1>1, <1>10 DEF Killed
  <2>2. Captures(workload) => x.nextMessageId <= messageFile'.nextMessageId
    <3>1. CASE x.messagesDirty
      BY <1>1, <1>10, <1>2, <3>1 DEF SavedState
    <3>2. CASE ~x.messagesDirty
      BY <1>1, <1>10, <1>2, <3>2 DEF ServerSound, T
    <3> QED
      BY <3>1, <3>2
  <2>3. messageFile'.nextMessageId <= x.nextMessageId
    <3>1. CASE x.messagesDirty
      BY <1>1, <1>10, <1>2, <3>1 DEF SavedState
    <3>2. CASE ~x.messagesDirty
      BY <1>1, <1>10, <1>2, <3>2 DEF T
    <3> QED
      BY <3>1, <3>2
  <2>4. AreContents(m, x.deliveries, x.nextMessageId, x.nextAckId)
    BY <1>1 DEF IsWhole, AreContents
  <2>5. IsWhole(workload, y, messageFile'.nextMessageId)
    BY <1>1, <1>5, <2>3, <2>4 DEF IsWhole, Settled
  <2>6. /\ Told(x.deliveries, x.nextMessageId, x.nextAckId, now, given', published', promised')
        /\ AreStreams(workload, streams', x.deliveries, now, given')
    BY <1>10
  <2>7. ServerSound(workload, y, messageFile'.nextMessageId, streams', now, given', published', promised')
    BY <1>1, <2>2, <2>5, <2>6 DEF ServerSound, Settled
  <2> QED
    BY <1>7, <2>1, <2>7 DEF PubSubInv
<1>11. Killed(outcome) \/ Failed(outcome) \/ outcome = "saved"
  <2>1. workload.faults \subseteq {"failed", "half", "halfKilled"}
    BY ConstantsAssumption DEF PubSubInv
  <2> QED
    BY <2>1 DEF Outcomes, Killed, Failed
<1> QED
  BY <1>8, <1>9, <1>10, <1>11

\* What the invariant says of a running server.
LEMMA Running ==
  ASSUME PubSubInv, up
  PROVE  /\ workload \in Workloads /\ now \in Nat /\ now # 0 /\ ArePromises(promised)
         /\ messageFile.nextMessageId \in Nat /\ messageFile.nextAckId \in Nat
         /\ server.nextMessageId \in Nat /\ server.nextAckId \in Nat
         /\ messageFile.nextMessageId <= server.nextMessageId
         /\ IsWhole(workload, server, messageFile.nextMessageId)
         /\ AreDeliveries(server.deliveries, server.nextMessageId, server.nextAckId)
         /\ Told(server.deliveries, server.nextMessageId, server.nextAckId, now, given, published, promised)
         /\ AreDeliveries(messageFile.deliveries, messageFile.nextMessageId, messageFile.nextAckId)
         /\ Told(messageFile.deliveries, messageFile.nextMessageId, messageFile.nextAckId, now,
                 given, published, promised)
         /\ AreStreams(workload, streams, server.deliveries, now, given)
         /\ Captures(workload) => server.nextMessageId <= messageFile.nextMessageId
BY DEF PubSubInv, ServerSound, FilesSound, IsWhole, AreContents

\* Promises that are not broken are as they were.
Fewer(prom2, prom) ==
  ArePromises(prom2) /\ DOMAIN prom2 \subseteq DOMAIN prom /\ \A k \in DOMAIN prom2 : prom2[k] = prom[k]

\* Dropping promises leaves the others as they were.
LEMMA FewerPromises ==
  ASSUME NEW prom, ArePromises(prom), NEW S
  PROVE  Fewer(Without(prom, S), prom) /\ Fewer(prom, prom)
<1>1. Without(prom, S) = [k \in DOMAIN prom \ S |-> prom[k]]
  BY DEF Without, Restrict
<1> QED
  BY <1>1 DEF ArePromises, IsFunction, Fewer

\* Deliveries that calmed down keep what clients were told and still rely on.
LEMMA CalmTold ==
  ASSUME PubSubInv, up, NEW e, NEW top \in Nat, NEW acks \in Nat,
         server.nextMessageId <= top, server.nextAckId <= acks, AreDeliveries(e, top, acks),
         AllCalm(server.deliveries, e, server.nextMessageId, now), NEW prom, Fewer(prom, promised)
  PROVE  /\ Told(e, top, acks, now, given, published, prom)
         /\ AreStreams(workload, streams, e, now, given)
<1>1. Told(e, top, acks, now, given, published, promised)
  BY Running, ToldCalm
<1>2. \A k \in DOMAIN prom : prom[k] \in Nat /\ prom[k] <= promised[k]
  BY DEF Fewer, ArePromises
<1>3. Told(e, top, acks, now, given, published, prom)
  BY <1>1, <1>2, Running, ToldLess DEF Fewer
<1>4. NoNewLeases(server.deliveries, e, now)
  BY Running, CalmQuiet
<1>5. AreStreams(workload, streams, e, now, given)
  BY <1>4, Running, StreamsQuiet
<1> QED
  BY <1>3, <1>5

\* So does pubsub.json.
LEMMA FileTold ==
  ASSUME PubSubInv, up, NEW prom, Fewer(prom, promised)
  PROVE  Told(messageFile.deliveries, messageFile.nextMessageId, messageFile.nextAckId, now,
              given, published, prom)
<1>1. \A k \in DOMAIN prom : prom[k] \in Nat /\ prom[k] <= promised[k]
  BY DEF Fewer, ArePromises
<1> QED
  BY <1>1, Running, ToldLess DEF Fewer

\* A handler that gives nothing out and after which deliveries have calmed down, also when
\* its changes are undone.
LEMMA CalmStep ==
  ASSUME PubSubInv, up, workload' = workload, now' = now, given' = given, published' = published,
         Fewer(promised', promised),
         NEW outcome, outcome \in Outcomes, NEW x, NEW b, NEW back, Finish(outcome, x, back),
         IsWhole(workload, x, messageFile.nextMessageId), IsWhole(workload, b, messageFile.nextMessageId),
         b.nextMessageId = server.nextMessageId, b.nextAckId = server.nextAckId,
         b.nextMessageId <= x.nextMessageId, b.nextAckId <= x.nextAckId,
         Coherent(back), \A f \in DOMAIN back : back[f] = b[f],
         x.nextMessageId = b.nextMessageId \/ (x.messagesDirty /\ "nextMessageId" \in DOMAIN back),
         AllCalm(server.deliveries, x.deliveries, server.nextMessageId, now),
         AllCalm(server.deliveries, b.deliveries, server.nextMessageId, now)
  PROVE  PubSubInv'
<1>1. Persist(outcome, x, back) /\ (Killed(outcome) => streams' = NoStreams)
      /\ (~Killed(outcome) => streams' = streams)
  BY DEF Finish, StreamsAfter, NoStreams
<1>2. /\ Told(x.deliveries, x.nextMessageId, x.nextAckId, now, given', published', promised')
      /\ AreStreams(workload, streams, x.deliveries, now, given')
  BY CalmTold DEF IsWhole, AreContents
<1>3. /\ Told(b.deliveries, b.nextMessageId, b.nextAckId, now, given', published', promised')
      /\ AreStreams(workload, streams, b.deliveries, now, given')
  BY Running, CalmTold DEF IsWhole, AreContents
<1>4. Told(messageFile.deliveries, messageFile.nextMessageId, messageFile.nextAckId, now,
           given', published', promised')
  BY FileTold
<1>5. Failed(outcome) \/ outcome = "saved" => streams' = streams
  BY <1>1 DEF Failed, Killed
<1>6. ArePromises(promised')
  BY DEF Fewer
<1> QED
  BY <1>1, <1>2, <1>3, <1>4, <1>5, <1>6, PersistStep

-----------------------------------------------------------------------------
(***************************************************************************)
(* Handlers of topics, subscriptions and snapshots.                        *)
(***************************************************************************)

\* Server y has the messages and the deliveries of x.
SameContents(y, x) ==
  /\ IsServer(y) /\ y.messages = x.messages /\ y.deliveries = x.deliveries
  /\ y.nextMessageId = x.nextMessageId /\ y.nextAckId = x.nextAckId

\* A handler that changes resources only.
LEMMA ChangeStep ==
  ASSUME PubSubInv, workload' = workload, NEW x, NEW back, Change(x, back), SameContents(x, server),
         up => AreResources(workload, x.topics, x.subscriptions, x.snapshots, messageFile.nextMessageId),
         Coherent(back), \A f \in DOMAIN back : back[f] = server[f]
  PROVE  PubSubInv'
<1>1. PICK outcome \in Outcomes : Finish(outcome, x, back)
  BY DEF Change
<1>2. /\ up /\ now' = now /\ given' = given /\ published' = published /\ promised' = promised
  BY DEF Change, historyVars
<1>3. Fewer(promised', promised)
  BY <1>2, Running, FewerPromises
<1>4. IsWhole(workload, x, messageFile.nextMessageId)
  BY <1>2, Running DEF SameContents, IsWhole
<1>5. AllCalm(server.deliveries, server.deliveries, server.nextMessageId, now)
  BY CalmSame
<1>6. /\ x.nextMessageId = server.nextMessageId /\ x.nextAckId = server.nextAckId
      /\ x.deliveries = server.deliveries
  BY DEF SameContents
<1>7. IsWhole(workload, server, messageFile.nextMessageId) /\ server.nextMessageId \in Nat /\ server.nextAckId \in Nat
  BY <1>2, Running
<1> QED
  BY <1>1, <1>2, <1>3, <1>4, <1>5, <1>6, <1>7, CalmStep

\* The resources of the running server.
LEMMA ResourcesSound ==
  ASSUME PubSubInv, up
  PROVE  /\ AreTopics(workload, server.topics) /\ AreSubscriptions(workload, server.subscriptions)
         /\ AreSnapshots(server.snapshots, messageFile.nextMessageId) /\ IsServer(server)
BY Running DEF IsWhole, AreResources

\* A server with other topics and subscriptions, or other snapshots.
WithTopics(x, t) == [x EXCEPT !.topics = t, !.resourceDirty = TRUE]
WithSubscriptions(x, u) == [x EXCEPT !.subscriptions = u, !.resourceDirty = TRUE]
WithBoth(x, t, u) == [x EXCEPT !.topics = t, !.subscriptions = u, !.resourceDirty = TRUE]
WithSnapshots(x, n) == [x EXCEPT !.snapshots = n, !.resourceDirty = TRUE]

\* Only those fields change.
LEMMA ResourceFields ==
  ASSUME NEW x, IsServer(x), NEW t, NEW u, NEW n
  PROVE  /\ SameContents(WithTopics(x, t), x) /\ WithTopics(x, t).topics = t
         /\ WithTopics(x, t).subscriptions = x.subscriptions /\ WithTopics(x, t).snapshots = x.snapshots
         /\ SameContents(WithSubscriptions(x, u), x) /\ WithSubscriptions(x, u).topics = x.topics
         /\ WithSubscriptions(x, u).subscriptions = u /\ WithSubscriptions(x, u).snapshots = x.snapshots
         /\ SameContents(WithBoth(x, t, u), x) /\ WithBoth(x, t, u).topics = t
         /\ WithBoth(x, t, u).subscriptions = u /\ WithBoth(x, t, u).snapshots = x.snapshots
         /\ SameContents(WithSnapshots(x, n), x) /\ WithSnapshots(x, n).topics = x.topics
         /\ WithSnapshots(x, n).subscriptions = x.subscriptions /\ WithSnapshots(x, n).snapshots = n
<1>1. /\ WithTopics(x, t) = [[x EXCEPT !.topics = t] EXCEPT !.resourceDirty = TRUE]
      /\ WithSubscriptions(x, u) = [[x EXCEPT !.subscriptions = u] EXCEPT !.resourceDirty = TRUE]
      /\ WithBoth(x, t, u) = [[[x EXCEPT !.topics = t] EXCEPT !.subscriptions = u] EXCEPT !.resourceDirty = TRUE]
      /\ WithSnapshots(x, n) = [[x EXCEPT !.snapshots = n] EXCEPT !.resourceDirty = TRUE]
  BY DEF WithTopics, WithSubscriptions, WithBoth, WithSnapshots
<1>2. /\ SameContents(WithTopics(x, t), x) /\ WithTopics(x, t).topics = t
      /\ WithTopics(x, t).subscriptions = x.subscriptions /\ WithTopics(x, t).snapshots = x.snapshots
  BY <1>1 DEF IsServer, ServerFields, SameContents
<1>3. /\ SameContents(WithSubscriptions(x, u), x) /\ WithSubscriptions(x, u).topics = x.topics
      /\ WithSubscriptions(x, u).subscriptions = u /\ WithSubscriptions(x, u).snapshots = x.snapshots
  BY <1>1 DEF IsServer, ServerFields, SameContents
<1>4. /\ SameContents(WithBoth(x, t, u), x) /\ WithBoth(x, t, u).topics = t
      /\ WithBoth(x, t, u).subscriptions = u /\ WithBoth(x, t, u).snapshots = x.snapshots
  BY <1>1 DEF IsServer, ServerFields, SameContents
<1>5. /\ SameContents(WithSnapshots(x, n), x) /\ WithSnapshots(x, n).topics = x.topics
      /\ WithSnapshots(x, n).subscriptions = x.subscriptions /\ WithSnapshots(x, n).snapshots = n
  BY <1>1 DEF IsServer, ServerFields, SameContents
<1> QED
  BY <1>2, <1>3, <1>4, <1>5

\* Undoing nothing, or one resource field, is coherent.
LEMMA SmallUndo ==
  /\ Coherent(NoFields) /\ \A f \in DOMAIN NoFields : NoFields[f] = server[f]
  /\ Coherent([topics |-> server.topics])
  /\ \A f \in DOMAIN [topics |-> server.topics] : [topics |-> server.topics][f] = server[f]
  /\ Coherent([subscriptions |-> server.subscriptions])
  /\ \A f \in DOMAIN [subscriptions |-> server.subscriptions] :
       [subscriptions |-> server.subscriptions][f] = server[f]
  /\ Coherent([snapshots |-> server.snapshots])
  /\ \A f \in DOMAIN [snapshots |-> server.snapshots] : [snapshots |-> server.snapshots][f] = server[f]
BY DEF Coherent, NoFields

\* create_topic, patch_topic and grpc_update_topic
LEMMA TopicSteps ==
  ASSUME PubSubInv, workload' = workload, NEW t \in workload.topics, NEW retention, NEW api,
         CreateTopic(t, retention) \/ UpdateTopic(api, t, retention)
  PROVE  PubSubInv'
<1>1. PICK topics : topics = With(server.topics, t, retention)
  OBVIOUS
<1>2. up
  BY DEF CreateTopic, UpdateTopic, Change
<1>3. /\ AreTopics(workload, server.topics) /\ AreSubscriptions(workload, server.subscriptions)
      /\ AreSnapshots(server.snapshots, messageFile.nextMessageId) /\ IsServer(server)
  BY <1>2, ResourcesSound
<1>4. AreTopics(workload, topics)
  BY <1>1, <1>3 DEF With, AreTopics, IsFunction
<1>5. PICK x : x = WithTopics(server, topics)
  OBVIOUS
<1>6. SameContents(x, server) /\ x.topics = topics /\ x.subscriptions = server.subscriptions
      /\ x.snapshots = server.snapshots
  BY <1>3, <1>5, ResourceFields
<1>7. x = [server EXCEPT !.topics = With(@, t, retention), !.resourceDirty = TRUE]
  BY <1>1, <1>3, <1>5 DEF WithTopics, IsServer, ServerFields
<1>8. \E back \in {[topics |-> server.topics], NoFields} : Change(x, back)
  BY <1>7 DEF CreateTopic, UpdateTopic
<1>9. AreResources(workload, x.topics, x.subscriptions, x.snapshots, messageFile.nextMessageId)
  BY <1>3, <1>4, <1>6 DEF AreResources
<1>10. CASE Change(x, NoFields)
  BY <1>6, <1>9, <1>10, ChangeStep, SmallUndo
<1>11. CASE Change(x, [topics |-> server.topics])
  <2>1. PICK back : back = [topics |-> server.topics]
    OBVIOUS
  <2>2. Coherent(back) /\ \A f \in DOMAIN back : back[f] = server[f]
    BY <2>1, SmallUndo
  <2> QED
    BY <1>6, <1>9, <1>11, <2>1, <2>2, ChangeStep
<1> QED
  BY <1>8, <1>10, <1>11

\* A subscription.
IsSubscription(w, r) ==
  /\ r = [f \in SubscriptionFields |-> r[f]]
  /\ r.ackDeadline \in Nat \ {0}
  /\ r.deadLetter # NoValue => DeadLetters(w)

\* One subscription replaced by another, or added.
LEMMA OneSubscription ==
  ASSUME NEW w, NEW u, AreSubscriptions(w, u), NEW s, NEW r, IsSubscription(w, r)
  PROVE  /\ s \in SubscriptionNames => AreSubscriptions(w, With(u, s, r))
         /\ AreSubscriptions(w, [u EXCEPT ![s] = r])
         /\ AreSubscriptions(w, Without(u, {s}))
<1>1. PICK v : v = [u EXCEPT ![s] = r]
  OBVIOUS
<1>2. /\ IsFunction(v) /\ DOMAIN v = DOMAIN u /\ \A z \in DOMAIN v : v[z] = IF z = s THEN r ELSE u[z]
  BY <1>1 DEF IsFunction, AreSubscriptions
<1>3. AreSubscriptions(w, v)
  BY <1>2 DEF AreSubscriptions, IsSubscription
<1>4. s \in SubscriptionNames => AreSubscriptions(w, With(u, s, r))
  <2>1. PICK y : y = With(u, s, r)
    OBVIOUS
  <2>2. /\ IsFunction(y) /\ DOMAIN y = DOMAIN u \cup {s} /\ \A z \in DOMAIN y : y[z] = IF z = s THEN r ELSE u[z]
    BY <2>1 DEF IsFunction, With
  <2> QED
    BY <2>1, <2>2 DEF AreSubscriptions, IsSubscription
<1>5. AreSubscriptions(w, Without(u, {s}))
  <2>1. PICK y : y = Without(u, {s})
    OBVIOUS
  <2>2. /\ IsFunction(y) /\ DOMAIN y \subseteq DOMAIN u /\ \A z \in DOMAIN y : y[z] = u[z]
    BY <2>1 DEF IsFunction, Without, Restrict
  <2> QED
    BY <2>1, <2>2 DEF AreSubscriptions
<1> QED
  BY <1>1, <1>3, <1>4, <1>5

SetTopic(r, value) == [r EXCEPT !.topic = value]
SetPush(r, value) == [r EXCEPT !.push = value]
SetDetached(r, value) == [r EXCEPT !.detached = value]

\* A subscription whose topic, push or detached flag is set is one.
LEMMA SubscriptionSet ==
  ASSUME NEW w, NEW r, IsSubscription(w, r), NEW value
  PROVE  /\ IsSubscription(w, SetTopic(r, value))
         /\ IsSubscription(w, SetPush(r, value))
         /\ IsSubscription(w, SetDetached(r, value))
<1>1. PICK a : a = [r EXCEPT !.topic = value]
  OBVIOUS
<1>2. PICK b : b = [r EXCEPT !.push = value]
  OBVIOUS
<1>3. PICK c : c = [r EXCEPT !.detached = value]
  OBVIOUS
<1>4. /\ a = [f \in SubscriptionFields |-> a[f]] /\ a.ackDeadline = r.ackDeadline /\ a.deadLetter = r.deadLetter
  BY <1>1 DEF IsSubscription, SubscriptionFields
<1>5. /\ b = [f \in SubscriptionFields |-> b[f]] /\ b.ackDeadline = r.ackDeadline /\ b.deadLetter = r.deadLetter
  BY <1>2 DEF IsSubscription, SubscriptionFields
<1>6. /\ c = [f \in SubscriptionFields |-> c[f]] /\ c.ackDeadline = r.ackDeadline /\ c.deadLetter = r.deadLetter
  BY <1>3 DEF IsSubscription, SubscriptionFields
<1>7. IsSubscription(w, a) /\ IsSubscription(w, b) /\ IsSubscription(w, c)
  BY <1>4, <1>5, <1>6 DEF IsSubscription
<1> QED
  BY <1>1, <1>2, <1>3, <1>7 DEF SetTopic, SetPush, SetDetached

\* delete_topic and grpc_delete_topic
LEMMA DeleteTopicStep ==
  ASSUME PubSubInv, workload' = workload, NEW t, NEW api, DeleteTopic(api, t)
  PROVE  PubSubInv'
<1>1. PICK topics, u : /\ topics = Without(server.topics, {t})
                       /\ u = IF api = "rest" THEN server.subscriptions ELSE Orphaned(server.subscriptions, t)
  OBVIOUS
<1>2. up
  BY DEF DeleteTopic, Change
<1>3. /\ AreTopics(workload, server.topics) /\ AreSubscriptions(workload, server.subscriptions)
      /\ AreSnapshots(server.snapshots, messageFile.nextMessageId) /\ IsServer(server)
  BY <1>2, ResourcesSound
<1>4. AreTopics(workload, topics)
  BY <1>1, <1>3 DEF Without, Restrict, AreTopics, IsFunction
<1>5. AreSubscriptions(workload, u)
  <2>1. CASE api = "rest"
    BY <1>1, <1>3, <2>1
  <2>2. CASE api # "rest"
    <3>1. /\ IsFunction(u) /\ DOMAIN u = DOMAIN server.subscriptions
          /\ \A s \in DOMAIN u : u[s] = [server.subscriptions[s] EXCEPT !.topic = IF @ = t THEN NoValue ELSE @]
      BY <1>1, <2>2 DEF Orphaned, IsFunction
    <3>2. ASSUME NEW s \in DOMAIN u
          PROVE  IsSubscription(workload, u[s])
      <4>1. PICK r : r = server.subscriptions[s]
        OBVIOUS
      <4>2. IsSubscription(workload, r)
        BY <1>3, <3>1, <4>1 DEF AreSubscriptions, IsSubscription
      <4>3. PICK value : value = IF r.topic = t THEN NoValue ELSE r.topic
        OBVIOUS
      <4>4. u[s] = SetTopic(r, value)
        BY <3>1, <4>1, <4>2, <4>3 DEF IsSubscription, SubscriptionFields, SetTopic
      <4> QED
        BY <4>2, <4>4, SubscriptionSet
    <3> QED
      BY <1>3, <3>1, <3>2 DEF AreSubscriptions, IsSubscription
  <2> QED
    BY <2>1, <2>2
<1>6. PICK x : x = WithBoth(server, topics, u)
  OBVIOUS
<1>7. SameContents(x, server) /\ x.topics = topics /\ x.subscriptions = u /\ x.snapshots = server.snapshots
  BY <1>3, <1>6, ResourceFields
<1>8. x = [server EXCEPT !.topics = Without(@, {t}),
                         !.subscriptions = IF api = "rest" THEN @ ELSE Orphaned(@, t),
                         !.resourceDirty = TRUE]
  BY <1>1, <1>3, <1>6 DEF WithBoth, IsServer, ServerFields
<1>9. PICK back : back = [topics |-> server.topics, subscriptions |-> server.subscriptions]
  OBVIOUS
<1>10. Coherent(back) /\ \A f \in DOMAIN back : back[f] = server[f]
  BY <1>9 DEF Coherent
<1>11. Change(x, back)
  BY <1>8, <1>9 DEF DeleteTopic
<1>12. AreResources(workload, x.topics, x.subscriptions, x.snapshots, messageFile.nextMessageId)
  BY <1>3, <1>4, <1>5, <1>7 DEF AreResources
<1> QED
  BY <1>7, <1>10, <1>11, <1>12, ChangeStep

\* What a request makes of a subscription is one: its dead-letter policy is the workload's.
LEMMA ValidRequest ==
  ASSUME PubSubInv, up, NEW request \in workload.creates \cup workload.updates, ValidPolicies(request)
  PROVE  /\ "deadLetter" \in DOMAIN request /\ request.deadLetter # NoValue => DeadLetters(workload)
         /\ "ackDeadline" \in DOMAIN request => AckDeadlineOr(request.ackDeadline) \in Nat \ {0}
<1>1. DOMAIN server.topics \subseteq workload.topics
  BY ResourcesSound DEF AreTopics
<1>2. "deadLetter" \in DOMAIN request /\ request.deadLetter # NoValue => DeadLetters(workload)
  BY <1>1 DEF DeadLetters, ValidPolicies
<1>3. "ackDeadline" \in DOMAIN request => request.ackDeadline \in Nat
  BY ConstantsAssumption DEF PubSubInv
<1> QED
  BY <1>2, <1>3, ConstantsAssumption DEF AckDeadlineOr

\* patch_subscription, grpc_update_subscription, modify_push_config and its gRPC twin
LEMMA ReplaceSubscriptionStep ==
  ASSUME PubSubInv, workload' = workload, NEW s, NEW r, NEW back,
         up => IsSubscription(workload, r), back \in {NoFields, [subscriptions |-> server.subscriptions]},
         Change(WithSubscriptions(server, [server.subscriptions EXCEPT ![s] = r]), back)
  PROVE  PubSubInv'
<1>1. PICK u, x : u = [server.subscriptions EXCEPT ![s] = r] /\ x = WithSubscriptions(server, u)
  OBVIOUS
<1>2. up /\ Change(x, back)
  BY <1>1 DEF Change
<1>3. /\ AreTopics(workload, server.topics) /\ AreSubscriptions(workload, server.subscriptions)
      /\ AreSnapshots(server.snapshots, messageFile.nextMessageId) /\ IsServer(server)
  BY <1>2, ResourcesSound
<1>4. AreSubscriptions(workload, u)
  BY <1>1, <1>2, <1>3, OneSubscription
<1>5. SameContents(x, server) /\ x.topics = server.topics /\ x.subscriptions = u /\ x.snapshots = server.snapshots
  BY <1>1, <1>3, ResourceFields
<1>6. AreResources(workload, x.topics, x.subscriptions, x.snapshots, messageFile.nextMessageId)
  BY <1>3, <1>4, <1>5 DEF AreResources
<1>7. Coherent(back) /\ \A f \in DOMAIN back : back[f] = server[f]
  BY SmallUndo
<1> QED
  BY <1>2, <1>5, <1>6, <1>7, ChangeStep

\* patch_subscription, grpc_update_subscription
LEMMA UpdateSubscriptionStep ==
  ASSUME PubSubInv, workload' = workload, NEW s, NEW api, NEW request \in workload.updates,
         UpdateSubscription(api, s, request)
  PROVE  PubSubInv'
<1>1. PICK old, r : old = server.subscriptions[s] /\ r = Updated(old, request)
  OBVIOUS
<1>2. up /\ s \in DOMAIN server.subscriptions /\ ValidPolicies(request)
  BY DEF UpdateSubscription, Change
<1>3. IsServer(server) /\ IsFunction(server.subscriptions) /\ IsSubscription(workload, old)
  BY <1>1, <1>2, ResourcesSound DEF AreSubscriptions, IsSubscription
<1>4. /\ r = [f \in SubscriptionFields |-> r[f]]
      /\ r.ackDeadline = IF "ackDeadline" \in DOMAIN request THEN AckDeadlineOr(request.ackDeadline) ELSE old.ackDeadline
      /\ r.deadLetter = IF "deadLetter" \in DOMAIN request THEN request.deadLetter ELSE old.deadLetter
  <2>1. DOMAIN old = SubscriptionFields
    BY <1>3 DEF IsSubscription
  <2>2. r = [f \in SubscriptionFields |->
               IF f \notin DOMAIN request THEN old[f]
               ELSE IF f = "ackDeadline" THEN AckDeadlineOr(request[f]) ELSE request[f]]
    BY <1>1, <2>1 DEF Updated
  <2>3. r = [f \in SubscriptionFields |-> r[f]]
    BY <2>2
  <2>4. "ackDeadline" \in SubscriptionFields /\ "deadLetter" \in SubscriptionFields
    BY DEF SubscriptionFields
  <2>5. r.ackDeadline = IF "ackDeadline" \in DOMAIN request THEN AckDeadlineOr(request.ackDeadline) ELSE old.ackDeadline
    BY <2>2, <2>4
  <2>6. r.deadLetter = IF "deadLetter" \in DOMAIN request THEN request.deadLetter ELSE old.deadLetter
    BY <2>2, <2>4
  <2> QED
    BY <2>3, <2>5, <2>6
<1>5. IsSubscription(workload, r)
  BY <1>2, <1>3, <1>4, ValidRequest DEF IsSubscription
<1>6. [server EXCEPT !.subscriptions[s] = Updated(@, request), !.resourceDirty = TRUE]
        = WithSubscriptions(server, [server.subscriptions EXCEPT ![s] = r])
  BY <1>1, <1>2, <1>3 DEF WithSubscriptions, IsServer, ServerFields, IsFunction
<1>7. PICK back : back = IF api = "rest" THEN [subscriptions |-> server.subscriptions] ELSE NoFields
  OBVIOUS
<1>8. Change(WithSubscriptions(server, [server.subscriptions EXCEPT ![s] = r]), back)
  BY <1>6, <1>7 DEF UpdateSubscription
<1> QED
  BY <1>5, <1>7, <1>8, ReplaceSubscriptionStep

\* modify_push_config, grpc_modify_push_config
LEMMA ModifyPushConfigStep ==
  ASSUME PubSubInv, workload' = workload, NEW s, NEW api, NEW push, ModifyPushConfig(api, s, push)
  PROVE  PubSubInv'
<1>1. PICK old, r : old = server.subscriptions[s] /\ r = SetPush(old, push)
  OBVIOUS
<1>2. up /\ s \in DOMAIN server.subscriptions
  BY DEF ModifyPushConfig, Change
<1>3. IsServer(server) /\ IsFunction(server.subscriptions) /\ IsSubscription(workload, old)
  BY <1>1, <1>2, ResourcesSound DEF AreSubscriptions, IsSubscription
<1>4. IsSubscription(workload, r)
  BY <1>1, <1>3, SubscriptionSet
<1>5. [server EXCEPT !.subscriptions[s].push = push, !.resourceDirty = TRUE]
        = WithSubscriptions(server, [server.subscriptions EXCEPT ![s] = r])
  BY <1>1, <1>2, <1>3 DEF WithSubscriptions, IsServer, ServerFields, IsFunction, SetPush
<1>6. PICK back : back = IF api = "rest" THEN [subscriptions |-> server.subscriptions] ELSE NoFields
  OBVIOUS
<1>7. Change(WithSubscriptions(server, [server.subscriptions EXCEPT ![s] = r]), back)
  BY <1>5, <1>6 DEF ModifyPushConfig
<1> QED
  BY <1>4, <1>6, <1>7, ReplaceSubscriptionStep

\* snapshot_deliveries: the unacknowledged records, without leases.
LEMMA SnapshotQueue ==
  ASSUME NEW v, NEW top, NEW acks, IsQueue(v, top, acks), NEW acks2
  PROVE  /\ IsQueue(SnapshotDeliveries(v), top, acks2)
         /\ \A p \in DOMAIN SnapshotDeliveries(v).at :
              SnapshotDeliveries(v).at[p].lease = 0 /\ SnapshotDeliveries(v).at[p].ack = NoAck
<1>1. PICK at : at = [p \in DOMAIN v.at |-> Released(v.at[p])]
  OBVIOUS
<1>2. IsFunction(at) /\ DOMAIN at = DOMAIN v.at /\ \A p \in DOMAIN at : at[p] = Released(v.at[p])
  BY <1>1 DEF IsFunction
<1>3. \A p \in DOMAIN at : /\ IsRecord(at[p], top, acks2) /\ at[p].message = v.at[p].message
                           /\ at[p].lease = 0 /\ at[p].ack = NoAck
  <2> SUFFICES ASSUME NEW p \in DOMAIN at
               PROVE  /\ IsRecord(at[p], top, acks2) /\ at[p].message = v.at[p].message
                      /\ at[p].lease = 0 /\ at[p].ack = NoAck
    OBVIOUS
  <2>1. IsRecord(v.at[p], top, acks)
    BY <1>2 DEF IsQueue
  <2>2. /\ IsRecord(at[p], top, acks) /\ at[p].message = v.at[p].message
        /\ at[p].ack = NoAck /\ at[p].lease = 0
    BY <1>2, <2>1, ReleasedRecord
  <2>3. IsRecord(at[p], top, acks2)
    BY <2>2, Zenon DEF IsRecord
  <2> QED
    BY <2>2, <2>3
<1>4. PICK w : w = Refilled(v, at)
  OBVIOUS
<1>5. IsQueue(w, top, acks2) /\ w.at = at
  BY <1>2, <1>3, <1>4, RefilledQueue
<1>6. SnapshotDeliveries(v) = Retain(w, Unacked(v))
  BY <1>1, <1>4 DEF SnapshotDeliveries, Refilled, IsQueue
<1>7. Unacked(v) \subseteq DOMAIN w.at
  BY <1>2, <1>5 DEF Unacked
<1>8. /\ IsQueue(Retain(w, Unacked(v)), top, acks2)
      /\ DOMAIN Retain(w, Unacked(v)).at = Unacked(v)
      /\ \A p \in Unacked(v) : Retain(w, Unacked(v)).at[p] = w.at[p]
  BY <1>5, <1>7, RetainQueue
<1> QED
  BY <1>2, <1>3, <1>5, <1>6, <1>7, <1>8

\* create_snapshot and grpc_create_snapshot
LEMMA CreateSnapshotStep ==
  ASSUME PubSubInv, workload' = workload, NEW api \in workload.snapshotApis, NEW n, NEW s,
         CreateSnapshot(api, n, s)
  PROVE  PubSubInv'
<1>1. PICK r, snapshots, x : /\ r = SnapshotOf(api, s) /\ snapshots = With(server.snapshots, n, r)
                             /\ x = WithSnapshots(server, snapshots)
  OBVIOUS
<1>2. up /\ s \in DOMAIN server.subscriptions
  BY DEF CreateSnapshot, Change
<1>3. /\ AreTopics(workload, server.topics) /\ AreSubscriptions(workload, server.subscriptions)
      /\ AreSnapshots(server.snapshots, messageFile.nextMessageId) /\ IsServer(server)
  BY <1>2, ResourcesSound
<1>4. /\ r = [f \in SnapshotFields |-> r[f]]
      /\ r.deliveries = IF api = "rest" THEN EmptyVec ELSE SnapshotDeliveries(server.deliveries[s])
  BY <1>1 DEF SnapshotOf, SnapshotFields
<1>5. IsQueue(r.deliveries, messageFile.nextMessageId, 0)
  <2>1. CASE api = "rest"
    BY <1>4, <2>1, EmptyQueue
  <2>2. CASE api # "rest"
    <3>1. Captures(workload)
      <4>1. workload.apis \subseteq {"rest", "grpc"} /\ workload.snapshotApis \subseteq workload.apis
        BY ConstantsAssumption DEF PubSubInv
      <4> QED
        BY <2>2, <4>1 DEF Captures
    <3>2. server.nextMessageId = messageFile.nextMessageId
      BY <1>2, <3>1, Running
    <3>3. IsQueue(server.deliveries[s], server.nextMessageId, server.nextAckId)
      BY <1>2, <1>3, Running DEF AreDeliveries, AreSubscriptions
    <3> QED
      BY <1>4, <2>2, <3>2, <3>3, SnapshotQueue
  <2> QED
    BY <2>1, <2>2
<1>6. /\ IsFunction(snapshots)
      /\ \A k \in DOMAIN snapshots : snapshots[k] = r \/ (k \in DOMAIN server.snapshots /\ snapshots[k] = server.snapshots[k])
  BY <1>1 DEF With, IsFunction
<1>7. AreSnapshots(snapshots, messageFile.nextMessageId)
  BY <1>3, <1>4, <1>5, <1>6 DEF AreSnapshots
<1>8. /\ SameContents(x, server) /\ x.topics = server.topics /\ x.subscriptions = server.subscriptions
      /\ x.snapshots = snapshots
  BY <1>1, <1>3, ResourceFields
<1>9. x = [server EXCEPT !.snapshots = With(@, n, SnapshotOf(api, s)), !.resourceDirty = TRUE]
  BY <1>1, <1>3 DEF WithSnapshots, IsServer, ServerFields
<1>10. PICK back : back = [snapshots |-> server.snapshots]
  OBVIOUS
<1>11. Coherent(back) /\ \A f \in DOMAIN back : back[f] = server[f]
  BY <1>10, SmallUndo
<1>12. Change(x, back)
  BY <1>9, <1>10 DEF CreateSnapshot
<1>13. AreResources(workload, x.topics, x.subscriptions, x.snapshots, messageFile.nextMessageId)
  BY <1>3, <1>7, <1>8 DEF AreResources
<1> QED
  BY <1>8, <1>11, <1>12, <1>13, ChangeStep

\* delete_snapshot, grpc_delete_snapshot and grpc_update_snapshot
LEMMA OtherSnapshotSteps ==
  ASSUME PubSubInv, workload' = workload, NEW n, DeleteSnapshot(n) \/ UpdateSnapshot(n)
  PROVE  PubSubInv'
<1>1. up
  BY DEF DeleteSnapshot, UpdateSnapshot, Change
<1>2. /\ AreTopics(workload, server.topics) /\ AreSubscriptions(workload, server.subscriptions)
      /\ AreSnapshots(server.snapshots, messageFile.nextMessageId) /\ IsServer(server)
  BY <1>1, ResourcesSound
<1>3. CASE DeleteSnapshot(n)
  <2>1. PICK snapshots, x : /\ snapshots = Without(server.snapshots, {n})
                            /\ x = [WithSnapshots(server, snapshots) EXCEPT !.messagesDirty = TRUE]
    OBVIOUS
  <2>2. AreSnapshots(snapshots, messageFile.nextMessageId)
    BY <1>2, <2>1, FewerSnapshots
  <2>3. PICK y : y = WithSnapshots(server, snapshots)
    OBVIOUS
  <2>4. /\ SameContents(y, server) /\ y.topics = server.topics /\ y.subscriptions = server.subscriptions
        /\ y.snapshots = snapshots
    BY <1>2, <2>3, ResourceFields
  <2>5. x = [y EXCEPT !.messagesDirty = TRUE]
    BY <2>1, <2>3
  <2>6. /\ SameContents(x, server) /\ x.topics = server.topics /\ x.subscriptions = server.subscriptions
        /\ x.snapshots = snapshots
    BY <2>4, <2>5 DEF SameContents, IsServer, ServerFields
  <2>7. x = [server EXCEPT !.snapshots = Without(@, {n}), !.resourceDirty = TRUE, !.messagesDirty = TRUE]
    BY <1>2, <2>1 DEF WithSnapshots, IsServer, ServerFields
  <2>8. PICK back : back = [snapshots |-> server.snapshots, messages |-> server.messages]
    OBVIOUS
  <2>9. Coherent(back) /\ \A f \in DOMAIN back : back[f] = server[f]
    BY <2>8 DEF Coherent
  <2>10. Change(x, back)
    BY <1>3, <2>7, <2>8 DEF DeleteSnapshot
  <2>11. AreResources(workload, x.topics, x.subscriptions, x.snapshots, messageFile.nextMessageId)
    BY <1>2, <2>2, <2>6 DEF AreResources
  <2> QED
    BY <2>6, <2>9, <2>10, <2>11, ChangeStep
<1>4. CASE UpdateSnapshot(n)
  <2>1. PICK x : x = [server EXCEPT !.resourceDirty = TRUE]
    OBVIOUS
  <2>2. /\ SameContents(x, server) /\ x.topics = server.topics /\ x.subscriptions = server.subscriptions
        /\ x.snapshots = server.snapshots
    BY <1>2, <2>1 DEF SameContents, IsServer, ServerFields
  <2>3. Change(x, NoFields)
    BY <1>4, <2>1 DEF UpdateSnapshot
  <2>4. AreResources(workload, x.topics, x.subscriptions, x.snapshots, messageFile.nextMessageId)
    BY <1>2, <2>2 DEF AreResources
  <2> QED
    BY <2>2, <2>3, <2>4, ChangeStep, SmallUndo
<1> QED
  BY <1>3, <1>4

\* Deliveries of which one queue is replaced.
Swapped(d, s, v) == [d EXCEPT ![s] = v]

\* A server with other deliveries of one subscription.
SwappedIn(x, s, v) == [x EXCEPT !.deliveries = Swapped(x.deliveries, s, v)]

\* Replacing one queue by another.
LEMMA SwappedWhole ==
  ASSUME NEW w, NEW x, NEW top, IsWhole(w, x, top), NEW s \in SubscriptionNames, NEW v,
         IsQueue(v, x.nextMessageId, x.nextAckId)
  PROVE  LET y == SwappedIn(x, s, v) IN
         /\ IsWhole(w, y, top)
         /\ y.topics = x.topics /\ y.subscriptions = x.subscriptions /\ y.snapshots = x.snapshots
         /\ y.messages = x.messages /\ y.nextMessageId = x.nextMessageId /\ y.nextAckId = x.nextAckId
         /\ y.resourceDirty = x.resourceDirty /\ y.messagesDirty = x.messagesDirty
         /\ y.deliveries[s] = v /\ \A u \in SubscriptionNames : u # s => y.deliveries[u] = x.deliveries[u]
<1>1. PICK d, y : d = Swapped(x.deliveries, s, v) /\ y = SwappedIn(x, s, v)
  OBVIOUS
<1>2. y = [x EXCEPT !.deliveries = d]
  BY <1>1 DEF SwappedIn
<1>3. /\ IsServer(y) /\ y.deliveries = d
      /\ y.topics = x.topics /\ y.subscriptions = x.subscriptions /\ y.snapshots = x.snapshots
      /\ y.messages = x.messages /\ y.nextMessageId = x.nextMessageId /\ y.nextAckId = x.nextAckId
      /\ y.resourceDirty = x.resourceDirty /\ y.messagesDirty = x.messagesDirty
  BY <1>2 DEF IsWhole, IsServer, ServerFields
<1>4. AreDeliveries(x.deliveries, x.nextMessageId, x.nextAckId)
  BY DEF IsWhole, AreContents
<1>5. /\ d = [u \in SubscriptionNames |-> d[u]]
      /\ \A u \in SubscriptionNames : d[u] = IF u = s THEN v ELSE x.deliveries[u]
  BY <1>1, <1>4 DEF AreDeliveries, Swapped
<1>6. AreDeliveries(d, x.nextMessageId, x.nextAckId)
  BY <1>4, <1>5 DEF AreDeliveries
<1>7. IsWhole(w, y, top)
  BY <1>3, <1>6 DEF IsWhole, AreContents
<1> QED
  BY <1>1, <1>3, <1>5, <1>7

\* A queue that calms down calms down the server.
LEMMA SwappedCalm ==
  ASSUME NEW d, NEW e, NEW s \in SubscriptionNames, NEW top, NEW time, Calm(d[s], e[s], top, time),
         \A u \in SubscriptionNames : u # s => e[u] = d[u]
  PROVE  AllCalm(d, e, top, time)
<1> SUFFICES ASSUME NEW u \in SubscriptionNames
             PROVE  Calm(d[u], e[u], top, time)
  BY DEF AllCalm
<1>1. CASE u = s
  BY <1>1
<1>2. CASE u # s
  BY <1>2, CalmSame DEF AllCalm
<1> QED
  BY <1>1, <1>2

\* A subscription that loses its deliveries.
LEMMA EmptiedWhole ==
  ASSUME NEW w, NEW x, NEW top, IsWhole(w, x, top), NEW s \in SubscriptionNames, NEW time
  PROVE  LET y == SwappedIn(x, s, EmptyVec) IN
         /\ IsWhole(w, y, top)
         /\ y.topics = x.topics /\ y.subscriptions = x.subscriptions /\ y.snapshots = x.snapshots
         /\ y.messages = x.messages /\ y.nextMessageId = x.nextMessageId /\ y.nextAckId = x.nextAckId
         /\ AllCalm(x.deliveries, y.deliveries, x.nextMessageId, time)
<1>1. PICK y : y = SwappedIn(x, s, EmptyVec)
  OBVIOUS
<1>2. IsQueue(EmptyVec, x.nextMessageId, x.nextAckId) /\ DOMAIN EmptyVec.at = {}
  BY EmptyQueue
<1>3. /\ IsWhole(w, y, top)
      /\ y.topics = x.topics /\ y.subscriptions = x.subscriptions /\ y.snapshots = x.snapshots
      /\ y.messages = x.messages /\ y.nextMessageId = x.nextMessageId /\ y.nextAckId = x.nextAckId
      /\ y.deliveries[s] = EmptyVec /\ \A u \in SubscriptionNames : u # s => y.deliveries[u] = x.deliveries[u]
  BY <1>1, <1>2, SwappedWhole
<1>4. Calm(x.deliveries[s], y.deliveries[s], x.nextMessageId, time)
  BY <1>2, <1>3 DEF Calm
<1>5. AllCalm(x.deliveries, y.deliveries, x.nextMessageId, time)
  BY <1>3, <1>4, SwappedCalm
<1> QED
  BY <1>1, <1>3, <1>5

\* create_subscription, grpc_create_subscription
LEMMA CreateSubscriptionStep ==
  ASSUME PubSubInv, workload' = workload, NEW api, NEW s \in SubscriptionNames,
         NEW request \in workload.creates, CreateSubscription(api, s, request)
  PROVE  PubSubInv'
<1>1. PICK r, u, x : /\ r = NewSubscription(request) /\ u = With(server.subscriptions, s, r)
                     /\ x = WithSubscriptions(server, u)
  OBVIOUS
<1>2. PICK outcome \in Outcomes :
        Finish(outcome,
               [server EXCEPT !.subscriptions = With(@, s, r), !.resourceDirty = TRUE],
               [subscriptions |-> server.subscriptions,
                deliveries |-> IF api = "rest" THEN server.deliveries
                               ELSE [server.deliveries EXCEPT ![s] = EmptyVec]])
  BY <1>1 DEF CreateSubscription
<1>3. /\ up /\ ValidPolicies(request) /\ now' = now /\ given' = given /\ published' = published
      /\ promised' = promised
  BY DEF CreateSubscription
<1>4. /\ AreTopics(workload, server.topics) /\ AreSubscriptions(workload, server.subscriptions)
      /\ AreSnapshots(server.snapshots, messageFile.nextMessageId) /\ IsServer(server)
  BY <1>3, ResourcesSound
<1>5. IsSubscription(workload, r)
  <2>1. PICK body : body = [f \in DOMAIN SubscriptionDefaults \cup {"topic"} |->
                              IF f \in DOMAIN request THEN request[f] ELSE SubscriptionDefaults[f]]
    OBVIOUS
  <2>2. DOMAIN SubscriptionDefaults \cup {"topic"} = SubscriptionFields
    BY DEF SubscriptionDefaults, SubscriptionFields
  <2>3. SubscriptionDefaults.ackDeadline = 0 /\ SubscriptionDefaults.deadLetter = NoValue
    BY DEF SubscriptionDefaults
  <2>4. body = [f \in SubscriptionFields |-> body[f]]
    BY <2>1, <2>2
  <2>5. /\ body.ackDeadline = IF "ackDeadline" \in DOMAIN request THEN request.ackDeadline ELSE 0
        /\ body.deadLetter = IF "deadLetter" \in DOMAIN request THEN request.deadLetter ELSE NoValue
    BY <2>1, <2>2, <2>3 DEF SubscriptionFields
  <2>6. r = [body EXCEPT !.ackDeadline = AckDeadlineOr(@)]
    BY <1>1, <2>1 DEF NewSubscription
  <2>7. /\ r = [f \in SubscriptionFields |-> r[f]]
        /\ r.ackDeadline = AckDeadlineOr(body.ackDeadline) /\ r.deadLetter = body.deadLetter
    BY <2>4, <2>6 DEF SubscriptionFields
  <2>8. AckDeadlineOr(0) \in Nat \ {0}
    BY ConstantsAssumption DEF AckDeadlineOr
  <2> QED
    BY <1>3, <2>5, <2>7, <2>8, ValidRequest DEF IsSubscription
<1>6. AreSubscriptions(workload, u)
  BY <1>1, <1>4, <1>5, OneSubscription
<1>7. SameContents(x, server) /\ x.topics = server.topics /\ x.subscriptions = u /\ x.snapshots = server.snapshots
  BY <1>1, <1>4, ResourceFields
<1>8. x = [server EXCEPT !.subscriptions = With(@, s, r), !.resourceDirty = TRUE]
  BY <1>1, <1>4 DEF WithSubscriptions, IsServer, ServerFields
<1>9. PICK b : b = IF api = "rest" THEN server ELSE SwappedIn(server, s, EmptyVec)
  OBVIOUS
<1>10. /\ IsWhole(workload, server, messageFile.nextMessageId) /\ server.nextMessageId \in Nat /\ server.nextAckId \in Nat
  BY <1>3, Running
<1>11. /\ IsWhole(workload, b, messageFile.nextMessageId) /\ b.subscriptions = server.subscriptions
       /\ b.nextMessageId = server.nextMessageId /\ b.nextAckId = server.nextAckId
       /\ AllCalm(server.deliveries, b.deliveries, server.nextMessageId, now)
       /\ b.deliveries = IF api = "rest" THEN server.deliveries ELSE [server.deliveries EXCEPT ![s] = EmptyVec]
  <2>1. CASE api = "rest"
    BY <1>9, <1>10, <2>1, CalmSame
  <2>2. CASE api # "rest"
    <3>1. /\ IsWhole(workload, b, messageFile.nextMessageId) /\ b.subscriptions = server.subscriptions
          /\ b.nextMessageId = server.nextMessageId /\ b.nextAckId = server.nextAckId
          /\ AllCalm(server.deliveries, b.deliveries, server.nextMessageId, now)
      BY <1>9, <1>10, <2>2, EmptiedWhole
    <3>2. b.deliveries = [server.deliveries EXCEPT ![s] = EmptyVec]
      BY <1>4, <1>9, <2>2 DEF SwappedIn, Swapped, IsServer, ServerFields
    <3> QED
      BY <2>2, <3>1, <3>2
  <2> QED
    BY <2>1, <2>2
<1>12. PICK back : back = [subscriptions |-> server.subscriptions, deliveries |-> b.deliveries]
  OBVIOUS
<1>13. Coherent(back) /\ \A f \in DOMAIN back : back[f] = b[f]
  BY <1>11, <1>12 DEF Coherent
<1>14. Finish(outcome, x, back)
  BY <1>2, <1>8, <1>11, <1>12
<1>15. AreResources(workload, x.topics, x.subscriptions, x.snapshots, messageFile.nextMessageId)
  BY <1>4, <1>6, <1>7 DEF AreResources
<1>16. IsWhole(workload, x, messageFile.nextMessageId)
  BY <1>7, <1>10, <1>15 DEF IsWhole, SameContents
<1>17. AllCalm(server.deliveries, x.deliveries, server.nextMessageId, now)
  BY <1>7, CalmSame DEF SameContents
<1>18. Fewer(promised', promised)
  BY <1>3, Running, FewerPromises
<1>19. x.nextMessageId = b.nextMessageId /\ x.nextAckId = b.nextAckId
  BY <1>7, <1>11 DEF SameContents
<1> QED
  BY <1>3, <1>10, <1>11, <1>13, <1>14, <1>16, <1>17, <1>18, <1>19, CalmStep

\* A server that is to be saved to both files.
Marked(x) == [x EXCEPT !.resourceDirty = TRUE, !.messagesDirty = TRUE]

\* Marking a server to be saved keeps it whole.
LEMMA MarkedWhole ==
  ASSUME NEW w, NEW x, NEW top, IsWhole(w, x, top)
  PROVE  /\ IsWhole(w, Marked(x), top) /\ Marked(x).deliveries = x.deliveries
         /\ Marked(x).nextMessageId = x.nextMessageId /\ Marked(x).nextAckId = x.nextAckId
<1>1. PICK y : y = Marked(x)
  OBVIOUS
<1>2. y = [[x EXCEPT !.resourceDirty = TRUE] EXCEPT !.messagesDirty = TRUE]
  BY <1>1 DEF Marked
<1>3. /\ IsServer(y) /\ y.deliveries = x.deliveries /\ y.messages = x.messages
      /\ y.topics = x.topics /\ y.subscriptions = x.subscriptions /\ y.snapshots = x.snapshots
      /\ y.nextMessageId = x.nextMessageId /\ y.nextAckId = x.nextAckId
  BY <1>2 DEF IsWhole, IsServer, ServerFields
<1>4. IsWhole(w, y, top)
  BY <1>3 DEF IsWhole
<1> QED
  BY <1>1, <1>3, <1>4

\* A handler that ends the deliveries of a subscription.
LEMMA RetireStep ==
  ASSUME PubSubInv, workload' = workload, NEW s, NEW x, Retire(s, x),
         IsWhole(workload, x, messageFile.nextMessageId),
         x.nextMessageId = server.nextMessageId, x.nextAckId = server.nextAckId,
         AllCalm(server.deliveries, x.deliveries, server.nextMessageId, now)
  PROVE  PubSubInv'
<1>1. PICK back : back = [subscriptions |-> server.subscriptions, snapshots |-> server.snapshots,
                          deliveries |-> server.deliveries, messages |-> server.messages]
  OBVIOUS
<1>2. PICK outcome \in Outcomes :
        /\ Finish(outcome, Marked(x), back)
        /\ promised' = promised \/ \E S : promised' = Without(promised, S)
  BY <1>1 DEF Retire, Marked, Abandon
<1>3. up /\ now' = now /\ given' = given /\ published' = published
  BY DEF Retire
<1>4. Fewer(promised', promised)
  BY <1>2, <1>3, Running, FewerPromises
<1>5. Coherent(back) /\ \A f \in DOMAIN back : back[f] = server[f]
  BY <1>1 DEF Coherent
<1>6. /\ IsWhole(workload, Marked(x), messageFile.nextMessageId) /\ Marked(x).deliveries = x.deliveries
      /\ Marked(x).nextMessageId = x.nextMessageId /\ Marked(x).nextAckId = x.nextAckId
  BY MarkedWhole
<1>7. /\ IsWhole(workload, server, messageFile.nextMessageId) /\ server.nextMessageId \in Nat /\ server.nextAckId \in Nat
  BY <1>3, Running
<1>8. AllCalm(server.deliveries, server.deliveries, server.nextMessageId, now)
  BY CalmSame
<1>9. PICK y : y = Marked(x)
  OBVIOUS
<1> QED
  BY <1>2, <1>3, <1>4, <1>5, <1>6, <1>7, <1>8, <1>9, CalmStep

\* A server with other subscriptions and snapshots.
Reduced(x, u, n) == [x EXCEPT !.subscriptions = u, !.snapshots = n]

\* A server stays whole with other subscriptions and snapshots of their kind.
LEMMA ReducedWhole ==
  ASSUME NEW w, NEW x, NEW top, IsWhole(w, x, top), NEW u, AreSubscriptions(w, u), NEW n, AreSnapshots(n, top)
  PROVE  /\ IsWhole(w, Reduced(x, u, n), top) /\ Reduced(x, u, n).deliveries = x.deliveries
         /\ Reduced(x, u, n).nextMessageId = x.nextMessageId /\ Reduced(x, u, n).nextAckId = x.nextAckId
<1>1. PICK y : y = Reduced(x, u, n)
  OBVIOUS
<1>2. y = [[x EXCEPT !.subscriptions = u] EXCEPT !.snapshots = n]
  BY <1>1 DEF Reduced
<1>3. /\ IsServer(y) /\ y.deliveries = x.deliveries /\ y.messages = x.messages
      /\ y.topics = x.topics /\ y.subscriptions = u /\ y.snapshots = n
      /\ y.nextMessageId = x.nextMessageId /\ y.nextAckId = x.nextAckId
  BY <1>2 DEF IsWhole, IsServer, ServerFields
<1>4. IsWhole(w, y, top)
  BY <1>3 DEF IsWhole, AreResources
<1> QED
  BY <1>1, <1>3, <1>4

\* A server that lost a subscription's deliveries, or not, and perhaps subscriptions and snapshots.
LEMMA ReducedStep ==
  ASSUME PubSubInv, workload' = workload, NEW s \in SubscriptionNames, NEW u, NEW n, NEW y,
         y = server \/ y = SwappedIn(server, s, EmptyVec), Retire(s, Reduced(y, u, n)),
         up => AreSubscriptions(workload, u) /\ AreSnapshots(n, messageFile.nextMessageId)
  PROVE  PubSubInv'
<1>1. up
  BY DEF Retire
<1>2. IsWhole(workload, server, messageFile.nextMessageId)
  BY <1>1, Running
<1>3. /\ IsWhole(workload, y, messageFile.nextMessageId)
      /\ y.nextMessageId = server.nextMessageId /\ y.nextAckId = server.nextAckId
      /\ AllCalm(server.deliveries, y.deliveries, server.nextMessageId, now)
  BY <1>2, EmptiedWhole, CalmSame
<1>4. PICK x : x = Reduced(y, u, n)
  OBVIOUS
<1>5. /\ IsWhole(workload, x, messageFile.nextMessageId) /\ x.deliveries = y.deliveries
      /\ x.nextMessageId = y.nextMessageId /\ x.nextAckId = y.nextAckId
  BY <1>1, <1>3, <1>4, ReducedWhole
<1> QED
  BY <1>3, <1>4, <1>5, RetireStep

\* delete_subscription, detach_subscription and their gRPC twins
LEMMA EndSubscriptionSteps ==
  ASSUME PubSubInv, workload' = workload, NEW s \in SubscriptionNames, NEW api,
         DeleteSubscription(api, s) \/ DetachSubscription(api, s)
  PROVE  PubSubInv'
<1>1. up /\ s \in DOMAIN server.subscriptions
  BY DEF DeleteSubscription, DetachSubscription, Retire
<1>2. /\ AreSubscriptions(workload, server.subscriptions) /\ IsFunction(server.subscriptions)
      /\ AreSnapshots(server.snapshots, messageFile.nextMessageId) /\ IsServer(server)
      /\ server.deliveries = [t \in SubscriptionNames |-> server.deliveries[t]]
  BY <1>1, ResourcesSound, Running DEF AreSubscriptions, AreDeliveries
<1>3. \A n : n = server.snapshots \/ n = Without(server.snapshots, SnapshotsOf(s))
               => AreSnapshots(n, messageFile.nextMessageId)
  BY <1>2, FewerSnapshots
<1>4. CASE DeleteSubscription(api, s)
  <2>1. PICK u, n, y : /\ u = Without(server.subscriptions, {s}) /\ y = SwappedIn(server, s, EmptyVec)
                       /\ n = IF api = "rest" THEN Without(server.snapshots, SnapshotsOf(s)) ELSE server.snapshots
    OBVIOUS
  <2>2. PICK r : r = server.subscriptions[s]
    OBVIOUS
  <2>3. IsSubscription(workload, r)
    BY <1>1, <1>2, <2>2 DEF AreSubscriptions, IsSubscription
  <2>4. AreSubscriptions(workload, u)
    BY <1>2, <2>1, <2>3, OneSubscription
  <2>5. AreSnapshots(n, messageFile.nextMessageId)
    BY <1>3, <2>1
  <2>6. SubscriptionRemoved(api, s) = Reduced(y, u, n)
    <3>1. SubscriptionRemoved(api, s)
            = [[[server EXCEPT !.subscriptions = u] EXCEPT !.deliveries = Swapped(server.deliveries, s, EmptyVec)]
                  EXCEPT !.snapshots = n]
      BY <1>2, <2>1 DEF SubscriptionRemoved, Swapped, IsServer, ServerFields
    <3>2. Reduced(y, u, n) = [[[server EXCEPT !.deliveries = Swapped(server.deliveries, s, EmptyVec)]
                                  EXCEPT !.subscriptions = u] EXCEPT !.snapshots = n]
      BY <2>1 DEF Reduced, SwappedIn
    <3> QED
      BY <1>2, <3>1, <3>2 DEF IsServer, ServerFields
  <2>7. Retire(s, Reduced(y, u, n))
    BY <1>4, <2>6 DEF DeleteSubscription
  <2> QED
    BY <2>1, <2>4, <2>5, <2>7, ReducedStep
<1>5. CASE DetachSubscription(api, s)
  <2>1. PICK r : r = SetDetached(server.subscriptions[s], TRUE)
    OBVIOUS
  <2>2. PICK u, n, y : /\ u = [server.subscriptions EXCEPT ![s] = r]
                       /\ y = IF api = "rest" THEN server ELSE SwappedIn(server, s, EmptyVec)
                       /\ n = Without(server.snapshots, SnapshotsOf(s))
    OBVIOUS
  <2>3. IsSubscription(workload, server.subscriptions[s])
    BY <1>1, <1>2 DEF AreSubscriptions, IsSubscription
  <2>4. IsSubscription(workload, r)
    BY <2>1, <2>3, SubscriptionSet
  <2>5. AreSubscriptions(workload, u)
    BY <1>2, <2>2, <2>4, OneSubscription
  <2>6. AreSnapshots(n, messageFile.nextMessageId)
    BY <1>3, <2>2
  <2>7. Detached(api, s) = Reduced(y, u, n)
    <3>1. PICK d : d = IF api = "rest" THEN server.deliveries ELSE Swapped(server.deliveries, s, EmptyVec)
      OBVIOUS
    <3>2. d = [server.deliveries EXCEPT ![s] = IF api = "rest" THEN @ ELSE EmptyVec]
      BY <1>2, <3>1 DEF Swapped
    <3>3. u = [server.subscriptions EXCEPT ![s].detached = TRUE]
      BY <1>1, <1>2, <2>1, <2>2 DEF SetDetached, IsFunction
    <3>4. Detached(api, s) = [[[server EXCEPT !.subscriptions = u] EXCEPT !.deliveries = d] EXCEPT !.snapshots = n]
      BY <1>2, <2>2, <3>2, <3>3 DEF Detached, IsServer, ServerFields
    <3>5. y = [server EXCEPT !.deliveries = d]
      BY <1>2, <2>2, <3>1 DEF SwappedIn, IsServer, ServerFields
    <3>6. Reduced(y, u, n) = [[[server EXCEPT !.deliveries = d] EXCEPT !.subscriptions = u] EXCEPT !.snapshots = n]
      BY <3>5 DEF Reduced
    <3> QED
      BY <1>2, <3>4, <3>6 DEF IsServer, ServerFields
  <2>8. Retire(s, Reduced(y, u, n))
    BY <1>5, <2>7 DEF DetachSubscription
  <2> QED
    BY <2>2, <2>5, <2>6, <2>8, ReducedStep
<1> QED
  BY <1>4, <1>5

-----------------------------------------------------------------------------
(***************************************************************************)
(* Publishing.                                                             *)
(***************************************************************************)

\* A record that stays is calm.
LEMMA SameCalmer ==
  ASSUME NEW r, NEW time
  PROVE  Calmer(r, r, time)
BY DEF Calmer

\* A server with more messages and their deliveries.
Grown(x, m, d, top) == [x EXCEPT !.messages = m, !.deliveries = d, !.nextMessageId = top]

\* New messages and records of them keep a server whole.
LEMMA GrownWhole ==
  ASSUME NEW w, NEW x, NEW top \in Nat, IsWhole(w, x, top), NEW top2 \in Nat, x.nextMessageId <= top2,
         NEW m, AreMessages(m, top2), NEW d, AreDeliveries(d, top2, x.nextAckId)
  PROVE  LET y == Grown(x, m, d, top2) IN
         /\ IsWhole(w, y, top)
         /\ y.topics = x.topics /\ y.subscriptions = x.subscriptions /\ y.snapshots = x.snapshots
         /\ y.messages = m /\ y.deliveries = d /\ y.nextMessageId = top2 /\ y.nextAckId = x.nextAckId
         /\ y.messagesDirty = x.messagesDirty
<1>1. PICK y : y = Grown(x, m, d, top2)
  OBVIOUS
<1>2. y = [[[x EXCEPT !.messages = m] EXCEPT !.deliveries = d] EXCEPT !.nextMessageId = top2]
  BY <1>1 DEF Grown
<1>3. /\ IsServer(y) /\ y.deliveries = d /\ y.messages = m
      /\ y.topics = x.topics /\ y.subscriptions = x.subscriptions /\ y.snapshots = x.snapshots
      /\ y.nextMessageId = top2 /\ y.nextAckId = x.nextAckId /\ y.messagesDirty = x.messagesDirty
  BY <1>2 DEF IsWhole, IsServer, ServerFields
<1>4. x.nextMessageId \in Nat /\ x.nextAckId \in Nat /\ top <= x.nextMessageId
  BY DEF IsWhole, AreContents
<1>5. IsWhole(w, y, top)
  BY <1>3, <1>4 DEF IsWhole, AreContents
<1> QED
  BY <1>1, <1>3, <1>5

\* What a batch makes of the server.
LEMMA PublishedWhole ==
  ASSUME PubSubInv, up, NEW t, NEW batch \in workload.batches
  PROVE  LET x == Published(t, batch) IN
         /\ IsWhole(workload, x, messageFile.nextMessageId)
         /\ Len(batch) \in Nat /\ DOMAIN batch = 1..Len(batch)
         /\ x.nextMessageId = server.nextMessageId + Len(batch) /\ x.nextAckId = server.nextAckId
         /\ x.messagesDirty
         /\ AllCalm(server.deliveries, x.deliveries, server.nextMessageId, now)
<1>1. PICK base, n : base = server.nextMessageId /\ n = Len(batch)
  OBVIOUS
<1>2. n \in Nat /\ DOMAIN batch = 1..n
  <2>1. batch \in Seq([key : Optional(OrderingKeys), attribute : Attributes])
    BY ConstantsAssumption DEF PubSubInv
  <2> QED
    BY <1>1, <2>1
<1>3. PICK m : m = [k \in DOMAIN server.messages \cup (base + 1 .. base + n) |->
                      IF k \in base + 1 .. base + n
                      THEN [publishTime |-> now, key |-> batch[k - base].key,
                            attribute |-> batch[k - base].attribute, data |-> k]
                      ELSE server.messages[k]]
  OBVIOUS
<1>4. PICK d : d = [s \in SubscriptionNames |->
                      PushAll(server.deliveries[s], [i \in Takes(t, batch, s) |-> base + i], n)]
  OBVIOUS
<1>5. PICK x, y : x = Published(t, batch) /\ y = Grown(server, m, d, base + n)
  OBVIOUS
<1>6. /\ IsWhole(workload, server, messageFile.nextMessageId) /\ messageFile.nextMessageId \in Nat
      /\ server.nextMessageId \in Nat /\ server.nextAckId \in Nat /\ IsServer(server)
      /\ AreDeliveries(server.deliveries, server.nextMessageId, server.nextAckId)
  BY Running, ResourcesSound
<1>7. x = [y EXCEPT !.messagesDirty = TRUE]
  <2>1. x = [server EXCEPT !.messages = m, !.deliveries = d, !.nextMessageId = base + n, !.messagesDirty = TRUE]
    BY <1>1, <1>3, <1>4, <1>5, <1>6 DEF Published, IsServer, ServerFields
  <2> QED
    BY <1>5, <1>6, <2>1 DEF Grown, IsServer, ServerFields
<1>8. ASSUME NEW s \in SubscriptionNames
      PROVE  /\ IsQueue(d[s], base + n, server.nextAckId)
             /\ Calm(server.deliveries[s], d[s], base, now)
  <2>1. PICK ids, v : ids = [i \in Takes(t, batch, s) |-> base + i] /\ v = server.deliveries[s]
    OBVIOUS
  <2>2. DOMAIN ids \subseteq 1..n /\ \A i \in DOMAIN ids : ids[i] = base + i
    BY <1>2, <2>1 DEF Takes
  <2>3. IsQueue(v, base, server.nextAckId)
    BY <1>1, <1>6, <2>1 DEF AreDeliveries
  <2>4. d[s] = PushAll(v, ids, n)
    BY <1>4, <2>1
  <2>5. /\ IsQueue(PushAll(v, ids, n), base + n, server.nextAckId)
        /\ \A p \in DOMAIN PushAll(v, ids, n).at :
             \/ p \in DOMAIN v.at /\ PushAll(v, ids, n).at[p] = v.at[p]
             \/ IsNew(PushAll(v, ids, n).at[p], base)
    BY <1>1, <1>2, <1>6, <2>2, <2>3, PushedQueue
  <2>6. Calm(v, d[s], base, now)
    BY <2>4, <2>5, SameCalmer DEF Calm
  <2> QED
    BY <2>1, <2>4, <2>5, <2>6
<1>9. AreMessages(m, base + n)
  <2>1. IsFunction(m) /\ DOMAIN m = DOMAIN server.messages \cup (base + 1 .. base + n)
    BY <1>3 DEF IsFunction
  <2>2. DOMAIN server.messages \subseteq 1..base
    BY <1>1, <1>6 DEF IsWhole, AreContents, AreMessages
  <2>3. DOMAIN m \subseteq 1..(base + n)
    BY <1>1, <1>2, <1>6, <2>1, <2>2
  <2> QED
    BY <2>1, <2>3 DEF AreMessages
<1>10. AreDeliveries(d, base + n, server.nextAckId) /\ AllCalm(server.deliveries, d, base, now)
  <2>1. d = [s \in SubscriptionNames |-> d[s]]
    BY <1>4
  <2> QED
    BY <1>8, <2>1 DEF AreDeliveries, AllCalm
<1>11. /\ IsWhole(workload, y, messageFile.nextMessageId)
       /\ y.nextMessageId = base + n /\ y.nextAckId = server.nextAckId
       /\ AllCalm(server.deliveries, y.deliveries, base, now)
  <2>1. base + n \in Nat /\ server.nextMessageId <= base + n
    BY <1>1, <1>2, <1>6
  <2> QED
    BY <1>5, <1>6, <1>9, <1>10, <2>1, GrownWhole
<1>12. /\ IsServer(x) /\ x.deliveries = y.deliveries /\ x.messages = y.messages
       /\ x.topics = y.topics /\ x.subscriptions = y.subscriptions /\ x.snapshots = y.snapshots
       /\ x.nextMessageId = y.nextMessageId /\ x.nextAckId = y.nextAckId /\ x.messagesDirty = TRUE
  BY <1>7, <1>11 DEF IsWhole, IsServer, ServerFields
<1>13. IsWhole(workload, x, messageFile.nextMessageId)
  BY <1>11, <1>12 DEF IsWhole
<1> QED
  BY <1>1, <1>2, <1>5, <1>11, <1>12, <1>13

\* publish, grpc_publish
LEMMA PublishStep ==
  ASSUME PubSubInv, workload' = workload, NEW t, NEW batch \in workload.batches, Publish(t, batch)
  PROVE  PubSubInv'
<1>1. PICK back, x : /\ back = [nextMessageId |-> server.nextMessageId, messages |-> server.messages,
                                deliveries |-> server.deliveries]
                     /\ x = Published(t, batch)
  OBVIOUS
<1>2. PICK outcome \in Outcomes :
        /\ Finish(outcome, x, back)
        /\ outcome = "saved" => published' = published \cup {server.nextMessageId + i : i \in DOMAIN batch}
        /\ outcome # "saved" => published' = published
  BY <1>1 DEF Publish, The
<1>3. up /\ now' = now /\ given' = given /\ promised' = promised
  BY DEF Publish
<1>4. /\ IsWhole(workload, x, messageFile.nextMessageId)
      /\ Len(batch) \in Nat /\ DOMAIN batch = 1..Len(batch)
      /\ x.nextMessageId = server.nextMessageId + Len(batch) /\ x.nextAckId = server.nextAckId
      /\ x.messagesDirty
      /\ AllCalm(server.deliveries, x.deliveries, server.nextMessageId, now)
  BY <1>1, <1>3, PublishedWhole
<1>5. /\ IsWhole(workload, server, messageFile.nextMessageId) /\ server.nextMessageId \in Nat
      /\ server.nextAckId \in Nat /\ ArePromises(promised) /\ Fewer(promised, promised)
  BY <1>3, Running, FewerPromises
<1>6. /\ Told(x.deliveries, x.nextMessageId, x.nextAckId, now, given, published, promised)
      /\ AreStreams(workload, streams, x.deliveries, now, given)
  <2>1. AreDeliveries(x.deliveries, x.nextMessageId, x.nextAckId)
    BY <1>4 DEF IsWhole, AreContents
  <2>2. x.nextMessageId \in Nat /\ x.nextAckId \in Nat /\ server.nextMessageId <= x.nextMessageId
        /\ server.nextAckId <= x.nextAckId
    BY <1>4, <1>5
  <2> QED
    BY <1>3, <1>4, <1>5, <2>1, <2>2, CalmTold
<1>7. outcome \in {"saved", "killed"} =>
        Told(x.deliveries, x.nextMessageId, x.nextAckId, now, given', published', promised')
  <2>1. CASE outcome = "saved"
    <3>1. published \subseteq 1..x.nextMessageId
      BY <1>6 DEF Told, IdsBehind
    <3>2. \A i \in DOMAIN batch : server.nextMessageId + i \in 1..x.nextMessageId
      BY <1>4, <1>5
    <3>3. published' \subseteq 1..x.nextMessageId
      BY <1>2, <2>1, <3>1, <3>2
    <3> QED
      BY <1>3, <1>6, <3>3 DEF Told, IdsBehind
  <2>2. CASE outcome # "saved"
    BY <1>2, <1>3, <1>6, <2>2
  <2> QED
    BY <2>1, <2>2
<1>8. Coherent(back) /\ "nextMessageId" \in DOMAIN back /\ "deliveries" \in DOMAIN back
      /\ \A f \in DOMAIN back : back[f] = server[f]
  BY <1>1 DEF Coherent
<1>9. Persist(outcome, x, back) /\ (Killed(outcome) => streams' = NoStreams)
      /\ (~Killed(outcome) => streams' = streams)
  BY <1>2 DEF Finish, StreamsAfter, NoStreams
<1>10. Failed(outcome) \/ outcome = "saved" => streams' = streams
  BY <1>9 DEF Failed, Killed
<1>11. outcome \notin {"saved", "killed"} => published' = published
  BY <1>2
<1>12. Failed(outcome) => outcome \notin {"saved", "killed"}
  BY DEF Failed
<1>13. /\ Told(messageFile.deliveries, messageFile.nextMessageId, messageFile.nextAckId, now,
               given, published, promised)
       /\ Told(server.deliveries, server.nextMessageId, server.nextAckId, now, given, published, promised)
       /\ AreStreams(workload, streams, server.deliveries, now, given)
  BY <1>3, Running
<1> QED
  BY <1>3, <1>4, <1>5, <1>6, <1>7, <1>8, <1>9, <1>10, <1>11, <1>12, <1>13, PersistStep

-----------------------------------------------------------------------------
(***************************************************************************)
(* Handing messages out.                                                   *)
(***************************************************************************)

\* The records of a queue after the loop.
WorkingAt(x, s, scan, deadline) ==
  [p \in DOMAIN x.deliveries[s].at |->
     CASE p \in scan.taken -> Taken(x, s, scan, deadline, p)
       [] p \in scan.dead  -> AckedOf(x.deliveries[s].at[p])
       [] OTHER            -> x.deliveries[s].at[p]]

\* What the loop makes of the queue: those taken have new ack ids and leases, those
\* dead-lettered are acknowledged.
LEMMA WorkingQueue ==
  ASSUME NEW x, NEW top, IsWhole(workload, x, top), NEW s \in SubscriptionNames, NEW max \in Nat,
         now \in Nat, now # 0, NEW deadline \in Nat, NEW scan, scan = Scan(x, s, max)
  PROVE  LET v == x.deliveries[s]
             w == Working(x, s, scan, deadline)
         IN /\ IsQueue(w, x.nextMessageId, x.nextAckId + Cardinality(scan.taken))
            /\ DOMAIN w.at = DOMAIN v.at
            /\ \A p \in DOMAIN v.at : w.at[p].message = v.at[p].message
            /\ \A p \in scan.taken :
                 /\ ~w.at[p].acked /\ w.at[p].lease = now + deadline
                 /\ w.at[p].ack = Taken(x, s, scan, deadline, p).ack
                 /\ Rank(p, scan.taken) \in 1..Cardinality(scan.taken)
                 /\ w.at[p].ack = AckId(v.at[p].message, x.nextAckId + Rank(p, scan.taken))
            /\ \A p \in scan.dead : w.at[p].acked
            /\ \A p \in DOMAIN v.at \ (scan.taken \cup scan.dead) : w.at[p] = v.at[p]
<1>1. PICK v, w, n : /\ v = x.deliveries[s] /\ w = Working(x, s, scan, deadline)
                     /\ n = Cardinality(scan.taken)
  OBVIOUS
<1>2. PICK at : at = WorkingAt(x, s, scan, deadline)
  OBVIOUS
<1>3. /\ scan.taken \subseteq DOMAIN v.at /\ scan.dead \subseteq DOMAIN v.at
      /\ scan.taken \cap scan.dead = {}
      /\ \A p \in scan.taken \cup scan.dead : ~v.at[p].acked
      /\ n \in Nat
  BY <1>1, ScanFacts
<1>4. IsQueue(v, x.nextMessageId, x.nextAckId) /\ x.nextMessageId \in Nat /\ x.nextAckId \in Nat
  BY <1>1 DEF IsWhole, AreContents, AreDeliveries
<1>5. w = Refilled(v, at)
  BY <1>1, <1>2, <1>4 DEF Working, Refilled, WorkingAt, AckedOf, IsQueue
<1>6. IsFunction(at) /\ DOMAIN at = DOMAIN v.at
  BY <1>1, <1>2 DEF WorkingAt, IsFunction
<1>7. /\ \A p \in scan.taken : at[p] = Taken(x, s, scan, deadline, p)
      /\ \A p \in scan.dead : at[p] = AckedOf(v.at[p])
      /\ \A p \in DOMAIN v.at \ (scan.taken \cup scan.dead) : at[p] = v.at[p]
  BY <1>1, <1>2, <1>3 DEF WorkingAt
<1>8. \A p \in scan.taken : Rank(p, scan.taken) \in 1..n
  <2>1. v.pushed \in Nat /\ DOMAIN v.at \subseteq 1..v.pushed
    BY <1>4 DEF IsQueue
  <2>2. scan.taken \in SUBSET (1..v.pushed)
    BY <1>3, <2>1
  <2> QED
    BY <1>1, <2>1, <2>2, Ranks
<1>9. ASSUME NEW p \in scan.taken
      PROVE  /\ IsRecord(at[p], x.nextMessageId, x.nextAckId + n) /\ at[p].message = v.at[p].message
             /\ ~at[p].acked /\ at[p].lease = now + deadline
             /\ at[p].ack = AckId(v.at[p].message, x.nextAckId + Rank(p, scan.taken))
  <2>1. PICK r : r = v.at[p]
    OBVIOUS
  <2>2. IsRecord(r, x.nextMessageId, x.nextAckId) /\ r = RecordAt(x, s, p)
    BY <1>1, <1>3, <1>4, <2>1 DEF IsQueue, RecordAt
  <2>3. ~r.acked
    BY <1>3, <2>1
  <2>4. Rank(p, scan.taken) \in 1..n
    BY <1>8
  <2>5. PICK acks \in Nat, id \in Nat : acks = x.nextAckId /\ id = x.nextMessageId
    BY <1>4
  <2>6. LET q == Taken(x, s, scan, deadline, p) IN
        /\ IsRecord(q, id, acks + n)
        /\ q.message = r.message /\ ~q.acked /\ q.lease = now + deadline
        /\ q.ack = AckId(r.message, acks + Rank(p, scan.taken))
    <3>1. r = RecordAt(x, s, p) /\ IsRecord(r, id, acks)
      BY <2>2, <2>5
    <3>2. n \in Nat /\ now \in Nat /\ now # 0 /\ deadline \in Nat /\ x.nextAckId = acks
      BY <1>3, <2>5
    <3> QED
      BY ONLY <2>3, <2>4, <2>5, <3>1, <3>2, TakenRecord
  <2> QED
    BY <1>7, <2>1, <2>5, <2>6
<1>14. ASSUME NEW p \in DOMAIN v.at
       PROVE  IsRecord(v.at[p], x.nextMessageId, x.nextAckId + n)
  <2>1. IsRecord(v.at[p], x.nextMessageId, x.nextAckId)
    BY <1>4 DEF IsQueue
  <2>2. x.nextAckId + n \in Nat /\ x.nextAckId <= x.nextAckId + n
    BY <1>3, <1>4
  <2> QED
    BY <1>4, <2>1, <2>2, RecordGrows
<1>10. ASSUME NEW p \in scan.dead
       PROVE  /\ IsRecord(at[p], x.nextMessageId, x.nextAckId + n) /\ at[p].message = v.at[p].message
              /\ at[p].acked
  <2>1. IsRecord(v.at[p], x.nextMessageId, x.nextAckId + n)
    BY <1>3, <1>14
  <2> QED
    BY <1>7, <2>1, AckedRecord
<1>11. ASSUME NEW p \in DOMAIN v.at \ (scan.taken \cup scan.dead)
       PROVE  /\ IsRecord(at[p], x.nextMessageId, x.nextAckId + n) /\ at[p].message = v.at[p].message
  BY <1>7, <1>14
<1>12. \A p \in DOMAIN at : /\ IsRecord(at[p], x.nextMessageId, x.nextAckId + n)
                            /\ at[p].message = v.at[p].message
  BY <1>6, <1>9, <1>10, <1>11
<1>13. IsQueue(w, x.nextMessageId, x.nextAckId + n) /\ w.at = at
  BY <1>4, <1>5, <1>6, <1>12, RefilledQueue
<1> QED
  BY <1>1, <1>6, <1>7, <1>8, <1>9, <1>10, <1>12, <1>13

\* Compaction keeps the records that are not acknowledged, as they are.
LEMMA CompactedQueue ==
  ASSUME NEW v, NEW top, NEW acks, IsQueue(v, top, acks), NEW retain
  PROVE  LET w == Compacted(v, retain) IN
         /\ IsQueue(w, top, acks)
         /\ DOMAIN w.at \subseteq DOMAIN v.at /\ Unacked(v) \subseteq DOMAIN w.at
         /\ \A p \in DOMAIN w.at : w.at[p] = v.at[p]
<1>1. Unacked(v) \subseteq DOMAIN v.at
  BY DEF Unacked
<1>2. /\ IsQueue(Retain(v, Unacked(v)), top, acks)
      /\ DOMAIN Retain(v, Unacked(v)).at = Unacked(v)
      /\ \A p \in Unacked(v) : Retain(v, Unacked(v)).at[p] = v.at[p]
  BY <1>1, RetainQueue
<1>3. CASE retain
  BY <1>1, <1>3 DEF Compacted
<1>4. CASE ~retain
  BY <1>1, <1>2, <1>4 DEF Compacted
<1> QED
  BY <1>3, <1>4

\* Storing the working records of s.
LEMMA StoredWhole ==
  ASSUME NEW y, NEW top, IsWhole(workload, y, top), NEW s \in SubscriptionNames, NEW v,
         IsQueue(v, y.nextMessageId, y.nextAckId)
  PROVE  LET z == Stored(y, s, v) IN
         /\ IsWhole(workload, z, top)
         /\ z.topics = y.topics /\ z.subscriptions = y.subscriptions /\ z.snapshots = y.snapshots
         /\ z.messages = y.messages /\ z.nextMessageId = y.nextMessageId /\ z.nextAckId = y.nextAckId
         /\ z.messagesDirty
         /\ DOMAIN z.deliveries[s].at \subseteq DOMAIN v.at /\ Unacked(v) \subseteq DOMAIN z.deliveries[s].at
         /\ \A p \in DOMAIN z.deliveries[s].at : z.deliveries[s].at[p] = v.at[p]
         /\ \A u \in SubscriptionNames : u # s => z.deliveries[u] = y.deliveries[u]
<1>1. PICK w : w = Compacted(v, y.subscriptions[s].retainAcked)
  OBVIOUS
<1>2. PICK a, z : a = SwappedIn(y, s, w) /\ z = Stored(y, s, v)
  OBVIOUS
<1>3. /\ IsQueue(w, y.nextMessageId, y.nextAckId)
      /\ DOMAIN w.at \subseteq DOMAIN v.at /\ Unacked(v) \subseteq DOMAIN w.at
      /\ \A p \in DOMAIN w.at : w.at[p] = v.at[p]
  BY <1>1, CompactedQueue
<1>4. /\ IsWhole(workload, a, top)
      /\ a.topics = y.topics /\ a.subscriptions = y.subscriptions /\ a.snapshots = y.snapshots
      /\ a.messages = y.messages /\ a.nextMessageId = y.nextMessageId /\ a.nextAckId = y.nextAckId
      /\ a.deliveries[s] = w /\ \A u \in SubscriptionNames : u # s => a.deliveries[u] = y.deliveries[u]
  BY <1>2, <1>3, SwappedWhole
<1>5. z = [a EXCEPT !.messagesDirty = TRUE]
  <2>1. IsServer(y) /\ y.deliveries = [u \in SubscriptionNames |-> y.deliveries[u]]
    BY DEF IsWhole, AreContents, AreDeliveries
  <2> QED
    BY <1>1, <1>2, <2>1 DEF Stored, SwappedIn, Swapped, IsServer, ServerFields
<1>6. /\ IsServer(z) /\ z.deliveries = a.deliveries /\ z.messages = a.messages
      /\ z.topics = a.topics /\ z.subscriptions = a.subscriptions /\ z.snapshots = a.snapshots
      /\ z.nextMessageId = a.nextMessageId /\ z.nextAckId = a.nextAckId /\ z.messagesDirty = TRUE
  BY <1>4, <1>5 DEF IsWhole, IsServer, ServerFields
<1>7. IsWhole(workload, z, top)
  BY <1>4, <1>6 DEF IsWhole
<1> QED
  BY <1>2, <1>3, <1>4, <1>6, <1>7

\* The values of a function.
ImageOf(f) == {f[p] : p \in DOMAIN f}

\* A function has not more values than arguments, and as many when it is injective.
LEMMA Images ==
  ASSUME NEW f, IsFunction(f), IsFiniteSet(DOMAIN f)
  PROVE  /\ IsFiniteSet(ImageOf(f)) /\ Cardinality(ImageOf(f)) <= Cardinality(DOMAIN f)
         /\ (\A p, q \in DOMAIN f : f[p] = f[q] => p = q) => Cardinality(ImageOf(f)) = Cardinality(DOMAIN f)
<1>1. f \in [DOMAIN f -> ImageOf(f)]
  BY DEF ImageOf, IsFunction
<1>2. f \in Surjection(DOMAIN f, ImageOf(f))
  BY <1>1 DEF Surjection, ImageOf
<1>3. (\A p, q \in DOMAIN f : f[p] = f[q] => p = q) => f \in Injection(DOMAIN f, ImageOf(f))
  BY <1>1 DEF Injection, IsInjective
<1> QED
  BY <1>2, <1>3, FS_Surjection

\* Each dead letter is copied under an id of its own, above all earlier ones.
LEMMA CopiesFacts ==
  ASSUME NEW x, NEW s, NEW scan, NEW n \in Nat, scan.dead \in SUBSET (1..n), x.nextMessageId \in Nat
  PROVE  LET copies == Copies(x, s, scan) IN
         /\ Cardinality(DOMAIN copies) = Cardinality(scan.dead) /\ Cardinality(scan.dead) \in Nat
         /\ DOMAIN copies \subseteq x.nextMessageId + 1 .. x.nextMessageId + Cardinality(scan.dead)
         /\ scan.dead = {} <=> Cardinality(DOMAIN copies) = 0
<1>1. PICK f, top : top = x.nextMessageId /\ f = [p \in scan.dead |-> top + Rank(p, scan.dead)]
  OBVIOUS
<1>2. DOMAIN Copies(x, s, scan) = ImageOf(f)
  BY <1>1 DEF Copies, ImageOf
<1>3. IsFunction(f) /\ DOMAIN f = scan.dead /\ \A p \in scan.dead : f[p] = top + Rank(p, scan.dead)
  BY <1>1 DEF IsFunction
<1>4. IsFiniteSet(scan.dead) /\ Cardinality(scan.dead) \in Nat
  BY PositionsFinite
<1>5. /\ \A p \in scan.dead : Rank(p, scan.dead) \in 1..Cardinality(scan.dead)
      /\ \A p, q \in scan.dead : Rank(p, scan.dead) = Rank(q, scan.dead) => p = q
  BY Ranks
<1>6. \A p, q \in DOMAIN f : f[p] = f[q] => p = q
  <2> SUFFICES ASSUME NEW p \in scan.dead, NEW q \in scan.dead, f[p] = f[q]
               PROVE  p = q
    BY <1>3
  <2>1. Rank(p, scan.dead) \in Nat /\ Rank(q, scan.dead) \in Nat
    BY <1>5
  <2>2. top + Rank(p, scan.dead) = top + Rank(q, scan.dead)
    BY <1>3
  <2>3. Rank(p, scan.dead) = Rank(q, scan.dead)
    BY <1>1, <2>1, <2>2
  <2> QED
    BY <1>5, <2>3
<1>7. Cardinality(ImageOf(f)) = Cardinality(scan.dead)
  BY <1>3, <1>4, <1>6, Images
<1>8. ImageOf(f) \subseteq top + 1 .. top + Cardinality(scan.dead)
  <2> SUFFICES ASSUME NEW p \in scan.dead
               PROVE  f[p] \in top + 1 .. top + Cardinality(scan.dead)
    BY <1>3 DEF ImageOf
  <2>1. Rank(p, scan.dead) \in 1..Cardinality(scan.dead)
    BY <1>5
  <2> QED
    BY <1>1, <1>3, <1>4, <2>1
<1>9. scan.dead = {} <=> Cardinality(scan.dead) = 0
  BY <1>4, FS_EmptySet
<1> QED
  BY <1>1, <1>2, <1>4, <1>7, <1>8, <1>9

\* A server that gave out more ack ids.
Counted(x, acks) == [x EXCEPT !.nextAckId = acks]

\* A server stays whole when its ack counter moves on.
LEMMA CountedWhole ==
  ASSUME NEW w, NEW x, NEW top, IsWhole(w, x, top), NEW acks \in Nat, x.nextAckId <= acks
  PROVE  LET y == Counted(x, acks) IN
         /\ IsWhole(w, y, top)
         /\ y.topics = x.topics /\ y.subscriptions = x.subscriptions /\ y.snapshots = x.snapshots
         /\ y.messages = x.messages /\ y.deliveries = x.deliveries
         /\ y.nextMessageId = x.nextMessageId /\ y.nextAckId = acks /\ y.messagesDirty = x.messagesDirty
<1>1. PICK y : y = Counted(x, acks)
  OBVIOUS
<1>2. /\ IsServer(y) /\ y.deliveries = x.deliveries /\ y.messages = x.messages
      /\ y.topics = x.topics /\ y.subscriptions = x.subscriptions /\ y.snapshots = x.snapshots
      /\ y.nextMessageId = x.nextMessageId /\ y.nextAckId = acks /\ y.messagesDirty = x.messagesDirty
  BY <1>1 DEF Counted, IsWhole, IsServer, ServerFields
<1>3. /\ x.nextMessageId \in Nat /\ x.nextAckId \in Nat
      /\ AreDeliveries(x.deliveries, x.nextMessageId, x.nextAckId)
  BY DEF IsWhole, AreContents
<1>4. AreDeliveries(x.deliveries, x.nextMessageId, acks)
  BY <1>3, DeliveriesGrow
<1>5. IsWhole(w, y, top)
  BY <1>2, <1>3, <1>4 DEF IsWhole, AreContents
<1> QED
  BY <1>1, <1>2, <1>5

\* Server y is x after a loop that gave out n ack ids and copied dead letters, or none.
ScannedFrom(y, x, n, dead, time) ==
  /\ y.topics = x.topics /\ y.subscriptions = x.subscriptions /\ y.snapshots = x.snapshots
  /\ y.nextAckId = x.nextAckId + n /\ x.nextMessageId <= y.nextMessageId
  /\ dead = {} => y.nextMessageId = x.nextMessageId
  /\ AllCalm(x.deliveries, y.deliveries, x.nextMessageId, time)
  /\ \A id \in DOMAIN y.messages : id <= x.nextMessageId => id \in DOMAIN x.messages /\ y.messages[id] = x.messages[id]

\* The loop copies dead letters into new messages, which the subscriptions of the dead-letter
\* topic get.
LEMMA ScannedWhole ==
  ASSUME NEW x, NEW top \in Nat, IsWhole(workload, x, top), NEW s \in SubscriptionNames, NEW max \in Nat,
         now \in Nat, NEW scan, scan = Scan(x, s, max)
  PROVE  /\ IsWhole(workload, Scanned(x, s, scan), top)
         /\ ScannedFrom(Scanned(x, s, scan), x, Cardinality(scan.taken), scan.dead, now)
<1>1. PICK v, copies, n, y, a : /\ v = x.deliveries[s] /\ copies = Copies(x, s, scan)
                                /\ n = Cardinality(DOMAIN copies) /\ y = Scanned(x, s, scan)
                                /\ a = x.nextAckId + Cardinality(scan.taken)
  OBVIOUS
<1>2. /\ IsServer(x) /\ x.nextMessageId \in Nat /\ x.nextAckId \in Nat
      /\ AreMessages(x.messages, x.nextMessageId) /\ AreDeliveries(x.deliveries, x.nextMessageId, x.nextAckId)
      /\ v.pushed \in Nat /\ DOMAIN v.at \subseteq 1..v.pushed
  BY <1>1 DEF IsWhole, AreContents, AreDeliveries, IsQueue
<1>3. scan.dead \subseteq DOMAIN v.at /\ Cardinality(scan.taken) \in Nat
  BY <1>1, ScanFacts
<1>4. scan.dead \in SUBSET (1..v.pushed)
  BY <1>2, <1>3
<1>5. /\ n \in Nat /\ DOMAIN copies \subseteq x.nextMessageId + 1 .. x.nextMessageId + n
      /\ scan.dead = {} => n = 0
  BY <1>1, <1>2, <1>4, CopiesFacts
<1>6. a \in Nat /\ x.nextAckId <= a
  BY <1>1, <1>2, <1>3
<1>7. CASE n = 0
  <2>1. y = Counted(x, a)
    BY <1>1, <1>2, <1>7 DEF Scanned, Counted, IsServer, ServerFields
  <2>2. /\ IsWhole(workload, y, top)
        /\ y.topics = x.topics /\ y.subscriptions = x.subscriptions /\ y.snapshots = x.snapshots
        /\ y.messages = x.messages /\ y.deliveries = x.deliveries
        /\ y.nextMessageId = x.nextMessageId /\ y.nextAckId = a
    BY <1>6, <2>1, CountedWhole
  <2>3. AllCalm(x.deliveries, y.deliveries, x.nextMessageId, now)
    BY <2>2, CalmSame
  <2> QED
    BY <1>1, <1>2, <2>2, <2>3 DEF ScannedFrom
<1>8. CASE n # 0
  <2>1. PICK m : m = [id \in DOMAIN x.messages \cup DOMAIN copies |->
                        IF id \in DOMAIN copies THEN copies[id] ELSE x.messages[id]]
    OBVIOUS
  <2>2. PICK ids : ids = [i \in 1..n |-> x.nextMessageId + i]
    OBVIOUS
  <2>3. PICK d : d = [c \in SubscriptionNames |->
                        IF c \in Attached(x, DeadLetterTarget(x, s).topic)
                        THEN PushAll(x.deliveries[c], ids, n) ELSE x.deliveries[c]]
    OBVIOUS
  <2>4. PICK g : g = Grown(x, m, d, x.nextMessageId + n)
    OBVIOUS
  <2>5. y = Counted(g, a)
    <3>1. y = [x EXCEPT !.messages = m, !.deliveries = d, !.nextMessageId = x.nextMessageId + n, !.nextAckId = a]
      BY <1>1, <1>2, <1>8, <2>1, <2>2, <2>3 DEF Scanned, IsServer, ServerFields
    <3> QED
      BY <2>4, <3>1 DEF Counted, Grown
  <2>6. /\ AreMessages(m, x.nextMessageId + n)
        /\ \A id \in DOMAIN m : id <= x.nextMessageId => id \in DOMAIN x.messages /\ m[id] = x.messages[id]
    <3>1. IsFunction(m) /\ DOMAIN m = DOMAIN x.messages \cup DOMAIN copies
      BY <2>1 DEF IsFunction
    <3>2. DOMAIN x.messages \subseteq 1..x.nextMessageId
      BY <1>2 DEF AreMessages
    <3>3. DOMAIN m \subseteq 1..(x.nextMessageId + n)
      BY <1>2, <1>5, <3>1, <3>2
    <3>4. \A id \in DOMAIN copies : ~(id <= x.nextMessageId)
      BY <1>2, <1>5
    <3>5. \A id \in DOMAIN m : id <= x.nextMessageId => id \in DOMAIN x.messages /\ m[id] = x.messages[id]
      BY <2>1, <3>1, <3>4
    <3> QED
      BY <3>1, <3>3, <3>5 DEF AreMessages
  <2>7. DOMAIN ids = 1..n /\ \A i \in DOMAIN ids : ids[i] = x.nextMessageId + i
    BY <2>2
  <2>8. ASSUME NEW c \in SubscriptionNames
        PROVE  /\ IsQueue(d[c], x.nextMessageId + n, x.nextAckId)
               /\ Calm(x.deliveries[c], d[c], x.nextMessageId, now)
    <3>1. PICK q : q = x.deliveries[c]
      OBVIOUS
    <3>2. IsQueue(q, x.nextMessageId, x.nextAckId)
      BY <1>2, <3>1 DEF AreDeliveries
    <3>3. /\ IsQueue(PushAll(q, ids, n), x.nextMessageId + n, x.nextAckId)
          /\ \A p \in DOMAIN PushAll(q, ids, n).at :
               \/ p \in DOMAIN q.at /\ PushAll(q, ids, n).at[p] = q.at[p]
               \/ IsNew(PushAll(q, ids, n).at[p], x.nextMessageId)
      BY <1>2, <1>5, <2>7, <3>2, PushedQueue
    <3>4. x.nextMessageId + n \in Nat /\ x.nextMessageId <= x.nextMessageId + n
      BY <1>2, <1>5
    <3>5. IsQueue(q, x.nextMessageId + n, x.nextAckId)
      BY <1>2, <3>2, <3>4, QueueGrows
    <3>6. d[c] = PushAll(q, ids, n) \/ d[c] = q
      BY <2>3, <3>1
    <3>7. Calm(q, d[c], x.nextMessageId, now)
      BY <3>3, <3>6, SameCalmer DEF Calm
    <3> QED
      BY <3>1, <3>3, <3>5, <3>6, <3>7
  <2>9. AreDeliveries(d, x.nextMessageId + n, x.nextAckId) /\ AllCalm(x.deliveries, d, x.nextMessageId, now)
    <3>1. d = [c \in SubscriptionNames |-> d[c]]
      BY <2>3
    <3> QED
      BY <2>8, <3>1 DEF AreDeliveries, AllCalm
  <2>10. x.nextMessageId + n \in Nat /\ x.nextMessageId <= x.nextMessageId + n
    BY <1>2, <1>5
  <2>11. /\ IsWhole(workload, g, top)
         /\ g.topics = x.topics /\ g.subscriptions = x.subscriptions /\ g.snapshots = x.snapshots
         /\ g.messages = m /\ g.deliveries = d /\ g.nextMessageId = x.nextMessageId + n
         /\ g.nextAckId = x.nextAckId
    BY <2>4, <2>6, <2>9, <2>10, GrownWhole
  <2>12. /\ IsWhole(workload, y, top)
         /\ y.topics = g.topics /\ y.subscriptions = g.subscriptions /\ y.snapshots = g.snapshots
         /\ y.messages = g.messages /\ y.deliveries = g.deliveries
         /\ y.nextMessageId = g.nextMessageId /\ y.nextAckId = a
    BY <1>6, <2>5, <2>11, CountedWhole
  <2> HIDE <2>1, <2>2, <2>3
  <2>13. ScannedFrom(y, x, Cardinality(scan.taken), scan.dead, now)
    BY <1>1, <1>5, <1>8, <2>6, <2>9, <2>10, <2>11, <2>12 DEF ScannedFrom
  <2> QED
    BY <1>1, <2>12, <2>13
<1> QED
  BY <1>7, <1>8

\* The record of queue w at p is one of v that calmed down, or new.
CalmAt(v, w, p, top, time) ==
  (p \in DOMAIN v.at /\ Calmer(v.at[p], w.at[p], time)) \/ IsNew(w.at[p], top)

\* Deliveries e are d after the messages at positions K of s were handed out, with ack ids
\* counted from `acks` on and a lease.
Handed(d, e, s, K, top, acks, acks2, lease, time) ==
  /\ \A u \in SubscriptionNames : u # s => Calm(d[u], e[u], top, time)
  /\ K \subseteq DOMAIN e[s].at
  /\ \A p \in DOMAIN e[s].at \ K : CalmAt(d[s], e[s], p, top, time)
  /\ \A p \in K : /\ p \in DOMAIN d[s].at /\ ~d[s].at[p].acked /\ d[s].at[p].lease <= time
                  /\ e[s].at[p].message = d[s].at[p].message
                  /\ ~e[s].at[p].acked /\ e[s].at[p].lease = lease
                  /\ \E c \in (acks + 1)..acks2 : e[s].at[p].ack = AckId(e[s].at[p].message, c)

\* Clients were also given the ack ids at K, and promised the leases, or were not.
GivenMore(giv2, giv, v, K) == \A a \in giv2 : a \in giv \/ \E p \in K : a = v.at[p].ack

PromisedMore(prom2, prom, s, v, K, lease) ==
  /\ ArePromises(prom2)
  /\ \A k \in DOMAIN prom2 : \/ k \in DOMAIN prom /\ prom2[k] = prom[k]
                             \/ prom2[k] = lease /\ \E p \in K : k[1] = s /\ k[2] = v.at[p].message

\* A record with a lease that calmed down had the lease before.
LEMMA StillLeased ==
  ASSUME NEW v, NEW w, NEW p, NEW top, NEW time \in Nat, CalmAt(v, w, p, top, time),
         ~w.at[p].acked, w.at[p].lease > time
  PROVE  w.at[p].ack \in LeasedAcks(v, time)
<1>1. ~IsNew(w.at[p], top) /\ w.at[p].lease # 0
  BY DEF IsNew
<1>2. p \in DOMAIN v.at /\ Calmer(v.at[p], w.at[p], time)
  BY <1>1 DEF CalmAt
<1>3. ~v.at[p].acked /\ v.at[p].lease = w.at[p].lease /\ v.at[p].ack = w.at[p].ack
  BY <1>1, <1>2 DEF Calmer
<1> QED
  BY <1>2, <1>3 DEF LeasedAcks

UpTo(n, m) == n \in Nat /\ m \in Nat /\ n <= m

\* Handing messages out keeps what clients were told, and what they are told with it: what is
\* handed out was in nobody's hands, and no message has two records.
LEMMA ToldHanded ==
  ASSUME NEW top, NEW acks, NEW top2, NEW acks2, UpTo(top, top2), UpTo(acks, acks2),
         NEW time \in Nat, NEW lease, NEW d, NEW e,
         NEW s \in SubscriptionNames, NEW K, Handed(d, e, s, K, top, acks, acks2, lease, time),
         AreDeliveries(d, top, acks), AreDeliveries(e, top2, acks2),
         NEW giv, NEW pub, NEW prom, ArePromises(prom), Told(d, top, acks, time, giv, pub, prom),
         NEW giv2, GivenMore(giv2, giv, e[s], K), NEW prom2, PromisedMore(prom2, prom, s, e[s], K, lease)
  PROVE  Told(e, top2, acks2, time, giv2, pub, prom2)
<1>0. top \in Nat /\ acks \in Nat /\ top2 \in Nat /\ acks2 \in Nat /\ top <= top2 /\ acks <= acks2
  BY DEF UpTo
<1>1. /\ \A p \in K : p \in DOMAIN d[s].at /\ p \in DOMAIN e[s].at
                      /\ e[s].at[p].message \in 1..top /\ e[s].at[p].message = d[s].at[p].message
  BY DEF Handed, AreDeliveries, IsQueue, IsRecord
<1>2. 1..top \subseteq 1..top2 /\ 1..acks \subseteq 1..acks2 /\ (acks + 1)..acks2 \subseteq 1..acks2
  BY <1>0
<1>3. \A a \in giv2 : \E i \in 1..top2, c \in 1..acks2 : a = <<i, c>>
  <2> SUFFICES ASSUME NEW a \in giv2
               PROVE  \E i \in 1..top2, c \in 1..acks2 : a = <<i, c>>
    OBVIOUS
  <2>1. CASE a \in giv
    BY <1>2, <2>1 DEF Told, IdsBehind
  <2>2. CASE a \notin giv
    <3>1. PICK p \in K : a = e[s].at[p].ack
      BY <2>2 DEF GivenMore
    <3>2. PICK c \in (acks + 1)..acks2 : a = <<e[s].at[p].message, c>>
      BY <3>1 DEF Handed, AckId
    <3> QED
      BY <1>1, <1>2, <3>2
  <2> QED
    BY <2>1, <2>2
<1>4. pub \subseteq 1..top2 /\ \A k \in DOMAIN prom2 : k[2] \in 1..top2
  BY <1>1, <1>2 DEF Told, IdsBehind, PromisedMore
<1>5. LeasesStand(e, time, prom2)
  <2> SUFFICES ASSUME NEW k \in DOMAIN prom2, prom2[k] > time, NEW p \in DOMAIN e[k[1]].at,
                      ~e[k[1]].at[p].acked, e[k[1]].at[p].message = k[2]
               PROVE  e[k[1]].at[p].lease >= prom2[k]
    BY DEF LeasesStand
  <2>1. PICK u \in SubscriptionNames : u = k[1]
    BY DEF PromisedMore, ArePromises
  <2>2. CASE k \in DOMAIN prom /\ prom2[k] = prom[k]
    <3>1. prom[k] \in Nat /\ k[2] \in 1..top
      BY <2>2 DEF ArePromises, Told, IdsBehind
    <3>2. \A q \in DOMAIN d[u].at : ~d[u].at[q].acked /\ d[u].at[q].message = k[2] => d[u].at[q].lease >= prom[k]
      BY <2>1, <2>2 DEF Told, LeasesStand
    <3>3. \A q \in DOMAIN d[u].at : d[u].at[q].lease \in Nat
      BY DEF AreDeliveries, IsQueue, IsRecord
    <3>4. ~(u = s /\ p \in K)
      <4> SUFFICES ASSUME u = s, p \in K
                   PROVE  FALSE
        OBVIOUS
      <4>1. /\ p \in DOMAIN d[u].at /\ ~d[u].at[p].acked /\ d[u].at[p].lease <= time
            /\ d[u].at[p].message = k[2]
        BY <2>1 DEF Handed
      <4> QED
        BY <2>2, <3>1, <3>2, <3>3, <4>1
    <3>5. CalmAt(d[u], e[u], p, top, time)
      BY <2>1, <3>4 DEF Handed, Calm, CalmAt
    <3>6. p \in DOMAIN d[u].at /\ Calmer(d[u].at[p], e[u].at[p], time)
      BY <1>0, <2>1, <3>1, <3>5 DEF CalmAt, IsNew
    <3>7. ~d[u].at[p].acked /\ d[u].at[p].message = k[2]
      BY <2>1, <3>6 DEF Calmer
    <3>8. d[u].at[p].lease >= prom[k] /\ d[u].at[p].lease \in Nat
      BY <3>2, <3>3, <3>6, <3>7
    <3> QED
      BY <2>1, <2>2, <3>1, <3>6, <3>8 DEF Calmer
  <2>3. CASE ~(k \in DOMAIN prom /\ prom2[k] = prom[k])
    <3>1. PICK q \in K : u = s /\ k[2] = e[s].at[q].message /\ prom2[k] = lease
      BY <2>1, <2>3 DEF PromisedMore
    <3>2. p = q
      BY <1>1, <2>1, <3>1 DEF AreDeliveries, IsQueue
    <3>3. e[s].at[p].lease = lease
      BY <3>2 DEF Handed
    <3>4. lease \in Nat
      BY <3>1 DEF PromisedMore, ArePromises
    <3> QED
      BY <2>1, <3>1, <3>3, <3>4
  <2> QED
    BY <2>2, <2>3
<1> QED
  BY <1>3, <1>4, <1>5 DEF Told, IdsBehind

\* A stream that is not sent what is handed out holds no lease on it.
LEMMA StreamHanded ==
  ASSUME NEW top \in Nat, NEW acks \in Nat, NEW acks2 \in Nat, NEW time \in Nat, NEW lease, NEW d, NEW e,
         NEW s \in SubscriptionNames, NEW K, Handed(d, e, s, K, top, acks, acks2, lease, time),
         NEW giv, NEW pub, NEW prom, Told(d, top, acks, time, giv, pub, prom),
         NEW w, NEW c, IsStream(w, c, d, time, giv), NEW giv2, giv \subseteq giv2
  PROVE  IsStream(w, c, e, time, giv2)
<1>1. LeasedAcks(e[c.subscription], time) \cap c.sent \subseteq c.outstanding
  <2> SUFFICES ASSUME NEW p \in DOMAIN e[c.subscription].at, ~e[c.subscription].at[p].acked,
                      e[c.subscription].at[p].lease > time, e[c.subscription].at[p].ack \in c.sent
               PROVE  e[c.subscription].at[p].ack \in c.outstanding
    BY DEF LeasedAcks
  <2>1. PICK u \in SubscriptionNames : u = c.subscription
    BY DEF IsStream
  <2>2. ~(u = s /\ p \in K)
    <3> SUFFICES ASSUME u = s, p \in K
                 PROVE  FALSE
      OBVIOUS
    <3>1. PICK n \in (acks + 1)..acks2 : e[u].at[p].ack = <<e[u].at[p].message, n>>
      BY DEF Handed, AckId
    <3>2. e[u].at[p].ack \in giv
      BY <2>1 DEF IsStream
    <3>3. PICK i \in 1..top, m \in 1..acks : e[u].at[p].ack = <<i, m>>
      BY <3>2 DEF Told, IdsBehind
    <3>4. n = m
      BY <3>1, <3>3
    <3> QED
      BY <3>4
  <2>3. CalmAt(d[u], e[u], p, top, time)
    BY <2>1, <2>2 DEF Handed, Calm, CalmAt
  <2>4. e[u].at[p].ack \in LeasedAcks(d[u], time)
    BY <2>1, <2>3, StillLeased
  <2> QED
    BY <2>1, <2>4 DEF IsStream
<1>2. c.sent \subseteq giv2
  BY DEF IsStream
<1> QED
  BY <1>1, <1>2 DEF IsStream

\* Records calm down step by step.
LEMMA CalmerTwice ==
  ASSUME NEW r, NEW q, NEW u, NEW time \in Nat, Calmer(r, q, time), Calmer(q, u, time)
  PROVE  Calmer(r, u, time)
BY DEF Calmer

\* Queue v has, of those taken, the records at K as the loop left them; the others have calmed
\* down.
HandsOut(v, x, s, scan, deadline, K, time) ==
  /\ IsQueue(v, x.nextMessageId, x.nextAckId + Cardinality(scan.taken))
  /\ DOMAIN v.at = DOMAIN x.deliveries[s].at
  /\ K \subseteq scan.taken
  /\ \A p \in K : v.at[p] = Working(x, s, scan, deadline).at[p]
  /\ \A p \in DOMAIN v.at \ K : Calmer(x.deliveries[s].at[p], v.at[p], time)

\* The server a pull or a stream saves, against the one it started from.
LEMMA HandedOut ==
  ASSUME NEW b, NEW top \in Nat, IsWhole(workload, b, top), NEW s \in SubscriptionNames, NEW max \in Nat,
         now \in Nat, now # 0, NEW deadline \in Nat,
         NEW x, x = LeasesExpired(RetentionCleaned(b)), NEW scan, scan = Scan(x, s, max),
         NEW K, NEW v, HandsOut(v, x, s, scan, deadline, K, now),
         NEW z, z = Stored(Scanned(x, s, scan), s, v)
  PROVE  /\ IsWhole(workload, z, top) /\ z.messagesDirty
         /\ b.nextMessageId <= z.nextMessageId /\ b.nextAckId <= z.nextAckId
         /\ z.nextMessageId \in Nat /\ z.nextAckId \in Nat
         /\ Handed(b.deliveries, z.deliveries, s, K, b.nextMessageId, b.nextAckId, z.nextAckId, now + deadline, now)
         /\ \A p \in K : /\ z.deliveries[s].at[p].ack = Taken(x, s, scan, deadline, p).ack
                         /\ z.deliveries[s].at[p].message = x.deliveries[s].at[p].message
<1>1. IsWhole(workload, x, top) /\ Tidied(b, x, now)
  <2>1. PICK y : y = RetentionCleaned(b)
    OBVIOUS
  <2>2. IsWhole(workload, y, top) /\ Tidied(b, y, now)
    BY <2>1, CleanedWhole
  <2>3. IsWhole(workload, x, top) /\ Tidied(y, x, now)
    BY <2>1, <2>2, ExpiredWhole
  <2> QED
    BY <2>2, <2>3, TidiedTwice
<1>2. PICK y, w, n, T : /\ y = Scanned(x, s, scan) /\ w = Working(x, s, scan, deadline)
                        /\ n = Cardinality(scan.taken) /\ T = x.nextMessageId
  OBVIOUS
<1>3. /\ scan.taken \subseteq DOMAIN x.deliveries[s].at /\ n \in Nat
      /\ \A p \in scan.taken : ~x.deliveries[s].at[p].acked /\ x.deliveries[s].at[p].lease <= now
  BY <1>1, <1>2, ScanFacts
<1>4. IsWhole(workload, y, top) /\ ScannedFrom(y, x, n, scan.dead, now)
  BY <1>1, <1>2, ScannedWhole
<1>5. /\ b.nextMessageId = T /\ x.nextMessageId = T /\ x.nextAckId = b.nextAckId
      /\ T \in Nat /\ b.nextAckId \in Nat
      /\ y.nextAckId = b.nextAckId + n /\ T <= y.nextMessageId /\ y.nextMessageId \in Nat
      /\ y.nextAckId \in Nat /\ b.nextAckId <= y.nextAckId
  <2>1. b.nextMessageId = T /\ x.nextMessageId = T /\ x.nextAckId = b.nextAckId
    BY <1>1, <1>2 DEF Tidied
  <2>2. T \in Nat /\ b.nextAckId \in Nat /\ y.nextMessageId \in Nat
    BY <1>1, <1>2, <1>4 DEF IsWhole, AreContents
  <2>3. y.nextAckId = b.nextAckId + n /\ T <= y.nextMessageId
    BY <1>4, <2>1 DEF ScannedFrom
  <2> QED
    BY <1>3, <2>1, <2>2, <2>3
<1>6. IsQueue(v, y.nextMessageId, y.nextAckId)
  <2>1. IsQueue(v, T, y.nextAckId)
    BY <1>2, <1>5 DEF HandsOut
  <2> QED
    BY <1>5, <2>1, QueueGrows
<1>7. /\ IsWhole(workload, z, top)
      /\ z.nextMessageId = y.nextMessageId /\ z.nextAckId = y.nextAckId /\ z.messagesDirty
      /\ DOMAIN z.deliveries[s].at \subseteq DOMAIN v.at /\ Unacked(v) \subseteq DOMAIN z.deliveries[s].at
      /\ \A p \in DOMAIN z.deliveries[s].at : z.deliveries[s].at[p] = v.at[p]
      /\ \A u \in SubscriptionNames : u # s => z.deliveries[u] = y.deliveries[u]
  BY <1>2, <1>4, <1>6, StoredWhole
<1>8. ASSUME NEW p \in K
      PROVE  /\ p \in DOMAIN z.deliveries[s].at
             /\ ~z.deliveries[s].at[p].acked /\ z.deliveries[s].at[p].lease = now + deadline
             /\ z.deliveries[s].at[p].ack = Taken(x, s, scan, deadline, p).ack
             /\ z.deliveries[s].at[p].message = x.deliveries[s].at[p].message
             /\ \E c \in (b.nextAckId + 1)..z.nextAckId :
                  z.deliveries[s].at[p].ack = AckId(z.deliveries[s].at[p].message, c)
  <2>1. p \in scan.taken /\ v.at[p] = w.at[p] /\ p \in DOMAIN x.deliveries[s].at /\ p \in DOMAIN v.at
    BY <1>2, <1>3 DEF HandsOut
  <2>2. /\ w.at[p].message = x.deliveries[s].at[p].message
        /\ ~w.at[p].acked /\ w.at[p].lease = now + deadline
        /\ w.at[p].ack = Taken(x, s, scan, deadline, p).ack
        /\ Rank(p, scan.taken) \in 1..n
        /\ w.at[p].ack = AckId(x.deliveries[s].at[p].message, x.nextAckId + Rank(p, scan.taken))
    <3>1. LET V == x.deliveries[s]
              W == Working(x, s, scan, deadline)
          IN /\ \A q \in DOMAIN V.at : W.at[q].message = V.at[q].message
             /\ \A q \in scan.taken :
                  /\ ~W.at[q].acked /\ W.at[q].lease = now + deadline
                  /\ W.at[q].ack = Taken(x, s, scan, deadline, q).ack
                  /\ Rank(q, scan.taken) \in 1..Cardinality(scan.taken)
                  /\ W.at[q].ack = AckId(V.at[q].message, x.nextAckId + Rank(q, scan.taken))
      <4>1. /\ IsWhole(workload, x, top) /\ s \in SubscriptionNames /\ max \in Nat /\ now \in Nat /\ now # 0
            /\ deadline \in Nat /\ scan = Scan(x, s, max)
        BY <1>1
      <4> QED
        BY ONLY <4>1, WorkingQueue, SMTT(40)
    <3> QED
      BY <1>2, <2>1, <3>1
  <2>3. p \in DOMAIN z.deliveries[s].at /\ z.deliveries[s].at[p] = w.at[p]
    BY <1>7, <2>1, <2>2 DEF Unacked
  <2>4. PICK c : c = x.nextAckId + Rank(p, scan.taken)
    OBVIOUS
  <2>5. c \in (b.nextAckId + 1)..z.nextAckId
    BY <1>3, <1>5, <1>7, <2>2, <2>4
  <2> QED
    BY <2>2, <2>3, <2>4, <2>5
<1>9. ASSUME NEW p \in DOMAIN x.deliveries[s].at
      PROVE  p \in DOMAIN b.deliveries[s].at /\ Calmer(b.deliveries[s].at[p], x.deliveries[s].at[p], now)
  <2>1. x.deliveries[s].at[p].message \in 1..T
    BY <1>1, <1>5 DEF IsWhole, AreContents, AreDeliveries, IsQueue, IsRecord
  <2>2. ~IsNew(x.deliveries[s].at[p], T)
    BY <1>5, <2>1 DEF IsNew
  <2> QED
    BY <1>1, <1>5, <2>2 DEF Tidied, AllCalm, Calm
<1>10. ASSUME NEW p \in K
       PROVE  /\ p \in DOMAIN b.deliveries[s].at /\ ~b.deliveries[s].at[p].acked
              /\ b.deliveries[s].at[p].lease <= now
              /\ b.deliveries[s].at[p].message = x.deliveries[s].at[p].message
  <2>1. p \in DOMAIN x.deliveries[s].at /\ ~x.deliveries[s].at[p].acked /\ x.deliveries[s].at[p].lease <= now
    BY <1>3 DEF HandsOut
  <2> QED
    BY <1>9, <2>1 DEF Calmer
<1>11. ASSUME NEW p \in DOMAIN z.deliveries[s].at \ K
       PROVE  CalmAt(b.deliveries[s], z.deliveries[s], p, T, now)
  <2>1. p \in DOMAIN x.deliveries[s].at /\ z.deliveries[s].at[p] = v.at[p] /\ p \in DOMAIN v.at \ K
    BY <1>7 DEF HandsOut
  <2>2. Calmer(x.deliveries[s].at[p], v.at[p], now)
    BY <2>1 DEF HandsOut
  <2>3. p \in DOMAIN b.deliveries[s].at /\ Calmer(b.deliveries[s].at[p], x.deliveries[s].at[p], now)
    BY <1>9, <2>1
  <2>4. Calmer(b.deliveries[s].at[p], v.at[p], now)
    BY <2>2, <2>3, CalmerTwice
  <2> QED
    BY <2>1, <2>3, <2>4 DEF CalmAt
<1>12. ASSUME NEW u \in SubscriptionNames, u # s
       PROVE  Calm(b.deliveries[u], z.deliveries[u], T, now)
  <2>1. Calm(b.deliveries[u], x.deliveries[u], T, now)
    BY <1>1, <1>5 DEF Tidied, AllCalm
  <2>2. Calm(x.deliveries[u], z.deliveries[u], T, now)
    BY <1>4, <1>5, <1>7, <1>12 DEF ScannedFrom, AllCalm
  <2> QED
    BY <2>1, <2>2, CalmTransitive
<1>13. Handed(b.deliveries, z.deliveries, s, K, T, b.nextAckId, z.nextAckId, now + deadline, now)
  BY <1>8, <1>10, <1>11, <1>12 DEF Handed
<1> QED
  BY <1>5, <1>7, <1>8, <1>13

\* A pull keeps all that the loop took.
LEMMA PullHands ==
  ASSUME NEW x, NEW top, IsWhole(workload, x, top), NEW s \in SubscriptionNames, NEW max \in Nat,
         now \in Nat, now # 0, NEW deadline \in Nat, NEW scan, scan = Scan(x, s, max)
  PROVE  HandsOut(Working(x, s, scan, deadline), x, s, scan, deadline, scan.taken, now)
<1>1. PICK v, w : v = x.deliveries[s] /\ w = Working(x, s, scan, deadline)
  OBVIOUS
<1>2. /\ IsQueue(w, x.nextMessageId, x.nextAckId + Cardinality(scan.taken))
      /\ DOMAIN w.at = DOMAIN v.at
      /\ \A p \in DOMAIN v.at : w.at[p].message = v.at[p].message
      /\ \A p \in scan.dead : w.at[p].acked
      /\ \A p \in DOMAIN v.at \ (scan.taken \cup scan.dead) : w.at[p] = v.at[p]
  BY <1>1, WorkingQueue
<1>3. ASSUME NEW p \in DOMAIN w.at \ scan.taken
      PROVE  Calmer(v.at[p], w.at[p], now)
  <2>1. CASE p \in scan.dead
    BY <1>2, <2>1 DEF Calmer
  <2>2. CASE p \notin scan.dead
    BY <1>2, <2>2, SameCalmer
  <2> QED
    BY <2>1, <2>2
<1> QED
  BY <1>1, <1>2, <1>3 DEF HandsOut

\* release_unsent_streaming_ack_id
LEMMA UnsentRecord ==
  ASSUME NEW r, NEW top, NEW acks, IsRecord(r, top, acks)
  PROVE  LET q == Unsent(r) IN
         /\ IsRecord(q, top, acks)
         /\ q.message = r.message /\ q.acked = r.acked /\ q.ack = NoAck /\ q.lease = 0
<1>1. PICK q, u, a : q = Unsent(r) /\ u = Released(r) /\ a = u.attempt - 1
  OBVIOUS
<1>2. /\ IsRecord(u, top, acks)
      /\ u.message = r.message /\ u.acked = r.acked /\ u.ack = NoAck /\ u.lease = 0
  BY <1>1, ReleasedRecord
<1>3. q = [u EXCEPT !.attempt = a]
  BY <1>1, <1>2 DEF Unsent, IsRecord, RecordFields
<1>4. /\ q = [f \in RecordFields |-> q[f]]
      /\ q.message = u.message /\ q.acked = u.acked /\ q.ack = u.ack /\ q.lease = u.lease
  BY <1>2, <1>3 DEF IsRecord, RecordFields
<1>5. u.acked \in BOOLEAN
  BY <1>2, Zenon DEF IsRecord
<1>6. u.message \in 1..top /\ u.lease \in Nat
  BY <1>2 DEF IsRecord
<1>7. q.ack = NoAck
  BY <1>2, <1>4
<1>8. IsRecord(q, top, acks)
  BY <1>4, <1>5, <1>6, <1>7, Zenon DEF IsRecord
<1> QED
  BY <1>1, <1>2, <1>4, <1>8

\* A stream keeps some, and gives the others back.
Returned(w, S) == [p \in DOMAIN w.at |-> IF p \in S THEN Unsent(w.at[p]) ELSE w.at[p]]

\* A stream hands out the records it keeps and takes back the leases of the others.
LEMMA StreamHands ==
  ASSUME NEW x, NEW top, IsWhole(workload, x, top), NEW s \in SubscriptionNames, NEW max \in Nat,
         now \in Nat, now # 0, NEW deadline \in Nat, NEW scan, scan = Scan(x, s, max),
         NEW K, K \subseteq scan.taken
  PROVE  LET w == Working(x, s, scan, deadline) IN
         HandsOut(Refilled(w, Returned(w, scan.taken \ K)), x, s, scan, deadline, K, now)
<1>1. PICK v, w, at : /\ v = x.deliveries[s] /\ w = Working(x, s, scan, deadline)
                      /\ at = Returned(w, scan.taken \ K)
  OBVIOUS
<1>2. HandsOut(w, x, s, scan, deadline, scan.taken, now)
  BY <1>1, PullHands
<1>3. PICK acks : acks = x.nextAckId + Cardinality(scan.taken)
  OBVIOUS
<1>4. /\ IsQueue(w, x.nextMessageId, acks) /\ DOMAIN w.at = DOMAIN v.at
      /\ \A p \in DOMAIN w.at \ scan.taken : Calmer(v.at[p], w.at[p], now)
  BY <1>1, <1>2, <1>3 DEF HandsOut
<1>5. /\ IsFunction(at) /\ DOMAIN at = DOMAIN w.at
      /\ \A p \in scan.taken \ K : p \in DOMAIN at => at[p] = Unsent(w.at[p])
      /\ \A p \in DOMAIN at \ (scan.taken \ K) : at[p] = w.at[p]
  BY <1>1 DEF Returned, IsFunction
<1>6. /\ \A p \in scan.taken : p \in DOMAIN w.at /\ w.at[p].message = v.at[p].message
      /\ \A p \in scan.taken : ~v.at[p].acked /\ v.at[p].lease <= now
  <2>1. /\ scan.taken \subseteq DOMAIN v.at
        /\ \A p \in scan.taken : ~v.at[p].acked /\ v.at[p].lease <= now
    BY <1>1, ScanFacts
  <2>2. \A p \in DOMAIN v.at : w.at[p].message = v.at[p].message
    BY <1>1, WorkingQueue
  <2> QED
    BY <1>4, <2>1, <2>2
<1>7. ASSUME NEW p \in scan.taken \ K
      PROVE  /\ IsRecord(at[p], x.nextMessageId, acks) /\ at[p].message = w.at[p].message
             /\ Calmer(v.at[p], at[p], now)
  <2>1. IsRecord(w.at[p], x.nextMessageId, acks)
    BY <1>4, <1>6 DEF IsQueue
  <2>2. at[p] = Unsent(w.at[p])
    BY <1>5, <1>6
  <2>3. /\ IsRecord(at[p], x.nextMessageId, acks) /\ at[p].message = w.at[p].message
        /\ at[p].lease = 0 /\ at[p].ack = NoAck
    BY <2>1, <2>2, UnsentRecord
  <2>4. Calmer(v.at[p], at[p], now)
    BY <1>6, <2>3 DEF Calmer
  <2> QED
    BY <2>3, <2>4
<1>8. \A p \in DOMAIN at : IsRecord(at[p], x.nextMessageId, acks) /\ at[p].message = w.at[p].message
  <2>1. \A p \in DOMAIN w.at : IsRecord(w.at[p], x.nextMessageId, acks)
    BY <1>4 DEF IsQueue
  <2> QED
    BY <1>5, <1>7, <2>1
<1>9. IsQueue(Refilled(w, at), x.nextMessageId, acks) /\ Refilled(w, at).at = at
  BY <1>4, <1>5, <1>8, RefilledQueue
<1>10. \A p \in DOMAIN at \ K : Calmer(v.at[p], at[p], now)
  BY <1>4, <1>5, <1>7
<1>11. \A p \in K : at[p] = w.at[p]
  BY <1>5, <1>6
<1> QED
  BY <1>1, <1>3, <1>4, <1>5, <1>9, <1>10, <1>11 DEF HandsOut

\* Queue e has the ack ids that the loop made for K.
Carries(e, x, s, scan, deadline, K) ==
  \A p \in K : /\ e.at[p].ack = Taken(x, s, scan, deadline, p).ack
               /\ e.at[p].message = x.deliveries[s].at[p].message

\* A lease given now with this deadline ends at `lease`.
EndsAt(lease, deadline) == lease \in Nat /\ lease = now + deadline

\* What the clients learned by a step that delivered the messages at K of queue e.
Learned(outcome, s, e, K, lease) ==
  /\ GivenMore(given', given, e, K) /\ given \subseteq given'
  /\ PromisedMore(promised', promised, s, e, K, lease)
  /\ outcome # "saved" => given' = given /\ promised' = promised
  /\ outcome = "saved" => \A p \in K : e.at[p].ack \in given'

\* What clients are told of a delivery.
LEMMA DeliverTells ==
  ASSUME PubSubInv, up, NEW x, NEW s \in SubscriptionNames, NEW scan, NEW K, NEW deadline \in Nat,
         NEW outcome, Deliver(outcome, x, s, scan, K, deadline),
         NEW e, Carries(e, x, s, scan, deadline, K), NEW lease, EndsAt(lease, deadline)
  PROVE  Learned(outcome, s, e, K, lease)
<1>a. lease \in Nat /\ lease = now + deadline
  BY DEF EndsAt
<1>0. ArePromises(promised) /\ now \in Nat
  BY Running
<1>1. CASE outcome # "saved"
  <2>1. given' = given /\ promised' = promised
    BY <1>1 DEF Deliver
  <2> QED
    BY <1>0, <1>1, <2>1 DEF GivenMore, PromisedMore, Learned
<1>2. CASE outcome = "saved"
  <2>1. PICK ids, keys : /\ ids = {RecordAt(x, s, p).message : p \in K}
                         /\ keys = {<<s, id>> : id \in ids}
    OBVIOUS
  <2>2. /\ given' = given \cup {Taken(x, s, scan, deadline, p).ack : p \in K}
        /\ promised' = [k \in DOMAIN promised \cup keys |->
                          IF k \in keys THEN lease ELSE promised[k]]
    BY <1>a, <1>2, <2>1 DEF Deliver
  <2>3. \A k \in keys : \E p \in K : k = <<s, e.at[p].message>>
    BY <2>1 DEF RecordAt, Carries
  <2>4. /\ DOMAIN promised' = DOMAIN promised \cup keys /\ IsFunction(promised')
        /\ \A k \in keys : promised'[k] = lease
        /\ \A k \in DOMAIN promised \ keys : promised'[k] = promised[k]
    BY <2>2 DEF IsFunction
  <2>5. \A k \in keys : k = <<k[1], k[2]>> /\ k[1] = s /\ \E p \in K : k[2] = e.at[p].message
    BY <2>3
  <2>6. ArePromises(promised')
    BY <1>a, <1>0, <2>4, <2>5 DEF ArePromises
  <2>7. PromisedMore(promised', promised, s, e, K, lease)
    BY <2>4, <2>5, <2>6 DEF PromisedMore
  <2>8. GivenMore(given', given, e, K) /\ given \subseteq given' /\ \A p \in K : e.at[p].ack \in given'
    BY <2>2 DEF GivenMore, Carries
  <2> QED
    BY <1>2, <2>7, <2>8 DEF Learned
<1> QED
  BY <1>1, <1>2

\* The fields a failed pull puts back belong together.
LEMMA PullUndoCoherent ==
  ASSUME NEW b
  PROVE  /\ Coherent(PullUndo(b)) /\ \A f \in DOMAIN PullUndo(b) : PullUndo(b)[f] = b[f]
         /\ "nextMessageId" \in DOMAIN PullUndo(b) /\ "deliveries" \in DOMAIN PullUndo(b)
BY DEF PullUndo, Coherent

\* A server that was tidied, as a pull starts from it, keeps what clients were told.
LEMMA TidiedSound ==
  ASSUME PubSubInv, up, NEW b, IsWhole(workload, b, messageFile.nextMessageId), Tidied(server, b, now)
  PROVE  /\ b.nextMessageId = server.nextMessageId /\ b.nextAckId = server.nextAckId
         /\ AreDeliveries(b.deliveries, b.nextMessageId, b.nextAckId)
         /\ Told(b.deliveries, b.nextMessageId, b.nextAckId, now, given, published, promised)
         /\ AreStreams(workload, streams, b.deliveries, now, given)
<1>1. /\ b.nextMessageId = server.nextMessageId /\ b.nextAckId = server.nextAckId
      /\ AllCalm(server.deliveries, b.deliveries, server.nextMessageId, now)
  BY DEF Tidied
<1>2. AreDeliveries(b.deliveries, b.nextMessageId, b.nextAckId)
  BY DEF IsWhole, AreContents
<1>3. /\ server.nextMessageId \in Nat /\ server.nextAckId \in Nat
      /\ server.nextMessageId <= b.nextMessageId /\ server.nextAckId <= b.nextAckId
      /\ Fewer(promised, promised)
  BY <1>1, Running, FewerPromises
<1> QED
  BY <1>1, <1>2, <1>3, CalmTold

\* Streams that are sent nothing of what is handed out.
LEMMA OthersHanded ==
  ASSUME PubSubInv, up, NEW b, IsWhole(workload, b, messageFile.nextMessageId), Tidied(server, b, now),
         NEW z, NEW s \in SubscriptionNames, NEW K, NEW lease, z.nextAckId \in Nat,
         Handed(b.deliveries, z.deliveries, s, K, b.nextMessageId, b.nextAckId, z.nextAckId, lease, now),
         NEW giv, given \subseteq giv
  PROVE  AreStreams(workload, streams, z.deliveries, now, giv)
<1>1. /\ AreStreams(workload, streams, b.deliveries, now, given)
      /\ Told(b.deliveries, b.nextMessageId, b.nextAckId, now, given, published, promised)
  BY TidiedSound
<1>2. b.nextMessageId \in Nat /\ b.nextAckId \in Nat /\ now \in Nat
  BY TidiedSound, Running
<1>3. ASSUME NEW t \in Streams, streams[t] # NoValue
      PROVE  IsStream(workload, streams[t], z.deliveries, now, giv)
  <2>1. IsStream(workload, streams[t], b.deliveries, now, given)
    BY <1>1, <1>3 DEF AreStreams
  <2> QED
    BY <1>1, <1>2, <2>1, StreamHanded
<1> QED
  BY <1>1, <1>3 DEF AreStreams

\* A pull, or a stream that sends, keeps the invariant.
LEMMA HandOutStep ==
  ASSUME PubSubInv, up, workload' = workload, now' = now, published' = published,
         NEW b, IsWhole(workload, b, messageFile.nextMessageId), Tidied(server, b, now),
         NEW s \in SubscriptionNames, NEW max \in Nat, NEW deadline \in Nat,
         NEW x, x = LeasesExpired(RetentionCleaned(b)), NEW scan, scan = Scan(x, s, max),
         NEW K, NEW v, HandsOut(v, x, s, scan, deadline, K, now),
         NEW z, z = Stored(Scanned(x, s, scan), s, v),
         NEW outcome, outcome \in Outcomes, Persist(outcome, z, PullUndo(b)),
         Deliver(outcome, x, s, scan, K, deadline),
         Killed(outcome) => streams' = NoStreams,
         outcome = "saved" => AreStreams(workload, streams', z.deliveries, now, given'),
         Failed(outcome) => AreStreams(workload, streams', b.deliveries, now, given)
  PROVE  PubSubInv'
<1>1. /\ now \in Nat /\ now # 0 /\ ArePromises(promised) /\ messageFile.nextMessageId \in Nat
      /\ server.nextMessageId \in Nat /\ server.nextAckId \in Nat
      /\ Told(messageFile.deliveries, messageFile.nextMessageId, messageFile.nextAckId, now,
              given, published, promised)
  BY Running
<1>2. /\ b.nextMessageId = server.nextMessageId /\ b.nextAckId = server.nextAckId
      /\ AreDeliveries(b.deliveries, b.nextMessageId, b.nextAckId)
      /\ Told(b.deliveries, b.nextMessageId, b.nextAckId, now, given, published, promised)
  BY TidiedSound
<1>3. /\ IsWhole(workload, z, messageFile.nextMessageId) /\ z.messagesDirty
      /\ b.nextMessageId <= z.nextMessageId /\ b.nextAckId <= z.nextAckId
      /\ z.nextMessageId \in Nat /\ z.nextAckId \in Nat
      /\ Handed(b.deliveries, z.deliveries, s, K, b.nextMessageId, b.nextAckId, z.nextAckId, now + deadline, now)
      /\ \A p \in K : /\ z.deliveries[s].at[p].ack = Taken(x, s, scan, deadline, p).ack
                      /\ z.deliveries[s].at[p].message = x.deliveries[s].at[p].message
  <2>1. /\ messageFile.nextMessageId \in Nat /\ IsWhole(workload, b, messageFile.nextMessageId)
        /\ s \in SubscriptionNames /\ max \in Nat /\ now \in Nat /\ now # 0 /\ deadline \in Nat
        /\ x = LeasesExpired(RetentionCleaned(b)) /\ scan = Scan(x, s, max)
        /\ HandsOut(v, x, s, scan, deadline, K, now) /\ z = Stored(Scanned(x, s, scan), s, v)
    BY <1>1
  <2> QED
    BY ONLY <2>1, HandedOut, SMTT(40)
<1>12. PICK lease \in Nat : lease = now + deadline
  BY <1>1
<1>13. Handed(b.deliveries, z.deliveries, s, K, b.nextMessageId, b.nextAckId, z.nextAckId, lease, now)
  BY <1>3, <1>12
<1>4. Carries(z.deliveries[s], x, s, scan, deadline, K) /\ deadline \in Nat /\ s \in SubscriptionNames
      /\ Deliver(outcome, x, s, scan, K, deadline) /\ up
  BY <1>3 DEF Carries
<1>5. /\ GivenMore(given', given, z.deliveries[s], K)
      /\ PromisedMore(promised', promised, s, z.deliveries[s], K, lease)
      /\ outcome # "saved" => given' = given /\ promised' = promised
  <2>1. PICK e : e = z.deliveries[s]
    OBVIOUS
  <2>2. Carries(e, x, s, scan, deadline, K)
    BY <1>4, <2>1
  <2>3. EndsAt(lease, deadline)
    BY <1>12 DEF EndsAt
  <2>4. Learned(outcome, s, e, K, lease)
    BY ONLY <1>4, <2>2, <2>3, PubSubInv, DeliverTells
  <2> QED
    BY <2>1, <2>4 DEF Learned
<1>6. Told(z.deliveries, z.nextMessageId, z.nextAckId, now, given', published, promised')
  <2>1. AreDeliveries(z.deliveries, z.nextMessageId, z.nextAckId)
    BY <1>3 DEF IsWhole, AreContents
  <2>3. b.nextMessageId \in Nat /\ b.nextAckId \in Nat
    BY <1>1, <1>2
  <2>4. /\ b.nextMessageId <= z.nextMessageId /\ b.nextAckId <= z.nextAckId
        /\ z.nextMessageId \in Nat /\ z.nextAckId \in Nat
    BY <1>3
  <2>5. UpTo(b.nextMessageId, z.nextMessageId) /\ UpTo(b.nextAckId, z.nextAckId)
    BY <2>3, <2>4 DEF UpTo
  <2> QED
    BY ONLY <1>1, <1>2, <1>4, <1>5, <1>13, <2>1, <2>5, ToldHanded
<1>7. PICK back : back = PullUndo(b)
  OBVIOUS
<1>8. /\ Coherent(back) /\ \A f \in DOMAIN back : back[f] = b[f]
      /\ "nextMessageId" \in DOMAIN back /\ "deliveries" \in DOMAIN back
  BY <1>7, PullUndoCoherent
<1>9. Failed(outcome) => outcome # "saved"
  BY DEF Failed
<1>10. ArePromises(promised')
  BY <1>5 DEF PromisedMore
<1>11. Persist(outcome, z, back)
  BY <1>7
<1> QED
  BY <1>1, <1>2, <1>3, <1>5, <1>6, <1>8, <1>9, <1>10, <1>11, PersistStep

\* A pull asks for at least one message.
LEMMA PullMaxType ==
  ASSUME NEW max \in Int
  PROVE  PullMax(max) \in Nat
<1>1. MaxPullMessages \in Nat
  BY ConstantsAssumption
<1>2. CASE max <= 0
  BY <1>2 DEF PullMax
<1>3. CASE ~(max <= 0)
  <2>1. \E m \in {max, MaxPullMessages} : \A y \in {max, MaxPullMessages} : m =< y
    BY <1>1
  <2>2. Min({max, MaxPullMessages}) \in {max, MaxPullMessages}
    BY <2>1 DEF Min
  <2> QED
    BY <1>1, <1>3, <2>2 DEF PullMax
<1> QED
  BY <1>2, <1>3

\* pull, grpc_pull
LEMMA PullStep ==
  ASSUME PubSubInv, workload' = workload, NEW s, NEW max \in workload.pulls, Pull(s, max)
  PROVE  PubSubInv'
<1>1. PICK x, scan, deadline, v, z :
        /\ x = LeasesExpired(RetentionCleaned(server))
        /\ scan = Scan(x, s, PullMax(max))
        /\ deadline = AckDeadline(server.subscriptions[s])
        /\ v = Working(x, s, scan, deadline)
        /\ z = Stored(Scanned(x, s, scan), s, v)
  OBVIOUS
<1>2. PICK outcome \in Outcomes :
        Finish(outcome, z, PullUndo(server)) /\ Deliver(outcome, x, s, scan, scan.taken, deadline)
  BY <1>1 DEF Pull, The
<1>3. up /\ now' = now /\ published' = published /\ s \in DOMAIN server.subscriptions
  BY DEF Pull, Pullable
<1>4. s \in SubscriptionNames /\ deadline \in Nat
  <2>1. AreSubscriptions(workload, server.subscriptions)
    BY <1>3, ResourcesSound
  <2>2. s \in SubscriptionNames /\ server.subscriptions[s].ackDeadline \in Nat
    BY <1>3, <2>1 DEF AreSubscriptions
  <2> QED
    BY <1>1, <2>2, ConstantsAssumption DEF AckDeadline, AckDeadlineOr
<1>5. PullMax(max) \in Nat
  <2>1. max \in Int
    BY ConstantsAssumption DEF PubSubInv
  <2> QED
    BY <2>1, PullMaxType
<1>6. /\ IsWhole(workload, server, messageFile.nextMessageId) /\ now \in Nat /\ now # 0
      /\ messageFile.nextMessageId \in Nat /\ Tidied(server, server, now)
  BY <1>3, Running, TidiedSame DEF IsWhole
<1>7. HandsOut(v, x, s, scan, deadline, scan.taken, now)
  <2>1. IsWhole(workload, x, messageFile.nextMessageId)
    <3>1. IsWhole(workload, RetentionCleaned(server), messageFile.nextMessageId)
      BY <1>6, CleanedWhole
    <3> QED
      BY <1>1, <1>6, <3>1, ExpiredWhole
  <2>2. scan = Scan(x, s, PullMax(max)) /\ v = Working(x, s, scan, deadline)
    BY <1>1
  <2> QED
    BY ONLY <1>4, <1>5, <1>6, <2>1, <2>2, PullHands
<1>8. Persist(outcome, z, PullUndo(server)) /\ (Killed(outcome) => streams' = NoStreams)
      /\ (~Killed(outcome) => streams' = streams)
  BY <1>2 DEF Finish, StreamsAfter, NoStreams
<1>9. Failed(outcome) \/ outcome = "saved" => streams' = streams
  BY <1>8 DEF Failed, Killed
<1>10. AreStreams(workload, streams, z.deliveries, now, given')
  <2>1. PICK max2 \in Nat : max2 = PullMax(max)
    BY <1>5
  <2>2. /\ z.nextAckId \in Nat
        /\ Handed(server.deliveries, z.deliveries, s, scan.taken, server.nextMessageId, server.nextAckId,
                  z.nextAckId, now + deadline, now)
        /\ \A p \in scan.taken : /\ z.deliveries[s].at[p].ack = Taken(x, s, scan, deadline, p).ack
                                 /\ z.deliveries[s].at[p].message = x.deliveries[s].at[p].message
    <3>1. /\ x = LeasesExpired(RetentionCleaned(server)) /\ scan = Scan(x, s, max2)
          /\ z = Stored(Scanned(x, s, scan), s, v)
      BY <1>1, <2>1
    <3> QED
      BY ONLY <1>4, <1>6, <1>7, <2>1, <3>1, HandedOut
  <2>3. Carries(z.deliveries[s], x, s, scan, deadline, scan.taken)
    BY <2>2 DEF Carries
  <2>4. given \subseteq given'
    <3>1. PICK lease \in Nat : lease = now + deadline
      BY <1>4, <1>6
    <3>2. PICK e : e = z.deliveries[s]
      OBVIOUS
    <3>3. EndsAt(lease, deadline) /\ Carries(e, x, s, scan, deadline, scan.taken)
      BY <2>3, <3>1, <3>2 DEF EndsAt
    <3>4. Learned(outcome, s, e, scan.taken, lease)
      BY ONLY <1>2, <1>3, <1>4, <3>3, PubSubInv, DeliverTells
    <3> QED
      BY <3>4 DEF Learned
  <2> QED
    BY ONLY <1>3, <1>4, <1>6, <2>2, <2>4, PubSubInv, OthersHanded
<1>11. AreStreams(workload, streams, server.deliveries, now, given)
  BY <1>3, Running
<1>12. PICK max2 \in Nat : max2 = PullMax(max)
  BY <1>5
<1>13. /\ x = LeasesExpired(RetentionCleaned(server)) /\ scan = Scan(x, s, max2)
       /\ z = Stored(Scanned(x, s, scan), s, v) /\ workload' = workload
  BY <1>1, <1>12
<1>14. /\ outcome = "saved" => AreStreams(workload, streams', z.deliveries, now, given')
       /\ Failed(outcome) => AreStreams(workload, streams', server.deliveries, now, given)
  BY <1>9, <1>10, <1>11
<1> QED
  BY ONLY <1>2, <1>3, <1>4, <1>6, <1>7, <1>8, <1>12, <1>13, <1>14, PubSubInv, HandOutStep

-----------------------------------------------------------------------------
(***************************************************************************)
(* Answers.                                                                *)
(***************************************************************************)

\* An ack or a release ends the lease; other answers move it.
Quits(deadline) == deadline = NoValue \/ deadline = 0

\* The record r with another lease.
Extended(r, lease) == [r EXCEPT !.lease = lease, !.next = 0]

\* A record with another lease is one.
LEMMA ExtendedRecord ==
  ASSUME NEW r, NEW top, NEW acks, IsRecord(r, top, acks), NEW lease \in Nat, lease # 0
  PROVE  LET q == Extended(r, lease) IN
         /\ IsRecord(q, top, acks)
         /\ q.message = r.message /\ q.acked = r.acked /\ q.ack = r.ack /\ q.lease = lease
<1>1. PICK q, u : q = Extended(r, lease) /\ u = [r EXCEPT !.lease = lease]
  OBVIOUS
<1>2. q = [u EXCEPT !.next = 0]
  BY <1>1 DEF Extended, IsRecord, RecordFields
<1>3. /\ u = [f \in RecordFields |-> u[f]]
      /\ u.message = r.message /\ u.acked = r.acked /\ u.ack = r.ack /\ u.lease = lease
  BY <1>1 DEF IsRecord, RecordFields
<1>4. /\ q = [f \in RecordFields |-> q[f]]
      /\ q.message = r.message /\ q.acked = r.acked /\ q.ack = r.ack /\ q.lease = lease
  BY <1>2, <1>3 DEF RecordFields
<1>5. r.acked \in BOOLEAN
  BY Zenon DEF IsRecord
<1>6. r.message \in 1..top /\ (r.ack # NoAck => \E c \in 1..acks : r.ack = <<r.message, c>>)
  BY DEF IsRecord
<1>7. IsRecord(q, top, acks)
  BY <1>4, <1>5, <1>6, Zenon DEF IsRecord
<1> QED
  BY <1>1, <1>4, <1>7

\* What an answer makes of a record.
LEMMA AnsweredRecord ==
  ASSUME NEW r, NEW top, NEW acks, IsRecord(r, top, acks), ~r.acked, now \in Nat, now # 0,
         NEW deadline, deadline = NoValue \/ deadline \in Nat
  PROVE  LET q == Answered(r, deadline) IN
         /\ IsRecord(q, top, acks) /\ q.message = r.message
         /\ Quits(deadline) => q.acked \/ (q.lease = 0 /\ q.ack = NoAck)
         /\ ~Quits(deadline) => ~q.acked /\ q.ack = r.ack /\ q.lease = now + deadline
<1>1. CASE deadline = NoValue
  <2>1. deadline # 0
    BY <1>1, ConstantsAssumption
  <2>2. Answered(r, deadline) = AckedOf(r)
    BY <1>1, <2>1 DEF Answered, AckedOf
  <2>3. IsRecord(AckedOf(r), top, acks) /\ AckedOf(r).message = r.message /\ AckedOf(r).acked
    BY AckedRecord
  <2> QED
    BY <1>1, <2>2, <2>3 DEF Quits
<1>2. CASE deadline = 0
  <2>1. deadline # NoValue
    BY <1>2, ConstantsAssumption
  <2>2. Answered(r, deadline) = Released(r)
    BY <1>2, <2>1 DEF Answered
  <2>3. /\ IsRecord(Released(r), top, acks)
        /\ Released(r).message = r.message /\ Released(r).lease = 0 /\ Released(r).ack = NoAck
    BY ReleasedRecord
  <2> QED
    BY <1>2, <2>2, <2>3 DEF Quits
<1>3. CASE ~Quits(deadline)
  <2>1. deadline # NoValue /\ deadline # 0 /\ deadline \in Nat
    BY <1>3 DEF Quits
  <2>2. Answered(r, deadline) = Extended(r, now + deadline)
    BY <2>1 DEF Answered, Extended
  <2>3. PICK lease \in Nat : lease = now + deadline /\ lease # 0
    BY <2>1
  <2>4. /\ IsRecord(Extended(r, lease), top, acks)
        /\ Extended(r, lease).message = r.message /\ Extended(r, lease).acked = r.acked
        /\ Extended(r, lease).ack = r.ack /\ Extended(r, lease).lease = lease
    BY <2>3, ExtendedRecord
  <2> QED
    BY <1>3, <2>2, <2>3, <2>4
<1> QED
  BY <1>1, <1>2, <1>3 DEF Quits

\* Queue w is v after an answer to the records at M.
IsAnswered(w, v, M, deadline, time) ==
  /\ DOMAIN w.at \subseteq DOMAIN v.at
  /\ \A p \in DOMAIN w.at \ M : w.at[p] = v.at[p]
  /\ \A p \in DOMAIN w.at \cap M :
       /\ w.at[p].message = v.at[p].message
       /\ Quits(deadline) => w.at[p].acked \/ (w.at[p].lease = 0 /\ w.at[p].ack = NoAck)
       /\ ~Quits(deadline) => ~w.at[p].acked /\ w.at[p].ack = v.at[p].ack /\ w.at[p].lease = time + deadline

AnsweredAt(v, M, deadline) ==
  [p \in DOMAIN v.at |-> IF p \in M THEN Answered(v.at[p], deadline) ELSE v.at[p]]

\* The server after an answer.
LEMMA AnsweredWhole ==
  ASSUME NEW x, NEW top, IsWhole(workload, x, top), NEW s \in SubscriptionNames, now \in Nat, now # 0,
         NEW ids, NEW deadline, deadline = NoValue \/ deadline \in Nat
  PROVE  LET y == AnsweredServer(x, s, ids, deadline) IN
         /\ IsWhole(workload, y, top)
         /\ y.nextMessageId = x.nextMessageId /\ y.nextAckId = x.nextAckId /\ y.messagesDirty
         /\ IsAnswered(y.deliveries[s], x.deliveries[s], Matching(x, s, ids), deadline, now)
         /\ \A u \in SubscriptionNames : u # s => y.deliveries[u] = x.deliveries[u]
<1>1. PICK y, v, M, at : /\ y = AnsweredServer(x, s, ids, deadline) /\ v = x.deliveries[s]
                         /\ M = Matching(x, s, ids) /\ at = AnsweredAt(v, M, deadline)
  OBVIOUS
<1>2. IsQueue(v, x.nextMessageId, x.nextAckId)
  BY <1>1 DEF IsWhole, AreContents, AreDeliveries
<1>3. \A p \in M : p \in DOMAIN v.at /\ ~v.at[p].acked
  BY <1>1 DEF Matching, Unacked
<1>4. y = Stored(x, s, Refilled(v, at))
  BY <1>1, <1>2 DEF AnsweredServer, Refilled, AnsweredAt, IsQueue
<1>5. /\ IsFunction(at) /\ DOMAIN at = DOMAIN v.at
      /\ \A p \in DOMAIN at \ M : at[p] = v.at[p]
      /\ \A p \in M : at[p] = Answered(v.at[p], deadline)
  BY <1>1, <1>3 DEF AnsweredAt, IsFunction
<1>6. \A p \in M : /\ IsRecord(at[p], x.nextMessageId, x.nextAckId) /\ at[p].message = v.at[p].message
                   /\ Quits(deadline) => at[p].acked \/ (at[p].lease = 0 /\ at[p].ack = NoAck)
                   /\ ~Quits(deadline) => ~at[p].acked /\ at[p].ack = v.at[p].ack /\ at[p].lease = now + deadline
  <2> SUFFICES ASSUME NEW p \in M
               PROVE  /\ IsRecord(at[p], x.nextMessageId, x.nextAckId) /\ at[p].message = v.at[p].message
                      /\ Quits(deadline) => at[p].acked \/ (at[p].lease = 0 /\ at[p].ack = NoAck)
                      /\ ~Quits(deadline) => ~at[p].acked /\ at[p].ack = v.at[p].ack /\ at[p].lease = now + deadline
    OBVIOUS
  <2>1. IsRecord(v.at[p], x.nextMessageId, x.nextAckId) /\ ~v.at[p].acked
    BY <1>2, <1>3 DEF IsQueue
  <2> QED
    BY <1>5, <2>1, AnsweredRecord
<1>7. \A p \in DOMAIN at : IsRecord(at[p], x.nextMessageId, x.nextAckId) /\ at[p].message = v.at[p].message
  BY <1>2, <1>5, <1>6 DEF IsQueue
<1>8. IsQueue(Refilled(v, at), x.nextMessageId, x.nextAckId) /\ Refilled(v, at).at = at
  BY <1>2, <1>5, <1>7, RefilledQueue
<1>9. /\ IsWhole(workload, y, top) /\ y.nextMessageId = x.nextMessageId /\ y.nextAckId = x.nextAckId
      /\ y.messagesDirty
      /\ DOMAIN y.deliveries[s].at \subseteq DOMAIN at
      /\ \A p \in DOMAIN y.deliveries[s].at : y.deliveries[s].at[p] = at[p]
      /\ \A u \in SubscriptionNames : u # s => y.deliveries[u] = x.deliveries[u]
  BY <1>4, <1>8, StoredWhole
<1>10. IsAnswered(y.deliveries[s], v, M, deadline, now)
  BY <1>5, <1>6, <1>9 DEF IsAnswered
<1> QED
  BY <1>1, <1>9, <1>10

\* The promise k is about a record at M of queue v of s.
IsAbout(k, v, s, M) == k[1] = s /\ \E p \in M : v.at[p].message = k[2]

\* The promises after an answer to the records at M.
AfterAnswer(prom2, prom, v, s, M, deadline, time) ==
  /\ ArePromises(prom2) /\ DOMAIN prom2 \subseteq DOMAIN prom
  /\ \A k \in DOMAIN prom2 : /\ IsAbout(k, v, s, M) => ~Quits(deadline) /\ prom2[k] <= time + deadline
                             /\ ~IsAbout(k, v, s, M) => prom2[k] = prom[k]

\* What clients know after an answer.
LEMMA AnswerTells ==
  ASSUME PubSubInv, up, NEW x, NEW s \in SubscriptionNames, NEW ids,
         NEW deadline, deadline = NoValue \/ deadline \in Nat, NEW api, NEW outcome,
         AnswerHistory(api, outcome, x, s, ids, deadline)
  PROVE  /\ Touches(api, outcome) =>
              AfterAnswer(promised', promised, x.deliveries[s], s, Matching(x, s, ids), deadline, now)
         /\ ~Touches(api, outcome) => promised' = promised
         /\ outcome # "saved" => \A k \in DOMAIN promised' :
              k \in DOMAIN promised /\ promised'[k] \in Nat /\ promised'[k] <= promised[k]
         /\ ArePromises(promised')
<1>1. PICK v, M, keys : /\ v = x.deliveries[s] /\ M = Matching(x, s, ids)
                        /\ keys = {<<s, id>> : id \in {RecordAt(x, s, p).message : p \in M}}
  OBVIOUS
<1>2. ArePromises(promised) /\ now \in Nat
  BY Running
<1>3. \A k \in DOMAIN promised : promised[k] \in Nat /\ k = <<k[1], k[2]>> /\ k[1] \in SubscriptionNames
  BY <1>2 DEF ArePromises
<1>4. \A k \in DOMAIN promised : k \in keys <=> IsAbout(k, v, s, M)
  <2> SUFFICES ASSUME NEW k \in DOMAIN promised
               PROVE  k \in keys <=> IsAbout(k, v, s, M)
    OBVIOUS
  <2>1. k \in keys <=> \E p \in M : k = <<s, v.at[p].message>>
    BY <1>1 DEF RecordAt
  <2>2. k = <<k[1], k[2]>>
    BY <1>3
  <2> QED
    BY <2>1, <2>2 DEF IsAbout
<1>5. CASE ~Touches(api, outcome)
  <2>1. promised' = promised
    BY <1>5 DEF AnswerHistory
  <2> QED
    BY <1>2, <1>3, <1>5, <2>1
<1>6. CASE Touches(api, outcome) /\ Quits(deadline)
  <2>1. promised' = Without(promised, keys)
    <3>1. CASE deadline = NoValue
      <4>1. deadline # 0
        BY <3>1, ConstantsAssumption
      <4> QED
        BY <1>1, <1>6, <3>1, <4>1 DEF AnswerHistory
    <3>2. CASE deadline = 0
      <4>1. deadline # NoValue
        BY <3>2, ConstantsAssumption
      <4> QED
        BY <1>1, <1>6, <3>2, <4>1 DEF AnswerHistory
    <3> QED
      BY <1>6, <3>1, <3>2 DEF Quits
  <2>2. promised' = [k \in DOMAIN promised \ keys |-> promised[k]]
    BY <2>1 DEF Without, Restrict
  <2>3. /\ IsFunction(promised') /\ DOMAIN promised' = DOMAIN promised \ keys
        /\ \A k \in DOMAIN promised' : promised'[k] = promised[k]
    BY <2>2 DEF IsFunction
  <2>4. ArePromises(promised')
    BY <1>3, <2>3 DEF ArePromises
  <2>5. \A k \in DOMAIN promised' : ~IsAbout(k, v, s, M)
    BY <1>4, <2>3
  <2>6. AfterAnswer(promised', promised, v, s, M, deadline, now)
    BY <2>3, <2>4, <2>5 DEF AfterAnswer
  <2> QED
    BY <1>1, <1>3, <1>6, <2>3, <2>4, <2>6
<1>7. CASE Touches(api, outcome) /\ ~Quits(deadline)
  <2>1. deadline # NoValue /\ deadline # 0 /\ deadline \in Nat
    BY <1>7 DEF Quits
  <2>2. PICK lease \in Nat : lease = now + deadline
    BY <1>2, <2>1
  <2>3. promised' = [k \in DOMAIN promised |->
                       IF k \notin keys THEN promised[k]
                       ELSE IF outcome = "saved" THEN lease
                       ELSE IF promised[k] < lease THEN promised[k] ELSE lease]
    BY <1>1, <1>7, <2>1, <2>2 DEF AnswerHistory
  <2>4. /\ IsFunction(promised') /\ DOMAIN promised' = DOMAIN promised
        /\ \A k \in DOMAIN promised :
             promised'[k] = IF k \notin keys THEN promised[k]
                            ELSE IF outcome = "saved" THEN lease
                            ELSE IF promised[k] < lease THEN promised[k] ELSE lease
    BY <2>3 DEF IsFunction
  <2>5. \A k \in DOMAIN promised :
          /\ promised'[k] \in Nat
          /\ outcome # "saved" => promised'[k] <= promised[k]
          /\ k \in keys => promised'[k] <= lease
          /\ k \notin keys => promised'[k] = promised[k]
    <3> SUFFICES ASSUME NEW k \in DOMAIN promised
                 PROVE  /\ promised'[k] \in Nat
                        /\ outcome # "saved" => promised'[k] <= promised[k]
                        /\ k \in keys => promised'[k] <= lease
                        /\ k \notin keys => promised'[k] = promised[k]
      OBVIOUS
    <3>1. PICK a, c : a \in Nat /\ a = promised[k] /\ c = promised'[k]
      BY <1>3
    <3>2. c = IF k \notin keys THEN a ELSE IF outcome = "saved" THEN lease ELSE IF a < lease THEN a ELSE lease
      BY <2>4, <3>1
    <3>3. /\ c \in Nat /\ (outcome # "saved" => c <= a)
          /\ (k \in keys => c <= lease) /\ (k \notin keys => c = a)
      BY <2>2, <3>1, <3>2
    <3> QED
      BY <3>1, <3>3
  <2>6. ArePromises(promised')
    BY <1>3, <2>4, <2>5 DEF ArePromises
  <2>7. \A k \in DOMAIN promised : /\ IsAbout(k, v, s, M) => promised'[k] <= now + deadline
                                   /\ ~IsAbout(k, v, s, M) => promised'[k] = promised[k]
    BY <1>4, <2>2, <2>5
  <2>8. AfterAnswer(promised', promised, v, s, M, deadline, now)
    BY <1>7, <2>4, <2>6, <2>7 DEF AfterAnswer
  <2> QED
    BY <1>1, <1>7, <2>4, <2>5, <2>6, <2>8
<1> QED
  BY <1>5, <1>6, <1>7

\* Deliveries e are those of d but for subscription s.
Elsewhere(e, d, s) == \A u \in SubscriptionNames : u # s => e[u] = d[u]

\* An answer keeps what clients were told, but for what they gave up.
LEMMA AnsweredTold ==
  ASSUME NEW d, NEW e, NEW s \in SubscriptionNames, NEW M, NEW deadline, NEW time \in Nat,
         deadline = NoValue \/ deadline \in Nat,
         IsAnswered(e[s], d[s], M, deadline, time), Elsewhere(e, d, s),
         NEW top, NEW acks, AreDeliveries(d, top, acks), M \subseteq DOMAIN d[s].at,
         NEW giv, NEW pub, NEW prom, ArePromises(prom), Told(d, top, acks, time, giv, pub, prom),
         NEW prom2, AfterAnswer(prom2, prom, d[s], s, M, deadline, time)
  PROVE  Told(e, top, acks, time, giv, pub, prom2)
<1> USE DEF Elsewhere
<1>1. IdsBehind(top, acks, giv, pub, prom2)
  BY DEF AfterAnswer, Told, IdsBehind
<1>2. LeasesStand(e, time, prom2)
  <2> SUFFICES ASSUME NEW k \in DOMAIN prom2, prom2[k] > time, NEW p \in DOMAIN e[k[1]].at,
                      ~e[k[1]].at[p].acked, e[k[1]].at[p].message = k[2]
               PROVE  e[k[1]].at[p].lease >= prom2[k]
    BY DEF LeasesStand
  <2>1. k \in DOMAIN prom /\ prom2[k] \in Nat /\ prom[k] \in Nat /\ k[1] \in SubscriptionNames
    BY DEF AfterAnswer, ArePromises
  <2>2. PICK u \in SubscriptionNames : u = k[1]
    BY <2>1
  <2>3. CASE u = s /\ p \in M
    <3>1. /\ e[s].at[p].message = d[s].at[p].message
          /\ Quits(deadline) => e[s].at[p].acked \/ (e[s].at[p].lease = 0 /\ e[s].at[p].ack = NoAck)
          /\ ~Quits(deadline) => e[s].at[p].lease = time + deadline
      BY <2>2, <2>3 DEF IsAnswered
    <3>2. IsAbout(k, d[s], s, M)
      BY <2>2, <2>3, <3>1 DEF IsAbout
    <3>3. ~Quits(deadline) /\ prom2[k] <= time + deadline
      BY <3>2 DEF AfterAnswer
    <3>4. deadline \in Nat
      BY <3>3 DEF Quits
    <3> QED
      BY <2>1, <2>2, <2>3, <3>1, <3>3, <3>4
  <2>4. CASE ~(u = s /\ p \in M)
    <3>1. p \in DOMAIN d[u].at /\ e[u].at[p] = d[u].at[p]
      <4>1. CASE u = s
        BY <2>2, <2>4, <4>1 DEF IsAnswered
      <4>2. CASE u # s
        BY <2>2, <4>2
      <4> QED
        BY <4>1, <4>2
    <3>2. ~IsAbout(k, d[s], s, M)
      <4> SUFFICES ASSUME IsAbout(k, d[s], s, M)
                   PROVE  FALSE
        OBVIOUS
      <4>1. PICK q \in M : u = s /\ d[s].at[q].message = k[2]
        BY <2>2 DEF IsAbout
      <4>2. p = q
        BY <2>2, <3>1, <4>1 DEF AreDeliveries, IsQueue
      <4> QED
        BY <2>4, <4>1, <4>2
    <3>3. prom2[k] = prom[k]
      BY <3>2 DEF AfterAnswer
    <3>4. d[u].at[p].lease >= prom[k]
      BY <2>1, <2>2, <3>1, <3>3 DEF Told, LeasesStand
    <3> QED
      BY <2>2, <3>1, <3>3, <3>4
  <2> QED
    BY <2>3, <2>4
<1> QED
  BY <1>1, <1>2 DEF Told

\* An answer gives nobody a lease who had none, when those it applies to had one.
LEMMA AnsweredQuiet ==
  ASSUME NEW d, NEW e, NEW s \in SubscriptionNames, NEW M, NEW deadline, NEW time \in Nat,
         IsAnswered(e[s], d[s], M, deadline, time), \A u \in SubscriptionNames : u # s => e[u] = d[u],
         \A p \in M : p \in DOMAIN d[s].at => ~d[s].at[p].acked /\ d[s].at[p].lease > time
  PROVE  NoNewLeases(d, e, time)
<1> SUFFICES ASSUME NEW u \in SubscriptionNames, NEW p \in DOMAIN e[u].at, ~e[u].at[p].acked, e[u].at[p].lease > time
             PROVE  e[u].at[p].ack \in LeasedAcks(d[u], time)
  BY DEF NoNewLeases, LeasedAcks
<1>1. CASE u = s /\ p \in M
  <2>1. /\ p \in DOMAIN d[s].at /\ ~d[s].at[p].acked /\ d[s].at[p].lease > time
    BY <1>1 DEF IsAnswered
  <2>2. Quits(deadline) => e[s].at[p].acked \/ e[s].at[p].lease = 0
    BY <1>1 DEF IsAnswered
  <2>3. ~Quits(deadline)
    BY <1>1, <2>2
  <2>4. e[s].at[p].ack = d[s].at[p].ack
    BY <1>1, <2>3 DEF IsAnswered
  <2> QED
    BY <1>1, <2>1, <2>4 DEF LeasedAcks
<1>2. CASE ~(u = s /\ p \in M)
  <2>1. p \in DOMAIN d[u].at /\ e[u].at[p] = d[u].at[p]
    <3>1. CASE u = s
      BY <1>2, <3>1 DEF IsAnswered
    <3>2. CASE u # s
      BY <3>2
    <3> QED
      BY <3>1, <3>2
  <2> QED
    BY <2>1 DEF LeasedAcks
<1> QED
  BY <1>1, <1>2

\* Told what, when the server is y and clients were answered.
AnswerKeeps(y, x, s, ids, deadline) ==
  \A prom : AfterAnswer(prom, promised, x.deliveries[s], s, Matching(x, s, ids), deadline, now) =>
              Told(y.deliveries, y.nextMessageId, y.nextAckId, now, given, published, prom)

\* update_ack_deadlines, grpc_update_ack_deadline: who has one of the ack ids has a lease.
LEMMA AnswerSound ==
  ASSUME PubSubInv, up, NEW s \in SubscriptionNames, NEW ids, ids \subseteq given,
         NEW deadline, deadline = NoValue \/ deadline \in Nat,
         NEW x, x = LeasesExpired(server), NEW y, y = AnsweredServer(x, s, ids, deadline)
  PROVE  /\ IsWhole(workload, y, messageFile.nextMessageId) /\ y.messagesDirty
         /\ y.nextMessageId = server.nextMessageId /\ y.nextAckId = server.nextAckId
         /\ AreStreams(workload, streams, y.deliveries, now, given)
         /\ Quits(deadline) => LeasedAcks(y.deliveries[s], now) \cap ids = {}
         /\ AnswerKeeps(y, x, s, ids, deadline)
<1>1. /\ now \in Nat /\ now # 0 /\ IsWhole(workload, server, messageFile.nextMessageId)
      /\ ArePromises(promised)
      /\ Told(server.deliveries, server.nextMessageId, server.nextAckId, now, given, published, promised)
  BY Running
<1>2. IsWhole(workload, x, messageFile.nextMessageId) /\ Tidied(server, x, now)
  BY <1>1, ExpiredWhole
<1>3. \A p \in DOMAIN x.deliveries[s].at : ~LeaseRanOut(x.deliveries[s].at[p])
  BY <1>1, ExpiredWhole
<1>4. /\ x.nextMessageId = server.nextMessageId /\ x.nextAckId = server.nextAckId
      /\ AreDeliveries(x.deliveries, x.nextMessageId, x.nextAckId)
      /\ Told(x.deliveries, x.nextMessageId, x.nextAckId, now, given, published, promised)
      /\ AreStreams(workload, streams, x.deliveries, now, given)
  BY <1>2, TidiedSound
<1>5. PICK M, d, e : M = Matching(x, s, ids) /\ d = x.deliveries /\ e = y.deliveries
  OBVIOUS
<1>6. /\ IsWhole(workload, y, messageFile.nextMessageId)
      /\ y.nextMessageId = x.nextMessageId /\ y.nextAckId = x.nextAckId /\ y.messagesDirty
      /\ IsAnswered(e[s], d[s], M, deadline, now)
      /\ \A u \in SubscriptionNames : u # s => e[u] = d[u]
  BY <1>1, <1>2, <1>5, AnsweredWhole
<1>7. NoAck \notin ids
  <2> SUFFICES ASSUME NoAck \in given
               PROVE  FALSE
    OBVIOUS
  <2>1. PICK i \in 1..server.nextMessageId, c \in 1..server.nextAckId : NoAck = <<i, c>>
    BY <1>1 DEF Told, IdsBehind
  <2>2. i = 0
    BY <2>1 DEF NoAck
  <2> QED
    BY <2>2
<1>8. ASSUME NEW p \in M
      PROVE  p \in DOMAIN d[s].at /\ ~d[s].at[p].acked /\ d[s].at[p].lease > now
  <2>1. p \in DOMAIN d[s].at /\ ~d[s].at[p].acked /\ d[s].at[p].ack \in ids
    BY <1>5 DEF Matching, Unacked, RecordAt
  <2>2. d[s].at[p].lease # 0
    BY <1>4, <1>5, <1>7, <2>1 DEF AreDeliveries, IsQueue, IsRecord
  <2>3. ~LeaseRanOut(d[s].at[p])
    BY <1>3, <1>5, <2>1
  <2> QED
    BY <2>1, <2>2, <2>3 DEF LeaseRanOut, InForce
<1>9. NoNewLeases(d, e, now)
  BY <1>1, <1>6, <1>8, AnsweredQuiet
<1>10. AreStreams(workload, streams, e, now, given)
  BY <1>4, <1>5, <1>9, StreamsQuiet
<1>11. ASSUME Quits(deadline)
       PROVE  LeasedAcks(e[s], now) \cap ids = {}
  <2> SUFFICES ASSUME NEW p \in DOMAIN e[s].at, ~e[s].at[p].acked, e[s].at[p].ack \in ids
               PROVE  FALSE
    BY DEF LeasedAcks
  <2>1. CASE p \in M
    <3>1. e[s].at[p].acked \/ e[s].at[p].ack = NoAck
      BY <1>6, <1>11, <2>1 DEF IsAnswered
    <3> QED
      BY <1>7, <3>1
  <2>2. CASE p \notin M
    <3>1. p \in DOMAIN d[s].at /\ e[s].at[p] = d[s].at[p]
      BY <1>6, <2>2 DEF IsAnswered
    <3>2. p \in M
      BY <1>5, <3>1 DEF Matching, Unacked, RecordAt
    <3> QED
      BY <2>2, <3>2
  <2> QED
    BY <2>1, <2>2
<1>12. ASSUME NEW prom, AfterAnswer(prom, promised, d[s], s, M, deadline, now)
       PROVE  Told(e, x.nextMessageId, x.nextAckId, now, given, published, prom)
  <2>1. M \subseteq DOMAIN d[s].at
    BY <1>8
  <2>2. /\ AreDeliveries(d, x.nextMessageId, x.nextAckId)
        /\ Told(d, x.nextMessageId, x.nextAckId, now, given, published, promised)
    BY <1>4, <1>5
  <2>3. s \in SubscriptionNames /\ (deadline = NoValue \/ deadline \in Nat)
    OBVIOUS
  <2>4. /\ now \in Nat /\ IsAnswered(e[s], d[s], M, deadline, now) /\ Elsewhere(e, d, s) /\ ArePromises(promised)
        /\ AfterAnswer(prom, promised, d[s], s, M, deadline, now)
    BY <1>1, <1>6, <1>12 DEF Elsewhere
  <2> QED
    BY ONLY <2>1, <2>2, <2>3, <2>4, AnsweredTold
<1>13. AnswerKeeps(y, x, s, ids, deadline)
  BY <1>5, <1>6, <1>12 DEF AnswerKeeps
<1> QED
  BY <1>4, <1>5, <1>6, <1>10, <1>11, <1>13

\* What a handler that answers leaves behind, in memory and in the file.
LEMMA AnswerOutcome ==
  ASSUME PubSubInv, up, NEW s \in SubscriptionNames, NEW ids, ids \subseteq given,
         NEW deadline, deadline = NoValue \/ deadline \in Nat,
         NEW x, x = LeasesExpired(server), NEW y, y = AnsweredServer(x, s, ids, deadline),
         NEW api, NEW outcome, outcome \in Outcomes, AnswerHistory(api, outcome, x, s, ids, deadline)
  PROVE  /\ Touches(api, outcome) =>
              Told(y.deliveries, y.nextMessageId, y.nextAckId, now, given, published, promised')
         /\ ~Touches(api, outcome) => promised' = promised
         /\ outcome # "saved" =>
              Told(messageFile.deliveries, messageFile.nextMessageId, messageFile.nextAckId, now,
                   given, published, promised')
         /\ ArePromises(promised')
<1>1. AnswerKeeps(y, x, s, ids, deadline)
  BY AnswerSound
<1>2. /\ Touches(api, outcome) =>
              AfterAnswer(promised', promised, x.deliveries[s], s, Matching(x, s, ids), deadline, now)
      /\ ~Touches(api, outcome) => promised' = promised
      /\ outcome # "saved" => \A k \in DOMAIN promised' :
           k \in DOMAIN promised /\ promised'[k] \in Nat /\ promised'[k] <= promised[k]
      /\ ArePromises(promised')
  <2>1. /\ s \in SubscriptionNames /\ (deadline = NoValue \/ deadline \in Nat) /\ up
        /\ AnswerHistory(api, outcome, x, s, ids, deadline)
    OBVIOUS
  <2> QED
    BY ONLY <2>1, PubSubInv, AnswerTells
<1>3. ASSUME Touches(api, outcome)
      PROVE  Told(y.deliveries, y.nextMessageId, y.nextAckId, now, given, published, promised')
  BY <1>1, <1>2, <1>3 DEF AnswerKeeps
<1>4. ASSUME outcome # "saved"
      PROVE  Told(messageFile.deliveries, messageFile.nextMessageId, messageFile.nextAckId, now,
                  given, published, promised')
  <2>1. /\ Told(messageFile.deliveries, messageFile.nextMessageId, messageFile.nextAckId, now,
                given, published, promised)
        /\ AreDeliveries(messageFile.deliveries, messageFile.nextMessageId, messageFile.nextAckId)
        /\ ArePromises(promised) /\ now \in Nat
    BY Running
  <2>2. /\ DOMAIN promised' \subseteq DOMAIN promised
        /\ \A k \in DOMAIN promised' : promised'[k] \in Nat /\ promised'[k] <= promised[k]
    BY <1>2, <1>4
  <2> QED
    BY ONLY <2>1, <2>2, ToldLess
<1> QED
  BY <1>2, <1>3, <1>4

\* acknowledge and modify_ack_deadline, and their gRPC twins
LEMMA AnswerStep ==
  ASSUME PubSubInv, workload' = workload, NEW s \in SubscriptionNames, NEW ids, ids \subseteq given,
         NEW deadline, deadline = NoValue \/ deadline \in Nat, NEW api \in {"rest", "grpc"}, Answer(api, s, ids, deadline)
  PROVE  PubSubInv'
<1>1. PICK x, y, back :
        /\ x = LeasesExpired(server) /\ y = AnsweredServer(x, s, ids, deadline)
        /\ back = IF api = "rest" THEN [deliveries |-> server.deliveries, messages |-> server.messages]
                  ELSE NoFields
  OBVIOUS
<1>2. PICK outcome \in Outcomes : Finish(outcome, y, back) /\ AnswerHistory(api, outcome, x, s, ids, deadline)
  BY <1>1 DEF Answer, The
<1>3. up /\ now' = now /\ given' = given /\ published' = published
  BY DEF Answer
<1>4. /\ IsWhole(workload, y, messageFile.nextMessageId) /\ y.messagesDirty
      /\ y.nextMessageId = server.nextMessageId /\ y.nextAckId = server.nextAckId
      /\ AreStreams(workload, streams, y.deliveries, now, given)
  BY <1>1, <1>3, AnswerSound
<1>5. /\ Touches(api, outcome) =>
           Told(y.deliveries, y.nextMessageId, y.nextAckId, now, given, published, promised')
      /\ ~Touches(api, outcome) => promised' = promised
      /\ outcome # "saved" =>
           Told(messageFile.deliveries, messageFile.nextMessageId, messageFile.nextAckId, now,
                given, published, promised')
      /\ ArePromises(promised')
  BY <1>1, <1>2, <1>3, AnswerOutcome
<1> HIDE <1>1
<1>6. /\ Coherent(back) /\ \A f \in DOMAIN back : back[f] = server[f]
      /\ api = "rest" => "deliveries" \in DOMAIN back
      /\ api # "rest" => "deliveries" \notin DOMAIN back
  BY <1>1 DEF Coherent, NoFields
<1>7. Persist(outcome, y, back) /\ (Killed(outcome) => streams' = NoStreams)
      /\ (~Killed(outcome) => streams' = streams)
  BY <1>2 DEF Finish, StreamsAfter, NoStreams
<1>8. Failed(outcome) \/ outcome = "saved" => streams' = streams
  BY <1>7 DEF Failed, Killed
<1>9. /\ IsWhole(workload, server, messageFile.nextMessageId) /\ server.nextMessageId \in Nat
      /\ server.nextAckId \in Nat
      /\ Told(server.deliveries, server.nextMessageId, server.nextAckId, now, given, published, promised)
      /\ AreStreams(workload, streams, server.deliveries, now, given)
  BY <1>3, Running
<1>10. api \in {"rest", "grpc"} => /\ outcome \in {"saved", "killed"} => Touches(api, outcome)
                                   /\ Failed(outcome) /\ "deliveries" \notin DOMAIN back => Touches(api, outcome)
                                   /\ Failed(outcome) /\ "deliveries" \in DOMAIN back => ~Touches(api, outcome)
  BY <1>6 DEF Touches, Failed
<1> QED
  BY <1>3, <1>4, <1>5, <1>6, <1>7, <1>8, <1>9, <1>10, PersistStep

-----------------------------------------------------------------------------
(***************************************************************************)
(* Seek.                                                                   *)
(***************************************************************************)

Dirtied(x) == [x EXCEPT !.messagesDirty = TRUE]

\* A dirty flag changes nothing else.
LEMMA DirtiedWhole ==
  ASSUME NEW w, NEW x, NEW top, IsWhole(w, x, top)
  PROVE  LET y == Dirtied(x) IN
         /\ IsWhole(w, y, top) /\ y.messagesDirty
         /\ y.deliveries = x.deliveries /\ y.nextMessageId = x.nextMessageId /\ y.nextAckId = x.nextAckId
<1>1. PICK y : y = Dirtied(x)
  OBVIOUS
<1>2. IsServer(x)
  BY DEF IsWhole
<1>3. /\ IsServer(y) /\ y.messagesDirty
      /\ y.topics = x.topics /\ y.subscriptions = x.subscriptions /\ y.snapshots = x.snapshots
      /\ y.messages = x.messages /\ y.deliveries = x.deliveries
      /\ y.nextMessageId = x.nextMessageId /\ y.nextAckId = x.nextAckId
  BY <1>1, <1>2 DEF Dirtied, IsServer, ServerFields
<1>4. IsWhole(w, y, top)
  BY <1>3 DEF IsWhole
<1> QED
  BY <1>1, <1>3, <1>4

\* A queue without leases.
IsQuiet(v) == \A p \in DOMAIN v.at : v.at[p].lease = 0 /\ v.at[p].ack = NoAck

\* Who was promised nothing of s keeps what it was told when the records of s are replaced,
\* and nobody gets a lease when they have none.
LEMMA ReplacedTold ==
  ASSUME NEW d, NEW e, NEW s \in SubscriptionNames, \A u \in SubscriptionNames : u # s => e[u] = d[u],
         NEW time \in Nat, IsQuiet(e[s]),
         NEW top, NEW acks, NEW giv, NEW pub, NEW prom, ArePromises(prom),
         Told(d, top, acks, time, giv, pub, prom),
         NEW prom2, Fewer(prom2, prom), \A k \in DOMAIN prom2 : k[1] # s
  PROVE  Told(e, top, acks, time, giv, pub, prom2) /\ NoNewLeases(d, e, time)
<1>1. IdsBehind(top, acks, giv, pub, prom2)
  BY DEF Fewer, Told, IdsBehind
<1>2. LeasesStand(e, time, prom2)
  <2> SUFFICES ASSUME NEW k \in DOMAIN prom2, prom2[k] > time, NEW p \in DOMAIN e[k[1]].at,
                      ~e[k[1]].at[p].acked, e[k[1]].at[p].message = k[2]
               PROVE  e[k[1]].at[p].lease >= prom2[k]
    BY DEF LeasesStand
  <2>1. k \in DOMAIN prom /\ prom2[k] = prom[k] /\ k[1] \in SubscriptionNames /\ k[1] # s
    BY DEF Fewer, ArePromises
  <2>2. e[k[1]] = d[k[1]]
    BY <2>1
  <2> QED
    BY <2>1, <2>2 DEF Told, LeasesStand
<1>3. NoNewLeases(d, e, time)
  <2> SUFFICES ASSUME NEW u \in SubscriptionNames, NEW p \in DOMAIN e[u].at, ~e[u].at[p].acked, e[u].at[p].lease > time
               PROVE  e[u].at[p].ack \in LeasedAcks(d[u], time)
    BY DEF NoNewLeases, LeasedAcks
  <2>1. u # s
    BY DEF IsQuiet
  <2>2. e[u] = d[u]
    BY <2>1
  <2> QED
    BY <2>2 DEF LeasedAcks
<1> QED
  BY <1>1, <1>2, <1>3 DEF Told

\* seek, grpc_seek once the records to replay are known
LEMMA ReplaceStep ==
  ASSUME PubSubInv, workload' = workload, NEW s \in SubscriptionNames, NEW api \in {"rest", "grpc"},
         NEW v, NEW due, Replace(api, s, v, due),
         up => IsQueue(v, server.nextMessageId, server.nextAckId) /\ IsQuiet(v)
  PROVE  PubSubInv'
<1>1. PICK x, y, back :
        /\ x = SwappedIn(server, s, v) /\ y = Dirtied(x)
        /\ back = IF api = "rest" THEN [deliveries |-> server.deliveries, messages |-> server.messages]
                  ELSE NoFields
  OBVIOUS
<1>2. up /\ now' = now /\ given' = given /\ published' = published
  BY DEF Replace
<1>3. /\ IsWhole(workload, server, messageFile.nextMessageId) /\ server.nextMessageId \in Nat
      /\ server.nextAckId \in Nat /\ now \in Nat /\ ArePromises(promised) /\ IsServer(server)
      /\ Told(server.deliveries, server.nextMessageId, server.nextAckId, now, given, published, promised)
      /\ AreStreams(workload, streams, server.deliveries, now, given)
  BY <1>2, Running DEF IsWhole
<1>4. y = [server EXCEPT !.deliveries[s] = v, !.messagesDirty = TRUE]
  BY <1>1, <1>3 DEF Dirtied, SwappedIn, Swapped, IsServer, ServerFields
<1>5. PICK outcome \in Outcomes :
        /\ Finish(outcome, y, back)
        /\ ~Touches(api, outcome) => promised' = promised
        /\ Touches(api, outcome) => promised' = Without(promised, {k \in DOMAIN promised : k[1] = s})
  BY <1>1, <1>4 DEF Replace
<1>6. /\ IsWhole(workload, x, messageFile.nextMessageId)
      /\ x.nextMessageId = server.nextMessageId /\ x.nextAckId = server.nextAckId
      /\ x.deliveries[s] = v /\ \A u \in SubscriptionNames : u # s => x.deliveries[u] = server.deliveries[u]
  BY <1>1, <1>2, <1>3, SwappedWhole
<1>7. /\ IsWhole(workload, y, messageFile.nextMessageId) /\ y.messagesDirty /\ y.deliveries = x.deliveries
      /\ y.nextMessageId = server.nextMessageId /\ y.nextAckId = server.nextAckId
  BY <1>1, <1>6, DirtiedWhole
<1>8. PICK rest : rest = Without(promised, {k \in DOMAIN promised : k[1] = s})
  OBVIOUS
<1>9. Fewer(rest, promised) /\ Fewer(promised, promised) /\ \A k \in DOMAIN rest : k[1] # s
  <2>1. DOMAIN rest \subseteq DOMAIN promised \ {k \in DOMAIN promised : k[1] = s}
    BY <1>8 DEF Without, Restrict
  <2> QED
    BY <1>3, <1>8, <2>1, FewerPromises
<1>10. /\ Told(y.deliveries, y.nextMessageId, y.nextAckId, now, given, published, rest)
       /\ AreStreams(workload, streams, y.deliveries, now, given)
  <2>1. /\ Told(x.deliveries, server.nextMessageId, server.nextAckId, now, given, published, rest)
        /\ NoNewLeases(server.deliveries, x.deliveries, now)
    <3>1. IsQuiet(x.deliveries[s]) /\ s \in SubscriptionNames
      BY <1>2, <1>6
    <3> QED
      BY ONLY <1>3, <1>6, <1>9, <3>1, ReplacedTold
  <2>2. AreStreams(workload, streams, x.deliveries, now, given)
    BY <1>3, <2>1, StreamsQuiet
  <2> QED
    BY <1>7, <2>1, <2>2
<1>11. /\ Fewer(promised', promised) /\ ArePromises(promised')
       /\ Told(messageFile.deliveries, messageFile.nextMessageId, messageFile.nextAckId, now,
               given, published, promised')
  <2>1. Fewer(promised', promised)
    BY <1>5, <1>8, <1>9
  <2>2. ArePromises(promised')
    BY <2>1 DEF Fewer
  <2> QED
    BY <1>2, <2>1, <2>2, FileTold
<1>12. Touches(api, outcome) => promised' = rest
  BY <1>5, <1>8
<1>13. ~Touches(api, outcome) => promised' = promised
  BY <1>5
<1>14. Persist(outcome, y, back) /\ (Killed(outcome) => streams' = NoStreams)
      /\ (~Killed(outcome) => streams' = streams)
  BY <1>5 DEF Finish, StreamsAfter, NoStreams
<1>15. Failed(outcome) \/ outcome = "saved" => streams' = streams
  BY <1>14 DEF Failed, Killed
<1>16. /\ Coherent(back) /\ \A f \in DOMAIN back : back[f] = server[f]
       /\ api = "rest" => "deliveries" \in DOMAIN back
       /\ api # "rest" => "deliveries" \notin DOMAIN back
  BY <1>1 DEF Coherent, NoFields
<1>17. /\ outcome \in {"saved", "killed"} => Touches(api, outcome)
       /\ Failed(outcome) /\ "deliveries" \notin DOMAIN back => Touches(api, outcome)
       /\ Failed(outcome) /\ "deliveries" \in DOMAIN back => ~Touches(api, outcome)
  BY <1>16 DEF Touches, Failed
<1> HIDE <1>1, <1>4, <1>5, <1>8
<1> QED
  BY <1>2, <1>3, <1>7, <1>10, <1>11, <1>12, <1>13, <1>14, <1>15, <1>16, <1>17, PersistStep

\* The records of a queue as if they had just been published.
Renewed(v) == [p \in DOMAIN v.at |-> FreshRecord(v.at[p].message)]

\* seek by time and by snapshot: what is replayed has no leases.
LEMMA SeekSteps ==
  ASSUME PubSubInv, workload' = workload, NEW s, NEW api \in {"rest", "grpc"}, NEW time, NEW n,
         SeekToTime(api, s, time) \/ SeekToSnapshot(api, s, n)
  PROVE  PubSubInv'
<1>1. up /\ s \in DOMAIN server.subscriptions
  BY DEF SeekToTime, SeekToSnapshot, Replace
<1>2. /\ s \in SubscriptionNames /\ AreDeliveries(server.deliveries, server.nextMessageId, server.nextAckId)
      /\ server.nextMessageId \in Nat /\ server.nextAckId \in Nat
      /\ messageFile.nextMessageId \in Nat /\ messageFile.nextMessageId <= server.nextMessageId
      /\ AreSnapshots(server.snapshots, messageFile.nextMessageId)
  BY <1>1, Running, ResourcesSound DEF AreSubscriptions
<1>3. CASE SeekToTime(api, s, time)
  <2>1. PICK v, at, S : /\ v = server.deliveries[s] /\ at = Renewed(v)
                        /\ S = {p \in DOMAIN v.at : HasMessage(server, s, p)
                                                    /\ MessageAt(server, s, p).publishTime >= time}
    OBVIOUS
  <2>2. IsQueue(v, server.nextMessageId, server.nextAckId)
    BY <1>2, <2>1 DEF AreDeliveries
  <2>3. PICK due : Replace(api, s, Retain(Refilled(v, at), S), due)
    <3>1. [v EXCEPT !.at = [p \in DOMAIN @ |-> FreshRecord(@[p].message)]] = Refilled(v, at)
      BY <2>1, <2>2 DEF Refilled, Renewed, IsQueue
    <3> QED
      BY <1>3, <2>1, <3>1 DEF SeekToTime
  <2>4. /\ IsFunction(at) /\ DOMAIN at = DOMAIN v.at
        /\ \A p \in DOMAIN at : at[p] = FreshRecord(v.at[p].message)
    BY <2>1 DEF Renewed, IsFunction
  <2>5. \A p \in DOMAIN at : /\ IsRecord(at[p], server.nextMessageId, server.nextAckId)
                             /\ at[p].message = v.at[p].message /\ at[p].lease = 0 /\ at[p].ack = NoAck
    <3> SUFFICES ASSUME NEW p \in DOMAIN at
                 PROVE  /\ IsRecord(at[p], server.nextMessageId, server.nextAckId)
                        /\ at[p].message = v.at[p].message /\ at[p].lease = 0 /\ at[p].ack = NoAck
      OBVIOUS
    <3>1. PICK id : id = v.at[p].message /\ id \in 1..server.nextMessageId
      BY <2>2, <2>4 DEF IsQueue, IsRecord
    <3>2. at[p] = FreshRecord(id)
      BY <2>4, <3>1
    <3>3. IsRecord(FreshRecord(id), server.nextMessageId, server.nextAckId)
      BY <3>1, FreshIsRecord
    <3>4. FreshRecord(id).message = id /\ FreshRecord(id).lease = 0 /\ FreshRecord(id).ack = NoAck
      BY FreshFields
    <3> QED
      BY <3>1, <3>2, <3>3, <3>4
  <2>6. IsQueue(Refilled(v, at), server.nextMessageId, server.nextAckId) /\ Refilled(v, at).at = at
    BY <2>2, <2>4, <2>5, RefilledQueue
  <2>7. PICK w : w = Refilled(v, at)
    OBVIOUS
  <2>8. S \subseteq DOMAIN w.at
    BY <2>1, <2>4, <2>6, <2>7
  <2>9. /\ IsQueue(Retain(w, S), server.nextMessageId, server.nextAckId)
        /\ DOMAIN Retain(w, S).at = S /\ \A p \in S : Retain(w, S).at[p] = w.at[p]
    BY <2>6, <2>7, <2>8, RetainQueue
  <2>10. IsQuiet(Retain(w, S))
    BY <2>5, <2>6, <2>7, <2>8, <2>9 DEF IsQuiet
  <2> QED
    BY <1>2, <2>3, <2>7, <2>9, <2>10, ReplaceStep
<1>4. CASE SeekToSnapshot(api, s, n)
  <2>1. PICK v, due : /\ v = server.snapshots[n].deliveries /\ n \in DOMAIN server.snapshots
                      /\ Replace(api, s, SnapshotDeliveries(v), due)
    BY <1>4 DEF SeekToSnapshot
  <2>2. IsQueue(v, messageFile.nextMessageId, 0)
    BY <1>2, <2>1 DEF AreSnapshots
  <2>3. /\ IsQueue(SnapshotDeliveries(v), messageFile.nextMessageId, server.nextAckId)
        /\ \A p \in DOMAIN SnapshotDeliveries(v).at :
             SnapshotDeliveries(v).at[p].lease = 0 /\ SnapshotDeliveries(v).at[p].ack = NoAck
    BY <2>2, SnapshotQueue
  <2>4. IsQueue(SnapshotDeliveries(v), server.nextMessageId, server.nextAckId) /\ IsQuiet(SnapshotDeliveries(v))
    <3>1. IsQuiet(SnapshotDeliveries(v))
      BY <2>3 DEF IsQuiet
    <3>2. server.nextAckId <= server.nextAckId
      BY <1>2
    <3> QED
      BY <1>2, <2>3, <3>1, <3>2, QueueGrows
  <2> QED
    BY <1>2, <2>1, <2>4, ReplaceStep
<1> QED
  BY <1>3, <1>4

-----------------------------------------------------------------------------
(***************************************************************************)
(* Streams.                                                                *)
(***************************************************************************)

\* One stream changes.
LEMMA OneStream ==
  ASSUME NEW w, NEW z, NEW d, NEW time, NEW giv, AreStreams(w, z, d, time, giv), NEW t \in Streams,
         NEW c, c # NoValue => IsStream(w, c, d, time, giv)
  PROVE  AreStreams(w, [z EXCEPT ![t] = c], d, time, giv)
<1>1. PICK y : y = [z EXCEPT ![t] = c]
  OBVIOUS
<1>2. z = [u \in Streams |-> z[u]]
  BY DEF AreStreams
<1>3. y = [u \in Streams |-> y[u]] /\ y[t] = c /\ \A u \in Streams : u # t => y[u] = z[u]
  BY <1>1, <1>2
<1>4. ASSUME NEW u \in Streams, y[u] # NoValue
      PROVE  IsStream(w, y[u], d, time, giv)
  <2>1. CASE u = t
    BY <1>3, <1>4, <2>1
  <2>2. CASE u # t
    BY <1>3, <1>4, <2>2 DEF AreStreams
  <2> QED
    BY <2>1, <2>2
<1> QED
  BY <1>1, <1>3, <1>4 DEF AreStreams

\* The stream c with another map.
Holding(c, outstanding, closing) == [c EXCEPT !.outstanding = outstanding, !.closing = closing]

\* A stream may forget what has no lease.
LEMMA HoldingStream ==
  ASSUME NEW w, NEW c, NEW d, NEW time, NEW giv, IsStream(w, c, d, time, giv),
         NEW o, o \subseteq c.outstanding, LeasedAcks(d[c.subscription], time) \cap c.sent \subseteq o, NEW closing
  PROVE  IsStream(w, Holding(c, o, closing), d, time, giv)
<1>1. PICK u, y : u = [c EXCEPT !.outstanding = o] /\ y = [u EXCEPT !.closing = closing]
  OBVIOUS
<1>2. Holding(c, o, closing) = y
  BY <1>1 DEF Holding
<1>3. c = [f \in StreamFields |-> c[f]]
  BY DEF IsStream
<1>4. /\ u = [f \in StreamFields |-> u[f]] /\ u.outstanding = o
      /\ \A f \in StreamFields \ {"outstanding"} : u[f] = c[f]
  BY <1>1, <1>3 DEF StreamFields
<1>5. /\ y = [f \in StreamFields |-> y[f]] /\ y.outstanding = o
      /\ \A f \in StreamFields \ {"outstanding", "closing"} : y[f] = c[f]
  BY <1>1, <1>4 DEF StreamFields
<1>6. y.subscription = c.subscription /\ y.limit = c.limit /\ y.deadline = c.deadline /\ y.sent = c.sent
  BY <1>5 DEF StreamFields
<1>7. /\ w.streams # {} /\ c.subscription \in SubscriptionNames /\ c.limit \in Int /\ c.deadline \in Nat \ {0}
      /\ c.outstanding \subseteq c.sent /\ c.sent \subseteq giv
      /\ IsFiniteSet(c.outstanding) /\ (c.limit > 0 => Cardinality(c.outstanding) <= c.limit)
  BY DEF IsStream
<1>8. IsFiniteSet(o) /\ (c.limit > 0 => Cardinality(o) <= c.limit)
  <2>1. IsFiniteSet(o) /\ Cardinality(o) <= Cardinality(c.outstanding)
    BY <1>7, FS_Subset
  <2>2. Cardinality(o) \in Nat /\ Cardinality(c.outstanding) \in Nat
    BY <1>7, <2>1, FS_CardinalityType
  <2> QED
    BY <1>7, <2>1, <2>2
<1> QED
  BY <1>2, <1>5, <1>6, <1>7, <1>8 DEF IsStream

\* streaming_pull up to the start of its task
LEMMA OpenStreamStep ==
  ASSUME PubSubInv, workload' = workload, NEW t \in Streams, NEW s, NEW request \in workload.streams,
         OpenStream(t, s, request)
  PROVE  PubSubInv'
<1>1. PICK c : c = [subscription |-> s, limit |-> request.limit, bytes |-> request.bytes,
                    deadline |-> AckDeadlineOr(request.deadline),
                    outstanding |-> {}, sent |-> {}, closing |-> FALSE]
  OBVIOUS
<1>2. /\ up /\ streams' = [streams EXCEPT ![t] = c] /\ s \in DOMAIN server.subscriptions
      /\ now' = now /\ up' = up /\ server' = server
      /\ resourceFile' = resourceFile /\ messageFile' = messageFile
      /\ given' = given /\ published' = published /\ promised' = promised
  BY <1>1 DEF OpenStream, Pullable, fileVars, historyVars
<1>3. s \in SubscriptionNames
  BY <1>2, ResourcesSound DEF AreSubscriptions
<1>4. /\ request.limit \in Int /\ AckDeadlineOr(request.deadline) \in Nat \ {0}
  BY ConstantsAssumption DEF PubSubInv, AckDeadlineOr
<1>5. /\ c = [f \in StreamFields |-> c[f]]
      /\ c.subscription = s /\ c.limit = request.limit /\ c.deadline = AckDeadlineOr(request.deadline)
      /\ c.outstanding = {} /\ c.sent = {}
  BY <1>1 DEF StreamFields
<1>6. IsFiniteSet({}) /\ Cardinality({}) = 0
  BY FS_EmptySet
<1>7. c.limit > 0 => Cardinality(c.outstanding) <= c.limit
  BY <1>4, <1>5, <1>6
<1>8. IsStream(workload, c, server.deliveries, now, given)
  BY <1>3, <1>4, <1>5, <1>6, <1>7 DEF IsStream
<1>9. AreStreams(workload, streams', server.deliveries, now, given)
  BY <1>2, <1>8, Running, OneStream
<1>10. ServerSound(workload, server, messageFile.nextMessageId, streams', now, given, published, promised)
  BY <1>2, <1>9 DEF PubSubInv, ServerSound
<1> QED
  BY <1>2, <1>10 DEF PubSubInv

\* apply_streaming_pull_request
LEMMA StreamRequestStep ==
  ASSUME PubSubInv, workload' = workload, NEW t \in Streams, NEW ids, ids \subseteq given,
         NEW deadline, deadline = NoValue \/ deadline \in Nat, StreamRequest(t, ids, deadline)
  PROVE  PubSubInv'
<1>1. PICK c, s, left, ended, kept :
        /\ c = streams[t] /\ s = c.subscription
        /\ left = IF deadline = NoValue \/ deadline = 0 THEN c.outstanding \ ids ELSE c.outstanding
        /\ ended = [c EXCEPT !.closing = TRUE] /\ kept = [c EXCEPT !.outstanding = left]
  OBVIOUS
<1>2. /\ up /\ c # NoValue /\ ~c.closing /\ now' = now /\ given' = given /\ published' = published
  BY <1>1 DEF StreamRequest, Open
<1>3. /\ AreStreams(workload, streams, server.deliveries, now, given)
      /\ IsStream(workload, c, server.deliveries, now, given) /\ s \in SubscriptionNames
  <2>1. AreStreams(workload, streams, server.deliveries, now, given)
    BY <1>2, Running
  <2>2. IsStream(workload, c, server.deliveries, now, given)
    BY <1>1, <1>2, <2>1 DEF AreStreams
  <2> QED
    BY <1>1, <2>1, <2>2 DEF IsStream
<1>4. ended = Holding(c, c.outstanding, TRUE) /\ kept = Holding(c, left, c.closing)
  BY <1>1, <1>3 DEF Holding, IsStream, StreamFields
<1>5. CASE ~(s \in DOMAIN server.subscriptions /\ (deadline # NoValue => deadline <= MaxAckDeadline))
  <2>1. /\ streams' = [streams EXCEPT ![t] = ended] /\ up' = up /\ server' = server
        /\ resourceFile' = resourceFile /\ messageFile' = messageFile /\ promised' = promised
    BY <1>1, <1>5 DEF StreamRequest, fileVars
  <2>2. IsStream(workload, ended, server.deliveries, now, given)
    <3>1. LeasedAcks(server.deliveries[c.subscription], now) \cap c.sent \subseteq c.outstanding
      BY <1>3 DEF IsStream
    <3> QED
      BY <1>3, <1>4, <3>1, HoldingStream
  <2>3. AreStreams(workload, streams', server.deliveries, now, given)
    BY <1>3, <2>1, <2>2, OneStream
  <2>4. ServerSound(workload, server, messageFile.nextMessageId, streams', now, given, published, promised)
    BY <1>2, <2>3 DEF PubSubInv, ServerSound
  <2> QED
    BY <1>2, <2>1, <2>4 DEF PubSubInv
<1>6. CASE s \in DOMAIN server.subscriptions /\ (deadline # NoValue => deadline <= MaxAckDeadline)
  <2>1. PICK x, y : x = LeasesExpired(server) /\ y = AnsweredServer(x, s, ids, deadline)
    OBVIOUS
  <2>2. PICK outcome \in Outcomes :
          /\ Persist(outcome, y, NoFields)
          /\ streams' = StreamsWith(outcome, t, IF Failed(outcome) THEN ended ELSE kept)
          /\ AnswerHistory("grpc", outcome, x, s, ids, deadline)
    <3>1. PICK outcome \in Outcomes :
            /\ Persist(outcome, AnsweredServer(LeasesExpired(server), s, ids, deadline), NoFields)
            /\ streams' = StreamsWith(outcome, t, IF Failed(outcome) THEN ended ELSE kept)
            /\ AnswerHistory("grpc", outcome, LeasesExpired(server), s, ids, deadline)
      BY <1>1, <1>6 DEF StreamRequest, The
    <3> QED
      BY <2>1, <3>1
  <2>3. /\ IsWhole(workload, y, messageFile.nextMessageId) /\ y.messagesDirty
        /\ y.nextMessageId = server.nextMessageId /\ y.nextAckId = server.nextAckId
        /\ AreStreams(workload, streams, y.deliveries, now, given)
        /\ Quits(deadline) => LeasedAcks(y.deliveries[s], now) \cap ids = {}
    BY <1>2, <1>3, <2>1, AnswerSound
  <2>4. /\ Touches("grpc", outcome) =>
             Told(y.deliveries, y.nextMessageId, y.nextAckId, now, given, published, promised')
        /\ outcome # "saved" =>
             Told(messageFile.deliveries, messageFile.nextMessageId, messageFile.nextAckId, now,
                  given, published, promised')
        /\ ArePromises(promised')
    BY <1>2, <1>3, <2>1, <2>2, AnswerOutcome
  <2>5. Told(y.deliveries, y.nextMessageId, y.nextAckId, now, given, published, promised')
    BY <2>4 DEF Touches
  <2> HIDE <2>1
  <2>6. IsStream(workload, c, y.deliveries, now, given)
    BY <1>1, <1>2, <2>3 DEF AreStreams
  <2>7. LeasedAcks(y.deliveries[c.subscription], now) \cap c.sent \subseteq c.outstanding
    BY <2>6 DEF IsStream
  <2>8. IsStream(workload, ended, y.deliveries, now, given)
    BY <1>4, <2>6, <2>7, HoldingStream
  <2>9. IsStream(workload, kept, y.deliveries, now, given)
    <3>1. left \subseteq c.outstanding
      BY <1>1
    <3>2. LeasedAcks(y.deliveries[c.subscription], now) \cap c.sent \subseteq left
      BY <1>1, <2>3, <2>7 DEF Quits
    <3> QED
      BY <1>4, <2>6, <3>1, <3>2, HoldingStream
  <2>10. AreStreams(workload, [streams EXCEPT ![t] = ended], y.deliveries, now, given)
         /\ AreStreams(workload, [streams EXCEPT ![t] = kept], y.deliveries, now, given)
    BY <2>3, <2>8, <2>9, OneStream
  <2>11. Killed(outcome) => streams' = NoStreams
    BY <2>2 DEF StreamsWith, NoStreams
  <2>12. Failed(outcome) \/ outcome = "saved" => AreStreams(workload, streams', y.deliveries, now, given)
    BY <2>2, <2>10 DEF StreamsWith, Failed, Killed
  <2>13. /\ Coherent(NoFields) /\ \A f \in DOMAIN NoFields : NoFields[f] = server[f]
         /\ DOMAIN NoFields = {}
    BY SmallUndo DEF NoFields
  <2>14. /\ IsWhole(workload, server, messageFile.nextMessageId) /\ server.nextMessageId \in Nat
         /\ server.nextAckId \in Nat
    BY <1>2, Running
  <2>15. PICK back : back = NoFields
    OBVIOUS
  <2>16. /\ Coherent(back) /\ \A f \in DOMAIN back : back[f] = server[f]
         /\ "deliveries" \notin DOMAIN back /\ Persist(outcome, y, back)
    BY <2>2, <2>13, <2>15
  <2> QED
    BY <1>2, <2>3, <2>4, <2>5, <2>11, <2>12, <2>14, <2>16, PersistStep
<1> QED
  BY <1>5, <1>6

\* grpc_prune_outstanding ends leases at most.
LEMMA PrunedTidy ==
  ASSUME PubSubInv, up, NEW c, NEW x, x = PrunedServer(c)
  PROVE  IsWhole(workload, x, messageFile.nextMessageId) /\ Tidied(server, x, now)
<1>1. IsWhole(workload, server, messageFile.nextMessageId) /\ now \in Nat /\ IsServer(server)
  BY Running DEF IsWhole
<1>2. Tidied(server, server, now)
  BY <1>1, TidiedSame
<1>3. /\ IsWhole(workload, LeasesExpired(server), messageFile.nextMessageId)
      /\ Tidied(server, LeasesExpired(server), now)
  BY <1>1, ExpiredWhole
<1> QED
  BY <1>1, <1>2, <1>3 DEF PrunedServer

\* What the task keeps in its map is what it sent and still has a lease.
LEMMA StillSent ==
  ASSUME NEW w, NEW x, NEW c, NEW giv, IsStream(w, c, x.deliveries, now, giv)
  PROVE  /\ StillOutstanding(x, c) \subseteq c.outstanding
         /\ LeasedAcks(x.deliveries[c.subscription], now) \cap c.sent \subseteq StillOutstanding(x, c)
<1>1. StillOutstanding(x, c) = LeasedAcks(x.deliveries[c.subscription], now) \cap c.outstanding
  BY DEF StillOutstanding, LeasedAcks, LeasedAt, Unacked, RecordAt, InForce
<1> QED
  BY <1>1 DEF IsStream

\* A tick that finds no room, nothing to send, or no subscription.
LEMMA IdleTickStep ==
  ASSUME PubSubInv, workload' = workload, NEW t \in Streams, IdleTick(t)
  PROVE  PubSubInv'
<1>1. PICK c, x, left : c = streams[t] /\ x = PrunedServer(c) /\ left = StillOutstanding(x, c)
  OBVIOUS
<1>2. /\ up /\ c # NoValue /\ server' = x
      /\ \/ streams' = [streams EXCEPT ![t].outstanding = left]
         \/ streams' = [streams EXCEPT ![t].outstanding = left, ![t].closing = TRUE]
      /\ now' = now /\ up' = up /\ resourceFile' = resourceFile /\ messageFile' = messageFile
      /\ given' = given /\ published' = published /\ promised' = promised
  BY <1>1 DEF IdleTick, Open, The, fileVars, historyVars
<1>3. IsWhole(workload, x, messageFile.nextMessageId) /\ Tidied(server, x, now)
  BY <1>1, <1>2, PrunedTidy
<1>4. /\ x.nextMessageId = server.nextMessageId /\ x.nextAckId = server.nextAckId
      /\ Told(x.deliveries, x.nextMessageId, x.nextAckId, now, given, published, promised)
      /\ AreStreams(workload, streams, x.deliveries, now, given)
  BY <1>2, <1>3, TidiedSound
<1>5. IsStream(workload, c, x.deliveries, now, given)
  BY <1>1, <1>2, <1>4 DEF AreStreams
<1>6. left \subseteq c.outstanding /\ LeasedAcks(x.deliveries[c.subscription], now) \cap c.sent \subseteq left
  BY <1>1, <1>5, StillSent
<1>7. /\ IsStream(workload, Holding(c, left, c.closing), x.deliveries, now, given)
      /\ IsStream(workload, Holding(c, left, TRUE), x.deliveries, now, given)
  BY <1>5, <1>6, HoldingStream
<1>8. \/ streams' = [streams EXCEPT ![t] = Holding(c, left, c.closing)]
      \/ streams' = [streams EXCEPT ![t] = Holding(c, left, TRUE)]
  <2>1. streams = [u \in Streams |-> streams[u]] /\ c = [f \in StreamFields |-> c[f]]
    BY <1>4, <1>5 DEF AreStreams, IsStream
  <2>2. Holding(c, left, c.closing) = [c EXCEPT !.outstanding = left]
    BY <2>1 DEF Holding, StreamFields
  <2>3. Holding(c, left, TRUE) = [c EXCEPT !.outstanding = left, !.closing = TRUE]
    BY DEF Holding
  <2>4. [streams EXCEPT ![t].outstanding = left] = [streams EXCEPT ![t] = [c EXCEPT !.outstanding = left]]
    BY <1>1, <2>1
  <2>5. [streams EXCEPT ![t].outstanding = left, ![t].closing = TRUE] =
          [streams EXCEPT ![t] = [c EXCEPT !.outstanding = left, !.closing = TRUE]]
    BY <1>1, <2>1
  <2> QED
    BY <1>2, <2>2, <2>3, <2>4, <2>5
<1>9. AreStreams(workload, streams', x.deliveries, now, given)
  <2>1. PICK kept, ended : kept = Holding(c, left, c.closing) /\ ended = Holding(c, left, TRUE)
    OBVIOUS
  <2>2. /\ IsStream(workload, kept, x.deliveries, now, given)
        /\ IsStream(workload, ended, x.deliveries, now, given)
    BY <1>7, <2>1
  <2>3. /\ AreStreams(workload, [streams EXCEPT ![t] = kept], x.deliveries, now, given)
        /\ AreStreams(workload, [streams EXCEPT ![t] = ended], x.deliveries, now, given)
    BY ONLY <1>4, <2>2, OneStream
  <2>4. streams' = [streams EXCEPT ![t] = kept] \/ streams' = [streams EXCEPT ![t] = ended]
    BY ONLY <1>8, <2>1
  <2> QED
    BY ONLY <2>3, <2>4
<1>10. Captures(workload) => x.nextMessageId <= messageFile.nextMessageId
  BY <1>2, <1>4, Running
<1>11. ServerSound(workload, x, messageFile.nextMessageId, streams', now, given, published, promised)
  BY <1>3, <1>4, <1>9, <1>10 DEF ServerSound
<1> QED
  BY <1>2, <1>11 DEF PubSubInv

\* grpc_pull_may_return
LEMMA PullMayReturnStep ==
  ASSUME PubSubInv, workload' = workload, NEW s, PullMayReturn(s)
  PROVE  PubSubInv'
<1>1. PICK x : x = LeasesExpired(server)
  OBVIOUS
<1>2. /\ up /\ server' = x /\ streams' = streams
      /\ now' = now /\ up' = up /\ resourceFile' = resourceFile /\ messageFile' = messageFile
      /\ given' = given /\ published' = published /\ promised' = promised
  BY <1>1 DEF PullMayReturn, fileVars, historyVars
<1>3. IsWhole(workload, x, messageFile.nextMessageId) /\ Tidied(server, x, now)
  BY <1>1, <1>2, Running, ExpiredWhole
<1>4. /\ x.nextMessageId = server.nextMessageId /\ x.nextAckId = server.nextAckId
      /\ Told(x.deliveries, x.nextMessageId, x.nextAckId, now, given, published, promised)
      /\ AreStreams(workload, streams, x.deliveries, now, given)
  BY <1>2, <1>3, TidiedSound
<1>5. Captures(workload) => x.nextMessageId <= messageFile.nextMessageId
  BY <1>2, <1>4, Running
<1>6. ServerSound(workload, x, messageFile.nextMessageId, streams', now, given, published, promised)
  BY <1>2, <1>3, <1>4, <1>5 DEF ServerSound
<1> QED
  BY <1>2, <1>6 DEF PubSubInv

\* What a tick that scans starts from.
Scanning(t, c, s, pruned, left, max, x, scan, scanned) ==
  /\ c = streams[t] /\ s = c.subscription /\ pruned = PrunedServer(c)
  /\ left = StillOutstanding(pruned, c) /\ max = RemainingCapacity(c.limit, left)
  /\ x = LeasesExpired(RetentionCleaned(pruned)) /\ scan = Scan(x, s, max) /\ scanned = Scanned(x, s, scan)

\* The stream, its subscription and its room.
LEMMA ScanStarts ==
  ASSUME PubSubInv, up, NEW t \in Streams, NEW c, NEW s, NEW pruned, NEW left, NEW max, NEW x, NEW scan,
         NEW scanned, Scanning(t, c, s, pruned, left, max, x, scan, scanned), c # NoValue, max > 0
  PROVE  /\ IsWhole(workload, pruned, messageFile.nextMessageId) /\ Tidied(server, pruned, now)
         /\ IsWhole(workload, x, messageFile.nextMessageId) /\ Tidied(server, x, now) /\ Tidied(pruned, x, now)
         /\ IsStream(workload, c, pruned.deliveries, now, given) /\ s \in SubscriptionNames
         /\ left \subseteq c.outstanding
         /\ LeasedAcks(pruned.deliveries[s], now) \cap c.sent \subseteq left
         /\ IsFiniteSet(left) /\ max \in Nat /\ (c.limit > 0 => Cardinality(left) + max = c.limit)
         /\ c.deadline \in Nat
<1>1. /\ c = streams[t] /\ s = c.subscription /\ pruned = PrunedServer(c)
      /\ left = StillOutstanding(pruned, c) /\ max = RemainingCapacity(c.limit, left)
      /\ x = LeasesExpired(RetentionCleaned(pruned))
  BY DEF Scanning
<1>2. IsWhole(workload, pruned, messageFile.nextMessageId) /\ Tidied(server, pruned, now)
  BY <1>1, PrunedTidy
<1>3. IsStream(workload, c, pruned.deliveries, now, given)
  BY <1>1, <1>2, TidiedSound DEF AreStreams
<1>4. left \subseteq c.outstanding /\ LeasedAcks(pruned.deliveries[s], now) \cap c.sent \subseteq left
  BY <1>1, <1>3, StillSent
<1>5. s \in SubscriptionNames /\ IsFiniteSet(c.outstanding) /\ c.limit \in Int /\ c.deadline \in Nat
  BY <1>1, <1>3 DEF IsStream
<1>6. IsFiniteSet(left) /\ Cardinality(left) \in Nat
  BY <1>4, <1>5, FS_Subset, FS_CardinalityType
<1>7. max \in Nat /\ (c.limit > 0 => Cardinality(left) + max = c.limit)
  BY <1>1, <1>5, <1>6 DEF RemainingCapacity
<1>8. IsWhole(workload, x, messageFile.nextMessageId) /\ Tidied(pruned, x, now)
  <2>1. now \in Nat
    BY Running
  <2>2. PICK y : y = RetentionCleaned(pruned)
    OBVIOUS
  <2>3. IsWhole(workload, y, messageFile.nextMessageId) /\ Tidied(pruned, y, now)
    BY <1>2, <2>1, <2>2, CleanedWhole
  <2>4. IsWhole(workload, x, messageFile.nextMessageId) /\ Tidied(y, x, now)
    BY <1>1, <2>1, <2>2, <2>3, ExpiredWhole
  <2> QED
    BY <2>1, <2>3, <2>4, TidiedTwice
<1>9. Tidied(server, x, now)
  BY <1>2, <1>8, Running, TidiedTwice
<1> QED
  BY <1>2, <1>3, <1>4, <1>5, <1>6, <1>7, <1>8, <1>9

\* A tick whose scan takes nothing leaves the copies it made, unsaved.
LEMMA TakeNothingStep ==
  ASSUME PubSubInv, NoSilentCopies, up, workload' = workload, now' = now, published' = published,
         NEW t \in Streams, NEW c, NEW s,
         NEW pruned, NEW left, NEW max, NEW x, NEW scan, NEW scanned,
         Scanning(t, c, s, pruned, left, max, x, scan, scanned), c # NoValue, max > 0,
         Pullable(pruned, s), TakeNothing(t, c, left, scan, scanned)
  PROVE  PubSubInv'
<1>1. /\ IsWhole(workload, x, messageFile.nextMessageId) /\ Tidied(server, x, now)
      /\ IsWhole(workload, pruned, messageFile.nextMessageId) /\ Tidied(server, pruned, now)
      /\ Tidied(pruned, x, now)
      /\ IsStream(workload, c, pruned.deliveries, now, given) /\ s \in SubscriptionNames
      /\ left \subseteq c.outstanding
      /\ LeasedAcks(pruned.deliveries[s], now) \cap c.sent \subseteq left
      /\ max \in Nat
  BY ScanStarts
<1>2. /\ server' = scanned /\ streams' = [streams EXCEPT ![t].outstanding = left]
      /\ up' = up /\ resourceFile' = resourceFile /\ messageFile' = messageFile
      /\ given' = given /\ promised' = promised
  BY DEF TakeNothing, fileVars
<1>3. c = streams[t] /\ s = c.subscription /\ scan = Scan(x, s, max) /\ scanned = Scanned(x, s, scan)
  BY DEF Scanning
<1>4. /\ now \in Nat /\ messageFile.nextMessageId \in Nat
      /\ server.nextMessageId \in Nat /\ server.nextAckId \in Nat /\ workload \in Workloads
      /\ Captures(workload) => server.nextMessageId <= messageFile.nextMessageId
  BY Running
<1>5. /\ IsWhole(workload, scanned, messageFile.nextMessageId)
      /\ ScannedFrom(scanned, x, Cardinality(scan.taken), scan.dead, now)
  BY ONLY <1>1, <1>3, <1>4, ScannedWhole
<1>6. /\ Cardinality(scan.taken) \in Nat
      /\ scan.dead # {} => DeadLetterTarget(x, s) # NoValue
  BY ONLY <1>1, <1>3, <1>4, ScanFacts
<1>7. /\ AllCalm(server.deliveries, scanned.deliveries, server.nextMessageId, now)
      /\ AllCalm(pruned.deliveries, scanned.deliveries, server.nextMessageId, now)
      /\ x.nextMessageId = server.nextMessageId /\ x.nextAckId = server.nextAckId
      /\ pruned.subscriptions = x.subscriptions
  <2>1. /\ AllCalm(server.deliveries, x.deliveries, server.nextMessageId, now)
        /\ AllCalm(pruned.deliveries, x.deliveries, server.nextMessageId, now)
        /\ AllCalm(x.deliveries, scanned.deliveries, server.nextMessageId, now)
        /\ x.nextMessageId = server.nextMessageId /\ x.nextAckId = server.nextAckId
        /\ pruned.subscriptions = x.subscriptions
    BY <1>1, <1>5 DEF Tidied, ScannedFrom
  <2> QED
    BY <1>4, <2>1, CalmTransitive DEF AllCalm
<1>8. /\ scanned.nextMessageId \in Nat /\ scanned.nextAckId \in Nat
      /\ server.nextMessageId <= scanned.nextMessageId /\ server.nextAckId <= scanned.nextAckId
      /\ AreDeliveries(scanned.deliveries, scanned.nextMessageId, scanned.nextAckId)
  BY <1>4, <1>5, <1>6, <1>7 DEF IsWhole, AreContents, ScannedFrom
<1>9. Captures(workload) => scanned.nextMessageId <= messageFile.nextMessageId
  <2> SUFFICES ASSUME Captures(workload)
               PROVE  scanned.nextMessageId <= messageFile.nextMessageId
    OBVIOUS
  <2>1. workload.streams # {}
    BY <1>1 DEF IsStream
  <2>2. ~DeadLetters(workload)
    BY <1>4, <2>1 DEF NoSilentCopies, Captures
  <2>3. x.subscriptions[s].deadLetter = NoValue
    <3>1. s \in DOMAIN x.subscriptions
      BY <1>7 DEF Pullable
    <3>2. AreSubscriptions(workload, x.subscriptions)
      BY <1>1 DEF IsWhole, AreResources
    <3> QED
      BY <2>2, <3>1, <3>2 DEF AreSubscriptions
  <2>4. scan.dead = {}
    BY <1>6, <2>3 DEF DeadLetterTarget
  <2> QED
    BY <1>4, <1>5, <1>7, <2>4 DEF ScannedFrom
<1>10. /\ Told(scanned.deliveries, scanned.nextMessageId, scanned.nextAckId, now, given, published, promised)
       /\ AreStreams(workload, streams, scanned.deliveries, now, given)
  <2>1. Fewer(promised, promised)
    BY Running, FewerPromises
  <2> QED
    BY ONLY PubSubInv, up, <1>7, <1>8, <2>1, CalmTold
<1>11. AreStreams(workload, streams', scanned.deliveries, now, given)
  <2>1. IsStream(workload, c, scanned.deliveries, now, given)
    BY <1>3, <1>10, c # NoValue DEF AreStreams
  <2>2. NoNewLeases(pruned.deliveries, scanned.deliveries, now)
    BY <1>4, <1>7, CalmQuiet
  <2>3. LeasedAcks(scanned.deliveries[c.subscription], now) \cap c.sent \subseteq left
    BY <1>1, <1>3, <2>2 DEF NoNewLeases
  <2>4. PICK kept : kept = Holding(c, left, c.closing)
    OBVIOUS
  <2>5. IsStream(workload, kept, scanned.deliveries, now, given)
    BY <1>1, <2>1, <2>3, <2>4, HoldingStream
  <2>6. streams' = [streams EXCEPT ![t] = kept]
    <3>1. streams = [u \in Streams |-> streams[u]] /\ c = [f \in StreamFields |-> c[f]]
      BY <1>10, <2>1 DEF AreStreams, IsStream
    <3>2. kept = [c EXCEPT !.outstanding = left]
      BY <2>4, <3>1 DEF Holding, StreamFields
    <3> QED
      BY <1>2, <1>3, <3>1, <3>2
  <2> QED
    BY ONLY <1>10, <2>5, <2>6, OneStream
<1>12. ServerSound(workload, scanned, messageFile.nextMessageId, streams', now, given, published, promised)
  BY <1>5, <1>9, <1>10, <1>11 DEF ServerSound
<1> QED
  BY <1>2, <1>12 DEF PubSubInv

\* The stream c after it sent the ack ids A, with those of `left` still out.
Sending(c, left, A) == [c EXCEPT !.outstanding = left \cup A, !.sent = @ \cup A]

\* A stream that had room for what it sent stays within its limit and knows all its leases.
LEMMA SendingStream ==
  ASSUME NEW w, NEW c, NEW d, NEW time \in Nat, NEW giv, IsStream(w, c, d, time, giv),
         NEW s, s = c.subscription, NEW e, NEW K, NEW top, NEW acks, NEW acks2, NEW lease,
         Handed(d, e, s, K, top, acks, acks2, lease, time),
         NEW left, left \subseteq c.outstanding, LeasedAcks(d[s], time) \cap c.sent \subseteq left,
         IsFiniteSet(left), NEW A, IsFiniteSet(A), NEW giv2, giv \subseteq giv2, A \subseteq giv2,
         c.limit > 0 => Cardinality(left) + Cardinality(A) <= c.limit,
         \A p \in K : e[s].at[p].ack \in A
  PROVE  IsStream(w, Sending(c, left, A), e, time, giv2)
<1>1. PICK z : z = Sending(c, left, A)
  OBVIOUS
<1>2. /\ c = [f \in StreamFields |-> c[f]] /\ w.streams # {}
      /\ c.subscription \in SubscriptionNames /\ c.limit \in Int /\ c.deadline \in Nat \ {0}
      /\ c.outstanding \subseteq c.sent /\ c.sent \subseteq giv
  BY DEF IsStream
<1>3. /\ z = [f \in StreamFields |-> z[f]] /\ z.subscription = c.subscription /\ z.limit = c.limit
      /\ z.deadline = c.deadline /\ z.outstanding = left \cup A /\ z.sent = c.sent \cup A
  BY <1>1, <1>2 DEF Sending, StreamFields
<1>4. z.outstanding \subseteq z.sent /\ z.sent \subseteq giv2
  BY <1>2, <1>3
<1>5. IsFiniteSet(z.outstanding) /\ (z.limit > 0 => Cardinality(z.outstanding) <= z.limit)
  <2>1. /\ IsFiniteSet(left \cup A) /\ Cardinality(left) \in Nat /\ Cardinality(A) \in Nat
        /\ Cardinality(left \cap A) \in Nat /\ Cardinality(left \cup A) \in Nat
        /\ Cardinality(left \cup A) = Cardinality(left) + Cardinality(A) - Cardinality(left \cap A)
    <3>1. IsFiniteSet(left \cap A)
      BY FS_Subset
    <3> QED
      BY <3>1, FS_Union, FS_CardinalityType
  <2>2. PICK both : both = left \cup A
    OBVIOUS
  <2>3. c.limit > 0 => Cardinality(both) <= c.limit
    BY <1>2, <2>1, <2>2
  <2> QED
    BY <1>3, <2>1, <2>2, <2>3
<1>6. LeasedAcks(e[s], time) \cap z.sent \subseteq left \cup A
  <2> SUFFICES ASSUME NEW p \in DOMAIN e[s].at, ~e[s].at[p].acked, e[s].at[p].lease > time,
                      e[s].at[p].ack \in c.sent
               PROVE  e[s].at[p].ack \in left \cup A
    BY <1>3 DEF LeasedAcks
  <2>1. CASE p \in K
    BY <2>1
  <2>2. CASE p \notin K
    <3>1. CalmAt(d[s], e[s], p, top, time)
      BY <2>2 DEF Handed
    <3>2. e[s].at[p].ack \in LeasedAcks(d[s], time)
      BY <3>1, StillLeased
    <3> QED
      BY <3>2
  <2> QED
    BY <2>1, <2>2
<1>7. LeasedAcks(e[z.subscription], time) \cap z.sent \subseteq z.outstanding
  BY <1>3, <1>6
<1>8. IsStream(w, z, e, time, giv2)
  BY <1>2, <1>3, <1>4, <1>5, <1>7 DEF IsStream
<1> QED
  BY <1>1, <1>8

\* The ack ids of some of the messages taken are no more than the room there was.
LEMMA SentFits ==
  ASSUME NEW max \in Nat, NEW T, IsFiniteSet(T), Cardinality(T) <= max, NEW K, K \subseteq T, NEW w
  PROVE  LET A == {w.at[p].ack : p \in K} IN IsFiniteSet(A) /\ Cardinality(A) \in Nat /\ Cardinality(A) <= max
<1>1. PICK f : f = [p \in K |-> w.at[p].ack]
  OBVIOUS
<1>2. IsFunction(f) /\ DOMAIN f = K /\ ImageOf(f) = {w.at[p].ack : p \in K}
  BY <1>1 DEF IsFunction, ImageOf
<1>3. IsFiniteSet(K) /\ Cardinality(K) \in Nat /\ Cardinality(T) \in Nat /\ Cardinality(K) <= Cardinality(T)
  BY FS_Subset, FS_CardinalityType
<1>4. IsFiniteSet(ImageOf(f)) /\ Cardinality(ImageOf(f)) <= Cardinality(DOMAIN f)
  BY <1>2, <1>3, Images
<1>5. Cardinality(ImageOf(f)) \in Nat
  BY <1>4, FS_CardinalityType
<1> QED
  BY <1>2, <1>3, <1>4, <1>5

\* A tick that sends messages.
LEMMA TakeSomeStep ==
  ASSUME PubSubInv, up, workload' = workload, now' = now, published' = published,
         NEW t \in Streams, NEW c, NEW s,
         NEW pruned, NEW left, NEW max, NEW x, NEW scan, NEW scanned,
         Scanning(t, c, s, pruned, left, max, x, scan, scanned), c # NoValue, max > 0,
         TakeSome(t, c, left, scan, scanned, x, PullUndo(pruned))
  PROVE  PubSubInv'
<1>1. /\ IsWhole(workload, x, messageFile.nextMessageId)
      /\ IsWhole(workload, pruned, messageFile.nextMessageId) /\ Tidied(server, pruned, now)
      /\ IsStream(workload, c, pruned.deliveries, now, given) /\ s \in SubscriptionNames
      /\ left \subseteq c.outstanding
      /\ LeasedAcks(pruned.deliveries[s], now) \cap c.sent \subseteq left
      /\ IsFiniteSet(left) /\ max \in Nat /\ (c.limit > 0 => Cardinality(left) + max = c.limit)
      /\ c.deadline \in Nat
  BY ScanStarts
<1>2. /\ c = streams[t] /\ s = c.subscription /\ x = LeasesExpired(RetentionCleaned(pruned))
      /\ scan = Scan(x, s, max) /\ scanned = Scanned(x, s, scan)
  BY DEF Scanning
<1>3. PICK deadline \in Nat : deadline = c.deadline
  BY <1>1
<1>4. PICK keep \in IF c.bytes THEN 1..Cardinality(scan.taken) ELSE {Cardinality(scan.taken)},
           w \in The(Working(x, c.subscription, scan, c.deadline)),
           outcome \in Outcomes :
        LET kept == {p \in scan.taken : Rank(p, scan.taken) <= keep}
            acks == {w.at[p].ack : p \in kept}
            v == [w EXCEPT !.at = [p \in DOMAIN @ |->
                    IF p \in scan.taken \ kept THEN Unsent(@[p]) ELSE @[p]]]
            sending == [c EXCEPT !.outstanding = left \cup acks, !.sent = @ \cup acks]
            ended == [c EXCEPT !.outstanding = left, !.closing = TRUE]
        IN /\ scan.taken # {}
           /\ Persist(outcome, Stored(scanned, c.subscription, v), PullUndo(pruned))
           /\ streams' = StreamsWith(outcome, t, IF Failed(outcome) THEN ended ELSE sending)
           /\ Deliver(outcome, x, c.subscription, scan, kept, c.deadline)
  BY DEF TakeSome
<1>5. w = Working(x, s, scan, deadline) /\ c.subscription = s /\ c.deadline = deadline
  BY <1>2, <1>3 DEF The
<1>6. PICK K : K = {p \in scan.taken : Rank(p, scan.taken) <= keep}
  OBVIOUS
<1>7. PICK A, v, z : /\ A = {w.at[p].ack : p \in K} /\ v = Refilled(w, Returned(w, scan.taken \ K))
                     /\ z = Stored(scanned, s, v)
  OBVIOUS
<1>8. PICK ended, sending : ended = Holding(c, left, TRUE) /\ sending = Sending(c, left, A)
  OBVIOUS
<1>9. /\ Persist(outcome, z, PullUndo(pruned))
      /\ streams' = StreamsWith(outcome, t, IF Failed(outcome) THEN ended ELSE sending)
      /\ Deliver(outcome, x, s, scan, K, deadline)
  <2>1. v = [w EXCEPT !.at = [p \in DOMAIN @ |-> IF p \in scan.taken \ K THEN Unsent(@[p]) ELSE @[p]]]
    BY <1>7 DEF Refilled, Returned
  <2>2. /\ ended = [c EXCEPT !.outstanding = left, !.closing = TRUE]
        /\ sending = [c EXCEPT !.outstanding = left \cup A, !.sent = @ \cup A]
    BY <1>8 DEF Holding, Sending
  <2> QED
    BY ONLY <1>4, <1>5, <1>6, <1>7, <2>1, <2>2
<1>10. now \in Nat /\ now # 0 /\ messageFile.nextMessageId \in Nat /\ K \subseteq scan.taken
  BY <1>6, Running
<1>11. HandsOut(v, x, s, scan, deadline, K, now)
  BY ONLY <1>1, <1>2, <1>3, <1>5, <1>7, <1>10, StreamHands
<1>12. z = Stored(Scanned(x, s, scan), s, v)
  BY ONLY <1>2, <1>7
<1>13. /\ z.nextAckId \in Nat
       /\ Handed(pruned.deliveries, z.deliveries, s, K, pruned.nextMessageId, pruned.nextAckId,
                 z.nextAckId, now + deadline, now)
       /\ \A p \in K : /\ z.deliveries[s].at[p].ack = Taken(x, s, scan, deadline, p).ack
                       /\ z.deliveries[s].at[p].message = x.deliveries[s].at[p].message
  <2>1. /\ IsWhole(workload, pruned, messageFile.nextMessageId) /\ s \in SubscriptionNames /\ max \in Nat
        /\ x = LeasesExpired(RetentionCleaned(pruned)) /\ scan = Scan(x, s, max) /\ deadline \in Nat
    BY <1>1, <1>2, <1>3
  <2>2. HandsOut(v, x, s, scan, deadline, K, now) /\ z = Stored(Scanned(x, s, scan), s, v)
    BY <1>11, <1>12
  <2>3. now \in Nat /\ now # 0 /\ messageFile.nextMessageId \in Nat
    BY <1>10
  <2> QED
    BY ONLY <2>1, <2>2, <2>3, HandedOut
<1>14. Carries(z.deliveries[s], x, s, scan, deadline, K)
  BY <1>13 DEF Carries
<1>15. /\ given \subseteq given'
       /\ outcome = "saved" => \A p \in K : z.deliveries[s].at[p].ack \in given'
  <2>1. PICK lease \in Nat : lease = now + deadline
    BY <1>3, <1>10
  <2>2. PICK e : e = z.deliveries[s]
    OBVIOUS
  <2>3. EndsAt(lease, deadline) /\ Carries(e, x, s, scan, deadline, K) /\ s \in SubscriptionNames
    BY <1>1, <1>14, <2>1, <2>2 DEF EndsAt
  <2>4. Learned(outcome, s, e, K, lease)
    BY ONLY PubSubInv, up, <1>3, <1>9, <2>3, DeliverTells
  <2> QED
    BY <2>2, <2>4 DEF Learned
<1>16. \A p \in K : w.at[p].ack = z.deliveries[s].at[p].ack
  <2>1. \A p \in scan.taken : w.at[p].ack = Taken(x, s, scan, deadline, p).ack
    <3>1. /\ IsWhole(workload, x, messageFile.nextMessageId) /\ s \in SubscriptionNames /\ max \in Nat
          /\ scan = Scan(x, s, max)
      BY <1>1, <1>2
    <3>2. \A p \in scan.taken : Working(x, s, scan, deadline).at[p].ack = Taken(x, s, scan, deadline, p).ack
      BY ONLY <1>3, <1>10, <3>1, WorkingQueue
    <3> QED
      BY <1>5, <3>2
  <2> QED
    BY <1>10, <1>13, <2>1
<1>17. /\ IsFiniteSet(A) /\ Cardinality(A) \in Nat /\ Cardinality(A) <= max
  <2>1. IsFiniteSet(scan.taken) /\ Cardinality(scan.taken) <= max
    BY ONLY <1>1, <1>2, <1>10, ScanFacts
  <2>2. PICK T : T = scan.taken
    OBVIOUS
  <2>3. max \in Nat /\ IsFiniteSet(T) /\ Cardinality(T) <= max /\ K \subseteq T
    BY <1>1, <1>10, <2>1, <2>2
  <2>4. LET B == {w.at[p].ack : p \in K} IN IsFiniteSet(B) /\ Cardinality(B) \in Nat /\ Cardinality(B) <= max
    BY ONLY <2>3, SentFits
  <2> QED
    BY <1>7, <2>4
<1>18. outcome = "saved" => IsStream(workload, sending, z.deliveries, now, given')
  <2> SUFFICES ASSUME outcome = "saved"
               PROVE  IsStream(workload, sending, z.deliveries, now, given')
    OBVIOUS
  <2>1. A \subseteq given' /\ \A p \in K : z.deliveries[s].at[p].ack \in A
    BY <1>7, <1>15, <1>16
  <2>2. c.limit > 0 => Cardinality(left) + Cardinality(A) <= c.limit
    <3>1. Cardinality(left) \in Nat /\ c.limit \in Int
      BY <1>1, FS_CardinalityType DEF IsStream
    <3> QED
      BY <1>1, <1>17, <3>1
  <2>3. PICK lease : lease = now + deadline
    OBVIOUS
  <2>4. Handed(pruned.deliveries, z.deliveries, s, K, pruned.nextMessageId, pruned.nextAckId,
               z.nextAckId, lease, now)
    BY <1>13, <2>3
  <2>5. PICK d, e, giv2 : d = pruned.deliveries /\ e = z.deliveries /\ giv2 = given'
    OBVIOUS
  <2>6. /\ IsStream(workload, c, d, now, given) /\ s = c.subscription /\ now \in Nat
        /\ Handed(d, e, s, K, pruned.nextMessageId, pruned.nextAckId, z.nextAckId, lease, now)
        /\ left \subseteq c.outstanding /\ LeasedAcks(d[s], now) \cap c.sent \subseteq left
        /\ IsFiniteSet(left) /\ IsFiniteSet(A) /\ given \subseteq giv2 /\ A \subseteq giv2
        /\ \A p \in K : e[s].at[p].ack \in A
    BY <1>1, <1>2, <1>10, <1>15, <1>17, <2>1, <2>4, <2>5
  <2>7. IsStream(workload, Sending(c, left, A), e, now, giv2)
    BY ONLY <2>2, <2>6, SendingStream
  <2> QED
    BY <1>8, <2>5, <2>7
<1>19. AreStreams(workload, streams, z.deliveries, now, given')
  BY ONLY PubSubInv, up, <1>1, <1>13, <1>15, OthersHanded
<1>20. outcome = "saved" => AreStreams(workload, [streams EXCEPT ![t] = sending], z.deliveries, now, given')
  BY <1>18, <1>19, OneStream
<1>21. AreStreams(workload, [streams EXCEPT ![t] = ended], pruned.deliveries, now, given)
  <2>1. IsStream(workload, ended, pruned.deliveries, now, given)
    BY <1>1, <1>2, <1>8, HoldingStream
  <2>2. AreStreams(workload, streams, pruned.deliveries, now, given)
    BY <1>1, TidiedSound
  <2> QED
    BY <2>1, <2>2, OneStream
<1>22. /\ Killed(outcome) => streams' = NoStreams
       /\ outcome = "saved" => AreStreams(workload, streams', z.deliveries, now, given')
       /\ Failed(outcome) => AreStreams(workload, streams', pruned.deliveries, now, given)
  BY <1>9, <1>20, <1>21 DEF StreamsWith, NoStreams, Killed, Failed
<1> QED
  BY ONLY PubSubInv, up, workload' = workload, now' = now, published' = published,
          <1>1, <1>2, <1>3, <1>4, <1>9, <1>11, <1>12, <1>22, HandOutStep

\* A tick that scans.
LEMMA ScanTickStep ==
  ASSUME PubSubInv, NoSilentCopies, workload' = workload, NEW t \in Streams, ScanTick(t)
  PROVE  PubSubInv'
<1>1. PICK c, s, pruned, left, max, x, scan, scanned :
        Scanning(t, c, s, pruned, left, max, x, scan, scanned)
  BY DEF Scanning
<1>2. up /\ streams[t] # NoValue /\ now' = now /\ published' = published
  BY DEF ScanTick, Open
<1>3. /\ c = streams[t] /\ s = c.subscription /\ pruned = PrunedServer(c)
      /\ left = StillOutstanding(pruned, c) /\ max = RemainingCapacity(c.limit, left)
      /\ x = LeasesExpired(RetentionCleaned(pruned)) /\ scan = Scan(x, s, max) /\ scanned = Scanned(x, s, scan)
  BY <1>1 DEF Scanning
<1>4. /\ max > 0 /\ Pullable(pruned, s)
      /\ \/ TakeNothing(t, c, left, scan, scanned)
         \/ TakeSome(t, c, left, scan, scanned, x, PullUndo(pruned))
  BY <1>3 DEF ScanTick, The
<1>5. CASE TakeNothing(t, c, left, scan, scanned)
  BY ONLY PubSubInv, NoSilentCopies, workload' = workload, <1>1, <1>2, <1>3, <1>4, <1>5, TakeNothingStep
<1>6. CASE TakeSome(t, c, left, scan, scanned, x, PullUndo(pruned))
  BY ONLY PubSubInv, workload' = workload, <1>1, <1>2, <1>3, <1>4, <1>6, TakeSomeStep
<1> QED
  BY <1>4, <1>5, <1>6

\* The records that grpc_release_outstanding writes are those of a release by the client.
LEMMA ReleaseAnswers ==
  ASSUME NEW x, NEW s, NEW ids
  PROVE  Stored(x, s, [x.deliveries[s] EXCEPT !.at = [p \in DOMAIN @ |->
                         IF p \in Matching(x, s, ids) THEN Released(@[p]) ELSE @[p]]])
           = AnsweredServer(x, s, ids, 0)
<1>1. \A r : Answered(r, 0) = Released(r)
  BY ConstantsAssumption DEF Answered
<1>2. [p \in DOMAIN x.deliveries[s].at |->
         IF p \in Matching(x, s, ids) THEN Released(x.deliveries[s].at[p]) ELSE x.deliveries[s].at[p]]
      = [p \in DOMAIN x.deliveries[s].at |->
         IF p \in Matching(x, s, ids) THEN Answered(x.deliveries[s].at[p], 0) ELSE x.deliveries[s].at[p]]
  BY <1>1
<1> QED
  BY <1>2 DEF AnsweredServer

\* A release gives nobody a lease.
LEMMA ReleasedQuiet ==
  ASSUME NEW d, NEW e, NEW s \in SubscriptionNames, NEW M, NEW time \in Nat,
         IsAnswered(e[s], d[s], M, 0, time), \A u \in SubscriptionNames : u # s => e[u] = d[u]
  PROVE  NoNewLeases(d, e, time)
<1> SUFFICES ASSUME NEW u \in SubscriptionNames, NEW p \in DOMAIN e[u].at,
                    ~e[u].at[p].acked, e[u].at[p].lease > time
             PROVE  e[u].at[p].ack \in LeasedAcks(d[u], time)
  BY DEF NoNewLeases, LeasedAcks
<1>1. CASE u # s
  BY <1>1 DEF LeasedAcks
<1>2. CASE u = s
  <2>1. p \notin M
    BY <1>2 DEF IsAnswered, Quits
  <2>2. p \in DOMAIN d[s].at /\ e[s].at[p] = d[s].at[p]
    BY <1>2, <2>1 DEF IsAnswered
  <2> QED
    BY <1>2, <2>2 DEF LeasedAcks
<1> QED
  BY <1>1, <1>2

\* A client whose stream released some leases relies on the others.
LEMMA ReleaseTells ==
  ASSUME NEW prom, ArePromises(prom), NEW v, NEW s, NEW M, NEW time,
         NEW prom2, prom2 = Without(prom, {<<s, v.at[p].message>> : p \in M})
  PROVE  Fewer(prom2, prom) /\ AfterAnswer(prom2, prom, v, s, M, 0, time)
<1>1. Fewer(prom2, prom)
  BY FewerPromises
<1>2. \A k \in DOMAIN prom2 : k \in DOMAIN prom /\ k \notin {<<s, v.at[p].message>> : p \in M}
  BY DEF Without, Restrict
<1>3. \A k \in DOMAIN prom2 : ~IsAbout(k, v, s, M)
  <2> SUFFICES ASSUME NEW k \in DOMAIN prom2, k[1] = s, NEW p \in M, v.at[p].message = k[2]
               PROVE  FALSE
    BY DEF IsAbout
  <2>1. k = <<k[1], k[2]>>
    BY <1>2 DEF ArePromises
  <2> QED
    BY <1>2, <2>1
<1> QED
  BY <1>1, <1>3 DEF AfterAnswer, Fewer

\* The end of a stream.
LEMMA CloseStreamStep ==
  ASSUME PubSubInv, workload' = workload, NEW t \in Streams, CloseStream(t)
  PROVE  PubSubInv'
<1>1. PICK c, s, M : c = streams[t] /\ s = c.subscription /\ M = Matching(server, s, c.outstanding)
  OBVIOUS
<1>2. /\ up /\ c # NoValue /\ now' = now /\ given' = given /\ published' = published
      /\ promised' = Without(promised, {<<s, server.deliveries[s].at[p].message>> : p \in M})
  BY <1>1 DEF CloseStream, RecordAt
<1>3. /\ IsWhole(workload, server, messageFile.nextMessageId) /\ now \in Nat /\ now # 0
      /\ AreDeliveries(server.deliveries, server.nextMessageId, server.nextAckId)
      /\ Told(server.deliveries, server.nextMessageId, server.nextAckId, now, given, published, promised)
      /\ AreStreams(workload, streams, server.deliveries, now, given) /\ ArePromises(promised)
      /\ server.nextMessageId \in Nat /\ server.nextAckId \in Nat
      /\ Captures(workload) => server.nextMessageId <= messageFile.nextMessageId
  BY <1>2, Running
<1>4. /\ IsStream(workload, c, server.deliveries, now, given) /\ s \in SubscriptionNames
  BY <1>1, <1>2, <1>3 DEF AreStreams, IsStream
<1>5. /\ Fewer(promised', promised) /\ ArePromises(promised')
      /\ AfterAnswer(promised', promised, server.deliveries[s], s, M, 0, now)
  <2>1. PICK v, prom2 : v = server.deliveries[s] /\ prom2 = promised'
    OBVIOUS
  <2>2. ArePromises(promised) /\ prom2 = Without(promised, {<<s, v.at[p].message>> : p \in M})
    BY <1>2, <1>3, <2>1
  <2>3. Fewer(prom2, promised) /\ AfterAnswer(prom2, promised, v, s, M, 0, now)
    BY ONLY <2>2, ReleaseTells
  <2> QED
    BY <2>1, <2>3 DEF Fewer
<1>6. /\ Told(server.deliveries, server.nextMessageId, server.nextAckId, now, given, published, promised')
      /\ Told(messageFile.deliveries, messageFile.nextMessageId, messageFile.nextAckId, now,
              given, published, promised')
  <2>1. AllCalm(server.deliveries, server.deliveries, server.nextMessageId, now)
    BY CalmSame
  <2>2. PICK prom2 : prom2 = promised'
    OBVIOUS
  <2>3. Fewer(prom2, promised) /\ server.nextMessageId <= server.nextMessageId
        /\ server.nextAckId <= server.nextAckId
    BY <1>3, <1>5, <2>2
  <2>4. Told(server.deliveries, server.nextMessageId, server.nextAckId, now, given, published, prom2)
    BY <1>2, <1>3, <2>1, <2>3, CalmTold
  <2> QED
    BY <1>2, <2>2, <2>3, <2>4, FileTold
<1>7. \A d : AreStreams(workload, streams, d, now, given) => AreStreams(workload, [streams EXCEPT ![t] = NoValue], d, now, given)
  <2>1. PICK none : none = NoValue
    OBVIOUS
  <2>2. \A d : AreStreams(workload, streams, d, now, given) => AreStreams(workload, [streams EXCEPT ![t] = none], d, now, given)
    BY <2>1, OneStream
  <2> QED
    BY <2>1, <2>2
<1>8. CASE ~(s \in DOMAIN server.subscriptions /\ M # {})
  <2>1. /\ streams' = [streams EXCEPT ![t] = NoValue] /\ up' = up /\ server' = server
        /\ resourceFile' = resourceFile /\ messageFile' = messageFile
    BY <1>1, <1>8 DEF CloseStream, fileVars
  <2>2. AreStreams(workload, streams', server.deliveries, now, given)
    BY <1>3, <1>7, <2>1
  <2>3. ServerSound(workload, server, messageFile.nextMessageId, streams', now, given, published, promised')
    BY <1>3, <1>6, <2>2 DEF ServerSound
  <2>4. FilesSound(workload, resourceFile, messageFile, now, given, published, promised')
    BY <1>6 DEF PubSubInv, FilesSound
  <2> QED
    BY <1>2, <1>5, <2>1, <2>3, <2>4 DEF PubSubInv
<1>9. CASE s \in DOMAIN server.subscriptions /\ M # {}
  <2>1. PICK y : y = AnsweredServer(server, s, c.outstanding, 0)
    OBVIOUS
  <2>2. PICK back : back = [deliveries |-> server.deliveries]
    OBVIOUS
  <2>3. PICK outcome \in Outcomes : Persist(outcome, y, back) /\ streams' = StreamsWith(outcome, t, NoValue)
    <3>1. y = Stored(server, s, [server.deliveries[s] EXCEPT !.at = [p \in DOMAIN @ |->
                                   IF p \in M THEN Released(@[p]) ELSE @[p]]])
      BY <1>1, <2>1, ReleaseAnswers
    <3> QED
      BY <1>1, <1>9, <2>2, <3>1 DEF CloseStream
  <2>4. /\ IsWhole(workload, y, messageFile.nextMessageId)
        /\ y.nextMessageId = server.nextMessageId /\ y.nextAckId = server.nextAckId /\ y.messagesDirty
        /\ IsAnswered(y.deliveries[s], server.deliveries[s], M, 0, now)
        /\ \A u \in SubscriptionNames : u # s => y.deliveries[u] = server.deliveries[u]
    <3>1. PICK ids, deadline : ids = c.outstanding /\ deadline = 0
      OBVIOUS
    <3>2. /\ deadline = NoValue \/ deadline \in Nat
          /\ y = AnsweredServer(server, s, ids, deadline) /\ M = Matching(server, s, ids)
      BY <1>1, <2>1, <3>1
    <3>3. /\ IsWhole(workload, y, messageFile.nextMessageId)
          /\ y.nextMessageId = server.nextMessageId /\ y.nextAckId = server.nextAckId /\ y.messagesDirty
          /\ IsAnswered(y.deliveries[s], server.deliveries[s], M, deadline, now)
          /\ \A u \in SubscriptionNames : u # s => y.deliveries[u] = server.deliveries[u]
      BY ONLY <1>3, <1>4, <3>2, AnsweredWhole
    <3> QED
      BY <3>1, <3>3
  <2> HIDE <2>1
  <2>5. Told(y.deliveries, y.nextMessageId, y.nextAckId, now, given, published, promised')
    <3>1. PICK d, e, prom2, deadline : /\ d = server.deliveries /\ e = y.deliveries
                                       /\ prom2 = promised' /\ deadline = 0
      OBVIOUS
    <3>2. /\ deadline = NoValue \/ deadline \in Nat
          /\ IsAnswered(e[s], d[s], M, deadline, now) /\ Elsewhere(e, d, s)
          /\ AreDeliveries(d, server.nextMessageId, server.nextAckId) /\ M \subseteq DOMAIN d[s].at
          /\ ArePromises(promised)
          /\ Told(d, server.nextMessageId, server.nextAckId, now, given, published, promised)
          /\ AfterAnswer(prom2, promised, d[s], s, M, deadline, now)
      BY <1>1, <1>3, <1>5, <2>4, <3>1 DEF Matching, Unacked, Elsewhere
    <3>3. s \in SubscriptionNames /\ now \in Nat
      BY <1>3, <1>4
    <3>4. Told(e, server.nextMessageId, server.nextAckId, now, given, published, prom2)
      BY ONLY <3>2, <3>3, AnsweredTold
    <3> QED
      BY <2>4, <3>1, <3>4
  <2>6. AreStreams(workload, streams, y.deliveries, now, given)
    <3>1. PICK d, e : d = server.deliveries /\ e = y.deliveries
      OBVIOUS
    <3>2. NoNewLeases(d, e, now)
      BY <1>3, <1>4, <2>4, <3>1, ReleasedQuiet
    <3> QED
      BY <1>3, <3>1, <3>2, StreamsQuiet
  <2>7. /\ AreStreams(workload, [streams EXCEPT ![t] = NoValue], y.deliveries, now, given)
        /\ AreStreams(workload, [streams EXCEPT ![t] = NoValue], server.deliveries, now, given)
    BY <1>3, <1>7, <2>6
  <2>8. /\ Killed(outcome) => streams' = NoStreams
        /\ outcome = "saved" => AreStreams(workload, streams', y.deliveries, now, given)
        /\ Failed(outcome) => AreStreams(workload, streams', server.deliveries, now, given)
    BY <2>3, <2>7 DEF StreamsWith, NoStreams, Killed, Failed
  <2>9. /\ Coherent(back) /\ \A f \in DOMAIN back : back[f] = server[f] /\ "deliveries" \in DOMAIN back
    BY <2>2 DEF Coherent
  <2>10. /\ server.nextMessageId <= y.nextMessageId /\ server.nextAckId <= y.nextAckId
         /\ "deliveries" \in DOMAIN back /\ y.messagesDirty
    BY <1>3, <2>2, <2>4
  <2> QED
    BY <1>2, <1>3, <1>5, <1>6, <2>3, <2>4, <2>5, <2>8, <2>9, <2>10, PersistStep
<1> QED
  BY <1>8, <1>9

-----------------------------------------------------------------------------
(***************************************************************************)
(* The clock, crashes and restarts.                                        *)
(***************************************************************************)

\* As time passes, fewer promises are in force.
LEMMA ToldLater ==
  ASSUME NEW d, NEW top, NEW acks, NEW time \in Nat, NEW later \in Nat, time <= later,
         NEW giv, NEW pub, NEW prom, ArePromises(prom), AreDeliveries(d, top, acks),
         Told(d, top, acks, time, giv, pub, prom)
  PROVE  Told(d, top, acks, later, giv, pub, prom)
<1>1. LeasesStand(d, later, prom)
  <2> SUFFICES ASSUME NEW k \in DOMAIN prom, prom[k] > later, NEW p \in DOMAIN d[k[1]].at,
                      ~d[k[1]].at[p].acked, d[k[1]].at[p].message = k[2]
               PROVE  d[k[1]].at[p].lease >= prom[k]
    BY DEF LeasesStand
  <2>1. prom[k] > time
    BY DEF ArePromises
  <2> QED
    BY <2>1 DEF Told, LeasesStand
<1> QED
  BY <1>1 DEF Told

\* As time passes, fewer leases are in force.
LEMMA StreamsLater ==
  ASSUME NEW w, NEW z, NEW d, NEW top, NEW acks, NEW time \in Nat, NEW later \in Nat, time <= later,
         NEW giv, AreDeliveries(d, top, acks), AreStreams(w, z, d, time, giv)
  PROVE  AreStreams(w, z, d, later, giv)
<1>1. \A s \in SubscriptionNames : LeasedAcks(d[s], later) \subseteq LeasedAcks(d[s], time)
  <2> SUFFICES ASSUME NEW s \in SubscriptionNames, NEW p \in DOMAIN d[s].at,
                      ~d[s].at[p].acked, d[s].at[p].lease > later
               PROVE  d[s].at[p].ack \in LeasedAcks(d[s], time)
    BY DEF LeasedAcks
  <2>1. d[s].at[p].lease \in Nat
    BY DEF AreDeliveries, IsQueue, IsRecord
  <2>2. d[s].at[p].lease > time
    BY <2>1
  <2> QED
    BY <2>2 DEF LeasedAcks
<1>2. \A t \in Streams : z[t] # NoValue => IsStream(w, z[t], d, later, giv)
  <2> SUFFICES ASSUME NEW t \in Streams, z[t] # NoValue
               PROVE  IsStream(w, z[t], d, later, giv)
    OBVIOUS
  <2>1. IsStream(w, z[t], d, time, giv)
    BY DEF AreStreams
  <2> QED
    BY <1>1, <2>1 DEF IsStream
<1> QED
  BY <1>2 DEF AreStreams

\* Time passes.
LEMMA TickStep ==
  ASSUME PubSubInv, workload' = workload, Tick
  PROVE  PubSubInv'
<1>1. /\ now \in Nat /\ now # 0 /\ now' \in Nat /\ now' # 0 /\ now <= now' /\ ArePromises(promised)
      /\ up' = up /\ server' = server /\ resourceFile' = resourceFile /\ messageFile' = messageFile
      /\ streams' = streams /\ given' = given /\ published' = published /\ promised' = promised
  BY DEF Tick, PubSubInv, fileVars, historyVars
<1>2. PICK later \in Nat : later = now'
  BY <1>1
<1>3. now <= later
  BY <1>1, <1>2
<1>4. FilesSound(workload, resourceFile, messageFile, later, given, published, promised)
  <2>1. FilesSound(workload, resourceFile, messageFile, now, given, published, promised)
    BY DEF PubSubInv
  <2>2. /\ AreDeliveries(messageFile.deliveries, messageFile.nextMessageId, messageFile.nextAckId)
        /\ Told(messageFile.deliveries, messageFile.nextMessageId, messageFile.nextAckId, now,
                given, published, promised)
    BY <2>1 DEF FilesSound, AreContents
  <2>3. Told(messageFile.deliveries, messageFile.nextMessageId, messageFile.nextAckId, later,
             given, published, promised)
    BY <1>1, <1>3, <2>2, ToldLater
  <2> QED
    BY <2>1, <2>3 DEF FilesSound
<1>5. up => ServerSound(workload, server, messageFile.nextMessageId, streams, later, given, published, promised)
  <2> SUFFICES ASSUME up
               PROVE  ServerSound(workload, server, messageFile.nextMessageId, streams, later,
                                  given, published, promised)
    OBVIOUS
  <2>1. /\ AreDeliveries(server.deliveries, server.nextMessageId, server.nextAckId)
        /\ Told(server.deliveries, server.nextMessageId, server.nextAckId, now, given, published, promised)
        /\ AreStreams(workload, streams, server.deliveries, now, given)
    BY Running
  <2>2. /\ Told(server.deliveries, server.nextMessageId, server.nextAckId, later, given, published, promised)
        /\ AreStreams(workload, streams, server.deliveries, later, given)
    BY <1>1, <1>3, <2>1, ToldLater, StreamsLater
  <2> QED
    BY <2>2 DEF PubSubInv, ServerSound
<1> QED
  BY <1>1, <1>2, <1>4, <1>5 DEF PubSubInv

\* A crash leaves the files.
LEMMA CrashStep ==
  ASSUME PubSubInv, workload' = workload, Crash
  PROVE  PubSubInv'
<1>1. /\ now' = now /\ up' = FALSE /\ server' = Blank /\ streams' = NoStreams
      /\ resourceFile' = resourceFile /\ messageFile' = messageFile
      /\ given' = given /\ published' = published /\ promised' = promised
  BY DEF Crash, fileVars, historyVars, NoStreams
<1> QED
  BY <1>1 DEF PubSubInv

\* load_message_state takes the counter of pubsub.json: no message in it is newer.
LEMMA LoadedFields ==
  ASSUME PubSubInv
  PROVE  LET x == Loaded(resourceFile, messageFile) IN
         /\ IsServer(x) /\ x.topics = resourceFile.topics /\ x.subscriptions = resourceFile.subscriptions
         /\ x.snapshots = resourceFile.snapshots
         /\ x.messages = messageFile.messages /\ x.deliveries = messageFile.deliveries
         /\ x.nextMessageId = messageFile.nextMessageId /\ x.nextAckId = messageFile.nextAckId
<1>1. messageFile.nextMessageId \in Nat /\ DOMAIN messageFile.messages \subseteq 1..messageFile.nextMessageId
  BY DEF PubSubInv, FilesSound, AreContents, AreMessages
<1>2. PICK top, ids : top = messageFile.nextMessageId /\ ids = DOMAIN messageFile.messages
  OBVIOUS
<1>3. top \in Nat /\ \A id \in ids : id \in Nat /\ id <= top
  BY <1>1, <1>2
<1>4. Max({top} \cup ids) = top
  BY <1>3 DEF Max
<1> QED
  BY <1>2, <1>4 DEF Loaded, IsServer, ServerFields

\* A restart finds in the files what clients were told.
LEMMA RestartStep ==
  ASSUME PubSubInv, workload' = workload, Restart
  PROVE  PubSubInv'
<1>1. /\ ~up /\ now' = now /\ up' = TRUE /\ server' = Loaded(resourceFile, messageFile) /\ streams' = streams
      /\ resourceFile' = resourceFile /\ messageFile' = messageFile
      /\ given' = given /\ published' = published /\ promised' = promised
  BY DEF Restart, fileVars, historyVars
<1>2. PICK x : x = Loaded(resourceFile, messageFile)
  OBVIOUS
<1>3. /\ IsServer(x) /\ x.topics = resourceFile.topics /\ x.subscriptions = resourceFile.subscriptions
      /\ x.snapshots = resourceFile.snapshots
      /\ x.messages = messageFile.messages /\ x.deliveries = messageFile.deliveries
      /\ x.nextMessageId = messageFile.nextMessageId /\ x.nextAckId = messageFile.nextAckId
  BY <1>2, LoadedFields
<1>4. /\ AreResources(workload, x.topics, x.subscriptions, x.snapshots, messageFile.nextMessageId)
      /\ AreContents(x.messages, x.deliveries, x.nextMessageId, x.nextAckId)
      /\ Told(x.deliveries, x.nextMessageId, x.nextAckId, now, given, published, promised)
      /\ messageFile.nextMessageId \in Nat
  BY <1>3 DEF PubSubInv, FilesSound, AreContents
<1>5. messageFile.nextMessageId <= x.nextMessageId /\ x.nextMessageId <= messageFile.nextMessageId
  BY <1>3, <1>4
<1>6. AreStreams(workload, streams, x.deliveries, now, given)
  BY <1>1, NoneSound DEF PubSubInv
<1>7. ServerSound(workload, x, messageFile.nextMessageId, streams, now, given, published, promised)
  BY <1>3, <1>4, <1>5, <1>6 DEF ServerSound, IsWhole
<1> QED
  BY <1>1, <1>2, <1>7 DEF PubSubInv

\* The invariant holds at first.
LEMMA PubSubInit ==
  ASSUME Init
  PROVE  PubSubInv
<1>1. /\ Blank.topics = NoFields /\ Blank.subscriptions = NoFields /\ Blank.snapshots = NoFields
      /\ Blank.messages = NoFields /\ Blank.deliveries = [s \in SubscriptionNames |-> EmptyVec]
      /\ Blank.nextMessageId = 0 /\ Blank.nextAckId = 0 /\ IsServer(Blank)
  BY DEF Blank, IsServer, ServerFields
<1>2. IsFunction(NoFields) /\ DOMAIN NoFields = {}
  BY DEF IsFunction, NoFields
<1>3. /\ AreResources(workload, Blank.topics, Blank.subscriptions, Blank.snapshots, 0)
      /\ AreMessages(Blank.messages, 0) /\ AreDeliveries(Blank.deliveries, 0, 0)
  BY <1>1, <1>2, EmptyQueue DEF AreResources, AreTopics, AreSubscriptions, AreSnapshots, AreMessages, AreDeliveries
<1>4. given = {} /\ published = {} /\ promised = NoFields /\ streams = NoStreams /\ up = TRUE /\ now = 1
      /\ workload \in Workloads /\ server = Blank
      /\ resourceFile = ResourcesOf(Blank) /\ messageFile = MessagesOf(Blank)
  BY DEF Init, NoStreams
<1>5. ArePromises(promised)
  BY <1>2, <1>4 DEF ArePromises
<1>6. Told(Blank.deliveries, 0, 0, now, given, published, promised)
  BY <1>2, <1>4 DEF Told, IdsBehind, LeasesStand
<1>7. AreContents(Blank.messages, Blank.deliveries, 0, 0)
  BY <1>3 DEF AreContents
<1>8. FilesSound(workload, resourceFile, messageFile, now, given, published, promised)
  <2>1. /\ resourceFile = [f \in {"topics", "subscriptions", "snapshots"} |-> resourceFile[f]]
        /\ resourceFile.topics = Blank.topics /\ resourceFile.subscriptions = Blank.subscriptions
        /\ resourceFile.snapshots = Blank.snapshots
    BY <1>4 DEF ResourcesOf
  <2>2. /\ messageFile = [f \in {"messages", "deliveries", "nextMessageId", "nextAckId"} |-> messageFile[f]]
        /\ messageFile.messages = Blank.messages /\ messageFile.deliveries = Blank.deliveries
        /\ messageFile.nextMessageId = 0 /\ messageFile.nextAckId = 0
    BY <1>1, <1>4 DEF MessagesOf
  <2> QED
    BY <1>3, <1>6, <1>7, <2>1, <2>2 DEF FilesSound
<1>9. messageFile.nextMessageId = 0
  BY <1>1, <1>4 DEF MessagesOf
<1>10. ServerSound(workload, server, messageFile.nextMessageId, streams, now, given, published, promised)
  <2>1. AreStreams(workload, streams, Blank.deliveries, now, given)
    BY <1>4, NoneSound
  <2>2. IsWhole(workload, Blank, 0)
    BY <1>1, <1>3, <1>7 DEF IsWhole
  <2> QED
    BY <1>1, <1>4, <1>6, <1>9, <2>1, <2>2 DEF ServerSound
<1> QED
  BY <1>4, <1>5, <1>8, <1>10 DEF PubSubInv

-----------------------------------------------------------------------------
(***************************************************************************)
(* The invariant.                                                          *)
(***************************************************************************)

\* What clients answer with: ids they were given, and legal deadlines.
LEMMA AnswerTypes ==
  ASSUME PubSubInv, NEW answer \in Answers
  PROVE  answer[1] \subseteq given /\ (answer[2] = NoValue \/ answer[2] \in Nat)
<1>1. workload.deadlines \subseteq Nat
  BY ConstantsAssumption DEF PubSubInv
<1> QED
  BY <1>1 DEF Answers

\* The names and protocols of a workload.
LEMMA WorkloadTypes ==
  ASSUME PubSubInv
  PROVE  /\ workload.topics \subseteq TopicNames /\ workload.subscriptions \subseteq SubscriptionNames
         /\ workload.apis \subseteq {"rest", "grpc"}
BY ConstantsAssumption DEF PubSubInv

\* Calls for one subscription.
LEMMA UseSubscriptionStep ==
  ASSUME PubSubInv, workload' = workload, NEW s \in workload.subscriptions, UseSubscription(s)
  PROVE  PubSubInv'
<1>1. s \in SubscriptionNames
  BY WorkloadTypes
<1>2. ASSUME NEW max \in workload.pulls, Pull(s, max)
      PROVE  PubSubInv'
  BY <1>2, PullStep
<1>3. ASSUME NEW api \in workload.apis, NEW answer \in Answers, Answer(api, s, answer[1], answer[2])
      PROVE  PubSubInv'
  <2>1. PICK ids, deadline : ids = answer[1] /\ deadline = answer[2]
    OBVIOUS
  <2>2. ids \subseteq given /\ (deadline = NoValue \/ deadline \in Nat) /\ api \in {"rest", "grpc"}
    BY <2>1, AnswerTypes, WorkloadTypes
  <2>3. Answer(api, s, ids, deadline)
    BY <1>3, <2>1
  <2> QED
    BY <1>1, <2>2, <2>3, AnswerStep
<1>4. ASSUME NEW api \in workload.apis, NEW time, NEW n, SeekToTime(api, s, time) \/ SeekToSnapshot(api, s, n)
      PROVE  PubSubInv'
  <2>1. api \in {"rest", "grpc"}
    BY WorkloadTypes
  <2> QED
    BY <1>4, <2>1, SeekSteps
<1>5. CASE PullMayReturn(s)
  BY <1>5, PullMayReturnStep
<1> QED
  BY <1>2, <1>3, <1>4, <1>5 DEF UseSubscription

\* Steps of one streaming pull.
LEMMA UseStreamStep ==
  ASSUME PubSubInv, NoSilentCopies, workload' = workload, NEW t \in Streams, UseStream(t)
  PROVE  PubSubInv'
<1>1. ASSUME NEW s, NEW request \in workload.streams, OpenStream(t, s, request)
      PROVE  PubSubInv'
  BY <1>1, OpenStreamStep
<1>2. ASSUME NEW answer \in Answers, StreamRequest(t, answer[1], answer[2])
      PROVE  PubSubInv'
  <2>1. PICK ids, deadline : ids = answer[1] /\ deadline = answer[2]
    OBVIOUS
  <2>2. ids \subseteq given /\ (deadline = NoValue \/ deadline \in Nat)
    BY <2>1, AnswerTypes
  <2>3. StreamRequest(t, ids, deadline)
    BY <1>2, <2>1
  <2> QED
    BY <2>2, <2>3, StreamRequestStep
<1> QED
  BY <1>1, <1>2, IdleTickStep, ScanTickStep, CloseStreamStep DEF UseStream

\* Calls of clients.
LEMMA UseStep ==
  ASSUME PubSubInv, NoSilentCopies, workload' = workload, Use
  PROVE  PubSubInv'
<1>1. ASSUME NEW t \in workload.topics, NEW retention, CreateTopic(t, retention)
      PROVE  PubSubInv'
  <2>1. CreateTopic(t, retention) \/ UpdateTopic("rest", t, retention)
    BY <1>1
  <2> QED
    BY <2>1, TopicSteps
<1>2. ASSUME NEW api, NEW s \in workload.subscriptions, NEW request \in workload.creates,
             CreateSubscription(api, s, request)
      PROVE  PubSubInv'
  <2>1. s \in SubscriptionNames
    BY WorkloadTypes
  <2> QED
    BY <1>2, <2>1, CreateSubscriptionStep
<1>3. ASSUME NEW t, NEW batch \in workload.batches, Publish(t, batch)
      PROVE  PubSubInv'
  BY <1>3, PublishStep
<1>4. ASSUME NEW n, UseSnapshot(n)
      PROVE  PubSubInv'
  <2>1. ASSUME NEW api \in workload.snapshotApis, NEW s, CreateSnapshot(api, n, s)
        PROVE  PubSubInv'
    BY <2>1, CreateSnapshotStep
  <2>2. CASE DeleteSnapshot(n) \/ UpdateSnapshot(n)
    BY <2>2, OtherSnapshotSteps
  <2> QED
    BY <1>4, <2>1, <2>2 DEF UseSnapshot
<1> QED
  BY <1>1, <1>2, <1>3, <1>4, UseSubscriptionStep, UseStreamStep DEF Use

\* Updates and deletions.
LEMMA ManageStep ==
  ASSUME PubSubInv, workload' = workload, Manage
  PROVE  PubSubInv'
<1>1. ASSUME NEW api, NEW t \in workload.topics, ManageTopic(api, t)
      PROVE  PubSubInv'
  <2>1. ASSUME NEW retention, UpdateTopic(api, t, retention)
        PROVE  PubSubInv'
    <3>1. CreateTopic(t, retention) \/ UpdateTopic(api, t, retention)
      BY <2>1
    <3> QED
      BY <3>1, TopicSteps
  <2> QED
    BY <1>1, <2>1, DeleteTopicStep DEF ManageTopic
<1>2. ASSUME NEW api, NEW s \in workload.subscriptions, ManageSubscription(api, s)
      PROVE  PubSubInv'
  <2>1. s \in SubscriptionNames
    BY WorkloadTypes
  <2>2. ASSUME NEW request \in workload.updates, UpdateSubscription(api, s, request)
        PROVE  PubSubInv'
    BY <2>2, UpdateSubscriptionStep
  <2>3. ASSUME NEW push, ModifyPushConfig(api, s, push)
        PROVE  PubSubInv'
    BY <2>3, ModifyPushConfigStep
  <2>4. CASE DeleteSubscription(api, s) \/ DetachSubscription(api, s)
    BY <2>1, <2>4, EndSubscriptionSteps
  <2> QED
    BY <1>2, <2>2, <2>3, <2>4 DEF ManageSubscription
<1> QED
  BY <1>1, <1>2 DEF Manage

\* Every step keeps the invariant.
LEMMA PubSubNext ==
  ASSUME PubSubInv, NoSilentCopies, [Next]_vars
  PROVE  PubSubInv'
<1>1. CASE Next
  <2>1. workload' = workload
    BY <1>1 DEF Next
  <2> QED
    BY <1>1, <2>1, UseStep, ManageStep, TickStep, CrashStep, RestartStep DEF Next
<1>2. CASE UNCHANGED vars
  BY <1>2 DEF vars, fileVars, historyVars, PubSubInv
<1> QED
  BY <1>1, <1>2

\* THEOREM: the server and its two files are whole at every moment, through failed and half
\* saves, kills and restarts: counters cover all ids given out, no message has two records in
\* one subscription, every lease a client was promised is on its record, and every stream's
\* map has the leases the stream gave out.
THEOREM PubSubIsSound ==
  ASSUME NoSilentCopies
  PROVE  Spec => []PubSubInv
<1>1. Init => PubSubInv
  BY PubSubInit
<1>2. PubSubInv /\ [Next]_vars => PubSubInv'
  BY PubSubNext
<1> QED
  BY <1>1, <1>2, PTL DEF Spec

-----------------------------------------------------------------------------
(***************************************************************************)
(* What clients were told.                                                 *)
(***************************************************************************)

\* The ack ids of two records of one subscription differ.
LEMMA AcksDiffer ==
  ASSUME NEW top, NEW acks, NEW v, IsQueue(v, top, acks), NEW p \in DOMAIN v.at, NEW q \in DOMAIN v.at,
         v.at[p].ack = v.at[q].ack, v.at[p].ack # NoAck
  PROVE  p = q
<1>1. IsRecord(v.at[p], top, acks) /\ IsRecord(v.at[q], top, acks)
  BY DEF IsQueue
<1>2. PICK c : v.at[p].ack = <<v.at[p].message, c>>
  BY <1>1 DEF IsRecord
<1>3. PICK e : v.at[q].ack = <<v.at[q].message, e>>
  BY <1>1 DEF IsRecord
<1>4. v.at[p].message = v.at[q].message
  <2>1. PICK m, n, a : m = v.at[p].message /\ n = v.at[q].message /\ a = v.at[p].ack
    OBVIOUS
  <2>2. a = <<m, c>> /\ a = <<n, e>>
    BY <1>2, <1>3, <2>1
  <2>3. m = n
    BY ONLY <2>2
  <2> QED
    BY <2>1, <2>3
<1> QED
  BY <1>4 DEF IsQueue

\* A stream's client holds no more leases from it than its map has entries.
LEMMA StreamWithinLimit ==
  ASSUME PubSubInv, up, NEW t \in Streams, streams[t] # NoValue, streams[t].limit > 0
  PROVE  Cardinality({p \in LeasedAt(server, streams[t].subscription) :
                        RecordAt(server, streams[t].subscription, p).ack \in streams[t].sent})
           <= streams[t].limit
<1>1. PICK c, s, v : c = streams[t] /\ s = c.subscription /\ v = server.deliveries[s]
  OBVIOUS
<1>2. /\ IsStream(workload, c, server.deliveries, now, given)
      /\ Told(server.deliveries, server.nextMessageId, server.nextAckId, now, given, published, promised)
      /\ AreDeliveries(server.deliveries, server.nextMessageId, server.nextAckId)
  BY <1>1, Running DEF AreStreams
<1>3. /\ s \in SubscriptionNames /\ c.sent \subseteq given /\ IsFiniteSet(c.outstanding)
      /\ Cardinality(c.outstanding) <= c.limit /\ c.limit \in Int
      /\ LeasedAcks(v, now) \cap c.sent \subseteq c.outstanding
  BY <1>1, <1>2 DEF IsStream
<1>4. IsQueue(v, server.nextMessageId, server.nextAckId)
  BY <1>1, <1>2, <1>3 DEF AreDeliveries
<1>5. PICK S : S = {p \in LeasedAt(server, s) : v.at[p].ack \in c.sent}
  OBVIOUS
<1>6. \A p \in S : p \in DOMAIN v.at /\ v.at[p].ack \in LeasedAcks(v, now) \cap c.sent
  BY <1>1, <1>5 DEF LeasedAt, Unacked, RecordAt, InForce, LeasedAcks
<1>7. PICK f : f = [p \in S |-> v.at[p].ack]
  OBVIOUS
<1>8. IsFunction(f) /\ DOMAIN f = S /\ \A p \in S : f[p] = v.at[p].ack
  BY <1>7 DEF IsFunction
<1>9. IsFiniteSet(S)
  <2>1. v.pushed \in Nat /\ S \in SUBSET (1..v.pushed)
    BY <1>4, <1>6 DEF IsQueue
  <2> QED
    BY <2>1, PositionsFinite
<1>10. \A p, q \in S : f[p] = f[q] => p = q
  <2> SUFFICES ASSUME NEW p \in S, NEW q \in S, v.at[p].ack = v.at[q].ack
               PROVE  p = q
    BY <1>8
  <2>1. v.at[p].ack \in given
    BY <1>3, <1>6
  <2>2. PICK i \in 1..server.nextMessageId, n \in 1..server.nextAckId : v.at[p].ack = <<i, n>>
    BY <1>2, <2>1 DEF Told, IdsBehind
  <2>3. i # 0
    OBVIOUS
  <2>4. v.at[p].ack # NoAck
    BY <2>2, <2>3 DEF NoAck
  <2> QED
    BY <1>4, <1>6, <2>4, AcksDiffer
<1>11. ImageOf(f) \subseteq c.outstanding
  BY <1>3, <1>6, <1>8 DEF ImageOf
<1>12. Cardinality(ImageOf(f)) = Cardinality(S)
  BY <1>8, <1>9, <1>10, Images
<1>13. Cardinality(ImageOf(f)) <= Cardinality(c.outstanding)
  BY <1>3, <1>11, FS_Subset
<1>14. Cardinality(S) \in Nat /\ Cardinality(c.outstanding) \in Nat
  BY <1>3, <1>9, FS_CardinalityType
<1>15. Cardinality(S) <= c.limit
  BY <1>3, <1>12, <1>13, <1>14
<1> QED
  BY <1>1, <1>5, <1>15 DEF RecordAt

\* The ids clients know are behind the counters of a server.
LEMMA IdsCovered ==
  ASSUME NEW x, x.nextMessageId \in Nat, x.nextAckId \in Nat, NEW giv, NEW pub, NEW prom,
         IdsBehind(x.nextMessageId, x.nextAckId, giv, pub, prom)
  PROVE  (\A ack \in giv : ack[2] <= x.nextAckId) /\ (\A id \in pub : id <= x.nextMessageId)
<1>1. \A ack \in giv : ack[2] <= x.nextAckId
  <2> SUFFICES ASSUME NEW ack \in giv
               PROVE  ack[2] <= x.nextAckId
    OBVIOUS
  <2>1. PICK i \in 1..x.nextMessageId, c \in 1..x.nextAckId : ack = <<i, c>>
    BY DEF IdsBehind
  <2> QED
    BY <2>1
<1>2. \A id \in pub : id <= x.nextMessageId
  <2>1. \A id \in pub : id \in 1..x.nextMessageId
    BY DEF IdsBehind
  <2> QED
    BY <2>1
<1> QED
  BY <1>1, <1>2

\* The invariant gives the three promises.
LEMMA LeasesFollow ==
  ASSUME PubSubInv
  PROVE  LeasesKept
<1>1. LeaseHonoured
  <2> SUFFICES ASSUME up, NEW k \in DOMAIN promised, promised[k] > now,
                      NEW p \in Unacked(server.deliveries[k[1]]), RecordAt(server, k[1], p).message = k[2]
               PROVE  RecordAt(server, k[1], p).lease >= promised[k]
    BY DEF LeaseHonoured
  <2>1. LeasesStand(server.deliveries, now, promised)
    BY Running DEF Told
  <2> QED
    BY <2>1 DEF LeasesStand, Unacked, RecordAt
<1>2. FlowControl
  BY StreamWithinLimit DEF FlowControl
<1>3. IdsFresh
  <2>1. PICK x : x = Loaded(resourceFile, messageFile)
    OBVIOUS
  <2>2. x.nextMessageId = messageFile.nextMessageId /\ x.nextAckId = messageFile.nextAckId
    BY <2>1, LoadedFields
  <2>3. /\ x.nextMessageId \in Nat /\ x.nextAckId \in Nat
        /\ IdsBehind(x.nextMessageId, x.nextAckId, given, published, promised)
    BY <2>2 DEF PubSubInv, FilesSound, AreContents, Told
  <2>4. (\A ack \in given : ack[2] <= x.nextAckId) /\ (\A id \in published : id <= x.nextMessageId)
    BY <2>3, IdsCovered
  <2>5. up => /\ \A ack \in given : ack[2] <= server.nextAckId
              /\ \A id \in published : id <= server.nextMessageId
    <3> SUFFICES ASSUME up
                 PROVE  /\ \A ack \in given : ack[2] <= server.nextAckId
                        /\ \A id \in published : id <= server.nextMessageId
      OBVIOUS
    <3>1. /\ server.nextMessageId \in Nat /\ server.nextAckId \in Nat
          /\ IdsBehind(server.nextMessageId, server.nextAckId, given, published, promised)
      BY Running DEF Told
    <3> QED
      BY <3>1, IdsCovered
  <2> QED
    BY <2>1, <2>4, <2>5 DEF IdsFresh, Views
<1> QED
  BY <1>1, <1>2, <1>3 DEF LeasesKept

\* THEOREM: what clients were told of leases and ids holds: no pull, stream, failed save or
\* restart gives a promised message to someone else, no id is given out twice, and no stream's
\* client holds more leases than the limit it set.
THEOREM LeasesAreKept ==
  ASSUME NoSilentCopies
  PROVE  Spec => []LeasesKept
<1>1. PubSubInv => LeasesKept
  BY LeasesFollow
<1> QED
  BY <1>1, PubSubIsSound, PTL

-----------------------------------------------------------------------------
(***************************************************************************)
(* Ordering keys.                                                          *)
(***************************************************************************)

\* When the loop takes p, every other unacknowledged record of its key that it does not
\* dead-letter is a later one, in nobody's hands, and is not taken as well.
LEMMA ScanOrder ==
  ASSUME NEW x, NEW top, IsWhole(workload, x, top), NEW s \in SubscriptionNames, NEW max \in Nat, now \in Nat,
         NEW scan, scan = Scan(x, s, max), x.subscriptions[s].ordering,
         NEW p \in scan.taken, NEW q \in Unacked(x.deliveries[s]), q # p, q \notin scan.dead, SameKey(x, s, p, q)
  PROVE  q > p /\ x.deliveries[s].at[q].lease <= now /\ q \notin scan.taken
<1> DEFINE ready == ReadyAt(x, s)
           dead == PoisonedAt(x, s)
           leased == LeasedAt(x, s)
           holding == WaitingAt(x, s) \cup (ready \ dead)
           available == {r \in ready \ dead : ~KeyBlocked(x, s, r, leased, holding)}
           before(r) == {o \in available : o < r}
           reached == {r \in ready : Cardinality(before(r)) < max}
<1>1. scan.taken = available \cap reached /\ scan.dead = dead \cap reached
  BY DEF Scan
<1>2. IsQueue(x.deliveries[s], x.nextMessageId, x.nextAckId)
  BY DEF IsWhole, AreContents, AreDeliveries
<1>3. PICK n \in Nat : Unacked(x.deliveries[s]) \in SUBSET (1..n)
  <2>1. /\ x.deliveries[s].pushed \in Nat
        /\ DOMAIN x.deliveries[s].at \subseteq 1..x.deliveries[s].pushed
    BY <1>2 DEF IsQueue
  <2> QED
    BY <2>1 DEF Unacked
<1>4. ready \subseteq Unacked(x.deliveries[s])
  BY DEF ReadyAt
<1>5. \A r \in Unacked(x.deliveries[s]) : r \in Nat
  BY <1>3
<1>6. p \in available /\ p \in ready /\ p \notin dead /\ p \in Nat /\ q \in Nat
  BY <1>1, <1>4, <1>5
<1>7. ~KeyBlocked(x, s, p, leased, holding)
  BY <1>6
<1>8. q \notin leased
  BY <1>7 DEF KeyBlocked
<1>9. x.deliveries[s].at[q].lease <= now
  <2>1. x.deliveries[s].at[q].lease \in Nat
    BY <1>2 DEF IsQueue, IsRecord, Unacked
  <2> QED
    BY <1>8, <2>1 DEF LeasedAt, InForce, RecordAt
<1>10. q \in holding \/ q \in dead
  BY <1>8 DEF SameKey, ReadyAt, WaitingAt
<1>11. q > p
  <2>1. CASE q \in holding
    <3>1. ~(q < p)
      BY <1>7, <2>1 DEF KeyBlocked
    <3> QED
      BY <1>6, <3>1
  <2>2. CASE q \in dead
    <3>1. q \in ready /\ q \notin reached
      BY <1>1, <2>2 DEF PoisonedAt
    <3>2. SUFFICES ASSUME q < p
                   PROVE  FALSE
      BY <1>6
    <3>3. before(q) \subseteq before(p) /\ before(p) \in SUBSET (1..n)
      <4>1. \A o \in available : o \in Nat /\ o \in 1..n
        BY <1>3, <1>4, <1>5
      <4>2. \A o \in available : o < q => o < p
        BY <1>6, <3>2, <4>1
      <4> QED
        BY <4>1, <4>2
    <3>4. before(q) \in SUBSET (1..n)
      BY <3>3
    <3> HIDE DEF before, available
    <3>5. /\ IsFiniteSet(before(p)) /\ Cardinality(before(p)) \in Nat
          /\ IsFiniteSet(before(q)) /\ Cardinality(before(q)) \in Nat
      BY <3>3, <3>4, PositionsFinite
    <3>6. Cardinality(before(q)) <= Cardinality(before(p))
      BY <3>3, <3>5, FS_Subset
    <3>7. Cardinality(before(p)) < max
      BY <1>1
    <3>8. Cardinality(before(q)) < max
      BY <3>5, <3>6, <3>7
    <3> QED
      BY <3>1, <3>8
  <2> QED
    BY <1>10, <2>1, <2>2
<1>12. q \notin available
  <2>1. SameKey(x, s, q, p)
    BY DEF SameKey
  <2>2. p < q
    BY <1>6, <1>11
  <2>3. KeyBlocked(x, s, q, leased, holding)
    BY <1>6, <2>1, <2>2 DEF KeyBlocked
  <2> QED
    BY <2>3
<1> QED
  BY <1>1, <1>9, <1>11, <1>12

\* What the ordering property asks of a step.
OrderedStep ==
  \A s \in SubscriptionNames :
    up /\ up' /\ s \in DOMAIN server.subscriptions /\ server.subscriptions[s].ordering =>
      \A p, q \in Unacked(server'.deliveries[s]) :
        /\ RecordAt(server', s, p).ack[2] > server.nextAckId
        /\ p # q
        /\ SameKey(server', s, p, q)
        => q > p /\ RecordAt(server', s, q).lease <= now

\* The ack id of a record is behind the counter.
LEMMA AckBehind ==
  ASSUME NEW r, NEW top, NEW acks \in Nat, IsRecord(r, top, acks), NEW base \in Nat, acks <= base
  PROVE  ~(r.ack[2] > base)
<1>1. CASE r.ack = NoAck
  BY <1>1 DEF NoAck
<1>2. CASE r.ack # NoAck
  <2>1. PICK c \in 1..acks : r.ack = <<r.message, c>>
    BY <1>2 DEF IsRecord
  <2> QED
    BY <2>1
<1> QED
  BY <1>1, <1>2

\* A step that does not move the counter of ack ids hands nothing out.
LEMMA NothingHanded ==
  ASSUME PubSubInv, PubSubInv', up /\ up' => server'.nextAckId <= server.nextAckId
  PROVE  OrderedStep
<1> SUFFICES ASSUME NEW s \in SubscriptionNames, up, up', NEW p \in Unacked(server'.deliveries[s]),
                    RecordAt(server', s, p).ack[2] > server.nextAckId
             PROVE  FALSE
  BY DEF OrderedStep
<1>1. server.nextAckId \in Nat
  BY Running
<1>2. /\ IsWhole(workload', server', messageFile'.nextMessageId) /\ server'.nextAckId <= server.nextAckId
  BY DEF PubSubInv, ServerSound
<1>3. PICK r : r = server'.deliveries[s].at[p]
  OBVIOUS
<1>4. server'.nextAckId \in Nat /\ IsRecord(r, server'.nextMessageId, server'.nextAckId)
  BY <1>2, <1>3 DEF IsWhole, AreContents, AreDeliveries, IsQueue, Unacked
<1>5. ~(r.ack[2] > server.nextAckId)
  BY <1>1, <1>2, <1>4, AckBehind
<1> QED
  BY <1>3, <1>5 DEF RecordAt

\* A record that is left of an earlier one, or new, has no ack id of this step.
LEMMA CalmAckBehind ==
  ASSUME NEW v, NEW w, NEW p, NEW top, NEW time, CalmAt(v, w, p, top, time), NEW acks \in Nat,
         IsQueue(v, top, acks), ~w.at[p].acked
  PROVE  ~(w.at[p].ack[2] > acks)
<1>1. CASE w.at[p].ack = NoAck
  BY <1>1 DEF NoAck
<1>2. CASE w.at[p].ack # NoAck
  <2>1. p \in DOMAIN v.at /\ w.at[p].ack = v.at[p].ack
    BY <1>2 DEF CalmAt, Calmer, IsNew
  <2>2. PICK r : r = v.at[p]
    OBVIOUS
  <2>3. IsRecord(r, top, acks)
    BY <2>1, <2>2 DEF IsQueue
  <2>4. acks <= acks
    OBVIOUS
  <2>5. ~(r.ack[2] > acks)
    BY <2>3, <2>4, AckBehind
  <2> QED
    BY <2>1, <2>2, <2>5
<1> QED
  BY <1>1, <1>2

\* Dead-lettered records are acknowledged.
DeadAcked(v, dead) == \A p \in dead : v.at[p].acked

\* The messages of y that are not newer than `top` are those of x.
OldMessages(y, x, top) == \A id \in DOMAIN y : id <= top => id \in DOMAIN x /\ y[id] = x[id]

\* Records of one key after the scan were of one key before it.
LEMMA KeysBefore ==
  ASSUME NEW y, NEW x, NEW s, NEW top \in Nat, OldMessages(y.messages, x.messages, top), NEW p, NEW q,
         y.deliveries[s].at[p].message = x.deliveries[s].at[p].message,
         y.deliveries[s].at[q].message = x.deliveries[s].at[q].message,
         x.deliveries[s].at[p].message \in 1..top, x.deliveries[s].at[q].message \in 1..top,
         SameKey(y, s, p, q)
  PROVE  SameKey(x, s, p, q)
<1>1. PICK i, j : i = x.deliveries[s].at[p].message /\ j = x.deliveries[s].at[q].message
  OBVIOUS
<1>2. /\ i \in DOMAIN y.messages /\ j \in DOMAIN y.messages /\ i <= top /\ j <= top
      /\ y.messages[i].key # NoValue /\ y.messages[i].key = y.messages[j].key
  BY <1>1, SMTT(20) DEF SameKey, HasMessage, MessageAt, RecordAt
<1>3. /\ i \in DOMAIN x.messages /\ j \in DOMAIN x.messages
      /\ x.messages[i] = y.messages[i] /\ x.messages[j] = y.messages[j]
  BY <1>2 DEF OldMessages
<1> QED
  BY <1>1, <1>2, <1>3 DEF SameKey, HasMessage, MessageAt, RecordAt

\* What a pull or a stream hands out is in order.
LEMMA HandedInOrder ==
  ASSUME now \in Nat, now # 0, NEW b, NEW top \in Nat, IsWhole(workload, b, top),
         NEW s \in SubscriptionNames, NEW max \in Nat, NEW deadline \in Nat,
         NEW x, x = LeasesExpired(RetentionCleaned(b)), NEW scan, scan = Scan(x, s, max),
         NEW K, NEW v, HandsOut(v, x, s, scan, deadline, K, now), DeadAcked(v, scan.dead),
         NEW z, z = Stored(Scanned(x, s, scan), s, v), x.subscriptions[s].ordering,
         NEW y, y.deliveries = z.deliveries, SomeOf(y.messages, z.messages),
         NEW p \in K, NEW q \in Unacked(y.deliveries[s]), p # q, SameKey(y, s, p, q)
  PROVE  q > p /\ y.deliveries[s].at[q].lease <= now
<1>1. IsWhole(workload, x, top)
  <2>1. IsWhole(workload, RetentionCleaned(b), top)
    BY CleanedWhole
  <2> QED
    BY <2>1, ExpiredWhole
<1>2. /\ IsWhole(workload, Scanned(x, s, scan), top)
      /\ ScannedFrom(Scanned(x, s, scan), x, Cardinality(scan.taken), scan.dead, now)
  BY ONLY <1>1, top \in Nat, s \in SubscriptionNames, max \in Nat, now \in Nat, scan = Scan(x, s, max), ScannedWhole
<1>3. PICK w : w = Scanned(x, s, scan)
  OBVIOUS
<1>4. /\ IsQueue(x.deliveries[s], x.nextMessageId, x.nextAckId) /\ x.nextMessageId \in Nat /\ x.nextAckId \in Nat
  BY <1>1 DEF IsWhole, AreContents, AreDeliveries
<1>5. /\ scan.taken \subseteq DOMAIN x.deliveries[s].at
      /\ \A i \in scan.taken : ~x.deliveries[s].at[i].acked
      /\ Cardinality(scan.taken) \in Nat
  BY <1>1, ScanFacts
<1>6. z.messages = w.messages /\ DOMAIN z.deliveries[s].at \subseteq DOMAIN v.at
      /\ \A i \in DOMAIN z.deliveries[s].at : z.deliveries[s].at[i] = v.at[i]
  <2>1. IsQueue(v, w.nextMessageId, w.nextAckId)
    <3>1. /\ w.nextMessageId \in Nat /\ w.nextAckId = x.nextAckId + Cardinality(scan.taken)
          /\ x.nextMessageId <= w.nextMessageId
      BY <1>2, <1>3 DEF ScannedFrom, IsWhole, AreContents
    <3>2. IsQueue(v, x.nextMessageId, x.nextAckId + Cardinality(scan.taken))
      BY DEF HandsOut
    <3>3. PICK acks \in Nat : acks = x.nextAckId + Cardinality(scan.taken)
      BY <1>4, <1>5
    <3>4. IsQueue(v, x.nextMessageId, acks) /\ acks <= acks
      BY <3>2, <3>3
    <3>5. IsQueue(v, w.nextMessageId, acks)
      BY ONLY <1>4, <3>1, <3>3, <3>4, QueueGrows
    <3> QED
      BY <3>1, <3>3, <3>5
  <2>2. IsWhole(workload, w, top) /\ z = Stored(w, s, v)
    BY <1>2, <1>3
  <2> QED
    BY ONLY <2>1, <2>2, s \in SubscriptionNames, StoredWhole
<1>7. OldMessages(y.messages, x.messages, x.nextMessageId)
  BY <1>2, <1>3, <1>6 DEF ScannedFrom, SomeOf, OldMessages
<1>8. /\ q \in DOMAIN x.deliveries[s].at /\ y.deliveries[s].at[q] = v.at[q] /\ ~v.at[q].acked
      /\ p \in DOMAIN x.deliveries[s].at /\ p \in scan.taken
  BY <1>5, <1>6 DEF HandsOut, Unacked
<1>9. /\ Handed(b.deliveries, z.deliveries, s, K, b.nextMessageId, b.nextAckId, z.nextAckId, now + deadline, now)
      /\ \A i \in K : z.deliveries[s].at[i].message = x.deliveries[s].at[i].message
  BY HandedOut
<1>10. ~x.deliveries[s].at[q].acked /\ y.deliveries[s].at[q].message = x.deliveries[s].at[q].message
  <2>1. CASE q \in K
    <3>1. q \in scan.taken
      BY <2>1 DEF HandsOut
    <3> QED
      BY <1>5, <1>9, <2>1, <3>1
  <2>2. CASE q \notin K
    <3>1. Calmer(x.deliveries[s].at[q], v.at[q], now)
      BY <1>8, <2>2 DEF HandsOut
    <3> QED
      BY <1>8, <3>1 DEF Calmer
  <2> QED
    BY <2>1, <2>2
<1>11. /\ x.deliveries[s].at[p].message \in 1..x.nextMessageId /\ x.deliveries[s].at[q].message \in 1..x.nextMessageId
       /\ y.deliveries[s].at[p].message = x.deliveries[s].at[p].message
  <2>1. y.deliveries[s].at[p].message = x.deliveries[s].at[p].message
    BY <1>9
  <2>2. \A i \in DOMAIN x.deliveries[s].at : x.deliveries[s].at[i].message \in 1..x.nextMessageId
    BY ONLY <1>4 DEF IsQueue, IsRecord
  <2> QED
    BY <1>8, <2>1, <2>2
<1>12. SameKey(x, s, p, q)
  BY ONLY <1>4, <1>7, <1>10, <1>11, SameKey(y, s, p, q), KeysBefore
<1>13. q \in Unacked(x.deliveries[s]) /\ q \notin scan.dead
  BY <1>8, <1>10 DEF Unacked, DeadAcked
<1>14. q > p /\ x.deliveries[s].at[q].lease <= now /\ q \notin scan.taken
  <2>1. x.subscriptions[s].ordering /\ scan = Scan(x, s, max) /\ now \in Nat /\ p # q
    OBVIOUS
  <2> QED
    BY ONLY <1>1, <1>8, <1>12, <1>13, <2>1, s \in SubscriptionNames, max \in Nat, ScanOrder
<1>15. Calmer(x.deliveries[s].at[q], v.at[q], now)
  BY <1>8, <1>14 DEF HandsOut
<1> QED
  BY <1>8, <1>14, <1>15 DEF Calmer

\* A pull or a stream's tick that hands messages out, however its save ends.
LEMMA OrderedHandout ==
  ASSUME PubSubInv, PubSubInv', up,
         NEW b, IsWhole(workload, b, messageFile.nextMessageId), Tidied(server, b, now),
         NEW s \in SubscriptionNames, NEW max \in Nat, NEW deadline \in Nat,
         NEW x, x = LeasesExpired(RetentionCleaned(b)), NEW scan, scan = Scan(x, s, max),
         NEW K, NEW v, HandsOut(v, x, s, scan, deadline, K, now), DeadAcked(v, scan.dead),
         NEW z, z = Stored(Scanned(x, s, scan), s, v),
         NEW outcome, outcome \in Outcomes, Persist(outcome, z, PullUndo(b))
  PROVE  OrderedStep
<1>1. /\ now \in Nat /\ now # 0 /\ messageFile.nextMessageId \in Nat
      /\ server.nextMessageId \in Nat /\ server.nextAckId \in Nat /\ workload \in Workloads
  BY Running
<1>2. /\ b.nextMessageId = server.nextMessageId /\ b.nextAckId = server.nextAckId
      /\ AreDeliveries(b.deliveries, b.nextMessageId, b.nextAckId) /\ b.subscriptions = server.subscriptions
  BY TidiedSound DEF Tidied
<1>3. /\ IsWhole(workload, z, messageFile.nextMessageId)
      /\ Handed(b.deliveries, z.deliveries, s, K, b.nextMessageId, b.nextAckId, z.nextAckId, now + deadline, now)
  BY ONLY <1>1, IsWhole(workload, b, messageFile.nextMessageId), s \in SubscriptionNames, max \in Nat,
          deadline \in Nat, x = LeasesExpired(RetentionCleaned(b)), scan = Scan(x, s, max),
          HandsOut(v, x, s, scan, deadline, K, now), z = Stored(Scanned(x, s, scan), s, v), HandedOut
<1>4. PICK m, y : /\ SomeOf(m, z.messages) /\ Settled(y, z, m) /\ up' = ~Killed(outcome)
                  /\ Failed(outcome) => Restored(server', y, PullUndo(b))
                  /\ outcome = "saved" => server' = y
  BY ONLY <1>3, outcome \in Outcomes, Persist(outcome, z, PullUndo(b)), PersistEnds
<1>5. outcome \in {"saved", "killed", "failed", "half", "halfKilled"}
  BY <1>1, ConstantsAssumption DEF Outcomes
<1>6. CASE outcome # "saved"
  <2>1. up' => Failed(outcome)
    BY <1>4, <1>5, <1>6 DEF Killed, Failed
  <2>2. up' => server'.nextAckId = b.nextAckId
    <3>1. "nextAckId" \in DOMAIN PullUndo(b) /\ PullUndo(b)["nextAckId"] = b.nextAckId
      BY DEF PullUndo
    <3> QED
      BY <1>4, <2>1, <3>1 DEF Restored, ServerFields
  <2>3. up /\ up' => server'.nextAckId <= server.nextAckId
    BY <1>1, <1>2, <2>2
  <2> QED
    BY <2>3, NothingHanded
<1>7. CASE outcome = "saved"
  <2>1. server' = y /\ y.deliveries = z.deliveries /\ SomeOf(y.messages, z.messages)
    BY <1>4, <1>7 DEF Settled
  <2>2. x.subscriptions = server.subscriptions
    <3>1. PICK c : c = RetentionCleaned(b)
      OBVIOUS
    <3>2. IsWhole(workload, c, messageFile.nextMessageId) /\ Tidied(b, c, now)
      BY <1>1, <3>1, CleanedWhole
    <3>3. Tidied(c, x, now)
      BY <1>1, <3>1, <3>2, ExpiredWhole
    <3> QED
      BY <1>2, <3>2, <3>3 DEF Tidied
  <2> SUFFICES ASSUME NEW u \in SubscriptionNames, server.subscriptions[u].ordering,
                      NEW p \in Unacked(y.deliveries[u]), NEW q \in Unacked(y.deliveries[u]),
                      y.deliveries[u].at[p].ack[2] > server.nextAckId, p # q, SameKey(y, u, p, q)
               PROVE  q > p /\ y.deliveries[u].at[q].lease <= now
    BY <2>1 DEF OrderedStep, RecordAt
  <2>3. p \in DOMAIN z.deliveries[u].at /\ ~z.deliveries[u].at[p].acked
    BY <2>1 DEF Unacked
  <2>4. u = s /\ p \in K
    <3>1. SUFFICES ASSUME ~(u = s /\ p \in K)
                   PROVE  FALSE
      OBVIOUS
    <3>2. CalmAt(b.deliveries[u], z.deliveries[u], p, b.nextMessageId, now)
      <4>1. CASE u = s
        BY <1>3, <2>3, <3>1, <4>1 DEF Handed
      <4>2. CASE u # s
        <5>1. Calm(b.deliveries[u], z.deliveries[u], b.nextMessageId, now)
          BY <1>3, <4>2 DEF Handed
        <5> QED
          BY <2>3, <5>1 DEF Calm, CalmAt
      <4> QED
        BY <4>1, <4>2
    <3>3. IsQueue(b.deliveries[u], b.nextMessageId, b.nextAckId) /\ b.nextAckId \in Nat
      BY <1>1, <1>2 DEF AreDeliveries
    <3>4. ~(z.deliveries[u].at[p].ack[2] > b.nextAckId)
      BY ONLY <2>3, <3>2, <3>3, CalmAckBehind
    <3> QED
      BY <1>2, <2>1, <3>4
  <2>5. /\ q \in Unacked(y.deliveries[s]) /\ SameKey(y, s, p, q) /\ p \in K /\ p # q /\ x.subscriptions[s].ordering
    BY <2>2, <2>4
  <2>6. q > p /\ y.deliveries[s].at[q].lease <= now
    BY ONLY <1>1, IsWhole(workload, b, messageFile.nextMessageId), s \in SubscriptionNames, max \in Nat,
            deadline \in Nat, x = LeasesExpired(RetentionCleaned(b)), scan = Scan(x, s, max),
            HandsOut(v, x, s, scan, deadline, K, now), DeadAcked(v, scan.dead),
            z = Stored(Scanned(x, s, scan), s, v), <2>1, <2>5, HandedInOrder
  <2> QED
    BY <2>4, <2>6
<1> QED
  BY <1>6, <1>7

\* The dead-lettered records are acknowledged in the records a pull or a stream stores.
LEMMA WorkingDead ==
  ASSUME NEW x, NEW top, IsWhole(workload, x, top), NEW s \in SubscriptionNames, NEW max \in Nat,
         now \in Nat, now # 0, NEW deadline \in Nat, NEW scan, scan = Scan(x, s, max),
         NEW w, w = Working(x, s, scan, deadline), NEW K
  PROVE  DeadAcked(w, scan.dead) /\ DeadAcked(Refilled(w, Returned(w, scan.taken \ K)), scan.dead)
<1>1. /\ IsQueue(w, x.nextMessageId, x.nextAckId + Cardinality(scan.taken))
      /\ DOMAIN w.at = DOMAIN x.deliveries[s].at /\ \A p \in scan.dead : w.at[p].acked
  BY WorkingQueue
<1>2. scan.dead \subseteq DOMAIN x.deliveries[s].at /\ scan.taken \cap scan.dead = {}
  BY ScanFacts
<1>3. w = [f \in {"at", "pushed"} |-> w[f]]
  BY <1>1 DEF IsQueue
<1>4. Refilled(w, Returned(w, scan.taken \ K)).at = Returned(w, scan.taken \ K)
  BY <1>3 DEF Refilled
<1>5. \A p \in scan.dead : Returned(w, scan.taken \ K)[p] = w.at[p]
  BY <1>1, <1>2 DEF Returned
<1> QED
  BY <1>1, <1>4, <1>5 DEF DeadAcked

\* A server with the counter of ack ids where it was.
Steady(x) == IsServer(x) /\ x.nextAckId = server.nextAckId

\* A save does not move the counter.
LEMMA PersistSteady ==
  ASSUME PubSubInv, up, NEW outcome, outcome \in Outcomes, NEW x, Steady(x), NEW back, Persist(outcome, x, back),
         "nextAckId" \notin DOMAIN back
  PROVE  up' => server'.nextAckId <= server.nextAckId
<1>1. PICK ready : ready = IF x.messagesDirty THEN Pruned(x) ELSE x
  OBVIOUS
<1>2. IsServer(ready) /\ ready.nextAckId = server.nextAckId
  <2>1. IsServer(x) /\ x.nextAckId = server.nextAckId
    BY DEF Steady
  <2>2. IsServer(Pruned(x)) /\ Pruned(x).nextAckId = x.nextAckId
    BY <2>1, PrunedFields DEF ServerFields
  <2> QED
    BY <1>1, <2>1, <2>2
<1>3. PICK a, c, after :
        /\ after = [[ready EXCEPT !.resourceDirty = a] EXCEPT !.messagesDirty = c]
        /\ up' = ~Killed(outcome)
        /\ server' = CASE Killed(outcome)    -> Blank
                       [] Failed(outcome)    -> PutBack(after, back)
                       [] outcome = "saved"  -> after
  <2>1. PICK resources, state : /\ resources = (ready.resourceDirty /\ outcome # "failed")
                                /\ state = (ready.messagesDirty /\ outcome \in {"saved", "killed"})
    OBVIOUS
  <2>2. PICK after : after = [ready EXCEPT !.resourceDirty = @ /\ ~resources, !.messagesDirty = @ /\ ~state]
    OBVIOUS
  <2>3. after = [[ready EXCEPT !.resourceDirty = ready.resourceDirty /\ ~resources]
                   EXCEPT !.messagesDirty = ready.messagesDirty /\ ~state]
    BY <1>2, <2>2 DEF IsServer, ServerFields
  <2>4. /\ up' = ~Killed(outcome)
        /\ server' = CASE Killed(outcome)    -> Blank
                       [] Failed(outcome)    -> PutBack(after, back)
                       [] outcome = "saved"  -> after
    BY <1>1, <2>1, <2>2 DEF Persist, The
  <2> QED
    BY <2>3, <2>4
<1>4. IsServer(after) /\ after.nextAckId = server.nextAckId
  BY <1>2, <1>3 DEF IsServer, ServerFields
<1>5. PutBack(after, back).nextAckId = after.nextAckId
  BY <1>4 DEF PutBack, IsServer, ServerFields
<1>6. outcome \in {"saved", "killed", "failed", "half", "halfKilled"}
  BY Running, ConstantsAssumption DEF Outcomes
<1>7. up' => server'.nextAckId = server.nextAckId
  BY <1>3, <1>4, <1>5, <1>6 DEF Killed, Failed
<1> QED
  BY <1>7, Running

\* A handler that leaves the counter alone.
LEMMA SteadyPersist ==
  ASSUME PubSubInv, PubSubInv', up, NEW outcome, outcome \in Outcomes, NEW x, Steady(x), NEW back,
         Persist(outcome, x, back), "nextAckId" \notin DOMAIN back
  PROVE  OrderedStep
BY PersistSteady, NothingHanded

\* A handler that no history variable follows leaves the counter alone.
LEMMA SteadyChange ==
  ASSUME PubSubInv, PubSubInv', NEW x, NEW back, Change(x, back), up => Steady(x), "nextAckId" \notin DOMAIN back
  PROVE  OrderedStep
<1>1. PICK outcome \in Outcomes : Persist(outcome, x, back)
  BY DEF Change, Finish
<1>2. up
  BY DEF Change
<1> QED
  BY <1>1, <1>2, SteadyPersist

\* A step that leaves the server.
LEMMA SteadyServer ==
  ASSUME PubSubInv, PubSubInv', up /\ up' => server'.nextAckId = server.nextAckId
  PROVE  OrderedStep
<1>1. up /\ up' => server'.nextAckId <= server.nextAckId
  BY Running
<1> QED
  BY <1>1, NothingHanded

\* The server x with the value a in field f.
Put(x, f, a) == [x EXCEPT ![f] = a]

\* Other fields do not matter.
LEMMA SteadyPut ==
  ASSUME NEW x, Steady(x), NEW f \in ServerFields \ {"nextAckId"}, NEW a
  PROVE  Steady(Put(x, f, a))
BY DEF Steady, Put, IsServer, ServerFields

\* The running server is one.
LEMMA SteadyNow ==
  ASSUME PubSubInv, up
  PROVE  Steady(server) /\ IsServer(server)
BY Running DEF IsWhole, Steady

\* Topics
LEMMA TopicsOrdered ==
  ASSUME PubSubInv, PubSubInv', NEW t, NEW retention, NEW api,
         CreateTopic(t, retention) \/ UpdateTopic(api, t, retention) \/ DeleteTopic(api, t)
  PROVE  OrderedStep
<1>1. up
  BY DEF CreateTopic, UpdateTopic, DeleteTopic, Change
<1>2. Steady(server) /\ IsServer(server)
  BY <1>1, SteadyNow
<1>3. Steady([server EXCEPT !.topics = With(@, t, retention), !.resourceDirty = TRUE])
  <2>1. PICK a : a = With(server.topics, t, retention)
    OBVIOUS
  <2>2. [server EXCEPT !.topics = With(@, t, retention), !.resourceDirty = TRUE]
          = Put(Put(server, "topics", a), "resourceDirty", TRUE)
    BY <1>2, <2>1 DEF Put, IsServer, ServerFields
  <2>3. Steady(Put(Put(server, "topics", a), "resourceDirty", TRUE))
    BY <1>2, SteadyPut DEF ServerFields
  <2> QED
    BY <2>2, <2>3
<1>4. Steady([server EXCEPT !.topics = Without(@, {t}),
                            !.subscriptions = IF api = "rest" THEN @ ELSE Orphaned(@, t),
                            !.resourceDirty = TRUE])
  <2>1. PICK a, b : a = Without(server.topics, {t})
                    /\ b = IF api = "rest" THEN server.subscriptions ELSE Orphaned(server.subscriptions, t)
    OBVIOUS
  <2>2. [server EXCEPT !.topics = Without(@, {t}),
                       !.subscriptions = IF api = "rest" THEN @ ELSE Orphaned(@, t),
                       !.resourceDirty = TRUE]
          = Put(Put(Put(server, "topics", a), "subscriptions", b), "resourceDirty", TRUE)
    BY <1>2, <2>1 DEF Put, IsServer, ServerFields
  <2>3. Steady(Put(Put(Put(server, "topics", a), "subscriptions", b), "resourceDirty", TRUE))
    BY <1>2, SteadyPut DEF ServerFields
  <2> QED
    BY <2>2, <2>3
<1>5. /\ "nextAckId" \notin DOMAIN [topics |-> server.topics] /\ "nextAckId" \notin DOMAIN NoFields
      /\ "nextAckId" \notin DOMAIN [topics |-> server.topics, subscriptions |-> server.subscriptions]
  BY DEF NoFields
<1>6. CASE CreateTopic(t, retention)
  BY <1>3, <1>5, <1>6, SteadyChange DEF CreateTopic
<1>7. CASE UpdateTopic(api, t, retention)
  BY <1>3, <1>5, <1>7, SteadyChange DEF UpdateTopic
<1>8. CASE DeleteTopic(api, t)
  BY <1>4, <1>5, <1>8, SteadyChange DEF DeleteTopic
<1> QED
  BY <1>6, <1>7, <1>8

\* Subscriptions that are created or updated.
LEMMA SubscriptionsOrdered ==
  ASSUME PubSubInv, PubSubInv', NEW s, NEW request, NEW push, NEW api,
         \/ CreateSubscription(api, s, request) \/ UpdateSubscription(api, s, request)
         \/ ModifyPushConfig(api, s, push)
  PROVE  OrderedStep
<1>1. up
  BY DEF CreateSubscription, UpdateSubscription, ModifyPushConfig, Change
<1>2. Steady(server) /\ IsServer(server)
  BY <1>1, SteadyNow
<1>3. \A a : Steady(Put(Put(server, "subscriptions", a), "resourceDirty", TRUE))
  BY <1>2, SteadyPut DEF ServerFields
<1>4. /\ "nextAckId" \notin DOMAIN [subscriptions |-> server.subscriptions] /\ "nextAckId" \notin DOMAIN NoFields
  BY DEF NoFields
<1>5. CASE CreateSubscription(api, s, request)
  <2>1. PICK a, x : /\ a = With(server.subscriptions, s, NewSubscription(request))
                    /\ x = [server EXCEPT !.subscriptions = With(@, s, NewSubscription(request)), !.resourceDirty = TRUE]
    OBVIOUS
  <2>2. x = Put(Put(server, "subscriptions", a), "resourceDirty", TRUE)
    BY <1>2, <2>1 DEF Put, IsServer, ServerFields
  <2>3. Steady(x)
    BY <1>3, <2>2
  <2>4. PICK back : back = [subscriptions |-> server.subscriptions,
                            deliveries |-> IF api = "rest" THEN server.deliveries
                                           ELSE [server.deliveries EXCEPT ![s] = EmptyVec]]
    OBVIOUS
  <2>5. "nextAckId" \notin DOMAIN back
    BY <2>4
  <2>6. PICK outcome \in Outcomes : Persist(outcome, x, back)
    BY <1>5, <2>1, <2>4 DEF CreateSubscription, Finish
  <2> QED
    BY <1>1, <2>3, <2>5, <2>6, SteadyPersist
<1>6. CASE UpdateSubscription(api, s, request)
  <2>1. PICK a, x : /\ a = [server.subscriptions EXCEPT ![s] = Updated(@, request)]
                    /\ x = [server EXCEPT !.subscriptions[s] = Updated(@, request), !.resourceDirty = TRUE]
    OBVIOUS
  <2>2. x = Put(Put(server, "subscriptions", a), "resourceDirty", TRUE)
    BY <1>2, <2>1 DEF Put, IsServer, ServerFields
  <2>3. Steady(x)
    BY <1>3, <2>2
  <2> QED
    BY <1>4, <1>6, <2>1, <2>3, SteadyChange DEF UpdateSubscription
<1>7. CASE ModifyPushConfig(api, s, push)
  <2>1. PICK a, x : /\ a = [server.subscriptions EXCEPT ![s].push = push]
                    /\ x = [server EXCEPT !.subscriptions[s].push = push, !.resourceDirty = TRUE]
    OBVIOUS
  <2>2. x = Put(Put(server, "subscriptions", a), "resourceDirty", TRUE)
    BY <1>2, <2>1 DEF Put, IsServer, ServerFields
  <2>3. Steady(x)
    BY <1>3, <2>2
  <2> QED
    BY <1>4, <1>7, <2>1, <2>3, SteadyChange DEF ModifyPushConfig
<1> QED
  BY <1>5, <1>6, <1>7

\* Subscriptions that end.
LEMMA EndsOrdered ==
  ASSUME PubSubInv, PubSubInv', NEW s, NEW api, DeleteSubscription(api, s) \/ DetachSubscription(api, s)
  PROVE  OrderedStep
<1>1. PICK x : /\ x = SubscriptionRemoved(api, s) \/ x = Detached(api, s)
               /\ Retire(s, x)
  BY DEF DeleteSubscription, DetachSubscription
<1>2. up
  BY <1>1 DEF Retire
<1>3. Steady(server) /\ IsServer(server)
  BY <1>2, SteadyNow
<1>4. Steady(x)
  <2>1. \A a, b, c : Steady(Put(Put(Put(server, "subscriptions", a), "deliveries", b), "snapshots", c))
    BY <1>3, SteadyPut DEF ServerFields
  <2>2. CASE x = SubscriptionRemoved(api, s)
    <3>1. PICK a, b, c :
            /\ a = Without(server.subscriptions, {s}) /\ b = [server.deliveries EXCEPT ![s] = EmptyVec]
            /\ c = IF api = "rest" THEN Without(server.snapshots, SnapshotsOf(s)) ELSE server.snapshots
      OBVIOUS
    <3>2. x = Put(Put(Put(server, "subscriptions", a), "deliveries", b), "snapshots", c)
      BY <1>3, <2>2, <3>1 DEF SubscriptionRemoved, Put, IsServer, ServerFields
    <3> QED
      BY <2>1, <3>2
  <2>3. CASE x = Detached(api, s)
    <3>1. PICK a, b, c :
            /\ a = [server.subscriptions EXCEPT ![s].detached = TRUE]
            /\ b = [server.deliveries EXCEPT ![s] = IF api = "rest" THEN @ ELSE EmptyVec]
            /\ c = Without(server.snapshots, SnapshotsOf(s))
      OBVIOUS
    <3>2. x = Put(Put(Put(server, "subscriptions", a), "deliveries", b), "snapshots", c)
      BY <1>3, <2>3, <3>1 DEF Detached, Put, IsServer, ServerFields
    <3> QED
      BY <2>1, <3>2
  <2> QED
    BY <1>1, <2>2, <2>3
<1>5. PICK y, back : /\ y = Put(Put(x, "resourceDirty", TRUE), "messagesDirty", TRUE)
                     /\ back = [subscriptions |-> server.subscriptions, snapshots |-> server.snapshots,
                                deliveries |-> server.deliveries, messages |-> server.messages]
  OBVIOUS
<1>6. Steady(y) /\ "nextAckId" \notin DOMAIN back
  BY <1>4, <1>5, SteadyPut DEF ServerFields
<1>7. y = [x EXCEPT !.resourceDirty = TRUE, !.messagesDirty = TRUE]
  BY <1>4, <1>5 DEF Put, Steady, IsServer, ServerFields
<1>8. PICK outcome \in Outcomes : Persist(outcome, y, back)
  BY <1>1, <1>5, <1>7 DEF Retire, Finish
<1> QED
  BY <1>2, <1>6, <1>8, SteadyPersist

\* Snapshots
LEMMA SnapshotsOrdered ==
  ASSUME PubSubInv, PubSubInv', NEW n, NEW s, NEW api,
         CreateSnapshot(api, n, s) \/ DeleteSnapshot(n) \/ UpdateSnapshot(n)
  PROVE  OrderedStep
<1>1. up
  BY DEF CreateSnapshot, DeleteSnapshot, UpdateSnapshot, Change
<1>2. Steady(server) /\ IsServer(server)
  BY <1>1, SteadyNow
<1>3. /\ "nextAckId" \notin DOMAIN [snapshots |-> server.snapshots] /\ "nextAckId" \notin DOMAIN NoFields
      /\ "nextAckId" \notin DOMAIN [snapshots |-> server.snapshots, messages |-> server.messages]
  BY DEF NoFields
<1>4. CASE CreateSnapshot(api, n, s)
  <2>1. PICK a, x : /\ a = With(server.snapshots, n, SnapshotOf(api, s))
                    /\ x = [server EXCEPT !.snapshots = With(@, n, SnapshotOf(api, s)), !.resourceDirty = TRUE]
    OBVIOUS
  <2>2. x = Put(Put(server, "snapshots", a), "resourceDirty", TRUE)
    BY <1>2, <2>1 DEF Put, IsServer, ServerFields
  <2>3. Steady(x)
    BY <1>2, <2>2, SteadyPut DEF ServerFields
  <2> QED
    BY <1>3, <1>4, <2>1, <2>3, SteadyChange DEF CreateSnapshot
<1>5. CASE DeleteSnapshot(n)
  <2>1. PICK a, x : /\ a = Without(server.snapshots, {n})
                    /\ x = [server EXCEPT !.snapshots = Without(@, {n}),
                                          !.resourceDirty = TRUE, !.messagesDirty = TRUE]
    OBVIOUS
  <2>2. x = Put(Put(Put(server, "snapshots", a), "resourceDirty", TRUE), "messagesDirty", TRUE)
    BY <1>2, <2>1 DEF Put, IsServer, ServerFields
  <2>3. Steady(x)
    BY <1>2, <2>2, SteadyPut DEF ServerFields
  <2> QED
    BY <1>3, <1>5, <2>1, <2>3, SteadyChange DEF DeleteSnapshot
<1>6. CASE UpdateSnapshot(n)
  <2>1. PICK x : x = [server EXCEPT !.resourceDirty = TRUE]
    OBVIOUS
  <2>2. x = Put(server, "resourceDirty", TRUE)
    BY <2>1 DEF Put
  <2>3. Steady(x)
    BY <1>2, <2>2, SteadyPut DEF ServerFields
  <2> QED
    BY <1>3, <1>6, <2>1, <2>3, SteadyChange DEF UpdateSnapshot
<1> QED
  BY <1>4, <1>5, <1>6

\* Seeks
LEMMA SeeksOrdered ==
  ASSUME PubSubInv, PubSubInv', NEW s, NEW api, NEW time, NEW n,
         SeekToTime(api, s, time) \/ SeekToSnapshot(api, s, n)
  PROVE  OrderedStep
<1>1. PICK replayed, due : Replace(api, s, replayed, due)
  BY DEF SeekToTime, SeekToSnapshot
<1>2. up
  BY <1>1 DEF Replace
<1>3. Steady(server) /\ IsServer(server)
  BY <1>2, SteadyNow
<1>4. PICK a, x, back :
        /\ a = [server.deliveries EXCEPT ![s] = replayed]
        /\ x = [server EXCEPT !.deliveries[s] = replayed, !.messagesDirty = TRUE]
        /\ back = IF api = "rest" THEN [deliveries |-> server.deliveries, messages |-> server.messages] ELSE NoFields
  OBVIOUS
<1>5. x = Put(Put(server, "deliveries", a), "messagesDirty", TRUE)
  BY <1>3, <1>4 DEF Put, IsServer, ServerFields
<1>6. Steady(x)
  BY <1>3, <1>5, SteadyPut DEF ServerFields
<1>7. "nextAckId" \notin DOMAIN back
  BY <1>4 DEF NoFields
<1>8. PICK outcome \in Outcomes : Persist(outcome, x, back)
  BY <1>1, <1>4 DEF Replace, Finish
<1> QED
  BY <1>2, <1>6, <1>7, <1>8, SteadyPersist

\* Publishing
LEMMA PublishOrdered ==
  ASSUME PubSubInv, PubSubInv', NEW t, NEW batch \in workload.batches, Publish(t, batch)
  PROVE  OrderedStep
<1>1. up
  BY DEF Publish
<1>2. PICK x, back : /\ x = Published(t, batch)
                     /\ back = [nextMessageId |-> server.nextMessageId, messages |-> server.messages,
                                deliveries |-> server.deliveries]
  OBVIOUS
<1>3. Steady(x)
  BY <1>1, <1>2, PublishedWhole DEF Steady, IsWhole
<1>4. "nextAckId" \notin DOMAIN back
  BY <1>2
<1>5. PICK outcome \in Outcomes : Persist(outcome, x, back)
  BY <1>2 DEF Publish, Finish, The
<1> QED
  BY <1>1, <1>3, <1>4, <1>5, SteadyPersist

\* Answers
LEMMA AnswerOrdered ==
  ASSUME PubSubInv, PubSubInv', NEW s \in SubscriptionNames, NEW ids, ids \subseteq given,
         NEW deadline, deadline = NoValue \/ deadline \in Nat, NEW api, Answer(api, s, ids, deadline)
  PROVE  OrderedStep
<1>1. up
  BY DEF Answer
<1>2. PICK x, y, back :
        /\ x = LeasesExpired(server) /\ y = AnsweredServer(x, s, ids, deadline)
        /\ back = IF api = "rest" THEN [deliveries |-> server.deliveries, messages |-> server.messages] ELSE NoFields
  OBVIOUS
<1>3. IsWhole(workload, y, messageFile.nextMessageId) /\ y.nextAckId = server.nextAckId
  BY <1>1, <1>2, AnswerSound
<1>4. Steady(y)
  BY <1>3 DEF Steady, IsWhole
<1>5. "nextAckId" \notin DOMAIN back
  BY <1>2 DEF NoFields
<1>6. PICK outcome \in Outcomes : Persist(outcome, y, back)
  <2>1. PICK outcome \in Outcomes : Persist(outcome, AnsweredServer(LeasesExpired(server), s, ids, deadline),
          IF api = "rest" THEN [deliveries |-> server.deliveries, messages |-> server.messages] ELSE NoFields)
    BY DEF Answer, Finish, The
  <2> QED
    BY <1>2, <2>1
<1> QED
  BY <1>1, <1>4, <1>5, <1>6, SteadyPersist

\* Pulls
LEMMA PullOrdered ==
  ASSUME PubSubInv, PubSubInv', NEW s, NEW max \in workload.pulls, Pull(s, max)
  PROVE  OrderedStep
<1>1. PICK x, scan, deadline, v, z :
        /\ x = LeasesExpired(RetentionCleaned(server))
        /\ scan = Scan(x, s, PullMax(max))
        /\ deadline = AckDeadline(server.subscriptions[s])
        /\ v = Working(x, s, scan, deadline)
        /\ z = Stored(Scanned(x, s, scan), s, v)
  OBVIOUS
<1>2. PICK outcome \in Outcomes : Persist(outcome, z, PullUndo(server))
  BY <1>1 DEF Pull, The, Finish
<1>3. up /\ s \in DOMAIN server.subscriptions
  BY DEF Pull, Pullable
<1>4. s \in SubscriptionNames /\ deadline \in Nat
  <2>1. AreSubscriptions(workload, server.subscriptions)
    BY <1>3, ResourcesSound
  <2>2. s \in SubscriptionNames /\ server.subscriptions[s].ackDeadline \in Nat
    BY <1>3, <2>1 DEF AreSubscriptions
  <2> QED
    BY <1>1, <2>2, ConstantsAssumption DEF AckDeadline, AckDeadlineOr
<1>5. PICK max2 \in Nat : max2 = PullMax(max)
  <2>1. max \in Int
    BY ConstantsAssumption DEF PubSubInv
  <2> QED
    BY <2>1, PullMaxType
<1>6. /\ IsWhole(workload, server, messageFile.nextMessageId) /\ now \in Nat /\ now # 0
      /\ Tidied(server, server, now)
  BY <1>3, Running, TidiedSame DEF IsWhole
<1>7. IsWhole(workload, x, messageFile.nextMessageId)
  <2>1. IsWhole(workload, RetentionCleaned(server), messageFile.nextMessageId)
    BY <1>6, CleanedWhole
  <2> QED
    BY <1>1, <1>6, <2>1, ExpiredWhole
<1>8. /\ x = LeasesExpired(RetentionCleaned(server)) /\ scan = Scan(x, s, max2)
      /\ v = Working(x, s, scan, deadline) /\ z = Stored(Scanned(x, s, scan), s, v)
  BY <1>1, <1>5
<1>9. HandsOut(v, x, s, scan, deadline, scan.taken, now)
  BY ONLY <1>4, <1>5, <1>6, <1>7, <1>8, PullHands
<1>10. DeadAcked(v, scan.dead)
  BY ONLY <1>4, <1>5, <1>6, <1>7, <1>8, WorkingDead
<1> QED
  BY ONLY PubSubInv, PubSubInv', <1>2, <1>3, <1>4, <1>5, <1>6, <1>8, <1>9, <1>10, OrderedHandout

\* A tick of a stream that sends messages
LEMMA TakeSomeOrdered ==
  ASSUME PubSubInv, PubSubInv', up, NEW t \in Streams, NEW c, NEW s,
         NEW pruned, NEW left, NEW max, NEW x, NEW scan, NEW scanned,
         Scanning(t, c, s, pruned, left, max, x, scan, scanned), c # NoValue, max > 0,
         TakeSome(t, c, left, scan, scanned, x, PullUndo(pruned))
  PROVE  OrderedStep
<1>1. /\ IsWhole(workload, x, messageFile.nextMessageId)
      /\ IsWhole(workload, pruned, messageFile.nextMessageId) /\ Tidied(server, pruned, now)
      /\ s \in SubscriptionNames /\ max \in Nat /\ c.deadline \in Nat
  BY ScanStarts
<1>2. /\ s = c.subscription /\ x = LeasesExpired(RetentionCleaned(pruned))
      /\ scan = Scan(x, s, max) /\ scanned = Scanned(x, s, scan)
  BY DEF Scanning
<1>3. PICK deadline \in Nat : deadline = c.deadline
  BY <1>1
<1>4. PICK keep \in IF c.bytes THEN 1..Cardinality(scan.taken) ELSE {Cardinality(scan.taken)},
           w \in The(Working(x, c.subscription, scan, c.deadline)),
           outcome \in Outcomes :
        LET kept == {p \in scan.taken : Rank(p, scan.taken) <= keep}
            v == [w EXCEPT !.at = [p \in DOMAIN @ |->
                    IF p \in scan.taken \ kept THEN Unsent(@[p]) ELSE @[p]]]
        IN Persist(outcome, Stored(scanned, c.subscription, v), PullUndo(pruned))
  BY DEF TakeSome
<1>5. now \in Nat /\ now # 0
  BY Running
<1>6. PICK K, v : /\ K = {p \in scan.taken : Rank(p, scan.taken) <= keep}
                  /\ v = Refilled(w, Returned(w, scan.taken \ K))
  OBVIOUS
<1>7. w = Working(x, s, scan, deadline) /\ K \subseteq scan.taken
  BY <1>2, <1>3, <1>6 DEF The
<1>8. PICK z : z = Stored(Scanned(x, s, scan), s, v)
  OBVIOUS
<1>9. /\ x = LeasesExpired(RetentionCleaned(pruned)) /\ scan = Scan(x, s, max)
      /\ Persist(outcome, z, PullUndo(pruned))
  <2>1. v = [w EXCEPT !.at = [p \in DOMAIN @ |-> IF p \in scan.taken \ K THEN Unsent(@[p]) ELSE @[p]]]
    BY <1>6 DEF Refilled, Returned
  <2> QED
    BY ONLY <1>2, <1>4, <1>6, <1>8, <2>1
<1>10. HandsOut(v, x, s, scan, deadline, K, now)
  BY ONLY <1>1, <1>2, <1>3, <1>5, <1>6, <1>7, StreamHands
<1>11. DeadAcked(v, scan.dead)
  <2>1. DeadAcked(Refilled(w, Returned(w, scan.taken \ K)), scan.dead)
    BY ONLY <1>1, <1>3, <1>5, <1>7, <1>9, WorkingDead
  <2> QED
    BY <1>6, <2>1
<1>12. deadline \in Nat /\ outcome \in Outcomes
  BY <1>3
<1> QED
  BY ONLY PubSubInv, PubSubInv', up, <1>1, <1>8, <1>9, <1>10, <1>11, <1>12, OrderedHandout

\* A tick of a stream that scans
LEMMA ScanTickOrdered ==
  ASSUME PubSubInv, PubSubInv', NEW t \in Streams, ScanTick(t)
  PROVE  OrderedStep
<1>1. PICK c, s, pruned, left, max, x, scan, scanned :
        Scanning(t, c, s, pruned, left, max, x, scan, scanned)
  BY DEF Scanning
<1>2. up /\ streams[t] # NoValue
  BY DEF ScanTick, Open
<1>3. /\ c = streams[t] /\ s = c.subscription /\ pruned = PrunedServer(c)
      /\ left = StillOutstanding(pruned, c) /\ max = RemainingCapacity(c.limit, left)
      /\ x = LeasesExpired(RetentionCleaned(pruned)) /\ scan = Scan(x, s, max) /\ scanned = Scanned(x, s, scan)
  BY <1>1 DEF Scanning
<1>4. /\ max > 0
      /\ \/ TakeNothing(t, c, left, scan, scanned)
         \/ TakeSome(t, c, left, scan, scanned, x, PullUndo(pruned))
  BY <1>3 DEF ScanTick, The
<1>5. CASE TakeNothing(t, c, left, scan, scanned)
  <2>1. /\ IsWhole(workload, x, messageFile.nextMessageId) /\ Tidied(server, x, now)
        /\ s \in SubscriptionNames /\ max \in Nat
    BY ONLY PubSubInv, <1>1, <1>2, <1>3, <1>4, ScanStarts
  <2>2. now \in Nat /\ messageFile.nextMessageId \in Nat /\ server.nextAckId \in Nat
    BY <1>2, Running
  <2>3. ScannedFrom(scanned, x, Cardinality(scan.taken), scan.dead, now)
    BY ONLY <1>3, <2>1, <2>2, ScannedWhole
  <2>4. Cardinality(scan.taken) = 0 /\ server' = scanned
    BY <1>5, FS_EmptySet DEF TakeNothing
  <2>5. server'.nextAckId = server.nextAckId
    BY <2>1, <2>2, <2>3, <2>4 DEF ScannedFrom, Tidied
  <2> QED
    BY <2>5, SteadyServer
<1>6. CASE TakeSome(t, c, left, scan, scanned, x, PullUndo(pruned))
  BY ONLY PubSubInv, PubSubInv', <1>1, <1>2, <1>3, <1>4, <1>6, TakeSomeOrdered
<1> QED
  BY <1>4, <1>5, <1>6

\* A pull that finds nothing.
LEMMA EmptyPullOrdered ==
  ASSUME PubSubInv, PubSubInv', NEW s, PullMayReturn(s)
  PROVE  OrderedStep
<1>1. up
  BY DEF PullMayReturn
<1>2. IsWhole(workload, server, messageFile.nextMessageId) /\ now \in Nat /\ now # 0
  BY <1>1, Running
<1>3. Tidied(server, LeasesExpired(server), now)
  BY <1>2, ExpiredWhole
<1>4. server'.nextAckId = server.nextAckId
  BY <1>3 DEF PullMayReturn, Tidied
<1> QED
  BY <1>4, SteadyServer

\* The other steps of streams
LEMMA StreamsOrdered ==
  ASSUME PubSubInv, PubSubInv', NEW t \in Streams, NEW s, NEW request, NEW ids, ids \subseteq given,
         NEW deadline, deadline = NoValue \/ deadline \in Nat,
         \/ OpenStream(t, s, request) \/ StreamRequest(t, ids, deadline) \/ IdleTick(t) \/ CloseStream(t)
  PROVE  OrderedStep
<1>1. up
  BY DEF OpenStream, StreamRequest, IdleTick, CloseStream
<1>2. /\ IsWhole(workload, server, messageFile.nextMessageId) /\ now \in Nat /\ now # 0
      /\ AreStreams(workload, streams, server.deliveries, now, given)
  BY <1>1, Running
<1>3. CASE OpenStream(t, s, request)
  BY <1>3, SteadyServer DEF OpenStream
<1>4. CASE StreamRequest(t, ids, deadline)
  <2>1. PICK c, u, x, y : /\ c = streams[t] /\ u = c.subscription
                          /\ x = LeasesExpired(server) /\ y = AnsweredServer(x, u, ids, deadline)
    OBVIOUS
  <2>2. u \in SubscriptionNames
    BY <1>2, <1>4, <2>1 DEF StreamRequest, Open, AreStreams, IsStream
  <2>3. Steady(y)
    BY <1>1, <2>1, <2>2, AnswerSound DEF Steady, IsWhole
  <2>4. server' = server \/ \E outcome \in Outcomes : Persist(outcome, y, NoFields)
    BY <1>4, <2>1 DEF StreamRequest, The
  <2>5. "nextAckId" \notin DOMAIN NoFields
    BY DEF NoFields
  <2>6. CASE server' = server
    BY <2>6, SteadyServer
  <2>7. ASSUME NEW outcome \in Outcomes, Persist(outcome, y, NoFields)
        PROVE  OrderedStep
    BY <1>1, <2>3, <2>5, <2>7, SteadyPersist
  <2> QED
    BY <2>4, <2>6, <2>7
<1>5. CASE IdleTick(t)
  <2>1. PICK c, x : c = streams[t] /\ x = PrunedServer(c)
    OBVIOUS
  <2>2. server' = x
    BY <1>5, <2>1 DEF IdleTick, The
  <2>3. Tidied(server, x, now)
    BY <1>1, <2>1, PrunedTidy
  <2>4. server'.nextAckId = server.nextAckId
    BY <2>2, <2>3 DEF Tidied
  <2> QED
    BY <2>4, SteadyServer
<1>6. CASE CloseStream(t)
  <2>1. PICK c, u : c = streams[t] /\ u = c.subscription
    OBVIOUS
  <2>2. u \in SubscriptionNames
    BY <1>2, <1>6, <2>1 DEF CloseStream, AreStreams, IsStream
  <2>3. PICK ids2, zero, y : ids2 = c.outstanding /\ zero = 0 /\ y = AnsweredServer(server, u, ids2, zero)
    OBVIOUS
  <2>4. zero = NoValue \/ zero \in Nat
    BY <2>3
  <2>5. Steady(y)
    BY <1>2, <2>2, <2>3, <2>4, AnsweredWhole DEF Steady, IsWhole
  <2>6. PICK back : back = [deliveries |-> server.deliveries]
    OBVIOUS
  <2>7. y = Stored(server, u, [server.deliveries[u] EXCEPT !.at = [p \in DOMAIN @ |->
                      IF p \in Matching(server, u, c.outstanding) THEN Released(@[p]) ELSE @[p]]])
    BY <2>3, ReleaseAnswers
  <2>8. server' = server \/ \E outcome \in Outcomes : Persist(outcome, y, back)
    BY <1>6, <2>1, <2>6, <2>7 DEF CloseStream
  <2>9. "nextAckId" \notin DOMAIN back
    BY <2>6
  <2>10. CASE server' = server
    BY <2>10, SteadyServer
  <2>11. ASSUME NEW outcome \in Outcomes, Persist(outcome, y, back)
         PROVE  OrderedStep
    BY <1>1, <2>5, <2>9, <2>11, SteadyPersist
  <2> QED
    BY <2>8, <2>10, <2>11
<1> QED
  BY <1>3, <1>4, <1>5, <1>6

\* Calls for one subscription.
LEMMA UseSubscriptionOrdered ==
  ASSUME PubSubInv, PubSubInv', NEW s \in workload.subscriptions, UseSubscription(s)
  PROVE  OrderedStep
<1>1. s \in SubscriptionNames
  BY WorkloadTypes
<1>2. ASSUME NEW max \in workload.pulls, Pull(s, max)
      PROVE  OrderedStep
  BY <1>2, PullOrdered
<1>3. ASSUME NEW api \in workload.apis, NEW answer \in Answers, Answer(api, s, answer[1], answer[2])
      PROVE  OrderedStep
  <2>1. PICK ids, deadline : ids = answer[1] /\ deadline = answer[2]
    OBVIOUS
  <2>2. ids \subseteq given /\ (deadline = NoValue \/ deadline \in Nat)
    BY <2>1, AnswerTypes
  <2>3. Answer(api, s, ids, deadline)
    BY <1>3, <2>1
  <2> QED
    BY <1>1, <2>2, <2>3, AnswerOrdered
<1>4. ASSUME NEW api, NEW time, NEW n, SeekToTime(api, s, time) \/ SeekToSnapshot(api, s, n)
      PROVE  OrderedStep
  BY <1>4, SeeksOrdered
<1>5. CASE PullMayReturn(s)
  BY <1>5, EmptyPullOrdered
<1> QED
  BY <1>2, <1>3, <1>4, <1>5 DEF UseSubscription

\* Steps of one streaming pull.
LEMMA UseStreamOrdered ==
  ASSUME PubSubInv, PubSubInv', NEW t \in Streams, UseStream(t)
  PROVE  OrderedStep
<1>1. ASSUME NEW answer \in Answers, StreamRequest(t, answer[1], answer[2])
      PROVE  OrderedStep
  <2>1. PICK ids, deadline : ids = answer[1] /\ deadline = answer[2]
    OBVIOUS
  <2>2. ids \subseteq given /\ (deadline = NoValue \/ deadline \in Nat)
    BY <2>1, AnswerTypes
  <2>3. StreamRequest(t, ids, deadline)
    BY <1>1, <2>1
  <2> QED
    BY <2>2, <2>3, StreamsOrdered
<1>2. ASSUME NEW s, NEW request, OpenStream(t, s, request) \/ IdleTick(t) \/ CloseStream(t)
      PROVE  OrderedStep
  <2>1. PICK ids, deadline : ids = {} /\ deadline = NoValue
    OBVIOUS
  <2>2. ids \subseteq given /\ (deadline = NoValue \/ deadline \in Nat)
    BY <2>1
  <2> QED
    BY <1>2, <2>2, StreamsOrdered
<1> QED
  BY <1>1, <1>2, ScanTickOrdered DEF UseStream

\* Calls of clients.
LEMMA UseOrdered ==
  ASSUME PubSubInv, PubSubInv', Use
  PROVE  OrderedStep
<1>1. ASSUME NEW t, NEW retention, CreateTopic(t, retention)
      PROVE  OrderedStep
  <2>1. CreateTopic(t, retention) \/ UpdateTopic("rest", t, retention) \/ DeleteTopic("rest", t)
    BY <1>1
  <2> QED
    BY <2>1, TopicsOrdered
<1>2. ASSUME NEW api, NEW s, NEW request, CreateSubscription(api, s, request)
      PROVE  OrderedStep
  <2>1. \/ CreateSubscription(api, s, request) \/ UpdateSubscription(api, s, request)
        \/ ModifyPushConfig(api, s, FALSE)
    BY <1>2
  <2> QED
    BY <2>1, SubscriptionsOrdered
<1>3. ASSUME NEW t, NEW batch \in workload.batches, Publish(t, batch)
      PROVE  OrderedStep
  BY <1>3, PublishOrdered
<1>4. ASSUME NEW n, UseSnapshot(n)
      PROVE  OrderedStep
  <2>1. ASSUME NEW api, NEW s, CreateSnapshot(api, n, s) \/ DeleteSnapshot(n) \/ UpdateSnapshot(n)
        PROVE  OrderedStep
    BY <2>1, SnapshotsOrdered
  <2> QED
    BY <1>4, <2>1 DEF UseSnapshot
<1> QED
  BY <1>1, <1>2, <1>3, <1>4, UseSubscriptionOrdered, UseStreamOrdered DEF Use

\* Updates and deletions.
LEMMA ManageOrdered ==
  ASSUME PubSubInv, PubSubInv', Manage
  PROVE  OrderedStep
<1>1. ASSUME NEW api, NEW t, ManageTopic(api, t)
      PROVE  OrderedStep
  <2>1. ASSUME NEW retention, UpdateTopic(api, t, retention) \/ DeleteTopic(api, t)
        PROVE  OrderedStep
    <3>1. CreateTopic(t, retention) \/ UpdateTopic(api, t, retention) \/ DeleteTopic(api, t)
      BY <2>1
    <3> QED
      BY <3>1, TopicsOrdered
  <2> QED
    BY <1>1, <2>1 DEF ManageTopic
<1>2. ASSUME NEW api, NEW s, ManageSubscription(api, s)
      PROVE  OrderedStep
  <2>1. ASSUME NEW request, NEW push, UpdateSubscription(api, s, request) \/ ModifyPushConfig(api, s, push)
        PROVE  OrderedStep
    <3>1. \/ CreateSubscription(api, s, request) \/ UpdateSubscription(api, s, request)
          \/ ModifyPushConfig(api, s, push)
      BY <2>1
    <3> QED
      BY <3>1, SubscriptionsOrdered
  <2>2. CASE DeleteSubscription(api, s) \/ DetachSubscription(api, s)
    BY <2>2, EndsOrdered
  <2> QED
    BY <1>2, <2>1, <2>2 DEF ManageSubscription
<1> QED
  BY <1>1, <1>2 DEF Manage

\* Every step hands messages of one key out in order.
LEMMA OrderedNext ==
  ASSUME PubSubInv, PubSubInv', [Next]_vars
  PROVE  OrderedStep
<1>1. CASE Tick
  BY <1>1, SteadyServer DEF Tick
<1>2. CASE Crash
  BY <1>2, SteadyServer DEF Crash
<1>3. CASE Restart
  BY <1>3, SteadyServer DEF Restart
<1>4. CASE UNCHANGED vars
  BY <1>4, SteadyServer DEF vars
<1> QED
  BY <1>1, <1>2, <1>3, <1>4, UseOrdered, ManageOrdered DEF Next

\* THEOREM: messages of one ordering key are handed out in their order: a pull or a stream that
\* hands a record out leaves no unacknowledged record of the same key before it, and no later one
\* of the key is in a client's hands, whatever was expired, dead-lettered, sought, released by
\* bytes or saved in between, and through failed saves and restarts.
THEOREM DeliveryIsOrdered ==
  ASSUME NoSilentCopies
  PROVE  Spec => OrderedDelivery
<1>1. PubSubInv /\ [Next]_vars => PubSubInv'
  BY PubSubNext
<1>2. PubSubInv /\ PubSubInv' /\ [Next]_vars => OrderedStep
  BY OrderedNext
<1>3. PubSubInv /\ [Next]_vars
      => [\A s \in SubscriptionNames :
            up /\ up' /\ s \in DOMAIN server.subscriptions /\ server.subscriptions[s].ordering =>
              \A p, q \in Unacked(server'.deliveries[s]) :
                /\ RecordAt(server', s, p).ack[2] > server.nextAckId
                /\ p # q
                /\ SameKey(server', s, p, q)
                => q > p /\ RecordAt(server', s, q).lease <= now]_vars
  BY <1>1, <1>2 DEF OrderedStep
<1> QED
  BY <1>3, PubSubIsSound, PTL DEF Spec, OrderedDelivery

=============================================================================
