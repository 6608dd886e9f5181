------------------------------- MODULE PubSub -------------------------------
(***************************************************************************)
(* The Pub/Sub emulator (services/pubsub): topics, subscriptions with      *)
(* leased deliveries, ordering keys, retry backoff and dead-lettering,     *)
(* snapshots and seek, streaming pulls, and the two files the server is    *)
(* saved to: resources.json and pubsub.json.                               *)
(*                                                                         *)
(* REST and gRPC handlers run under one mutex and are one step each; a     *)
(* streaming pull is a task that takes the mutex once per client request   *)
(* and once per 10 ms tick.  Many operations exist twice, and the two      *)
(* differ in what they undo when persist() fails: `api` says which one is  *)
(* called.  persist() writes the files whose dirty flag is set, resources  *)
(* first, so a save can also end, or the process die, between the two.     *)
(*                                                                         *)
(* A Vec of delivery records is a function from positions to records, as   *)
(* in Sqs: a push takes a position above all earlier ones, and only the    *)
(* order of positions means anything.  A subscription without an entry in  *)
(* `deliveries` and one with an empty Vec are the same to every handler.   *)
(* Names, payloads and labels are opaque; a message's `data` is the id of  *)
(* the publish that made it, so that dead-letter copies share it.          *)
(***************************************************************************)
EXTENDS Integers, FiniteSets, FiniteSetsExt, Functions, Sequences

CONSTANTS
  TopicNames,
  SubscriptionNames,
  SnapshotNames,
  Streams,            \* streaming pull calls
  OrderingKeys,       \* non-empty ordering keys
  Attributes,         \* what a subscription filter can tell apart in a message
  NoValue,            \* an absent option or an empty string

  Workloads,          \* what clients do and what the server is configured with, one of:
                      \*   topics, subscriptions: the names in use
                      \*   apis: the protocols in use, "rest" and "grpc"
                      \*   snapshotApis: the protocols that create snapshots
                      \*   manages: topics and subscriptions are also updated and deleted
                      \*   creates: Subscription bodies of CreateSubscription
                      \*   updates: masked Subscription bodies of UpdateSubscription
                      \*   retentions: messageRetentionDuration values of topics
                      \*   batches: message lists of Publish, sequences of [key, attribute]
                      \*   pulls: maxMessages values
                      \*   deadlines: ackDeadlineSeconds values of ModifyAckDeadline
                      \*   seeks: targets of a seek by time
                      \*   streams: first requests of a stream, [limit, bytes, deadline]
                      \*   retention: message_retention_seconds; 0 switches the cleanup off
                      \*   faults: how saves go wrong, beyond a kill after the last write
                      \*   maxTime, maxMessages, maxAcks: bounds on the clock and the ids

  DefaultAckDeadline, \* default_ack_deadline_seconds
  MaxAckDeadline,     \* max_ack_deadline_seconds
  MaxPullMessages,    \* max_pull_messages
  AttemptLimits,      \* 5..100, the legal maxDeliveryAttempts
  SnapshotLifetime    \* the 7 days of snapshot_expire_time

VARIABLES
  workload,     \* the workload of this behaviour
  now,          \* the wall clock in seconds; 0 is ZERO_TIME
  up,           \* the process is running
  server,       \* struct Server
  resourceFile, \* resources.json
  messageFile,  \* pubsub.json
  streams,      \* the driver tasks of streaming pulls
  \* History, read by the properties and, for the ids they send, by clients:
  given,        \* ack ids that reached a client
  published,    \* message ids that reached a publisher
  owed,         \* deliveries that clients are still entitled to
  done,         \* deliveries that a client was told are acknowledged
  promised,     \* until when a client was told it holds a message
  born          \* the last message id given out when a subscription was created

fileVars == <<resourceFile, messageFile>>
historyVars == <<given, published, owed, done, promised, born>>
vars == <<workload, now, up, server, fileVars, streams, historyVars>>

-----------------------------------------------------------------------------
(***************************************************************************)
(* Data.                                                                   *)
(***************************************************************************)

Optional(S) == S \cup {NoValue}

NoFields == [x \in {} |-> x]

Without(f, S) == Restrict(f, DOMAIN f \ S)

With(f, x, y) == [z \in DOMAIN f \cup {x} |-> IF z = x THEN y ELSE f[z]]

\* The set of the value v alone: \E x \in The(v) gives v a name, and TLC computes v,
\* and the entries of its functions, once, where a LET would compute it at each use.
The(v) == {w \in {v} : w = v}

\* An ack id is "<message id>-<counter>"; the empty string has no message.
NoAck == <<0, 0>>

Record ==
  [message : Nat, ack : Nat \X Nat, lease : Nat, next : Nat, attempt : Nat, acked : BOOLEAN]

FreshRecord(id) ==
  [message |-> id, ack |-> NoAck, lease |-> 0, next |-> 0, attempt |-> 0, acked |-> FALSE]

EmptyVec == [at |-> NoFields, pushed |-> 0]

\* Vec::retain
Retain(v, S) == IF S = {} THEN EmptyVec ELSE [v EXCEPT !.at = Restrict(@, S)]

\* Pushes a fresh record for each id of `ids`, a function on part of 1..top, in order.
PushAll(v, ids, top) ==
  LET slots == {v.pushed + i : i \in DOMAIN ids} IN
  IF slots = {} THEN v
  ELSE [at |-> [p \in DOMAIN v.at \cup slots |->
                  IF p \in DOMAIN v.at THEN v.at[p] ELSE FreshRecord(ids[p - v.pushed])],
        pushed |-> v.pushed + top]

\* How many of the positions S come up to p.
Rank(p, S) == Cardinality({q \in S : q <= p})

MessagesIn(v) == {v.at[p].message : p \in DOMAIN v.at}

Unacked(v) == {p \in DOMAIN v.at : ~v.at[p].acked}

\* delivery::after: a zero time is never after the clock.
InForce(time) == time > now

Subscription ==
  [topic : Optional(TopicNames),   \* NoValue: "_deleted-topic_"
   detached : BOOLEAN,
   push : BOOLEAN,                 \* a push endpoint is configured
   ordering : BOOLEAN,
   retainAcked : BOOLEAN,
   ackDeadline : Nat,
   retention : Optional(Nat),
   filter : Optional(SUBSET Attributes),
   deadLetter : Optional([topic : TopicNames, max : Nat]),
   backoff : Optional([min : Nat, max : Optional(Nat)])]

SubscriptionDefaults ==
  [detached |-> FALSE, push |-> FALSE, ordering |-> FALSE, retainAcked |-> FALSE,
   ackDeadline |-> 0, retention |-> NoValue, filter |-> NoValue,
   deadLetter |-> NoValue, backoff |-> NoValue]

Blank ==
  [topics |-> NoFields, subscriptions |-> NoFields, snapshots |-> NoFields,
   messages |-> NoFields, deliveries |-> [s \in SubscriptionNames |-> EmptyVec],
   nextMessageId |-> 0, nextAckId |-> 0, resourceDirty |-> FALSE, messagesDirty |-> FALSE]

ASSUME ConstantsAssumption ==
  /\ NoValue \notin TopicNames \cup SubscriptionNames \cup OrderingKeys \cup Attributes \cup Nat
  /\ DefaultAckDeadline \in Nat \ {0}
  /\ MaxAckDeadline \in Nat
  /\ MaxPullMessages \in Nat \ {0}
  /\ AttemptLimits \subseteq Nat \ {0}
  /\ SnapshotLifetime \in Nat
  /\ \A w \in Workloads :
       /\ w.topics \subseteq TopicNames /\ w.subscriptions \subseteq SubscriptionNames
       /\ w.apis \subseteq {"rest", "grpc"} /\ w.snapshotApis \subseteq w.apis
       /\ w.faults \subseteq {"failed", "half", "halfKilled"}
       /\ {w.retention, w.maxTime, w.maxMessages, w.maxAcks} \subseteq Nat
       /\ w.deadlines \cup w.seeks \subseteq Nat /\ w.pulls \subseteq Int
       /\ \A request \in w.creates \cup w.updates :
            "ackDeadline" \in DOMAIN request => request.ackDeadline \in Nat
       /\ \A batch \in w.batches : batch \in Seq([key : Optional(OrderingKeys), attribute : Attributes])
       /\ \A request \in w.streams : request.limit \in Int /\ request.deadline \in Nat

\* A workload has clients that give subscriptions a dead-letter policy which is accepted.
DeadLetters(w) ==
  \E request \in w.creates \cup w.updates :
    /\ "deadLetter" \in DOMAIN request
    /\ request.deadLetter # NoValue
    /\ request.deadLetter.max \in AttemptLimits
    /\ request.deadLetter.topic \in w.topics

\* No workload lets a stream's scan copy dead letters without taking a message, which saves
\* nothing, while snapshots can carry what was copied into resources.json.
NoSilentCopies ==
  \A w \in Workloads : ~("grpc" \in w.snapshotApis /\ w.streams # {} /\ DeadLetters(w))

-----------------------------------------------------------------------------
(***************************************************************************)
(* Persistence.                                                            *)
(***************************************************************************)

\* What resources.json and pubsub.json hold.
ResourcesOf(x) ==
  [topics |-> x.topics, subscriptions |-> x.subscriptions, snapshots |-> x.snapshots]

MessagesOf(x) ==
  [messages |-> x.messages, deliveries |-> x.deliveries,
   nextMessageId |-> x.nextMessageId, nextAckId |-> x.nextAckId]

\* load() and load_message_state().
Loaded(resources, state) ==
  [topics |-> resources.topics, subscriptions |-> resources.subscriptions,
   snapshots |-> resources.snapshots,
   messages |-> state.messages, deliveries |-> state.deliveries,
   nextMessageId |-> Max({state.nextMessageId} \cup DOMAIN state.messages),
   nextAckId |-> state.nextAckId,
   resourceDirty |-> FALSE, messagesDirty |-> FALSE]

RetainsAcked(x, s) == s \in DOMAIN x.subscriptions /\ x.subscriptions[s].retainAcked

\* Mutant: snapshots do not keep messages alive.
ReferencedByDeliveries(x) ==
  UNION {LET v == x.deliveries[s] IN
         {v.at[p].message : p \in IF RetainsAcked(x, s) THEN DOMAIN v.at ELSE Unacked(v)} :
         s \in SubscriptionNames}

Referenced(x) ==
  UNION {LET v == x.deliveries[s] IN
         {v.at[p].message : p \in IF RetainsAcked(x, s) THEN DOMAIN v.at ELSE Unacked(v)} :
         s \in SubscriptionNames}
  \cup UNION {MessagesIn(x.snapshots[n].deliveries) : n \in DOMAIN x.snapshots}

\* cleanup_unreferenced_messages
Pruned(x) ==
  LET kept == DOMAIN x.messages \cap Referenced(x) IN
  [x EXCEPT !.messages = Restrict(@, kept),
            !.messagesDirty = @ \/ kept # DOMAIN x.messages]

\* How a call of persist() ends: every write done and reported, or done and the
\* process killed; the first write failed; resources.json written and pubsub.json
\* failed, or the process killed between the two.
Outcomes == {"saved", "killed"} \cup workload.faults

Killed(outcome) == outcome \in {"killed", "halfKilled"}

Failed(outcome) == outcome \in {"failed", "half"}

\* Puts the fields of `back` back into x.
PutBack(x, back) == [f \in DOMAIN x |-> IF f \in DOMAIN back THEN back[f] ELSE x[f]]

\* persist() with the server in state x; `back` has the fields that the handler
\* restores when persist() reports an error.
Persist(outcome, x, back) ==
  \E ready \in The(IF x.messagesDirty THEN Pruned(x) ELSE x) :
  LET resources == ready.resourceDirty /\ outcome # "failed"
      state     == ready.messagesDirty /\ outcome \in {"saved", "killed"}
      after     == [ready EXCEPT !.resourceDirty = @ /\ ~resources,
                                 !.messagesDirty = @ /\ ~state]
  IN /\ outcome \in {"half", "halfKilled"} => ready.resourceDirty /\ ready.messagesDirty
     /\ outcome = "failed" => ready.resourceDirty \/ ready.messagesDirty
     /\ resourceFile' = IF resources THEN ResourcesOf(ready) ELSE resourceFile
     /\ messageFile' = IF state THEN MessagesOf(ready) ELSE messageFile
     /\ up' = ~Killed(outcome)
     /\ server' = CASE Killed(outcome)    -> Blank
                    [] Failed(outcome)    -> PutBack(after, back)
                    [] outcome = "saved"  -> after

\* The tasks of streaming pulls die with the process.
StreamsAfter(outcome) == IF Killed(outcome) THEN [t \in Streams |-> NoValue] ELSE streams

Finish(outcome, x, back) == Persist(outcome, x, back) /\ streams' = StreamsAfter(outcome)

\* A handler that no history variable follows.
Change(x, back) ==
  /\ up
  /\ \E outcome \in Outcomes : Finish(outcome, x, back)
  /\ UNCHANGED <<now, historyVars>>

-----------------------------------------------------------------------------
(***************************************************************************)
(* Retention and leases: what the delivery handlers do first.              *)
(***************************************************************************)

SnapshotExpired(snapshot) == snapshot.expireTime <= now

\* subscription_message_retention_nanos
Retention(x, s) ==
  LET own   == x.subscriptions[s].retention
      topic == x.subscriptions[s].topic
  IN IF s \in DOMAIN x.subscriptions /\ own # NoValue THEN own
     ELSE IF s \in DOMAIN x.subscriptions /\ topic \in DOMAIN x.topics /\ x.topics[topic] # NoValue
          THEN x.topics[topic]
          ELSE workload.retention

\* Mutant: expired snapshots go without the flag that saves resources.json.
SnapshotsDroppedQuietly(x) ==
  [x EXCEPT !.snapshots = Without(@, {n \in DOMAIN @ : SnapshotExpired(@[n])})]

\* cleanup_expired_snapshots
SnapshotsDropped(x) ==
  LET expired == {n \in DOMAIN x.snapshots : SnapshotExpired(x.snapshots[n])} IN
  [x EXCEPT !.snapshots = Without(@, expired), !.resourceDirty = @ \/ expired # {}]

\* A record stays while its message is known and not older than the retention.
KeptFor(x, id, retention) ==
  id \in DOMAIN x.messages /\ x.messages[id].publishTime >= now - retention

TrimmedVec(x, v, retention) ==
  Retain(v, {p \in DOMAIN v.at : KeptFor(x, v.at[p].message, retention)})

\* The snapshot's model-only `backlog` ages with its records.
TrimmedSnapshot(x, snapshot) ==
  [snapshot EXCEPT !.deliveries = TrimmedVec(x, @, workload.retention),
                   !.backlog = {b \in @ : b.at >= now - workload.retention}]

\* cleanup_retained_messages
RetentionCleaned(x) ==
  LET y == SnapshotsDropped(x)
      deliveries == [s \in SubscriptionNames |-> TrimmedVec(y, y.deliveries[s], Retention(y, s))]
      snapshots  == [n \in DOMAIN y.snapshots |-> TrimmedSnapshot(y, y.snapshots[n])]
      shorter(v, w) == DOMAIN v.at # DOMAIN w.at
  IN IF workload.retention = 0 \/ y.messages = NoFields THEN y
     ELSE Pruned([y EXCEPT
            !.deliveries = deliveries,
            !.snapshots = snapshots,
            !.messagesDirty =
               @ \/ \E s \in SubscriptionNames : shorter(y.deliveries[s], deliveries[s]),
            !.resourceDirty =
               @ \/ \E n \in DOMAIN snapshots :
                      shorter(y.snapshots[n].deliveries, snapshots[n].deliveries)])

Released(r) == [r EXCEPT !.ack = NoAck, !.lease = 0, !.next = 0]

\* retry_backoff: doubled for every attempt after the first, up to the maximum.
RetryBackoff(x, s, attempt) ==
  IF s \notin DOMAIN x.subscriptions \/ x.subscriptions[s].backoff = NoValue THEN 0
  ELSE LET policy  == x.subscriptions[s].backoff
           doubled == policy.min * 2 ^ (IF attempt > 1 THEN attempt - 1 ELSE 0)
       IN IF policy.max # NoValue /\ doubled > policy.max THEN policy.max ELSE doubled

LeaseRanOut(r) == ~r.acked /\ r.lease # 0 /\ ~InForce(r.lease)

LeaseEnded(x, s, r) ==
  LET backoff == RetryBackoff(x, s, r.attempt) IN
  [r EXCEPT !.ack = NoAck, !.lease = 0, !.next = IF backoff > 0 THEN r.lease + backoff ELSE @]

\* expire_leases
Ended(x, s) ==
  [x.deliveries[s] EXCEPT !.at = [p \in DOMAIN @ |->
     IF LeaseRanOut(@[p]) THEN LeaseEnded(x, s, @[p]) ELSE @[p]]]

LeasesExpired(x) ==
  [x EXCEPT
     !.deliveries = [s \in SubscriptionNames |-> Ended(x, s)],
     !.messagesDirty = @ \/ \E s \in SubscriptionNames :
        \E p \in DOMAIN x.deliveries[s].at : LeaseRanOut(x.deliveries[s].at[p])]

\* compact_acked
Compacted(v, retainAcked) == IF retainAcked THEN v ELSE Retain(v, Unacked(v))

-----------------------------------------------------------------------------
(***************************************************************************)
(* The scan of a pull (pull, pull_with_ack_deadline_core).  The loop walks *)
(* the records of subscription s in order and stops when it has `max`      *)
(* messages; the set of ordering keys it blocks grows along the way.  The  *)
(* operators say, for each position p, what the loop does there.           *)
(***************************************************************************)

RecordAt(x, s, p) == x.deliveries[s].at[p]

MessageAt(x, s, p) == x.messages[RecordAt(x, s, p).message]

HasMessage(x, s, p) == RecordAt(x, s, p).message \in DOMAIN x.messages

LeasedAt(x, s) == {p \in Unacked(x.deliveries[s]) : InForce(RecordAt(x, s, p).lease)}

\* Unleased records that wait for their retry backoff.
WaitingAt(x, s) ==
  {p \in Unacked(x.deliveries[s]) \ LeasedAt(x, s) : InForce(RecordAt(x, s, p).next)}

\* Records the loop looks at with their message in hand.
ReadyAt(x, s) ==
  {p \in Unacked(x.deliveries[s]) \ (LeasedAt(x, s) \cup WaitingAt(x, s)) : HasMessage(x, s, p)}

\* dead_letter_target
DeadLetterTarget(x, s) ==
  LET policy == x.subscriptions[s].deadLetter IN
  IF policy # NoValue /\ policy.topic \in DOMAIN x.topics THEN policy ELSE NoValue

PoisonedAt(x, s) ==
  {p \in ReadyAt(x, s) :
     /\ DeadLetterTarget(x, s) # NoValue
     /\ RecordAt(x, s, p).attempt >= DeadLetterTarget(x, s).max}

SameKey(x, s, p, q) ==
  /\ HasMessage(x, s, p)
  /\ HasMessage(x, s, q)
  /\ MessageAt(x, s, p).key # NoValue
  /\ MessageAt(x, s, p).key = MessageAt(x, s, q).key

\* Mutant: a message in backoff does not hold its key back.
KeyBlockedIfReady(x, s, p, leased, holding) ==
  /\ x.subscriptions[s].ordering
  /\ \E q \in leased \cup {h \in holding \ WaitingAt(x, s) : h < p} : SameKey(x, s, p, q)

\* The key of p is blocked when the loop comes to p: by a leased record anywhere, or
\* by an earlier one of `holding`.
KeyBlocked(x, s, p, leased, holding) ==
  /\ x.subscriptions[s].ordering
  /\ \E q \in leased \cup {h \in holding : h < p} : SameKey(x, s, p, q)

\* The positions the loop takes and dead-letters.  Records in backoff, and those taken or
\* blocked themselves, hold their keys back from later ones.
Scan(x, s, max) ==
  LET ready     == ReadyAt(x, s)
      dead      == PoisonedAt(x, s)
      leased    == LeasedAt(x, s)
      holding   == WaitingAt(x, s) \cup (ready \ dead)
      available == {p \in ready \ dead : ~KeyBlocked(x, s, p, leased, holding)}
      reached   == {p \in ready : Cardinality({q \in available : q < p}) < max}
  IN [taken |-> available \cap reached, dead |-> dead \cap reached]

Taken(x, s, scan, deadline, p) ==
  LET r == RecordAt(x, s, p) IN
  [r EXCEPT !.ack = <<r.message, x.nextAckId + Rank(p, scan.taken)>>,
            !.lease = now + deadline,
            !.next = 0,
            !.attempt = @ + 1]

\* The subscription's records after the loop, dead-lettered ones acked.
Working(x, s, scan, deadline) ==
  [x.deliveries[s] EXCEPT !.at = [p \in DOMAIN @ |->
     CASE p \in scan.taken -> Taken(x, s, scan, deadline, p)
       [] p \in scan.dead  -> [Released(@[p]) EXCEPT !.acked = TRUE]
       [] OTHER            -> @[p]]]

\* The copies made of dead-lettered messages, by their new ids.
Copies(x, s, scan) ==
  [id \in {x.nextMessageId + Rank(p, scan.dead) : p \in scan.dead} |->
     LET p == CHOOSE q \in scan.dead : x.nextMessageId + Rank(q, scan.dead) = id IN
     [MessageAt(x, s, p) EXCEPT !.publishTime = now]]

\* Subscriptions that receive what is published to topic t.
Attached(x, t) ==
  {s \in DOMAIN x.subscriptions : x.subscriptions[s].topic = t /\ ~x.subscriptions[s].detached}

\* The server after the loop and the publication of the copies; the records of s
\* itself are still the old ones.
Scanned(x, s, scan) ==
  LET copies == Copies(x, s, scan)
      n      == Cardinality(DOMAIN copies)
  IN IF n = 0 THEN [x EXCEPT !.nextAckId = @ + Cardinality(scan.taken)]
     ELSE [x EXCEPT
       !.messages = [id \in DOMAIN @ \cup DOMAIN copies |->
                       IF id \in DOMAIN copies THEN copies[id] ELSE @[id]],
       !.deliveries = [c \in SubscriptionNames |->
          IF c \in Attached(x, DeadLetterTarget(x, s).topic)
          THEN PushAll(@[c], [i \in 1..n |-> x.nextMessageId + i], n)
          ELSE @[c]],
       !.nextMessageId = @ + n,
       !.nextAckId = @ + Cardinality(scan.taken)]

\* The working records replace those of s: a copy pushed to s itself goes with them.
Stored(x, s, v) ==
  [x EXCEPT !.deliveries[s] = Compacted(v, x.subscriptions[s].retainAcked),
            !.messagesDirty = TRUE]

WithinBounds(x) == x.nextMessageId <= workload.maxMessages /\ x.nextAckId <= workload.maxAcks

-----------------------------------------------------------------------------
(***************************************************************************)
(* History.                                                                *)
(***************************************************************************)

Due(s, id, at) == [sub |-> s, id |-> id, at |-> at]

Among(S, s, ids) == {o \in S : o.sub = s /\ o.id \in ids}

OfSubscription(S, s) == {o \in S : o.sub = s}

\* No client relies on subscription s any more.
Abandon(s) ==
  /\ owed' = owed \ OfSubscription(owed, s)
  /\ done' = done \ OfSubscription(done, s)
  /\ promised' = Without(promised, {k \in DOMAIN promised : k[1] = s})

\* The request for s took hold, or may have.
Touches(api, outcome) == api = "grpc" \/ ~Failed(outcome)

\* The messages at positions P of x were sent to a client as of subscription s; those
\* dead-lettered are owed to the subscriptions of the dead-letter topic instead.
Deliver(outcome, x, s, scan, P, deadline) ==
  LET ids    == {RecordAt(x, s, p).message : p \in P}
      dead   == {RecordAt(x, s, p).message : p \in scan.dead}
      copies == Copies(x, s, scan)
  IN IF outcome = "saved"
     THEN /\ given' = given \cup {Taken(x, s, scan, deadline, p).ack : p \in P}
          /\ promised' = [k \in DOMAIN promised \cup {<<s, id>> : id \in ids} |->
                            IF k \in {<<s, id>> : id \in ids} THEN now + deadline
                            ELSE promised[k]]
          /\ owed' = (owed \ Among(owed, s, dead)) \cup
                       {Due(c, id, now) :
                          c \in IF dead = {} THEN {} ELSE Attached(x, DeadLetterTarget(x, s).topic),
                          id \in DOMAIN copies}
     ELSE /\ UNCHANGED <<given, promised>>
          /\ owed' = IF Failed(outcome) THEN owed ELSE owed \ Among(owed, s, dead)

-----------------------------------------------------------------------------
(***************************************************************************)
(* Topics and subscriptions.                                               *)
(***************************************************************************)

\* create_topic, grpc_create_topic
CreateTopic(t, retention) ==
  /\ t \notin DOMAIN server.topics
  /\ Change([server EXCEPT !.topics = With(@, t, retention), !.resourceDirty = TRUE],
            [topics |-> server.topics])

\* patch_topic, grpc_update_topic: only REST restores the topic.
UpdateTopic(api, t, retention) ==
  /\ t \in DOMAIN server.topics
  /\ Change([server EXCEPT !.topics = With(@, t, retention), !.resourceDirty = TRUE],
            IF api = "rest" THEN [topics |-> server.topics] ELSE NoFields)

\* grpc_delete_topic: subscriptions that point at t point at "_deleted-topic_".
Orphaned(subscriptions, t) ==
  [s \in DOMAIN subscriptions |->
     [subscriptions[s] EXCEPT !.topic = IF @ = t THEN NoValue ELSE @]]

\* delete_topic refuses while a subscription is attached; grpc_delete_topic leaves
\* its subscriptions without a topic.
DeleteTopic(api, t) ==
  /\ t \in DOMAIN server.topics
  /\ api = "rest" => Attached(server, t) = {}
  /\ Change([server EXCEPT
               !.topics = Without(@, {t}),
               !.subscriptions = IF api = "rest" THEN @ ELSE Orphaned(@, t),
               !.resourceDirty = TRUE],
            [topics |-> server.topics, subscriptions |-> server.subscriptions])

\* validate_dead_letter_policy, dead_letter_topic_exists and validate_retry_policy
ValidPolicies(request) ==
  /\ "deadLetter" \in DOMAIN request /\ request.deadLetter # NoValue =>
       /\ request.deadLetter.max \in AttemptLimits
       /\ request.deadLetter.topic \in DOMAIN server.topics
  /\ "backoff" \in DOMAIN request /\ request.backoff # NoValue =>
       (request.backoff.max # NoValue => request.backoff.min <= request.backoff.max)

\* An ackDeadlineSeconds of zero stands for the default.
AckDeadlineOr(deadline) == IF deadline = 0 THEN DefaultAckDeadline ELSE deadline

NewSubscription(request) ==
  LET body == [f \in DOMAIN SubscriptionDefaults \cup {"topic"} |->
                 IF f \in DOMAIN request THEN request[f] ELSE SubscriptionDefaults[f]]
  IN [body EXCEPT !.ackDeadline = AckDeadlineOr(@)]

\* create_subscription, grpc_create_subscription: only REST compares the ack deadline
\* with its maximum, and only gRPC also drops the deliveries of a failed creation.
CreateSubscription(api, s, request) ==
  LET created == NewSubscription(request) IN
  /\ up
  /\ s \notin DOMAIN server.subscriptions
  /\ request.topic \in DOMAIN server.topics
  /\ api = "rest" => created.ackDeadline <= MaxAckDeadline
  /\ ValidPolicies(request)
  /\ \E outcome \in Outcomes :
       /\ Finish(outcome,
                 [server EXCEPT !.subscriptions = With(@, s, created), !.resourceDirty = TRUE],
                 [subscriptions |-> server.subscriptions,
                  deliveries |-> IF api = "rest" THEN server.deliveries
                                 ELSE [server.deliveries EXCEPT ![s] = EmptyVec]])
       /\ born' = IF Failed(outcome) THEN born ELSE [born EXCEPT ![s] = server.nextMessageId]
  /\ UNCHANGED <<now, given, published, owed, done, promised>>

\* The fields of an update mask replace those of the subscription.
Updated(subscription, request) ==
  [f \in DOMAIN subscription |->
     IF f \notin DOMAIN request THEN subscription[f]
     ELSE IF f = "ackDeadline" THEN AckDeadlineOr(request[f]) ELSE request[f]]

\* patch_subscription, grpc_update_subscription: only REST restores the subscription.
UpdateSubscription(api, s, request) ==
  /\ s \in DOMAIN server.subscriptions
  /\ "ackDeadline" \in DOMAIN request => request.ackDeadline <= MaxAckDeadline
  /\ ValidPolicies(request)
  /\ Change([server EXCEPT !.subscriptions[s] = Updated(@, request), !.resourceDirty = TRUE],
            IF api = "rest" THEN [subscriptions |-> server.subscriptions] ELSE NoFields)

\* modify_push_config, grpc_modify_push_config: only REST restores the subscription.
ModifyPushConfig(api, s, push) ==
  /\ s \in DOMAIN server.subscriptions
  /\ Change([server EXCEPT !.subscriptions[s].push = push, !.resourceDirty = TRUE],
            IF api = "rest" THEN [subscriptions |-> server.subscriptions] ELSE NoFields)

SnapshotsOf(s) == {n \in DOMAIN server.snapshots : server.snapshots[n].subscription = s}

\* A handler that ends the deliveries of s and puts everything back on failure.
Retire(s, x) ==
  /\ up
  /\ \E outcome \in Outcomes :
       /\ Finish(outcome, [x EXCEPT !.resourceDirty = TRUE, !.messagesDirty = TRUE],
                 [subscriptions |-> server.subscriptions, snapshots |-> server.snapshots,
                  deliveries |-> server.deliveries, messages |-> server.messages])
       /\ IF outcome = "failed" THEN UNCHANGED <<owed, done, promised>> ELSE Abandon(s)
  /\ UNCHANGED <<now, given, published, born>>

\* delete_subscription also removes the snapshots, grpc_delete_subscription does not.
SubscriptionRemoved(api, s) ==
  [server EXCEPT !.subscriptions = Without(@, {s}),
                 !.deliveries[s] = EmptyVec,
                 !.snapshots = IF api = "rest" THEN Without(@, SnapshotsOf(s)) ELSE @]

DeleteSubscription(api, s) ==
  /\ s \in DOMAIN server.subscriptions
  /\ Retire(s, SubscriptionRemoved(api, s))

\* detach_subscription keeps the deliveries, grpc_detach_subscription drops them.
Detached(api, s) ==
  [server EXCEPT !.subscriptions[s].detached = TRUE,
                 !.deliveries[s] = IF api = "rest" THEN @ ELSE EmptyVec,
                 !.snapshots = Without(@, SnapshotsOf(s))]

DetachSubscription(api, s) ==
  /\ s \in DOMAIN server.subscriptions
  /\ Retire(s, Detached(api, s))

-----------------------------------------------------------------------------
(***************************************************************************)
(* Messages.                                                               *)
(***************************************************************************)

\* subscription_matches_message
Matches(subscription, message) ==
  subscription.filter = NoValue \/ message.attribute \in subscription.filter

\* The entries of a batch that go to subscription s.
Takes(t, batch, s) ==
  {i \in DOMAIN batch : s \in Attached(server, t) /\ Matches(server.subscriptions[s], batch[i])}

\* The server with the messages of a batch, numbered in order, and their deliveries.
Published(t, batch) ==
  LET base  == server.nextMessageId
      n     == Len(batch)
      fresh == [m \in base + 1 .. base + n |->
                  [publishTime |-> now, key |-> batch[m - base].key,
                   attribute |-> batch[m - base].attribute, data |-> m]]
  IN [server EXCEPT
        !.messages = [m \in DOMAIN @ \cup DOMAIN fresh |->
                        IF m \in DOMAIN fresh THEN fresh[m] ELSE @[m]],
        !.deliveries = [s \in SubscriptionNames |->
                          PushAll(@[s], [i \in Takes(t, batch, s) |-> base + i], n)],
        !.nextMessageId = @ + n,
        !.messagesDirty = TRUE]

\* publish, grpc_publish
Publish(t, batch) ==
  LET id(i) == server.nextMessageId + i IN
  /\ up
  /\ t \in DOMAIN server.topics
  /\ \E sent \in The(Published(t, batch)), outcome \in Outcomes :
       /\ WithinBounds(sent)
       /\ Finish(outcome, sent,
                 [nextMessageId |-> server.nextMessageId, messages |-> server.messages,
                  deliveries |-> server.deliveries])
       /\ IF outcome = "saved"
          THEN /\ published' = published \cup {id(i) : i \in DOMAIN batch}
               /\ owed' = owed \cup UNION {{Due(s, id(i), now) : i \in Takes(t, batch, s)} :
                                           s \in SubscriptionNames}
          ELSE UNCHANGED <<published, owed>>
  /\ UNCHANGED <<now, given, done, promised, born>>

\* Pulls and streams are refused when s is detached or pushes.
Pullable(x, s) ==
  s \in DOMAIN x.subscriptions /\ ~x.subscriptions[s].detached /\ ~x.subscriptions[s].push

AckDeadline(subscription) == AckDeadlineOr(subscription.ackDeadline)

\* The fields a failed pull puts back.
PullUndo(x) ==
  [messages |-> x.messages, deliveries |-> x.deliveries, snapshots |-> x.snapshots,
   nextMessageId |-> x.nextMessageId, nextAckId |-> x.nextAckId]

\* maxMessages is at least 1 and at most max_pull_messages.
PullMax(max) == IF max <= 0 THEN 1 ELSE Min({max, MaxPullMessages})

\* pull, grpc_pull
Pull(s, max) ==
  /\ up
  /\ Pullable(server, s)
  /\ \E x \in The(LeasesExpired(RetentionCleaned(server))) :
     \E scan \in The(Scan(x, s, PullMax(max))),
        deadline \in The(AckDeadline(server.subscriptions[s])) :
     \E y \in The(Stored(Scanned(x, s, scan), s, Working(x, s, scan, deadline))) :
       /\ WithinBounds(y)
       /\ \E outcome \in Outcomes :
            /\ Finish(outcome, y, PullUndo(server))
            /\ Deliver(outcome, x, s, scan, scan.taken, deadline)
  /\ UNCHANGED <<now, published, done, born>>

\* grpc_pull_may_return, which a blocking gRPC pull calls every 10 ms for up to a
\* second before it pulls: it ends leases without saving.
PullMayReturn(s) ==
  /\ up
  /\ Pullable(server, s)
  /\ server' = LeasesExpired(server)
  /\ UNCHANGED <<now, up, fileVars, streams, historyVars>>

\* The records an ack or a new deadline for `ids` applies to.
Matching(x, s, ids) == {p \in Unacked(x.deliveries[s]) : RecordAt(x, s, p).ack \in ids}

\* An ack (deadline NoValue), a release (0) or a new lease for one record.
Answered(r, deadline) ==
  CASE deadline = NoValue -> [Released(r) EXCEPT !.acked = TRUE]
    [] deadline = 0       -> Released(r)
    [] OTHER              -> [r EXCEPT !.lease = now + deadline, !.next = 0]

\* update_ack_deadlines, grpc_update_ack_deadline
AnsweredServer(x, s, ids, deadline) ==
  Stored(x, s, [x.deliveries[s] EXCEPT !.at =
                  [p \in DOMAIN @ |-> IF p \in Matching(x, s, ids) THEN Answered(@[p], deadline)
                                      ELSE @[p]]])

\* What the clients know after an answer: a refused one leaves a REST client where it
\* was, while a gRPC client can rely on nothing it tried to give up.
AnswerHistory(api, outcome, x, s, ids, deadline) ==
  LET touched == {RecordAt(x, s, p).message : p \in Matching(x, s, ids)}
      keys    == {<<s, id>> : id \in touched}
      sooner(k) == IF promised[k] < now + deadline THEN promised[k] ELSE now + deadline
  IN CASE ~Touches(api, outcome) -> UNCHANGED <<owed, done, promised>>
       [] Touches(api, outcome) /\ deadline = NoValue ->
            /\ owed' = owed \ Among(owed, s, touched)
            /\ done' = IF outcome # "saved" THEN done
                       ELSE done \cup {Due(s, id, x.messages[id].publishTime) :
                                         id \in touched \cap DOMAIN x.messages}
            /\ promised' = Without(promised, keys)
       [] Touches(api, outcome) /\ deadline = 0 ->
            /\ promised' = Without(promised, keys)
            /\ UNCHANGED <<owed, done>>
       [] OTHER ->
            /\ promised' = [k \in DOMAIN promised |->
                              IF k \notin keys THEN promised[k]
                              ELSE IF outcome = "saved" THEN now + deadline ELSE sooner(k)]
            /\ UNCHANGED <<owed, done>>

\* acknowledge and modify_ack_deadline, and their gRPC twins, which undo nothing.
Answer(api, s, ids, deadline) ==
  /\ up
  /\ s \in DOMAIN server.subscriptions
  /\ deadline # NoValue => deadline <= MaxAckDeadline
  /\ \E x \in The(LeasesExpired(server)), outcome \in Outcomes :
       /\ Finish(outcome, AnsweredServer(x, s, ids, deadline),
                 IF api = "rest" THEN [deliveries |-> server.deliveries, messages |-> server.messages]
                 ELSE NoFields)
       /\ AnswerHistory(api, outcome, x, s, ids, deadline)
  /\ UNCHANGED <<now, given, published, born>>

-----------------------------------------------------------------------------
(***************************************************************************)
(* Snapshots and seek.                                                     *)
(***************************************************************************)

\* snapshot_deliveries: the unacked records, without their leases.
SnapshotDeliveries(v) ==
  Retain([v EXCEPT !.at = [p \in DOMAIN @ |-> Released(@[p])]], Unacked(v))

\* What the subscription had not acknowledged, with publish times (model only).
Backlog(s) ==
  {[id |-> id, at |-> server.messages[id].publishTime] :
     id \in {RecordAt(server, s, p).message : p \in Unacked(server.deliveries[s])}
            \cap DOMAIN server.messages}

\* create_snapshot records no delivery, grpc_create_snapshot those of the backlog.
SnapshotOf(api, s) ==
  [subscription |-> s, expireTime |-> now + SnapshotLifetime,
   deliveries |-> IF api = "rest" THEN EmptyVec ELSE SnapshotDeliveries(server.deliveries[s]),
   backlog |-> Backlog(s)]

CreateSnapshot(api, n, s) ==
  /\ n \notin DOMAIN server.snapshots
  /\ s \in DOMAIN server.subscriptions
  /\ Change([server EXCEPT !.snapshots = With(@, n, SnapshotOf(api, s)), !.resourceDirty = TRUE],
            [snapshots |-> server.snapshots])

\* delete_snapshot, grpc_delete_snapshot
DeleteSnapshot(n) ==
  /\ n \in DOMAIN server.snapshots
  /\ Change([server EXCEPT !.snapshots = Without(@, {n}),
                           !.resourceDirty = TRUE, !.messagesDirty = TRUE],
            [snapshots |-> server.snapshots, messages |-> server.messages])

\* grpc_update_snapshot: labels only.
UpdateSnapshot(n) ==
  /\ n \in DOMAIN server.snapshots
  /\ ~SnapshotExpired(server.snapshots[n])
  /\ Change([server EXCEPT !.resourceDirty = TRUE], NoFields)

\* seek, grpc_seek once the records to replay are known; gRPC undoes nothing.
Replace(api, s, replayed, due) ==
  /\ up
  /\ \E outcome \in Outcomes :
       /\ Finish(outcome, [server EXCEPT !.deliveries[s] = replayed, !.messagesDirty = TRUE],
                 IF api = "rest" THEN [deliveries |-> server.deliveries, messages |-> server.messages]
                 ELSE NoFields)
       /\ IF ~Touches(api, outcome) THEN UNCHANGED <<owed, done, promised>>
          ELSE /\ owed' = (owed \ OfSubscription(owed, s)) \cup
                            (IF outcome = "saved" THEN due ELSE {})
               /\ done' = done \ OfSubscription(done, s)
               /\ promised' = Without(promised, {k \in DOMAIN promised : k[1] = s})
  /\ UNCHANGED <<now, given, published, born>>

\* seek_deliveries_by_time: what is kept of s and was published at or after `time`.
SeekToTime(api, s, time) ==
  LET v == server.deliveries[s]
      replayed == Retain([v EXCEPT !.at = [p \in DOMAIN @ |-> FreshRecord(@[p].message)]],
                         {p \in DOMAIN v.at : HasMessage(server, s, p)
                                              /\ MessageAt(server, s, p).publishTime >= time})
      retained == IF RetainsAcked(server, s) THEN done ELSE {}
  IN
  /\ s \in DOMAIN server.subscriptions
  /\ Replace(api, s, replayed, {o \in OfSubscription(owed \cup retained, s) : o.at >= time})

SeekToSnapshot(api, s, n) ==
  /\ s \in DOMAIN server.subscriptions
  /\ n \in DOMAIN server.snapshots
  /\ ~SnapshotExpired(server.snapshots[n])
  /\ server.snapshots[n].subscription = s
  /\ Replace(api, s, SnapshotDeliveries(server.snapshots[n].deliveries),
             {Due(s, b.id, b.at) : b \in server.snapshots[n].backlog})

-----------------------------------------------------------------------------
(***************************************************************************)
(* Streaming pulls (grpc.rs): a driver task per stream.  `outstanding` is  *)
(* the task's own map of the ack ids it sent; `sent` is history.  Byte     *)
(* flow control is a flag: sizes are left open, so a stream with a byte    *)
(* limit may find itself full or send any non-empty prefix of a batch.  A  *)
(* client request carries acks, or one new deadline.                       *)
(***************************************************************************)

StreamsWith(outcome, t, stream) ==
  IF Killed(outcome) THEN [u \in Streams |-> NoValue] ELSE [streams EXCEPT ![t] = stream]

Open(t) == streams[t] # NoValue /\ ~streams[t].closing

\* streaming_pull up to the start of its task
OpenStream(t, s, request) ==
  /\ up
  /\ streams[t] = NoValue
  /\ request.deadline <= MaxAckDeadline
  /\ Pullable(server, s)
  /\ streams' = [streams EXCEPT ![t] =
       [subscription |-> s, limit |-> request.limit, bytes |-> request.bytes,
        deadline |-> AckDeadlineOr(request.deadline),
        outstanding |-> {}, sent |-> {}, closing |-> FALSE]]
  /\ UNCHANGED <<now, up, server, fileVars, historyVars>>

\* apply_streaming_pull_request: an error ends the stream.
StreamRequest(t, ids, deadline) ==
  LET c == streams[t]
      s == c.subscription
      left == IF deadline = NoValue \/ deadline = 0 THEN c.outstanding \ ids ELSE c.outstanding
      ended == [c EXCEPT !.closing = TRUE]
  IN
  /\ up
  /\ Open(t)
  /\ IF s \in DOMAIN server.subscriptions /\ (deadline # NoValue => deadline <= MaxAckDeadline)
     THEN \E x \in The(LeasesExpired(server)), outcome \in Outcomes :
            /\ Persist(outcome, AnsweredServer(x, s, ids, deadline), NoFields)
            /\ streams' = StreamsWith(outcome, t,
                            IF Failed(outcome) THEN ended ELSE [c EXCEPT !.outstanding = left])
            /\ AnswerHistory("grpc", outcome, x, s, ids, deadline)
     ELSE /\ streams' = [streams EXCEPT ![t] = ended]
          /\ UNCHANGED <<up, server, fileVars, owed, done, promised>>
  /\ UNCHANGED <<now, given, published, born>>

\* Mutant: what is outstanding is not subtracted.
WholeLimit(limit, outstanding) == IF limit <= 0 THEN 1 ELSE limit

\* streaming_has_capacity and streaming_remaining_capacity, by message count
RemainingCapacity(limit, outstanding) ==
  IF limit <= 0 THEN 1 ELSE limit - Cardinality(outstanding)

\* grpc_prune_outstanding: the server, and the ack ids that still hold a lease.
PrunedServer(c) == IF c.outstanding = {} THEN server ELSE LeasesExpired(server)

StillOutstanding(x, c) ==
  {RecordAt(x, c.subscription, p).ack : p \in LeasedAt(x, c.subscription)} \cap c.outstanding

\* release_unsent_streaming_ack_id
Unsent(r) == [Released(r) EXCEPT !.attempt = @ - 1]

\* A tick of the task that finds no room, nothing to send, or no subscription.
IdleTick(t) ==
  /\ up
  /\ Open(t)
  /\ \E c \in {streams[t]} : \E x \in The(PrunedServer(c)) :
     LET left == StillOutstanding(x, c)
         full == RemainingCapacity(c.limit, left) <= 0
         pullable == Pullable(x, c.subscription)
         nothing == pullable /\ x.deliveries[c.subscription] = EmptyVec
     IN /\ \/ /\ full \/ (c.bytes /\ left # {}) \/ nothing
              /\ streams' = [streams EXCEPT ![t].outstanding = left]
           \/ /\ ~full /\ ~pullable
              /\ streams' = [streams EXCEPT ![t].outstanding = left, ![t].closing = TRUE]
        /\ server' = x
  /\ UNCHANGED <<now, up, fileVars, historyVars>>

\* A scan that takes no message returns at once: what it dead-lettered was copied, but
\* the records stay as they were and nothing is marked or saved.
TakeNothing(t, c, left, scan, scanned) ==
  /\ scan.taken = {}
  /\ server' = scanned
  /\ streams' = [streams EXCEPT ![t].outstanding = left]
  /\ UNCHANGED <<up, fileVars, given, owed, promised>>

\* The task sends the messages taken, or, with a byte limit, the first of them, and gives
\* the others back.
TakeSome(t, c, left, scan, scanned, x, back) ==
  \E keep \in IF c.bytes THEN 1..Cardinality(scan.taken) ELSE {Cardinality(scan.taken)},
     working \in The(Working(x, c.subscription, scan, c.deadline)),
     outcome \in Outcomes :
  LET kept == {p \in scan.taken : Rank(p, scan.taken) <= keep}
      acks == {working.at[p].ack : p \in kept}
      v == [working EXCEPT !.at = [p \in DOMAIN @ |->
              IF p \in scan.taken \ kept THEN Unsent(@[p]) ELSE @[p]]]
      sending == [c EXCEPT !.outstanding = left \cup acks, !.sent = @ \cup acks]
      ended == [c EXCEPT !.outstanding = left, !.closing = TRUE]
  IN /\ scan.taken # {}
     /\ Persist(outcome, Stored(scanned, c.subscription, v), back)
     /\ streams' = StreamsWith(outcome, t, IF Failed(outcome) THEN ended ELSE sending)
     /\ Deliver(outcome, x, c.subscription, scan, kept, c.deadline)

\* A tick that scans the subscription (grpc_streaming_response).
ScanTick(t) ==
  /\ up
  /\ Open(t)
  /\ \E c \in {streams[t]} : \E s \in {c.subscription}, pruned \in The(PrunedServer(c)) :
     \E left \in The(StillOutstanding(pruned, c)) :
     \E max \in {RemainingCapacity(c.limit, left)},
        x \in The(LeasesExpired(RetentionCleaned(pruned))) :
       /\ max > 0
       /\ Pullable(pruned, s)
       /\ pruned.deliveries[s] # EmptyVec
       /\ \E scan \in The(Scan(x, s, max)) : \E scanned \in The(Scanned(x, s, scan)) :
            /\ WithinBounds(scanned)
            /\ \/ TakeNothing(t, c, left, scan, scanned)
               \/ TakeSome(t, c, left, scan, scanned, x, PullUndo(pruned))
  /\ UNCHANGED <<now, published, done, born>>

\* The client ends the stream, or an error did: grpc_release_outstanding gives the
\* outstanding leases back.  A failed save restores the records only.
CloseStream(t) ==
  LET c == streams[t]
      s == c.subscription
      hit == Matching(server, s, c.outstanding)
      released == [server.deliveries[s] EXCEPT !.at = [p \in DOMAIN @ |->
                     IF p \in hit THEN Released(@[p]) ELSE @[p]]]
      keys == {<<s, RecordAt(server, s, p).message>> : p \in hit}
  IN
  /\ up
  /\ streams[t] # NoValue
  /\ IF s \in DOMAIN server.subscriptions /\ hit # {}
     THEN \E outcome \in Outcomes :
            /\ Persist(outcome, Stored(server, s, released), [deliveries |-> server.deliveries])
            /\ streams' = StreamsWith(outcome, t, NoValue)
     ELSE /\ streams' = [streams EXCEPT ![t] = NoValue]
          /\ UNCHANGED <<up, server, fileVars>>
  /\ promised' = Without(promised, keys)
  /\ UNCHANGED <<now, given, published, owed, done, born>>

-----------------------------------------------------------------------------
(***************************************************************************)
(* The specification.                                                      *)
(***************************************************************************)

Tick ==
  /\ now < workload.maxTime
  /\ now' = now + 1
  /\ UNCHANGED <<up, server, fileVars, streams, historyVars>>

Crash ==
  /\ up
  /\ up' = FALSE
  /\ server' = Blank
  /\ streams' = [t \in Streams |-> NoValue]
  /\ UNCHANGED <<now, fileVars, historyVars>>

\* Server::new
Restart ==
  /\ ~up
  /\ up' = TRUE
  /\ server' = Loaded(resourceFile, messageFile)
  /\ UNCHANGED <<now, fileVars, streams, historyVars>>

Init ==
  /\ workload \in Workloads
  /\ now = 1
  /\ up = TRUE
  /\ server = Blank
  /\ resourceFile = ResourcesOf(Blank)
  /\ messageFile = MessagesOf(Blank)
  /\ streams = [t \in Streams |-> NoValue]
  /\ given = {}
  /\ published = {}
  /\ owed = {}
  /\ done = {}
  /\ promised = NoFields
  /\ born = [s \in SubscriptionNames |-> 0]

\* Answers clients may send: acks of any ids they were given, or one new deadline.
Answers == ({ids \in SUBSET given : ids # {}} \X {NoValue}) \cup ({{id} : id \in given} \X workload.deadlines)

ManageTopic(api, t) ==
  \/ \E retention \in workload.retentions : UpdateTopic(api, t, retention)
  \/ DeleteTopic(api, t)

ManageSubscription(api, s) ==
  \/ \E request \in workload.updates : UpdateSubscription(api, s, request)
  \/ \E push \in BOOLEAN : ModifyPushConfig(api, s, push)
  \/ DeleteSubscription(api, s)
  \/ DetachSubscription(api, s)

UseSubscription(s) ==
  \/ \E max \in workload.pulls : Pull(s, max)
  \/ PullMayReturn(s)
  \/ \E api \in workload.apis, answer \in Answers : Answer(api, s, answer[1], answer[2])
  \/ \E api \in workload.apis, time \in workload.seeks : SeekToTime(api, s, time)
  \/ \E api \in workload.apis, n \in SnapshotNames : SeekToSnapshot(api, s, n)

UseSnapshot(n) ==
  \/ \E api \in workload.snapshotApis, s \in workload.subscriptions : CreateSnapshot(api, n, s)
  \/ DeleteSnapshot(n)
  \/ UpdateSnapshot(n)

UseStream(t) ==
  \/ \E s \in workload.subscriptions, request \in workload.streams : OpenStream(t, s, request)
  \/ \E answer \in Answers : StreamRequest(t, answer[1], answer[2])
  \/ IdleTick(t)
  \/ ScanTick(t)
  \/ CloseStream(t)

Use ==
  \/ \E t \in workload.topics : \E retention \in workload.retentions : CreateTopic(t, retention)
  \/ \E api \in workload.apis, s \in workload.subscriptions, request \in workload.creates :
       CreateSubscription(api, s, request)
  \/ \E t \in workload.topics, batch \in workload.batches : Publish(t, batch)
  \/ \E s \in workload.subscriptions : UseSubscription(s)
  \/ \E n \in SnapshotNames : UseSnapshot(n)
  \/ \E t \in Streams : UseStream(t)

Manage ==
  /\ workload.manages
  /\ \E api \in workload.apis :
       \/ \E t \in workload.topics : ManageTopic(api, t)
       \/ \E s \in workload.subscriptions : ManageSubscription(api, s)

Next ==
  /\ UNCHANGED workload
  /\ Use \/ Manage \/ Tick \/ Crash \/ Restart

Spec == Init /\ [][Next]_vars

-----------------------------------------------------------------------------
(***************************************************************************)
(* Properties.                                                             *)
(***************************************************************************)

IsVec(v) ==
  /\ DOMAIN v = {"at", "pushed"}
  /\ v.pushed \in Nat
  /\ DOMAIN v.at \subseteq 1..v.pushed
  /\ \A p \in DOMAIN v.at : v.at[p] \in Record

\* Every part of the server, of its two files and of the streams has the shape the
\* handlers rely on; a down server is blank.
TypeOK ==
  /\ now \in Nat \ {0}
  /\ DOMAIN server = DOMAIN Blank
  /\ ~up => server = Blank
  /\ \A x \in {server, Loaded(resourceFile, messageFile)} :
       /\ DOMAIN x.topics \subseteq TopicNames
       /\ DOMAIN x.subscriptions \subseteq SubscriptionNames
       /\ \A s \in DOMAIN x.subscriptions :
            /\ DOMAIN x.subscriptions[s] = DOMAIN SubscriptionDefaults \cup {"topic"}
            /\ x.subscriptions[s].topic \in Optional(TopicNames)
            /\ x.subscriptions[s].ackDeadline \in Nat \ {0}
       /\ \A s \in SubscriptionNames : IsVec(x.deliveries[s])
       /\ DOMAIN x.snapshots \subseteq SnapshotNames
       /\ \A n \in DOMAIN x.snapshots : IsVec(x.snapshots[n].deliveries)
       /\ \A id \in DOMAIN x.messages : id \in 1..x.nextMessageId
       /\ x.nextAckId \in Nat
  /\ \A t \in Streams : streams[t] # NoValue => up /\ streams[t].outstanding \subseteq streams[t].sent

\* The server as it is, and as a restart would find it.
Views == (IF up THEN {server} ELSE {}) \cup {Loaded(resourceFile, messageFile)}

Pending(x, s, id) == \E p \in Unacked(x.deliveries[s]) : RecordAt(x, s, p).message = id

\* A message whose publish was confirmed, or that a confirmed pull dead-lettered or a
\* confirmed seek brought back, stays deliverable to each of its subscriptions, in memory
\* and across restarts, until it is acknowledged, dead-lettered or out of retention: no
\* other client's call, failed save, cleanup or crash takes its record or its message.
NothingLost ==
  \A x \in Views, o \in owed :
    workload.retention = 0 \/ now - o.at <= Retention(x, o.sub) =>
      /\ o.sub \in DOMAIN x.subscriptions
      /\ o.id \in DOMAIN x.messages
      /\ Pending(x, o.sub, o.id)

\* A client that was told it holds a message until some time holds it until then, whatever
\* other pulls, streams, failed saves and restarts happen, unless someone released it.
LeaseHonoured ==
  up => \A k \in DOMAIN promised : promised[k] > now =>
    \A p \in Unacked(server.deliveries[k[1]]) :
      RecordAt(server, k[1], p).message = k[2] => RecordAt(server, k[1], p).lease >= promised[k]

\* A confirmed ack is final: the message does not come back to the subscription, not
\* even through a failed save or a restart, unless a seek asks for it.
AckIsFinal == \A x \in Views, o \in done : ~Pending(x, o.sub, o.id)

\* Ids that reached a client are behind the counters, in memory and in pubsub.json, so no
\* restart or undone pull gives an ack id or a message id to something else.
IdsFresh ==
  \A x \in Views :
    /\ \A ack \in given : ack[2] <= x.nextAckId
    /\ \A id \in published : id <= x.nextMessageId

\* server.rs:92: what resources.json would be written from has not changed since the
\* last successful write, unless resource_dirty says so.
ResourcesTracked == up /\ ~server.resourceDirty => resourceFile = ResourcesOf(server)

\* server.rs:96: likewise for messages, deliveries and messages_dirty.
MessagesTracked == up /\ ~server.messagesDirty => messageFile = MessagesOf(server)

\* A subscription has no delivery of a message published before it was created: deleting
\* a subscription leaves nothing that a later one of the same name would inherit.
StrayFree ==
  \A x \in Views : \A s \in DOMAIN x.subscriptions :
    \A id \in MessagesIn(x.deliveries[s]) : id > born[s]

\* With ordering enabled, a message is handed out only when every other unacknowledged
\* message of its key comes later and is in nobody's hands.
OrderedDelivery ==
  [][\A s \in SubscriptionNames :
       up /\ up' /\ s \in DOMAIN server.subscriptions /\ server.subscriptions[s].ordering =>
         \A p, q \in Unacked(server'.deliveries[s]) :
           /\ RecordAt(server', s, p).ack[2] > server.nextAckId
           /\ p # q
           /\ SameKey(server', s, p, q)
           => q > p /\ RecordAt(server', s, q).lease <= now]_vars

\* A stream's client never holds more leases from the stream than the limit it set,
\* counting those whose deadline it moved and those another client released.
FlowControl ==
  up => \A t \in Streams : streams[t] # NoValue /\ streams[t].limit > 0 =>
    Cardinality({p \in LeasedAt(server, streams[t].subscription) :
                   RecordAt(server, streams[t].subscription, p).ack \in streams[t].sent})
      <= streams[t].limit

\* docs/design-pubsub-compat.md:646: a snapshot holds what its subscription had not
\* acknowledged, as far as it is within retention.
SnapshotCaptures ==
  \A x \in Views : \A n \in DOMAIN x.snapshots : \A b \in x.snapshots[n].backlog :
    workload.retention = 0 \/ now - b.at <= workload.retention =>
      b.id \in MessagesIn(x.snapshots[n].deliveries)

\* Nothing a client is entitled to goes, from its subscriptions or its snapshots, and nothing
\* it is done with comes back.
DeliveriesKept == NothingLost /\ AckIsFinal /\ StrayFree /\ SnapshotCaptures

\* What clients were told of leases and ids holds, streams' limits included.
LeasesKept == LeaseHonoured /\ FlowControl /\ IdsFresh

\* The dirty flags never miss a change that a file does not have, and what is saved loads.
FilesTracked == TypeOK /\ ResourcesTracked /\ MessagesTracked

=============================================================================
