-------------------------------- MODULE Sqs --------------------------------
(***************************************************************************)
(* The SQS emulator (services/sqs): queues of messages with visibility     *)
(* leases, FIFO groups and deduplication, dead-letter redrive, message     *)
(* move tasks, long polls, and the state.json file every mutation is       *)
(* saved to.                                                               *)
(*                                                                         *)
(* One mutex guards the server, so a handler is one step; only a long poll *)
(* gives the lock back between its attempts.  Every mutation ends in       *)
(* persist(), which may fail (the handler then undoes what it changed) or  *)
(* may be the last thing the process does: it is killed after the rename   *)
(* of state.json and before the reply.                                     *)
(*                                                                         *)
(* A queue's `messages` Vec is a function from positions to messages: push *)
(* takes a position above all earlier ones (`pushed` is the highest handed *)
(* out), retain() restricts the function, and only the order of positions  *)
(* means anything.  ARNs and URLs are in bijection with names and are      *)
(* written as names.  Bodies, attributes and digests of messages are left  *)
(* out, except the body's SHA-256 as a deduplication key.                  *)
(***************************************************************************)
EXTENDS Integers, FiniteSets, Functions, Sequences

CONSTANTS
  QueueNames,        \* valid queue names
  FifoNames,         \* the names that end in ".fifo"
  MsgIds,            \* the ids new_opaque_id("msg") may return
  Groups,            \* MessageGroupId values
  DedupIds,          \* MessageDeduplicationId values
  Contents,          \* SHA-256 digests of message bodies
  Consumers,         \* clients of ReceiveMessage
  NoValue,           \* an absent option or an empty string

  DefaultAttributes, \* default_queue_attributes()
  CreateRequests,    \* attribute maps a CreateQueue may carry
  UpdateRequests,    \* attribute maps a SetQueueAttributes may carry
  DelayInputs,       \* DelaySeconds values of SendMessage
  VisibilityInputs,  \* VisibilityTimeout values of requests
  BatchInputs,       \* MaxNumberOfMessages values
  AttemptInputs,     \* attempts of a long poll: WaitTimeSeconds * 10 + 1
  TagKeys,           \* queue tag keys
  Labels,            \* permission labels (statement ids of the policy)

  DedupWindow,       \* FIFO_DEDUPLICATION_WINDOW_SECONDS
  MaxDelay,          \* MAX_DELAY_SECONDS
  MaxVisibility,     \* MAX_VISIBILITY_TIMEOUT_SECONDS
  MinRetention,      \* lower limit of MessageRetentionPeriod
  MaxQueues,         \* max_queues()
  MaxReceiveBatch,   \* max_receive_batch_size()

  MaxTime,           \* bound on the clock
  MaxDeliveries,     \* bound on the receipt handles of one message, for new calls
  MaxCreates,        \* bound on the queues ever created
  MaxTasks           \* bound on the recorded move tasks

VARIABLES
  now,        \* the wall clock; 0 is ZERO_TIME, before every clock reading
  up,         \* the process is running
  queues,     \* Server::queues
  moveTasks,  \* Server::move_tasks, in the order they were started
  disk,       \* the content of state.json
  polls,      \* the ReceiveMessage calls that are asleep between attempts
  issued,     \* message ids new_opaque_id("msg") has returned
  minted,     \* receipt handles new_opaque_id("rct") has returned, by message
  creates,    \* created_at stamps handed out (nanosecond clock readings)
  \* History, read by the properties and by no action:
  accepted,   \* the sends that reached state.json, in order
  removed,    \* ids deleted, purged or dropped with their queue
  lease       \* until when the last consumer of a message was promised it

serverVars == <<up, queues, moveTasks, disk>>
stampVars == <<issued, minted, creates>>
historyVars == <<accepted, removed, lease>>
vars == <<now, serverVars, polls, stampVars, historyVars>>

-----------------------------------------------------------------------------
(***************************************************************************)
(* Data.                                                                   *)
(***************************************************************************)

Optional(S) == S \cup {NoValue}

DedupKeys == DedupIds \cup Contents

\* The attributes the server acts on, and their values.  FifoQueue keeps its
\* spelling: CreateQueue compares it with "true", everything else ignores case.
AttributeValues ==
  [fifo |-> {"unset", "false", "true", "TRUE"},
   contentBased |-> BOOLEAN,
   delay |-> Nat,
   retention |-> Nat,
   visibility |-> Nat,
   redrive |-> Optional([target : QueueNames, max : Nat]),
   allow |-> Optional([permission : {"allowAll", "denyAll", "byQueue"},
                       sources : SUBSET QueueNames]),
   policy |-> SUBSET Labels]

AreAttributes(attributes) ==
  /\ attributes = [a \in DOMAIN AttributeValues |-> attributes[a]]
  /\ \A a \in DOMAIN AttributeValues : attributes[a] \in AttributeValues[a]

Message ==
  [id : MsgIds,
   sentAt : Nat,
   availableAt : Nat,
   invisibleUntil : Nat,
   receiveCount : Nat,
   receiptHandle : Nat,          \* 0: the empty handle
   deleted : BOOLEAN,
   group : Optional(Groups),
   sequence : Nat,               \* 0: the empty sequence number
   deadLetterSource : Optional(QueueNames)]

ASSUME ConstantsAssumption ==
  /\ FifoNames \subseteq QueueNames
  /\ NoValue \notin QueueNames \cup Groups \cup DedupKeys
  /\ DelayInputs \subseteq Nat
  /\ VisibilityInputs \subseteq Nat
  /\ BatchInputs \subseteq Int
  /\ AttemptInputs \subseteq Nat \ {0}
  /\ DedupWindow \in Nat
  /\ MaxDelay \in Nat
  /\ MaxVisibility \in Nat
  /\ MinRetention \in Nat
  /\ MaxReceiveBatch \in Nat \ {0}
  /\ AreAttributes(DefaultAttributes)
  /\ \A request \in CreateRequests \cup UpdateRequests :
       \A a \in DOMAIN request \cap DOMAIN AttributeValues : request[a] \in AttributeValues[a]

NoFields == [x \in {} |-> x]

Without(f, S) == Restrict(f, DOMAIN f \ S)

With(f, x, y) == [z \in DOMAIN f \cup {x} |-> IF z = x THEN y ELSE f[z]]

\* attributes.insert(k, v) for every entry of the request.
Merged(attributes, request) ==
  [a \in DOMAIN AttributeValues |->
     IF a \in DOMAIN request THEN request[a] ELSE attributes[a]]

IsTrue(text) == text \in {"true", "TRUE"}

IsFifo(name, attributes) == IsTrue(attributes.fifo) \/ name \in FifoNames

LivePositions(queue) == {p \in DOMAIN queue.messages : ~queue.messages[p].deleted}

LiveIds(queue) == {queue.messages[p].id : p \in LivePositions(queue)}

-----------------------------------------------------------------------------
(***************************************************************************)
(* Persistence.                                                            *)
(***************************************************************************)

\* The fields state.json leaves out when they are empty, and what load() puts
\* in their place.
OmittedWhenEmpty == [tags |-> {}, messages |-> NoFields, sequence |-> 0, dedup |-> NoFields]

QueueFields == {"createdAt", "attributes", "tags", "messages", "pushed", "sequence", "dedup"}

\* Mutant: the leases are not written.
SavedWithoutLeases(queue) ==
  [queue EXCEPT !.messages = [p \in DOMAIN @ |-> [@[p] EXCEPT !.invisibleUntil = 0]]]

\* Mutant: the deleted flag is not written.
SavedWithoutTombstones(queue) ==
  [queue EXCEPT !.messages = [p \in DOMAIN @ |-> [@[p] EXCEPT !.deleted = FALSE]]]

SavedQueue(queue) ==
  Without(queue, {f \in DOMAIN OmittedWhenEmpty : queue[f] = OmittedWhenEmpty[f]})

\* Mutants: a field is written and not read back.
LoadedWithoutDedup(saved) ==
  [f \in QueueFields |-> IF f \in DOMAIN saved \ {"dedup"} THEN saved[f] ELSE OmittedWhenEmpty[f]]

LoadedQueue(saved) ==
  [f \in QueueFields |-> IF f \in DOMAIN saved THEN saved[f] ELSE OmittedWhenEmpty[f]]

\* The queues a restart would find.
Load(file) == [n \in DOMAIN file.queues |-> LoadedQueue(file.queues[n])]

Saved(newQueues, newTasks) ==
  [queues |-> [n \in DOMAIN newQueues |-> SavedQueue(newQueues[n])], moveTasks |-> newTasks]

\* How a call of persist() ends.
Outcomes == {"saved", "failed", "killed"}

\* persist() with the server in its new state; `undo` is what the handler puts
\* back when persist() reports an error.
Persist(outcome, newQueues, newTasks, undo, undoTasks) ==
  CASE outcome = "saved"  -> /\ queues' = newQueues
                             /\ moveTasks' = newTasks
                             /\ disk' = Saved(newQueues, newTasks)
                             /\ UNCHANGED up
    [] outcome = "failed" -> /\ queues' = undo
                             /\ moveTasks' = undoTasks
                             /\ UNCHANGED <<disk, up>>
    [] outcome = "killed" -> /\ queues' = NoFields
                             /\ moveTasks' = <<>>
                             /\ disk' = Saved(newQueues, newTasks)
                             /\ up' = FALSE

\* Calls asleep in the server die with it.
PollsAfter(outcome) == IF outcome = "killed" THEN [c \in Consumers |-> NoValue] ELSE polls

Effective(outcome) == outcome # "failed"

-----------------------------------------------------------------------------
(***************************************************************************)
(* Queue management (server.rs).                                           *)
(***************************************************************************)

\* validate_queue_attributes: `attributes` are the queue's own, `request` what
\* the call sets.
ValidAttributes(name, attributes, request) ==
  /\ "delay" \in DOMAIN request => request.delay <= MaxDelay
  /\ "visibility" \in DOMAIN request => request.visibility <= MaxVisibility
  /\ "retention" \in DOMAIN request => request.retention >= MinRetention
  /\ "redrive" \in DOMAIN request /\ request.redrive # NoValue =>
       LET dlq == request.redrive.target IN
       /\ request.redrive.max >= 1
       /\ dlq \in DOMAIN queues
       /\ IsFifo(name, attributes) <=> IsFifo(dlq, queues[dlq].attributes)
       /\ LET allow == queues[dlq].attributes.allow IN
          allow # NoValue =>
            \/ allow.permission = "allowAll"
            \/ allow.permission = "byQueue" /\ name \in allow.sources

NewQueue(attributes, tags) ==
  [createdAt |-> creates + 1, attributes |-> attributes, tags |-> tags,
   messages |-> NoFields, pushed |-> 0, sequence |-> 0, dedup |-> NoFields]

\* create_queue for a new name; an existing name is returned or refused as is.
CreateQueue(n, request, tags) ==
  LET attributes == Merged(DefaultAttributes, request) IN
  /\ up
  /\ n \notin DOMAIN queues
  /\ attributes.fifo = "true" <=> n \in FifoNames
  /\ Cardinality(DOMAIN queues) < MaxQueues
  /\ ValidAttributes(n, attributes, request)
  /\ creates < MaxCreates
  /\ creates' = creates + 1
  /\ \E outcome \in Outcomes :
       LET created == With(queues, n, NewQueue(attributes, tags)) IN
       /\ Persist(outcome, created, moveTasks, Without(created, {n}), moveTasks)
       /\ polls' = PollsAfter(outcome)
  /\ UNCHANGED <<now, issued, minted, historyVars>>

\* The live messages of queue n leave the system if the call takes effect.
RemoveAll(outcome, n) ==
  removed' = IF Effective(outcome) THEN removed \cup LiveIds(queues[n]) ELSE removed

\* delete_queue
DeleteQueue(n) ==
  /\ up
  /\ n \in DOMAIN queues
  /\ \E outcome \in Outcomes :
       LET rest == Without(queues, {n}) IN
       /\ Persist(outcome, rest, moveTasks, With(rest, n, queues[n]), moveTasks)
       /\ polls' = PollsAfter(outcome)
       /\ RemoveAll(outcome, n)
  /\ UNCHANGED <<now, stampVars, accepted, lease>>

\* purge_queue: the messages go; the sequence and the deduplication entries stay.
PurgeQueue(n) ==
  /\ up
  /\ n \in DOMAIN queues
  /\ \E outcome \in Outcomes :
       LET purged == [queues EXCEPT ![n].messages = NoFields] IN
       /\ Persist(outcome, purged, moveTasks,
                  [purged EXCEPT ![n].messages = queues[n].messages], moveTasks)
       /\ polls' = PollsAfter(outcome)
       /\ RemoveAll(outcome, n)
  /\ UNCHANGED <<now, stampVars, accepted, lease>>

\* A handler that replaces one field of queue n and persists.
ReplaceField(n, field, value) ==
  /\ \E outcome \in Outcomes :
       LET changed == [queues EXCEPT ![n] = With(queues[n], field, value)] IN
       /\ Persist(outcome, changed, moveTasks, [changed EXCEPT ![n] = queues[n]], moveTasks)
       /\ polls' = PollsAfter(outcome)
  /\ UNCHANGED <<now, stampVars, historyVars>>

\* update_queue_attributes: the queue's type is judged before the merge.
UpdateQueueAttributes(n, request) ==
  /\ up
  /\ n \in DOMAIN queues
  /\ ValidAttributes(n, queues[n].attributes, request)
  /\ ReplaceField(n, "attributes", Merged(queues[n].attributes, request))

\* tag_queue and untag_queue
TagQueue(n, keys) ==
  /\ up
  /\ n \in DOMAIN queues
  /\ ReplaceField(n, "tags", queues[n].tags \cup keys)

UntagQueue(n, keys) ==
  /\ up
  /\ n \in DOMAIN queues
  /\ ReplaceField(n, "tags", queues[n].tags \ keys)

\* add_permission and remove_permission edit the Policy attribute.
AddPermission(n, label) ==
  /\ up
  /\ n \in DOMAIN queues
  /\ ReplaceField(n, "attributes", [queues[n].attributes EXCEPT !.policy = @ \cup {label}])

RemovePermission(n, label) ==
  /\ up
  /\ n \in DOMAIN queues
  /\ ReplaceField(n, "attributes", [queues[n].attributes EXCEPT !.policy = @ \ {label}])

-----------------------------------------------------------------------------
(***************************************************************************)
(* Messages (messages.rs).                                                 *)
(***************************************************************************)

\* Mutant: a message is dropped when its age reaches the retention period.
AtRetention(queue, m) ==
  /\ queue.attributes.retention > 0
  /\ now - m.sentAt >= queue.attributes.retention

OutOfRetention(queue, m) ==
  /\ queue.attributes.retention > 0
  /\ now - m.sentAt > queue.attributes.retention

\* cleanup_expired_messages
Cleaned(queue) ==
  [queue EXCEPT
     !.messages = Restrict(@, {p \in LivePositions(queue) : ~OutOfRetention(queue, @[p])}),
     !.dedup = Restrict(@, {k \in DOMAIN @ : now < @[k].expiresAt})]

CleanedAt(n) == [queues EXCEPT ![n] = Cleaned(@)]

\* The positions messages take when they are pushed after those of the queue.
Slots(queue, B) == {queue.pushed + b : b \in B}

\* Vec::push of several messages, given at increasing positions from 1 up to top.
PushAll(queue, batch, top) ==
  [queue EXCEPT
     !.messages = [p \in DOMAIN @ \cup Slots(queue, DOMAIN batch) |->
                     IF p \in DOMAIN @ THEN @[p] ELSE batch[p - queue.pushed]],
     !.pushed = @ + top]

Push(queue, m) == PushAll(queue, <<m>>, 1)

\* fifo_deduplication_id: a group is required, and an explicit id or
\* content-based deduplication.
DedupKey(attributes, request) ==
  CASE request.group = NoValue   -> NoValue
    [] request.dedup # NoValue   -> request.dedup
    [] attributes.contentBased   -> request.content
    [] OTHER                     -> NoValue

SendRequests ==
  [queue : QueueNames, group : Optional(Groups), dedup : Optional(DedupIds),
   content : Contents, delay : Optional(DelayInputs)]

DelayOf(queue, request) ==
  IF request.delay = NoValue THEN queue.attributes.delay ELSE request.delay

\* The errors send_message reports after the retention cleanup.
Refused(n, queue, request) ==
  \/ DelayOf(queue, request) > MaxDelay
  \/ IsFifo(n, queue.attributes) /\ DedupKey(queue.attributes, request) = NoValue

Duplicate(n, queue, request) ==
  IsFifo(n, queue.attributes) /\ DedupKey(queue.attributes, request) \in DOMAIN queue.dedup

\* A FIFO queue counts the message and remembers its deduplication key.
Entered(queue, key, id) ==
  [queue EXCEPT !.sequence = @ + 1,
                !.dedup = With(@, key, [expiresAt |-> now + DedupWindow, id |-> id])]

\* The part of send_message that stores the message.
StoreMessage(request, id, outcome) ==
  LET n        == request.queue
      queue    == Cleaned(queues[n])
      fifo     == IsFifo(n, queue.attributes)
      key      == DedupKey(queue.attributes, request)
      entered  == IF fifo THEN Entered(queue, key, id) ELSE queue
      sequence == IF fifo THEN entered.sequence ELSE 0
      m == [id |-> id, sentAt |-> now, availableAt |-> now + DelayOf(queue, request),
            invisibleUntil |-> 0, receiveCount |-> 0, receiptHandle |-> 0,
            deleted |-> FALSE, group |-> request.group, sequence |-> sequence,
            deadLetterSource |-> NoValue]
      sent == [queues EXCEPT ![n] = Push(entered, m)]
  IN
  /\ Persist(outcome, sent, moveTasks,
             [sent EXCEPT ![n].messages = queues[n].messages,
                          ![n].pushed = queues[n].pushed,
                          ![n].sequence = queues[n].sequence,
                          ![n].dedup = queues[n].dedup], moveTasks)
  /\ polls' = PollsAfter(outcome)
  /\ issued' = issued \cup {id}
  /\ accepted' = IF Effective(outcome)
                 THEN Append(accepted, [id |-> id, createdAt |-> queue.createdAt, at |-> now,
                                        key |-> IF fifo THEN key ELSE NoValue,
                                        sequence |-> sequence])
                 ELSE accepted
  /\ UNCHANGED <<now, minted, creates, removed, lease>>

\* send_message, and each entry of send_message_batch.  The early returns that
\* precede the retention cleanup change nothing; the later ones, and a duplicate,
\* leave the cleanup in memory only.
SendMessage(request) ==
  LET n     == request.queue
      queue == Cleaned(queues[n])
  IN
  /\ up
  /\ n \in DOMAIN queues
  /\ ~(IsFifo(n, queue.attributes) /\ request.delay # NoValue)
  /\ \/ /\ Refused(n, queue, request) \/ Duplicate(n, queue, request)
        /\ queues' = CleanedAt(n)
        /\ UNCHANGED <<now, up, moveTasks, disk, polls, stampVars, historyVars>>
     \/ /\ ~Refused(n, queue, request)
        /\ ~Duplicate(n, queue, request)
        /\ \E id \in MsgIds \ issued, outcome \in Outcomes : StoreMessage(request, id, outcome)

-----------------------------------------------------------------------------
(***************************************************************************)
(* Receiving.  The scan of receive_available_messages walks the messages   *)
(* in order and stops when it has `max` of them.  In a FIFO queue whatever *)
(* it does with the first live message of a group (deliver it, redrive it, *)
(* find it not ready) keeps the rest of that group out of this scan.       *)
(***************************************************************************)

\* The dead-letter queue of queue n, if it has a policy and the queue exists.
DeadLetterQueue(qs, n) ==
  LET policy == qs[n].attributes.redrive IN
  IF policy # NoValue /\ policy.target \in DOMAIN qs THEN policy.target ELSE NoValue

\* Mutant: groups do not block.
AnyInGroup(n, queue, p) == TRUE

HeadOfGroup(n, queue, p) ==
  \/ ~IsFifo(n, queue.attributes)
  \/ queue.messages[p].group = NoValue
  \/ \A e \in LivePositions(queue) :
       e < p => queue.messages[e].group # queue.messages[p].group

\* Mutant: visibility timeouts are ignored.
Available(m) == m.availableAt <= now

Ready(m) == m.availableAt <= now /\ m.invisibleUntil <= now

Considered(n, queue) ==
  {p \in LivePositions(queue) : HeadOfGroup(n, queue, p) /\ Ready(queue.messages[p])}

\* move_to_dlq_if_needed decides to move.
Poisoned(qs, n, m) ==
  /\ DeadLetterQueue(qs, n) # NoValue
  /\ m.receiveCount >= qs[n].attributes.redrive.max

Deliverable(qs, n) ==
  {p \in Considered(n, qs[n]) : ~Poisoned(qs, n, qs[n].messages[p])}

\* The scan has not stopped before position p.
Reached(qs, n, max, p) == Cardinality({d \in Deliverable(qs, n) : d < p}) < max

Delivered(qs, n, max) == {p \in Deliverable(qs, n) : Reached(qs, n, max, p)}

DeadLettered(qs, n, max) ==
  {p \in Considered(n, qs[n]) \ Deliverable(qs, n) : Reached(qs, n, max, p)}

\* Mutant: a message is left behind alive.
StillAlive(m) == [m EXCEPT !.receiptHandle = 0]

Tombstone(m) == [m EXCEPT !.deleted = TRUE, !.receiptHandle = 0]

Relocated(m, source) ==
  [m EXCEPT !.availableAt = now, !.invisibleUntil = 0, !.receiptHandle = 0,
            !.receiveCount = 0, !.deadLetterSource = source]

Leased(m, visibility) ==
  [m EXCEPT !.receiveCount = @ + 1, !.receiptHandle = minted[m.id] + 1,
            !.invisibleUntil = now + visibility]

\* The queues after one scan of queue n.
ReceiveScan(qs, n, max, visibility) ==
  LET out   == Delivered(qs, n, max)
      dead  == DeadLettered(qs, n, max)
      moved == [p \in dead |-> Relocated(qs[n].messages[p], n)]
      scanned == [qs EXCEPT ![n].messages =
                    [p \in DOMAIN @ |-> CASE p \in out  -> Leased(@[p], visibility)
                                          [] p \in dead -> Tombstone(@[p])
                                          [] OTHER      -> @[p]]]
  IN IF dead = {} THEN scanned
     ELSE [scanned EXCEPT ![DeadLetterQueue(qs, n)] = PushAll(@, moved, qs[n].pushed)]

Clamped(max) ==
  IF max < 1 THEN 1 ELSE IF max > MaxReceiveBatch THEN MaxReceiveBatch ELSE max

\* Mutant: only the source queue is put back.
SourceOnly(qs, n) == {n}

\* The queues a scan may change, which are put back when the save fails.
Touched(qs, n) == {n, DeadLetterQueue(qs, n)}

\* Mutants: an attempt is not counted, or counted twice.
SleepAgain(c, call, left) == [polls EXCEPT ![c] = call]

\* What the caller of a finished attempt does: a long poll with attempts left
\* and nothing to return goes back to sleep.
Sleep(c, call, left) == [polls EXCEPT ![c] = [call EXCEPT !.left = left]]

Answer(c) == [polls EXCEPT ![c] = NoValue]

VisibilityOf(queue, call) ==
  IF call.visibility = NoValue THEN queue.attributes.visibility ELSE call.visibility

\* The part of receive_available_messages that changes the store and saves it.
TakeMessages(c, call, left, outcome) ==
  LET n          == call.queue
      qs         == CleanedAt(n)
      visibility == VisibilityOf(qs[n], call)
      max        == Clamped(call.max)
      out        == Delivered(qs, n, max)
      ids        == {qs[n].messages[p].id : p \in out}
      scanned    == ReceiveScan(qs, n, max, visibility)
  IN
  /\ Persist(outcome, scanned, moveTasks,
             [k \in DOMAIN scanned |-> IF k \in Touched(qs, n) THEN queues[k] ELSE scanned[k]],
             moveTasks)
  /\ polls' = CASE outcome = "killed" -> PollsAfter(outcome)
                [] outcome = "saved" /\ out = {} /\ left > 0 -> Sleep(c, call, left)
                [] OTHER -> Answer(c)
  /\ minted' = [id \in MsgIds |-> IF id \in ids THEN minted[id] + 1 ELSE minted[id]]
  /\ lease' = IF outcome = "saved"
              THEN [id \in MsgIds |-> IF id \in ids THEN now + visibility ELSE lease[id]]
              ELSE lease
  /\ UNCHANGED <<now, issued, creates, accepted, removed>>

\* receive_messages_once on an existing queue, by consumer c with `left`
\* attempts still to come.
Attempt(c, call, left) ==
  LET n          == call.queue
      qs         == CleanedAt(n)
      visibility == VisibilityOf(qs[n], call)
      found      == Delivered(qs, n, Clamped(call.max)) \cup DeadLettered(qs, n, Clamped(call.max))
  IN
  \/ /\ visibility > MaxVisibility
     /\ queues' = qs
     /\ polls' = Answer(c)
     /\ UNCHANGED <<now, up, moveTasks, disk, stampVars, historyVars>>
  \/ /\ visibility <= MaxVisibility
     /\ found = {}
     /\ queues' = qs
     /\ polls' = IF left > 0 THEN Sleep(c, call, left) ELSE Answer(c)
     /\ UNCHANGED <<now, up, moveTasks, disk, stampVars, historyVars>>
  \/ /\ visibility <= MaxVisibility
     /\ found # {}
     /\ \E outcome \in Outcomes : TakeMessages(c, call, left, outcome)

\* ReceiveMessage: the first attempt pins the queue's identity (its ARN, here
\* its name, and its created_at).
ReceiveMessage(c, n, max, visibility, attempts) ==
  /\ up
  /\ polls[c] = NoValue
  /\ n \in DOMAIN queues
  /\ \A p \in Delivered(CleanedAt(n), n, Clamped(max)) :
       minted[queues[n].messages[p].id] < MaxDeliveries
  /\ Attempt(c, [queue |-> n, pin |-> queues[n].createdAt, left |-> attempts - 1,
                 max |-> max, visibility |-> visibility], attempts - 1)

\* Mutant: the poll is pinned to the name only.
SameName(call) == call.queue \in DOMAIN queues

\* The queue of that name is still the one the poll started on.
StillPinned(call) ==
  call.queue \in DOMAIN queues /\ queues[call.queue].createdAt = call.pin

\* A later attempt of a long poll, 100ms on: the pinned queue may be gone.
PollAgain(c) ==
  LET call == polls[c] IN
  /\ up
  /\ call # NoValue
  /\ \/ /\ StillPinned(call)
        /\ Attempt(c, call, call.left - 1)
     \/ /\ ~StillPinned(call)
        /\ polls' = Answer(c)
        /\ UNCHANGED <<now, serverVars, stampVars, historyVars>>

-----------------------------------------------------------------------------
(***************************************************************************)
(* Deleting and changing visibility, singly or in a batch: every entry is  *)
(* staged in memory and persist() is called once.  A handle that names no  *)
(* live message is refused without a trace.  A batch is a set of handles:  *)
(* deleting with one twice is refused the second time.                     *)
(***************************************************************************)

\* The handles clients have been given.
Handles == UNION {[id : {id}, n : 1..minted[id]] : id \in MsgIds}

Matches(queue, h) ==
  {p \in LivePositions(queue) : /\ queue.messages[p].id = h.id
                                /\ queue.messages[p].receiptHandle = h.n}

\* stage_receipted_mutation finds the first match.
Receipted(queue, batch) ==
  {p \in LivePositions(queue) :
     \E h \in batch : p \in Matches(queue, h) /\ \A e \in Matches(queue, h) : p <= e}

InFlight(m) == now < m.invisibleUntil

\* The receipted messages of queue n become what `mutated` says if they are in
\* flight; the handle of the others has expired and is cleared.
Staged(n, mutated) ==
  [queues EXCEPT ![n].messages =
     [p \in DOMAIN @ |-> CASE p \notin DOMAIN mutated -> @[p]
                           [] p \in DOMAIN mutated /\ InFlight(@[p]) -> mutated[p]
                           [] OTHER -> [@[p] EXCEPT !.receiptHandle = 0]]]

\* apply_staged_batch puts back the messages it staged.
Unstaged(staged, n, positions) ==
  [staged EXCEPT ![n].messages =
     [p \in DOMAIN @ |-> IF p \in positions THEN queues[n].messages[p] ELSE @[p]]]

\* delete_message and delete_message_batch
DeleteMessages(n, batch) ==
  /\ up
  /\ n \in DOMAIN queues
  /\ LET messages  == queues[n].messages
         positions == Receipted(queues[n], batch)
         staged    == Staged(n, [p \in positions |-> Tombstone(messages[p])])
     IN
     /\ positions # {}
     /\ \E outcome \in Outcomes :
          /\ Persist(outcome, staged, moveTasks, Unstaged(staged, n, positions), moveTasks)
          /\ polls' = PollsAfter(outcome)
          /\ removed' = IF Effective(outcome)
                        THEN removed \cup {messages[p].id : p \in {p \in positions :
                                                                     InFlight(messages[p])}}
                        ELSE removed
  /\ UNCHANGED <<now, stampVars, accepted, lease>>

\* change_message_visibility and change_message_visibility_batch; timeouts maps
\* each handle of the batch to its VisibilityTimeout.
ChangeVisibility(n, timeouts) ==
  /\ up
  /\ n \in DOMAIN queues
  /\ LET messages   == queues[n].messages
         batch      == {h \in DOMAIN timeouts : timeouts[h] <= MaxVisibility}
         positions  == Receipted(queues[n], batch)
         timeout(p) == timeouts[[id |-> messages[p].id, n |-> messages[p].receiptHandle]]
         staged     == Staged(n, [p \in positions |->
                                    [messages[p] EXCEPT !.invisibleUntil = now + timeout(p)]])
         extended   == {p \in positions : InFlight(messages[p])}
     IN
     /\ positions # {}
     /\ \E outcome \in Outcomes :
          /\ Persist(outcome, staged, moveTasks, Unstaged(staged, n, positions), moveTasks)
          /\ polls' = PollsAfter(outcome)
          /\ lease' = IF Effective(outcome)
                      THEN [id \in MsgIds |->
                              IF \E p \in extended : messages[p].id = id
                              THEN now + timeout(CHOOSE p \in extended : messages[p].id = id)
                              ELSE lease[id]]
                      ELSE lease
  /\ UNCHANGED <<now, stampVars, accepted, removed>>

-----------------------------------------------------------------------------
(***************************************************************************)
(* Move tasks (move_tasks.rs).                                             *)
(***************************************************************************)

\* Where each live message of the source would go: to the destination, or else
\* to the queue it was dead-lettered from.
MoveTargets(source, destination) ==
  [p \in LivePositions(queues[source]) |->
     IF destination # NoValue THEN destination
                              ELSE queues[source].messages[p].deadLetterSource]

Movable(target) == {p \in DOMAIN target : target[p] \in DOMAIN queues}

Bound(target, n) == {p \in DOMAIN target : target[p] = n}

\* The queues after the move: tombstones in the source, copies at their targets.
MovedQueues(source, target) ==
  LET messages == queues[source].messages
      cleared  == [queues EXCEPT ![source].messages =
                     [p \in DOMAIN @ |-> IF p \in Movable(target) THEN Tombstone(@[p]) ELSE @[p]]]
  IN [n \in DOMAIN queues |->
        IF Bound(target, n) = {} THEN cleared[n]
        ELSE PushAll(cleared[n],
                     [p \in Bound(target, n) |-> Relocated(messages[p], NoValue)],
                     queues[source].pushed)]

\* start_message_move_task: every live message is moved, in flight or not.
StartMessageMoveTask(source, destination) ==
  /\ up
  /\ source \in DOMAIN queues
  /\ destination \in Optional(DOMAIN queues)
  /\ Len(moveTasks) < MaxTasks
  /\ LET target  == MoveTargets(source, destination)
         moving  == Movable(target)
         moved   == MovedQueues(source, target)
         touched == {source} \cup {target[p] : p \in moving}
         task    == [source |-> source, destination |-> destination,
                     moved |-> Cardinality(moving)]
         ids     == {queues[source].messages[p].id : p \in moving}
     IN
     \E outcome \in Outcomes :
       /\ Persist(outcome, moved, Append(moveTasks, task),
                  [n \in DOMAIN moved |-> IF n \in touched THEN queues[n] ELSE moved[n]],
                  moveTasks)
       /\ polls' = PollsAfter(outcome)
       /\ lease' = IF Effective(outcome)
                   THEN [id \in MsgIds |-> IF id \in ids THEN 0 ELSE lease[id]]
                   ELSE lease
  /\ UNCHANGED <<now, stampVars, accepted, removed>>

-----------------------------------------------------------------------------
(***************************************************************************)
(* The environment, and the whole.                                         *)
(***************************************************************************)

Tick ==
  /\ now < MaxTime
  /\ now' = now + 1
  /\ UNCHANGED <<serverVars, polls, stampVars, historyVars>>

\* The process dies between two handlers.
Crash ==
  /\ up
  /\ up' = FALSE
  /\ queues' = NoFields
  /\ moveTasks' = <<>>
  /\ polls' = [c \in Consumers |-> NoValue]
  /\ UNCHANGED <<now, disk, stampVars, historyVars>>

\* Server::new and load()
Restart ==
  /\ ~up
  /\ up' = TRUE
  /\ queues' = Load(disk)
  /\ moveTasks' = disk.moveTasks
  /\ UNCHANGED <<now, disk, polls, stampVars, historyVars>>

\* A first start: no state.json.
Init ==
  /\ now = 1
  /\ up = TRUE
  /\ queues = NoFields
  /\ moveTasks = <<>>
  /\ disk = Saved(NoFields, <<>>)
  /\ polls = [c \in Consumers |-> NoValue]
  /\ issued = {}
  /\ minted = [id \in MsgIds |-> 0]
  /\ creates = 0
  /\ accepted = <<>>
  /\ removed = {}
  /\ lease = [id \in MsgIds |-> 0]

ManageQueue(n) ==
  \/ \E request \in CreateRequests, tags \in SUBSET TagKeys : CreateQueue(n, request, tags)
  \/ DeleteQueue(n)
  \/ PurgeQueue(n)
  \/ \E request \in UpdateRequests : UpdateQueueAttributes(n, request)
  \/ \E keys \in SUBSET TagKeys \ {{}} : TagQueue(n, keys) \/ UntagQueue(n, keys)
  \/ \E label \in Labels : AddPermission(n, label) \/ RemovePermission(n, label)

UseMessages(n) ==
  \/ \E c \in Consumers, max \in BatchInputs, visibility \in Optional(VisibilityInputs),
        attempts \in AttemptInputs : ReceiveMessage(c, n, max, visibility, attempts)
  \/ \E batch \in SUBSET Handles \ {{}} : DeleteMessages(n, batch)
  \/ \E batch \in SUBSET Handles \ {{}} :
       \E timeouts \in [batch -> VisibilityInputs] : ChangeVisibility(n, timeouts)
  \/ \E destination \in Optional(QueueNames) : StartMessageMoveTask(n, destination)

Next ==
  \/ \E n \in QueueNames : ManageQueue(n) \/ UseMessages(n)
  \/ \E request \in SendRequests : SendMessage(request)
  \/ \E c \in Consumers : PollAgain(c)
  \/ Tick
  \/ Crash
  \/ Restart

Spec == Init /\ [][Next]_vars

-----------------------------------------------------------------------------
(***************************************************************************)
(* Properties.                                                             *)
(***************************************************************************)

IsQueue(queue) ==
  /\ queue = [f \in QueueFields |-> queue[f]]
  /\ queue.createdAt \in Nat
  /\ AreAttributes(queue.attributes)
  /\ queue.tags \in SUBSET TagKeys
  /\ queue.pushed \in Nat
  /\ DOMAIN queue.messages \subseteq 1..queue.pushed
  /\ queue.messages \in [DOMAIN queue.messages -> Message]
  /\ queue.sequence \in Nat
  /\ DOMAIN queue.dedup \subseteq DedupKeys
  /\ queue.dedup \in [DOMAIN queue.dedup -> [expiresAt : Nat, id : MsgIds]]

AreQueues(qs) ==
  /\ DOMAIN qs \subseteq QueueNames
  /\ qs = [n \in DOMAIN qs |-> qs[n]]
  /\ \A n \in DOMAIN qs : IsQueue(qs[n])

MoveTask == [source : QueueNames, destination : Optional(QueueNames), moved : Nat]

Call == [queue : QueueNames, pin : Nat, left : Nat \ {0}, max : BatchInputs,
         visibility : Optional(VisibilityInputs)]

Acceptance == [id : MsgIds, createdAt : Nat, at : Nat, key : Optional(DedupKeys), sequence : Nat]

\* Every variable has its type, and so has what a restart would load from
\* state.json.
TypeOK ==
  /\ now \in Nat
  /\ up \in BOOLEAN
  /\ AreQueues(queues)
  /\ moveTasks \in Seq(MoveTask)
  /\ AreQueues(Load(disk))
  /\ disk.moveTasks \in Seq(MoveTask)
  /\ polls \in [Consumers -> Optional(Call)]
  /\ issued \subseteq MsgIds
  /\ minted \in [MsgIds -> Nat]
  /\ creates \in Nat
  /\ accepted \in Seq(Acceptance)
  /\ removed \subseteq MsgIds
  /\ lease \in [MsgIds -> Nat]

AllLiveIds(qs) == UNION {LiveIds(qs[n]) : n \in DOMAIN qs}

AcceptedIds == {accepted[i].id : i \in DOMAIN accepted}

\* A message is live in at most one place, in memory and on disk: redriving to a
\* dead-letter queue (move_to_dlq_if_needed), move tasks, failed saves with
\* their rollbacks and restarts never leave two copies that can be received.
SingleCopy(qs) ==
  \A n1, n2 \in DOMAIN qs :
    \A p1 \in LivePositions(qs[n1]), p2 \in LivePositions(qs[n2]) :
      qs[n1].messages[p1].id = qs[n2].messages[p2].id => n1 = n2 /\ p1 = p2

OneCopy == SingleCopy(queues) /\ SingleCopy(Load(disk))

\* A well-formed store whose live messages, one copy each, are all in ids.
Sound(qs, ids) == AreQueues(qs) /\ SingleCopy(qs) /\ AllLiveIds(qs) \subseteq ids

\* What was deleted, purged or dropped with its queue never comes back, not from
\* a rollback, a redrive, a deduplication entry or state.json after a crash.
NeverResurrected == removed \cap (AllLiveIds(queues) \cup AllLiveIds(Load(disk))) = {}

\* The shortest retention period a queue can have: requests are held to a lower
\* limit, the configured default is not.
ShortestRetention ==
  IF 0 < DefaultAttributes.retention /\ DefaultAttributes.retention < MinRetention
  THEN DefaultAttributes.retention ELSE MinRetention

\* A message whose send reached state.json can be received until it is removed
\* or is older than the shortest retention period a queue can have; a crash at
\* any point of any handler loses nothing.
NothingLost ==
  \A i \in DOMAIN accepted :
    \/ accepted[i].id \in removed
    \/ now - accepted[i].at > ShortestRetention
    \/ /\ up => accepted[i].id \in AllLiveIds(queues)
       /\ accepted[i].id \in AllLiveIds(Load(disk))

\* A send that was refused leaves no message behind, in memory or on disk.
NoPhantom == AllLiveIds(queues) \cup AllLiveIds(Load(disk)) \subseteq AcceptedIds

\* The inductive invariant behind OneCopy, NeverResurrected and NoPhantom: memory
\* and disk each hold single copies of messages that were accepted and not yet
\* removed, and ids are never issued twice.
LedgerInv ==
  /\ TypeOK
  /\ AcceptedIds \cup removed \subseteq issued
  /\ Sound(queues, AcceptedIds \ removed)
  /\ Sound(Load(disk), AcceptedIds \ removed)

\* The running server and its file agree on everything but tombstones and
\* expired entries that the next cleanup drops: a restart is unobservable, and
\* an operation that reported an error had no effect.
RestartInvisible ==
  up => /\ moveTasks = disk.moveTasks
        /\ DOMAIN queues = DOMAIN disk.queues
        /\ \A n \in DOMAIN queues : Cleaned(queues[n]) = Cleaned(Load(disk)[n])

\* A consumer that was handed a message has it to itself for the visibility
\* timeout it was promised: until then the message stays invisible, whatever
\* else happens to the server, a restart included.
LeaseHonoured ==
  \A qs \in {queues, Load(disk)} : \A n \in DOMAIN qs : \A p \in LivePositions(qs[n]) :
    LET m == qs[n].messages[p] IN now < lease[m.id] => lease[m.id] <= m.invisibleUntil

\* In a FIFO queue no message is in flight while an earlier one of its group is
\* live, so no two messages of a group are out at once and none overtakes another.
FifoGroupExclusive ==
  \A n \in DOMAIN queues \cap FifoNames : \A e, p \in LivePositions(queues[n]) :
    LET messages == queues[n].messages IN
    e < p /\ messages[e].group = messages[p].group /\ messages[p].group # NoValue
      => ~InFlight(messages[p])

\* Two sends to the same FIFO queue with the same deduplication key are accepted
\* only when the window has passed between them.
DeduplicationWindow ==
  \A i, j \in DOMAIN accepted :
    LET a == accepted[i]
        b == accepted[j]
    IN i < j /\ a.createdAt = b.createdAt /\ a.key = b.key /\ a.key # NoValue
         => b.at - a.at >= DedupWindow

\* The sequence numbers of a FIFO queue grow in the order of acceptance, across
\* purges, failed saves and restarts.
SequenceGrows ==
  \A i, j \in DOMAIN accepted :
    LET a == accepted[i]
        b == accepted[j]
    IN i < j /\ a.createdAt = b.createdAt /\ a.key # NoValue /\ b.key # NoValue
         => a.sequence < b.sequence

\* What a FIFO queue accepted decides what it accepts next, whatever came between.
AcceptanceKept == DeduplicationWindow /\ SequenceGrows

\* An attempt of a long poll takes messages only from the queue the poll started
\* on, never from one created later under the same name.
PollStaysOnQueue ==
  [][\A c \in Consumers :
       polls[c] # NoValue /\ polls'[c] # polls[c] /\ minted' # minted /\ up'
         => /\ polls[c].queue \in DOMAIN queues
            /\ queues[polls[c].queue].createdAt = polls[c].pin]_vars

\* Every sleeping poll is resumed by its timer.
LiveSpec == Spec /\ \A c \in Consumers : WF_vars(PollAgain(c))

\* Every long poll is answered (or dies with the server), however the queue
\* changes under it.
PollsEnd == \A c \in Consumers : polls[c] # NoValue ~> polls[c] = NoValue

=============================================================================
