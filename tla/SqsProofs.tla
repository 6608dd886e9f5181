----------------------------- MODULE SqsProofs -----------------------------
(***************************************************************************)
(* What Sqs guarantees for every choice of its constants: first how many   *)
(* copies of a message there are and who may remove one, then what becomes *)
(* of the messages: leases, FIFO groups, deduplication and retention,      *)
(* through failed saves, kills and restarts.                               *)
(*                                                                         *)
(* Every step that changes the store is described once, by Effect: the     *)
(* store the handler wrote, where each of its live messages comes from,    *)
(* what became of the ones it had, and what its queues remember.  The      *)
(* properties of delivery follow from that description alone.              *)
(***************************************************************************)
EXTENDS Sqs, FiniteSetTheorems, TLAPS

(***************************************************************************)
(* Lemmas about the data.                                                  *)
(***************************************************************************)

\* Saving a queue drops its empty fields and loading puts them back.
LEMMA QueueRoundTrip ==
  ASSUME NEW queue, IsQueue(queue)
  PROVE  LoadedQueue(SavedQueue(queue)) = queue
<1>1. queue = [f \in QueueFields |-> queue[f]]
  BY DEF IsQueue
<1>2. DOMAIN OmittedWhenEmpty = {"tags", "messages", "sequence", "dedup"}
  BY DEF OmittedWhenEmpty
<1>3. \A f \in QueueFields : LoadedQueue(SavedQueue(queue))[f] = queue[f]
  BY <1>1, <1>2 DEF LoadedQueue, SavedQueue, Without, Restrict, QueueFields
<1> QED
  BY <1>1, <1>3 DEF LoadedQueue

\* What is written to state.json is what a restart finds.
LEMMA RoundTrip ==
  ASSUME NEW qs, AreQueues(qs), NEW tasks
  PROVE  Load(Saved(qs, tasks)) = qs
<1>1. \A n \in DOMAIN qs : LoadedQueue(SavedQueue(qs[n])) = qs[n]
  BY QueueRoundTrip DEF AreQueues
<1> QED
  BY <1>1 DEF Load, Saved, AreQueues

\* One queue's live messages are among another's.
SubQueue(new, old) ==
  /\ LivePositions(new) \subseteq LivePositions(old)
  /\ \A p \in LivePositions(new) : new.messages[p].id = old.messages[p].id

\* Handlers that only drop or edit messages keep copies single.
LEMMA SubStore ==
  ASSUME NEW old, SingleCopy(old),
         NEW new, DOMAIN new \subseteq DOMAIN old,
         \A n \in DOMAIN new : SubQueue(new[n], old[n])
  PROVE  /\ SingleCopy(new)
         /\ AllLiveIds(new) \subseteq AllLiveIds(old)
<1>1. SingleCopy(new)
  BY DEF SingleCopy, SubQueue
<1>2. AllLiveIds(new) \subseteq AllLiveIds(old)
  BY DEF AllLiveIds, LiveIds, SubQueue
<1> QED
  BY <1>1, <1>2

\* Every live message of the store new is one of qs in its place, or one that left
\* a position `moved` of queue src and was pushed to the queue its target names.
Rearranged(new, qs, src, moved, target) ==
  \A n \in DOMAIN qs : \A p \in LivePositions(new[n]) :
    \/ /\ p \in LivePositions(qs[n])
       /\ ~(n = src /\ p \in moved)
       /\ new[n].messages[p].id = qs[n].messages[p].id
    \/ \E b \in moved : /\ target[b] = n
                        /\ p = qs[n].pushed + b
                        /\ new[n].messages[p].id = qs[src].messages[b].id

\* A rearranged store still has one copy of each message.
LEMMA MoveStore ==
  ASSUME NEW qs, AreQueues(qs), SingleCopy(qs),
         NEW src \in DOMAIN qs,
         NEW moved \in SUBSET LivePositions(qs[src]),
         NEW target,
         NEW new, DOMAIN new = DOMAIN qs,
         Rearranged(new, qs, src, moved, target)
  PROVE  /\ SingleCopy(new)
         /\ AllLiveIds(new) \subseteq AllLiveIds(qs)
<1> USE DEF Rearranged
<1>1. \A n \in DOMAIN qs : \A p \in LivePositions(qs[n]) :
        p \in Nat /\ 1 <= p /\ p <= qs[n].pushed /\ qs[n].pushed \in Nat
  BY DEF AreQueues, IsQueue, LivePositions
<1>2. SingleCopy(new)
  <2> SUFFICES ASSUME NEW n1 \in DOMAIN qs, NEW n2 \in DOMAIN qs,
                      NEW p1 \in LivePositions(new[n1]), NEW p2 \in LivePositions(new[n2]),
                      new[n1].messages[p1].id = new[n2].messages[p2].id
               PROVE  n1 = n2 /\ p1 = p2
    BY DEF SingleCopy
  <2>1. CASE p1 \in LivePositions(qs[n1]) /\ p2 \in LivePositions(qs[n2])
    BY <2>1, <1>1 DEF SingleCopy
  <2>2. CASE p1 \in LivePositions(qs[n1]) /\ p2 \notin LivePositions(qs[n2])
    BY <2>2, <1>1 DEF SingleCopy
  <2>3. CASE p1 \notin LivePositions(qs[n1]) /\ p2 \in LivePositions(qs[n2])
    BY <2>3, <1>1 DEF SingleCopy
  <2>4. CASE p1 \notin LivePositions(qs[n1]) /\ p2 \notin LivePositions(qs[n2])
    BY <2>4, <1>1 DEF SingleCopy
  <2> QED
    BY <2>1, <2>2, <2>3, <2>4
<1>3. AllLiveIds(new) \subseteq AllLiveIds(qs)
  <2> SUFFICES ASSUME NEW n \in DOMAIN qs, NEW p \in LivePositions(new[n])
               PROVE  new[n].messages[p].id \in AllLiveIds(qs)
    BY DEF AllLiveIds, LiveIds
  <2> QED
    BY DEF AllLiveIds, LiveIds
<1> QED
  BY <1>2, <1>3

\* Replacing queue n by one whose live messages are among its own.
LEMMA EditStore ==
  ASSUME NEW qs, NEW ids, Sound(qs, ids), NEW n \in DOMAIN qs,
         NEW queue, IsQueue(queue), SubQueue(queue, qs[n])
  PROVE  Sound([qs EXCEPT ![n] = queue], ids)
<1> DEFINE new == [qs EXCEPT ![n] = queue]
<1>1. AreQueues(new)
  BY DEF Sound, AreQueues
<1>2. \A m \in DOMAIN new : SubQueue(new[m], qs[m])
  BY DEF Sound, AreQueues, SubQueue
<1> QED
  BY <1>1, <1>2, SubStore DEF Sound

\* Dropping queues.
LEMMA DropStore ==
  ASSUME NEW qs, NEW ids, Sound(qs, ids), NEW S
  PROVE  Sound(Without(qs, S), ids)
<1> DEFINE new == Without(qs, S)
<1>1. AreQueues(new)
  BY DEF Sound, AreQueues, Without, Restrict
<1>2. /\ DOMAIN new \subseteq DOMAIN qs
      /\ \A m \in DOMAIN new : SubQueue(new[m], qs[m])
  BY DEF Without, Restrict, SubQueue
<1> QED
  BY <1>1, <1>2, SubStore DEF Sound

\* Adding an empty queue.
LEMMA CreateStore ==
  ASSUME NEW qs, NEW ids, Sound(qs, ids), NEW n \in QueueNames, n \notin DOMAIN qs,
         NEW queue, IsQueue(queue), LivePositions(queue) = {}
  PROVE  Sound(With(qs, n, queue), ids)
<1> DEFINE new == With(qs, n, queue)
<1>1. AreQueues(new)
  BY DEF Sound, AreQueues, With
<1>2. SingleCopy(new)
  BY DEF Sound, SingleCopy, With
<1>3. AllLiveIds(new) \subseteq AllLiveIds(qs)
  <2>1. /\ DOMAIN new = DOMAIN qs \cup {n}
        /\ LiveIds(new[n]) = {}
        /\ \A m \in DOMAIN qs : new[m] = qs[m]
    BY DEF With, LiveIds
  <2> HIDE DEF new
  <2> QED
    BY <2>1 DEF AllLiveIds
<1> QED
  BY <1>1, <1>2, <1>3 DEF Sound

\* The empty store of a process that is not running.
LEMMA NoStore == ASSUME NEW ids PROVE Sound(NoFields, ids)
BY DEF Sound, AreQueues, SingleCopy, AllLiveIds, NoFields

\* A queue keeps its form when one field is replaced by a value of its type.
LEMMA NewMessages ==
  ASSUME NEW queue, IsQueue(queue), NEW messages,
         DOMAIN messages \subseteq 1..queue.pushed,
         messages \in [DOMAIN messages -> Message]
  PROVE  /\ IsQueue([queue EXCEPT !.messages = messages])
         /\ [queue EXCEPT !.messages = messages].messages = messages
         /\ [queue EXCEPT !.messages = messages].pushed = queue.pushed
BY DEF IsQueue, QueueFields

LEMMA NewField ==
  ASSUME NEW queue, IsQueue(queue), NEW field, NEW value,
         \/ field = "attributes" /\ AreAttributes(value)
         \/ field = "tags" /\ value \in SUBSET TagKeys
  PROVE  /\ IsQueue(With(queue, field, value))
         /\ With(queue, field, value).messages = queue.messages
BY DEF IsQueue, QueueFields, With

\* Merging a request into attributes gives attributes.
LEMMA MergedTyped ==
  ASSUME NEW attributes, AreAttributes(attributes),
         NEW request \in CreateRequests \cup UpdateRequests
  PROVE  AreAttributes(Merged(attributes, request))
BY ConstantsAssumption DEF AreAttributes, Merged

\* The retention cleanup keeps a queue well formed and adds nothing to it.
LEMMA CleanedQueue ==
  ASSUME NEW queue, IsQueue(queue)
  PROVE  /\ IsQueue(Cleaned(queue))
         /\ SubQueue(Cleaned(queue), queue)
         /\ Cleaned(queue).attributes = queue.attributes
         /\ Cleaned(queue).createdAt = queue.createdAt
         /\ Cleaned(queue).pushed = queue.pushed
         /\ Cleaned(queue).sequence = queue.sequence
         /\ Cleaned(queue).tags = queue.tags
<1> DEFINE kept == {p \in LivePositions(queue) : ~OutOfRetention(queue, queue.messages[p])}
           fresh == {k \in DOMAIN queue.dedup : now < queue.dedup[k].expiresAt}
<1>1. Cleaned(queue) = [queue EXCEPT !.messages = Restrict(queue.messages, kept),
                                     !.dedup = Restrict(queue.dedup, fresh)]
  BY DEF Cleaned, IsQueue, QueueFields
<1>2. kept \subseteq LivePositions(queue)
  OBVIOUS
<1>3. fresh \subseteq DOMAIN queue.dedup
  OBVIOUS
<1> HIDE DEF kept, fresh
<1>4. /\ Cleaned(queue).messages = Restrict(queue.messages, kept)
      /\ Cleaned(queue).dedup = Restrict(queue.dedup, fresh)
      /\ Cleaned(queue).attributes = queue.attributes
      /\ Cleaned(queue).createdAt = queue.createdAt
      /\ Cleaned(queue).pushed = queue.pushed
      /\ Cleaned(queue).sequence = queue.sequence
      /\ Cleaned(queue).tags = queue.tags
      /\ Cleaned(queue) = [f \in QueueFields |-> Cleaned(queue)[f]]
  BY <1>1 DEF IsQueue, QueueFields
<1>5. IsQueue(Cleaned(queue))
  <2>1. /\ DOMAIN Restrict(queue.messages, kept) = kept
        /\ kept \subseteq 1..queue.pushed
        /\ Restrict(queue.messages, kept) \in [kept -> Message]
    BY <1>2 DEF IsQueue, Restrict, LivePositions
  <2>2. /\ DOMAIN Restrict(queue.dedup, fresh) = fresh
        /\ fresh \subseteq DedupKeys
        /\ Restrict(queue.dedup, fresh) \in [fresh -> [expiresAt : Nat, id : MsgIds]]
    BY <1>3 DEF IsQueue, Restrict
  <2> QED
    BY <1>4, <2>1, <2>2 DEF IsQueue
<1>6. SubQueue(Cleaned(queue), queue)
  BY <1>2, <1>4 DEF SubQueue, Restrict, LivePositions
<1> QED
  BY <1>4, <1>5, <1>6

\* The old messages are in place and those of batch come after them.
Appended(new, queue, D, batch) ==
  /\ IsQueue(new)
  /\ DOMAIN new.messages = DOMAIN queue.messages \cup Slots(queue, D)
  /\ \A p \in DOMAIN queue.messages : new.messages[p] = queue.messages[p]
  /\ \A b \in D : /\ queue.pushed + b \notin DOMAIN queue.messages
                  /\ new.messages[queue.pushed + b] = batch[b]
  /\ \A field \in {"createdAt", "attributes", "tags", "sequence", "dedup"} :
       new[field] = queue[field]

LEMMA PushedQueue ==
  ASSUME NEW queue, IsQueue(queue), NEW top \in Nat,
         NEW D \in SUBSET (1..top), NEW batch \in [D -> Message]
  PROVE  Appended(PushAll(queue, batch, top), queue, D, batch)
<1> DEFINE new == PushAll(queue, batch, top)
           added == Slots(queue, D)
           messages == [p \in DOMAIN queue.messages \cup added |->
                          IF p \in DOMAIN queue.messages THEN queue.messages[p]
                                                         ELSE batch[p - queue.pushed]]
<1>1. new = [queue EXCEPT !.messages = messages, !.pushed = queue.pushed + top]
  <2>1. DOMAIN batch = D
    OBVIOUS
  <2> QED
    BY <2>1 DEF PushAll, IsQueue, QueueFields
<1>2. /\ queue.pushed \in Nat
      /\ DOMAIN queue.messages \subseteq 1..queue.pushed
      /\ queue.messages \in [DOMAIN queue.messages -> Message]
  BY DEF IsQueue
<1>3. /\ added \subseteq (queue.pushed + 1)..(queue.pushed + top)
      /\ \A b \in D : queue.pushed + b \notin DOMAIN queue.messages
      /\ \A p \in added : p - queue.pushed \in D /\ p \notin DOMAIN queue.messages
      /\ \A b \in D : queue.pushed + b \in added
  BY <1>2 DEF Slots
<1>4. /\ messages \in [DOMAIN messages -> Message]
      /\ DOMAIN messages = DOMAIN queue.messages \cup added
      /\ DOMAIN messages \subseteq 1..(queue.pushed + top)
  BY <1>2, <1>3
<1>5. /\ \A p \in DOMAIN queue.messages : messages[p] = queue.messages[p]
      /\ \A b \in D : messages[queue.pushed + b] = batch[b]
  BY <1>2, <1>3
<1> HIDE DEF messages
<1>6. /\ new.messages = messages
      /\ new.pushed = queue.pushed + top
      /\ new.dedup = queue.dedup
      /\ new.attributes = queue.attributes
      /\ new.createdAt = queue.createdAt
      /\ new.sequence = queue.sequence
      /\ new.tags = queue.tags
      /\ new = [f \in QueueFields |-> new[f]]
  BY <1>1 DEF IsQueue, QueueFields
<1> HIDE DEF new
<1>7. IsQueue(new)
  <2>1. /\ new.messages \in [DOMAIN new.messages -> Message]
        /\ DOMAIN new.messages \subseteq 1..new.pushed
        /\ new.pushed \in Nat
    BY <1>2, <1>4, <1>6
  <2> QED
    BY <2>1, <1>6 DEF IsQueue
<1> QED
  BY <1>3, <1>4, <1>5, <1>6, <1>7 DEF new, Appended

\* A message with an id of its own joins the store.
LEMMA SendStore ==
  ASSUME NEW qs, NEW ids, Sound(qs, ids), NEW n \in DOMAIN qs,
         NEW queue, IsQueue(queue), SubQueue(queue, qs[n]),
         NEW m \in Message, m.id \notin ids
  PROVE  Sound([qs EXCEPT ![n] = Push(queue, m)], ids \cup {m.id})
<1> DEFINE new == [qs EXCEPT ![n] = Push(queue, m)]
           tail == queue.pushed + 1
<1>1. /\ DOMAIN <<m>> = {1}
      /\ <<m>> \in [{1} -> Message]
      /\ <<m>>[1] = m
  OBVIOUS
<1>2. /\ IsQueue(Push(queue, m))
      /\ DOMAIN Push(queue, m).messages = DOMAIN queue.messages \cup {tail}
      /\ \A p \in DOMAIN queue.messages : Push(queue, m).messages[p] = queue.messages[p]
      /\ tail \notin DOMAIN queue.messages
      /\ Push(queue, m).messages[tail] = m
  <2> DEFINE batch == <<m>>
  <2>1. batch \in [{1} -> Message] /\ batch[1] = m /\ {1} \in SUBSET (1..1) /\ 1 \in Nat
    BY <1>1
  <2> HIDE DEF batch
  <2>3. Appended(PushAll(queue, batch, 1), queue, {1}, batch)
    BY <2>1, PushedQueue
  <2>4. Slots(queue, {1}) = {tail}
    BY DEF Slots
  <2>5. Push(queue, m) = PushAll(queue, batch, 1)
    BY DEF Push, batch
  <2> QED
    BY <2>1, <2>3, <2>4, <2>5 DEF Appended
<1>3. AreQueues(new)
  BY <1>2 DEF Sound, AreQueues
<1>4. /\ DOMAIN new = DOMAIN qs
      /\ new[n] = Push(queue, m)
      /\ \A k \in DOMAIN qs \ {n} : new[k] = qs[k]
  BY DEF Sound, AreQueues
<1>5. \A k \in DOMAIN qs : \A p \in LivePositions(new[k]) :
        \/ /\ k = n /\ p = tail /\ new[k].messages[p].id = m.id
        \/ /\ p \in LivePositions(qs[k])
           /\ ~(k = n /\ p = tail)
           /\ new[k].messages[p].id = qs[k].messages[p].id
           /\ qs[k].messages[p].id \in ids
  <2> SUFFICES ASSUME NEW k \in DOMAIN qs, NEW p \in LivePositions(new[k]), ~(k = n /\ p = tail)
               PROVE  /\ p \in LivePositions(qs[k])
                      /\ new[k].messages[p].id = qs[k].messages[p].id
    BY <1>2, <1>4 DEF Sound, AllLiveIds, LiveIds
  <2>1. CASE k = n
    BY <2>1, <1>2, <1>4 DEF SubQueue, LivePositions
  <2>2. CASE k # n
    BY <2>2, <1>4
  <2> QED
    BY <2>1, <2>2
<1> HIDE DEF new
<1>6. SingleCopy(new)
  BY <1>4, <1>5 DEF SingleCopy, Sound
<1>7. AllLiveIds(new) \subseteq ids \cup {m.id}
  BY <1>4, <1>5 DEF AllLiveIds, LiveIds
<1> QED
  BY <1>3, <1>6, <1>7 DEF Sound, new

\* The edits handlers make to a message.
LEMMA EditedMessage ==
  ASSUME NEW m \in Message, now \in Nat, minted \in [MsgIds -> Nat],
         NEW visibility \in Nat, NEW source \in Optional(QueueNames)
  PROVE  /\ Tombstone(m) \in Message /\ Tombstone(m).deleted
         /\ Relocated(m, source) \in Message /\ Relocated(m, source).id = m.id
         /\ Leased(m, visibility) \in Message /\ Leased(m, visibility).id = m.id
         /\ Leased(m, visibility).deleted = m.deleted
         /\ [m EXCEPT !.receiptHandle = 0] \in Message
         /\ [m EXCEPT !.receiptHandle = 0].id = m.id
         /\ [m EXCEPT !.receiptHandle = 0].deleted = m.deleted
         /\ [m EXCEPT !.invisibleUntil = now + visibility] \in Message
         /\ [m EXCEPT !.invisibleUntil = now + visibility].id = m.id
         /\ [m EXCEPT !.invisibleUntil = now + visibility].deleted = m.deleted
<1>1. Tombstone(m) \in Message /\ Tombstone(m).deleted
  <2>1. Tombstone(m) \in Message
    BY DEF Tombstone, Message
  <2>2. Tombstone(m).deleted = TRUE
    BY DEF Tombstone, Message
  <2> QED
    BY <2>1, <2>2
<1>2. Relocated(m, source) \in Message /\ Relocated(m, source).id = m.id
  BY DEF Relocated, Message
<1>3. /\ Leased(m, visibility) \in Message /\ Leased(m, visibility).id = m.id
      /\ Leased(m, visibility).deleted = m.deleted
  <2>1. minted[m.id] + 1 \in Nat /\ now + visibility \in Nat /\ m.receiveCount + 1 \in Nat
    BY DEF Message
  <2> DEFINE h == minted[m.id] + 1
             until == now + visibility
             count == m.receiveCount + 1
  <2>2. Leased(m, visibility) = [m EXCEPT !.receiveCount = count, !.receiptHandle = h,
                                          !.invisibleUntil = until]
    BY DEF Leased, Message
  <2> HIDE DEF h, until, count
  <2>3. h \in Nat /\ until \in Nat /\ count \in Nat
    BY <2>1 DEF h, until, count
  <2> QED
    BY <2>2, <2>3 DEF Message
<1>4. /\ [m EXCEPT !.receiptHandle = 0] \in Message
      /\ [m EXCEPT !.receiptHandle = 0].id = m.id
      /\ [m EXCEPT !.receiptHandle = 0].deleted = m.deleted
  BY DEF Message
<1>5. /\ [m EXCEPT !.invisibleUntil = now + visibility] \in Message
      /\ [m EXCEPT !.invisibleUntil = now + visibility].id = m.id
      /\ [m EXCEPT !.invisibleUntil = now + visibility].deleted = m.deleted
  BY DEF Message
<1> QED
  BY <1>1, <1>2, <1>3, <1>4, <1>5

WithMessages(qs, n, messages) == [qs EXCEPT ![n].messages = messages]

\* Replacing the messages of queue n, position by position, by tombstones or by
\* messages with the same id.
LEMMA EditMessages ==
  ASSUME NEW qs, NEW ids, Sound(qs, ids), NEW n \in DOMAIN qs,
         NEW messages \in [DOMAIN qs[n].messages -> Message],
         \A p \in DOMAIN messages :
           ~messages[p].deleted => /\ ~qs[n].messages[p].deleted
                                   /\ messages[p].id = qs[n].messages[p].id,
         NEW new, new = WithMessages(qs, n, messages)
  PROVE  /\ Sound(new, ids)
         /\ DOMAIN new = DOMAIN qs
         /\ IsQueue(new[n])
         /\ new[n].messages = messages
         /\ new[n].pushed = qs[n].pushed
         /\ \A k \in DOMAIN qs \ {n} : new[k] = qs[k]
<1> DEFINE queue == [qs[n] EXCEPT !.messages = messages]
<1>1. IsQueue(qs[n])
  BY DEF Sound, AreQueues
<1>2. DOMAIN messages \subseteq 1..qs[n].pushed /\ messages \in [DOMAIN messages -> Message]
  BY <1>1 DEF IsQueue
<1>3. IsQueue(queue) /\ queue.messages = messages /\ queue.pushed = qs[n].pushed
  BY <1>1, <1>2, NewMessages
<1>4. SubQueue(queue, qs[n])
  BY <1>3 DEF SubQueue, LivePositions
<1>5. new = [qs EXCEPT ![n] = queue]
  BY DEF WithMessages
<1> HIDE DEF queue
<1>6. Sound([qs EXCEPT ![n] = queue], ids)
  BY <1>3, <1>4, EditStore
<1> QED
  BY <1>3, <1>5, <1>6 DEF Sound, AreQueues

\* Each queue of new is that of left, or has the copies bound for it pushed.
Distributed(new, left, moved, copies, target, top) ==
  \A k \in DOMAIN left :
    \/ new[k] = left[k]
    \/ new[k] = PushAll(left[k], [p \in Bound(target, k) \cap moved |-> copies[p]], top)

\* Messages leave the positions `moved` of queue src, where tombstones stay, for
\* the queues their target names; the rest of src is edited in place.  This is
\* what redriving and move tasks do.
LEMMA RelocateStore ==
  ASSUME NEW qs, NEW ids, Sound(qs, ids), NEW src \in DOMAIN qs,
         NEW messages \in [DOMAIN qs[src].messages -> Message],
         \A p \in DOMAIN messages :
           ~messages[p].deleted => /\ ~qs[src].messages[p].deleted
                                   /\ messages[p].id = qs[src].messages[p].id,
         NEW moved \in SUBSET LivePositions(qs[src]),
         \A p \in moved : messages[p].deleted,
         NEW copies \in [moved -> Message],
         \A p \in moved : copies[p].id = qs[src].messages[p].id,
         NEW target,
         NEW new, new = [k \in DOMAIN qs |-> new[k]],
         NEW left, left = WithMessages(qs, src, messages),
         Distributed(new, left, moved, copies, target, qs[src].pushed)
  PROVE  Sound(new, ids)
<1> DEFINE D(k) == Bound(target, k) \cap moved
           batch(k) == [p \in D(k) |-> copies[p]]
<1>1. /\ Sound(left, ids) /\ DOMAIN left = DOMAIN qs
      /\ left[src].messages = messages
      /\ left[src].pushed = qs[src].pushed
      /\ \A k \in DOMAIN qs \ {src} : left[k] = qs[k]
  BY EditMessages
<1>2. \A k \in DOMAIN qs : IsQueue(left[k]) /\ left[k].pushed = qs[k].pushed
  BY <1>1 DEF Sound, AreQueues
<1>3. \A k \in DOMAIN qs : \A p \in LivePositions(left[k]) :
        /\ p \in LivePositions(qs[k])
        /\ ~(k = src /\ p \in moved)
        /\ left[k].messages[p].id = qs[k].messages[p].id
  <2> SUFFICES ASSUME NEW k \in DOMAIN qs, NEW p \in LivePositions(left[k])
               PROVE  /\ p \in LivePositions(qs[k])
                      /\ ~(k = src /\ p \in moved)
                      /\ left[k].messages[p].id = qs[k].messages[p].id
    OBVIOUS
  <2>1. CASE k = src
    BY <2>1, <1>1 DEF LivePositions
  <2>2. CASE k # src
    BY <2>2, <1>1
  <2> QED
    BY <2>1, <2>2
<1>4. \A k \in DOMAIN qs : D(k) \in SUBSET (1..qs[src].pushed) /\ batch(k) \in [D(k) -> Message]
  BY DEF Sound, AreQueues, IsQueue, LivePositions
<1>5. qs[src].pushed \in Nat
  BY DEF Sound, AreQueues, IsQueue
<1>6. \A k \in DOMAIN qs : new[k] = left[k] \/ new[k] = PushAll(left[k], batch(k), qs[src].pushed)
  BY <1>1 DEF Distributed
<1> HIDE DEF batch
<1>7. \A k \in DOMAIN qs : new[k] = left[k] \/ Appended(new[k], left[k], D(k), batch(k))
  <2> SUFFICES ASSUME NEW k \in DOMAIN qs, new[k] = PushAll(left[k], batch(k), qs[src].pushed)
               PROVE  Appended(new[k], left[k], D(k), batch(k))
    BY <1>6
  <2> HIDE DEF D
  <2> QED
    BY <1>2, <1>4, <1>5, PushedQueue
<1>8. AreQueues(new)
  BY <1>2, <1>7 DEF Appended, Sound, AreQueues
<1>9. Rearranged(new, qs, src, moved, target)
  <2> SUFFICES ASSUME NEW k \in DOMAIN qs, NEW p \in LivePositions(new[k]),
                      ~(p \in LivePositions(left[k]) /\ new[k].messages[p].id = left[k].messages[p].id)
               PROVE  \E b \in moved : /\ target[b] = k
                                       /\ p = qs[k].pushed + b
                                       /\ new[k].messages[p].id = qs[src].messages[b].id
    BY <1>3 DEF Rearranged
  <2>1. Appended(new[k], left[k], D(k), batch(k))
    BY <1>7
  <2>2. p \in Slots(left[k], D(k))
    BY <2>1 DEF Appended, LivePositions
  <2>3. PICK b \in D(k) : p = left[k].pushed + b
    BY <2>2 DEF Slots
  <2>4. new[k].messages[p] = copies[b]
    BY <2>1, <2>3 DEF Appended, batch
  <2> QED
    BY <2>3, <2>4, <1>2 DEF Bound
<1>10. SingleCopy(new) /\ AllLiveIds(new) \subseteq AllLiveIds(qs)
  <2>1. AreQueues(qs) /\ SingleCopy(qs) /\ DOMAIN new = DOMAIN qs
    BY DEF Sound
  <2> QED
    BY <2>1, <1>9, MoveStore
<1> QED
  BY <1>8, <1>10 DEF Sound

-----------------------------------------------------------------------------
(***************************************************************************)
(* What the handlers make of a store.                                      *)
(***************************************************************************)

\* Where the scan redrives to.
LEMMA DeadLetterTarget ==
  ASSUME NEW qs, NEW n, DeadLetterQueue(qs, n) # NoValue
  PROVE  DeadLetterQueue(qs, n) \in DOMAIN qs
BY DEF DeadLetterQueue

\* A scan keeps the store sound: it leases messages in place and leaves tombstones
\* for the ones it redrives.
LEMMA ScannedStore ==
  ASSUME NEW qs, NEW ids, Sound(qs, ids), NEW n \in DOMAIN qs, NEW max,
         NEW visibility \in Nat, now \in Nat, minted \in [MsgIds -> Nat]
  PROVE  /\ Sound(ReceiveScan(qs, n, max, visibility), ids)
         /\ DOMAIN ReceiveScan(qs, n, max, visibility) = DOMAIN qs
         /\ \A k \in DOMAIN qs \ {n, DeadLetterQueue(qs, n)} :
              ReceiveScan(qs, n, max, visibility)[k] = qs[k]
<1> DEFINE out == Delivered(qs, n, max)
           dead == DeadLettered(qs, n, max)
           old == qs[n].messages
           messages == [p \in DOMAIN old |-> CASE p \in out  -> Leased(old[p], visibility)
                                               [] p \in dead -> Tombstone(old[p])
                                               [] OTHER      -> old[p]]
           copies == [p \in dead |-> Relocated(old[p], n)]
           dlq == DeadLetterQueue(qs, n)
           target == [p \in dead |-> dlq]
           new == ReceiveScan(qs, n, max, visibility)
           left == [qs EXCEPT ![n].messages = messages]
<1>1. out \subseteq LivePositions(qs[n]) /\ dead \subseteq LivePositions(qs[n])
  BY DEF Delivered, DeadLettered, Deliverable, Considered
<1>2. dead \cap out = {}
  BY DEF Delivered, DeadLettered
<1>3. dead # {} => dlq \in DOMAIN qs
  BY DeadLetterTarget DEF DeadLettered, Deliverable, Poisoned
<1>4. IsQueue(qs[n]) /\ old \in [DOMAIN old -> Message] /\ qs[n].pushed \in Nat
  BY DEF Sound, AreQueues, IsQueue
<1>5. LivePositions(qs[n]) \subseteq DOMAIN old
  BY DEF LivePositions
<1>6. n \in Optional(QueueNames)
  BY DEF Sound, AreQueues, Optional
<1>7. \A p \in DOMAIN old : /\ Leased(old[p], visibility) \in Message
                            /\ Leased(old[p], visibility).id = old[p].id
                            /\ Leased(old[p], visibility).deleted = old[p].deleted
                            /\ Tombstone(old[p]) \in Message
                            /\ Tombstone(old[p]).deleted
                            /\ Relocated(old[p], n) \in Message
                            /\ Relocated(old[p], n).id = old[p].id
  BY <1>4, <1>6, EditedMessage
<1>8. new = IF dead = {} THEN left
            ELSE [left EXCEPT ![dlq] = PushAll(left[dlq], copies, qs[n].pushed)]
  BY <1>3 DEF ReceiveScan, Sound, AreQueues
<1> HIDE DEF out, dead, dlq
<1>9. /\ messages \in [DOMAIN qs[n].messages -> Message]
      /\ \A p \in DOMAIN messages :
           ~messages[p].deleted => /\ ~qs[n].messages[p].deleted
                                   /\ messages[p].id = qs[n].messages[p].id
      /\ \A p \in dead : messages[p].deleted
  BY <1>1, <1>2, <1>4, <1>5, <1>7
<1>10. /\ copies \in [dead -> Message]
       /\ \A p \in dead : copies[p].id = qs[n].messages[p].id
  BY <1>1, <1>5, <1>7
<1>11. /\ Sound(left, ids)
       /\ DOMAIN left = DOMAIN qs
       /\ \A k \in DOMAIN qs \ {n} : left[k] = qs[k]
  <2>1. left = WithMessages(qs, n, messages)
    BY DEF WithMessages
  <2> HIDE DEF messages, left
  <2> QED
    BY <1>9, <2>1, EditMessages
<1>12. /\ DOMAIN new = DOMAIN qs
       /\ new = [k \in DOMAIN qs |-> new[k]]
       /\ \A k \in DOMAIN qs \ {n, dlq} : new[k] = qs[k]
  <2> HIDE DEF new, left
  <2>1. left = [k \in DOMAIN left |-> left[k]]
    BY <1>11 DEF Sound, AreQueues
  <2> QED
    BY <1>8, <1>11, <2>1
<1>13. Distributed(new, left, dead, copies, target, qs[n].pushed)
  <2> SUFFICES ASSUME NEW k \in DOMAIN qs, k = dlq, dead # {}
               PROVE  new[k] = PushAll(left[k], [p \in Bound(target, k) \cap dead |-> copies[p]],
                                       qs[n].pushed)
    <3> HIDE DEF new, left
    <3> QED
      BY <1>8, <1>11 DEF Distributed
  <2>1. Bound(target, k) \cap dead = dead
    BY DEF Bound
  <2>2. [p \in dead |-> copies[p]] = copies
    OBVIOUS
  <2> HIDE DEF new, left, copies, target
  <2> QED
    BY <1>8, <1>11, <2>1, <2>2
<1>14. left = WithMessages(qs, n, messages)
  BY DEF WithMessages
<1> HIDE DEF new, messages, copies, target, left
<1>15. Sound(new, ids)
  BY <1>14, <1>1, <1>9, <1>10, <1>12, <1>13, RelocateStore
<1> QED
  BY <1>12, <1>15 DEF new, dlq

\* So does a move task, whatever the targets of the messages.
LEMMA MovedStore ==
  ASSUME NEW ids, Sound(queues, ids), now \in Nat, minted \in [MsgIds -> Nat],
         NEW source \in DOMAIN queues, NEW destination
  PROVE  /\ Sound(MovedQueues(source, MoveTargets(source, destination)), ids)
         /\ DOMAIN MovedQueues(source, MoveTargets(source, destination)) = DOMAIN queues
         /\ \A k \in DOMAIN queues :
              \/ k = source
              \/ \E p \in Movable(MoveTargets(source, destination)) :
                   k = MoveTargets(source, destination)[p]
              \/ MovedQueues(source, MoveTargets(source, destination))[k] = queues[k]
<1> DEFINE target == MoveTargets(source, destination)
           moving == Movable(target)
           old == queues[source].messages
           messages == [p \in DOMAIN old |-> IF p \in moving THEN Tombstone(old[p]) ELSE old[p]]
           copies == [p \in moving |-> Relocated(old[p], NoValue)]
           left == [queues EXCEPT ![source].messages = messages]
           new == MovedQueues(source, target)
<1>1. moving \subseteq LivePositions(queues[source])
  BY DEF Movable, MoveTargets
<1>2. IsQueue(queues[source]) /\ old \in [DOMAIN old -> Message]
  BY DEF Sound, AreQueues, IsQueue
<1>3. LivePositions(queues[source]) \subseteq DOMAIN old
  BY DEF LivePositions
<1>4. \A p \in DOMAIN old : /\ Tombstone(old[p]) \in Message
                            /\ Tombstone(old[p]).deleted
                            /\ Relocated(old[p], NoValue) \in Message
                            /\ Relocated(old[p], NoValue).id = old[p].id
  <2>1. NoValue \in Optional(QueueNames) /\ 0 \in Nat
    BY DEF Optional
  <2> QED
    BY <1>2, <2>1, EditedMessage
<1>5. /\ messages \in [DOMAIN queues[source].messages -> Message]
      /\ \A p \in DOMAIN messages :
           ~messages[p].deleted => /\ ~queues[source].messages[p].deleted
                                   /\ messages[p].id = queues[source].messages[p].id
      /\ \A p \in moving : messages[p].deleted
  <2> HIDE DEF moving, target
  <2> QED
    BY <1>1, <1>2, <1>3, <1>4
<1>6. /\ copies \in [moving -> Message]
      /\ \A p \in moving : copies[p].id = queues[source].messages[p].id
  <2> HIDE DEF moving, target
  <2> QED
    BY <1>1, <1>3, <1>4
<1>7. left = WithMessages(queues, source, messages)
  BY DEF WithMessages
<1>8. \A k \in DOMAIN queues : Bound(target, k) \subseteq moving
  BY DEF Bound, Movable
<1>9. new = [k \in DOMAIN queues |->
               IF Bound(target, k) = {} THEN left[k]
               ELSE PushAll(left[k], [p \in Bound(target, k) |-> Relocated(old[p], NoValue)],
                            queues[source].pushed)]
  BY DEF MovedQueues
<1> HIDE DEF messages, left, new, target, moving
<1>10. /\ DOMAIN left = DOMAIN queues
       /\ \A k \in DOMAIN queues \ {source} : left[k] = queues[k]
  BY <1>5, <1>7, EditMessages
<1>11. Distributed(new, left, moving, copies, target, queues[source].pushed)
  <2> SUFFICES ASSUME NEW k \in DOMAIN queues, Bound(target, k) # {}
               PROVE  new[k] = PushAll(left[k], [p \in Bound(target, k) \cap moving |-> copies[p]],
                                       queues[source].pushed)
    BY <1>9, <1>10 DEF Distributed
  <2>1. Bound(target, k) \cap moving = Bound(target, k)
    BY <1>8
  <2>2. [p \in Bound(target, k) |-> copies[p]]
          = [p \in Bound(target, k) |-> Relocated(old[p], NoValue)]
    BY <1>8
  <2> HIDE DEF copies
  <2> QED
    BY <1>9, <2>1, <2>2
<1>12. /\ new = [k \in DOMAIN queues |-> new[k]]
       /\ DOMAIN new = DOMAIN queues
  BY <1>9
<1> HIDE DEF copies
<1>13. Sound(new, ids)
  BY <1>1, <1>5, <1>6, <1>7, <1>11, <1>12, RelocateStore
<1>14. \A k \in DOMAIN queues : k = source \/ (\E p \in moving : k = target[p]) \/ new[k] = queues[k]
  BY <1>8, <1>9, <1>10 DEF Bound
<1> QED
  BY <1>12, <1>13, <1>14 DEF new, moving, target

\* Queue n of new has the messages at `positions` staged, and the rest untouched.
StagedAs(new, ids, n, positions, mutated) ==
  /\ Sound(new, ids)
  /\ DOMAIN new = DOMAIN queues
  /\ \A k \in DOMAIN queues \ {n} : new[k] = queues[k]
  /\ \A p \in positions :
       InFlight(queues[n].messages[p]) => new[n].messages[p] = mutated[p]
  /\ \A p \in LivePositions(new[n]) :
       /\ p \in LivePositions(queues[n])
       /\ new[n].messages[p].id = queues[n].messages[p].id
  /\ Unstaged(new, n, positions) = queues

\* Staging edits messages in place.
LEMMA StagedStore ==
  ASSUME NEW ids, Sound(queues, ids), now \in Nat, minted \in [MsgIds -> Nat],
         NEW n \in DOMAIN queues,
         NEW positions \in SUBSET LivePositions(queues[n]),
         NEW mutated \in [positions -> Message],
         \A p \in positions : mutated[p].deleted \/ mutated[p].id = queues[n].messages[p].id
  PROVE  StagedAs(Staged(n, mutated), ids, n, positions, mutated)
<1> DEFINE old == queues[n].messages
           messages == [p \in DOMAIN old |->
                          CASE p \notin DOMAIN mutated -> old[p]
                            [] p \in DOMAIN mutated /\ InFlight(old[p]) -> mutated[p]
                            [] OTHER -> [old[p] EXCEPT !.receiptHandle = 0]]
           new == Staged(n, mutated)
<1>1. new = WithMessages(queues, n, messages)
  BY DEF Staged, WithMessages, Sound, AreQueues
<1>2. IsQueue(queues[n]) /\ old \in [DOMAIN old -> Message]
  BY DEF Sound, AreQueues, IsQueue
<1>3. positions \subseteq DOMAIN old /\ \A p \in positions : ~old[p].deleted
  BY DEF LivePositions
<1>4. \A p \in DOMAIN old : /\ [old[p] EXCEPT !.receiptHandle = 0] \in Message
                            /\ [old[p] EXCEPT !.receiptHandle = 0].id = old[p].id
                            /\ [old[p] EXCEPT !.receiptHandle = 0].deleted = old[p].deleted
  BY <1>2 DEF Message
<1>5. /\ messages \in [DOMAIN queues[n].messages -> Message]
      /\ \A p \in DOMAIN messages :
           ~messages[p].deleted => /\ ~queues[n].messages[p].deleted
                                   /\ messages[p].id = queues[n].messages[p].id
  BY <1>2, <1>3, <1>4
<1>6. \A p \in positions : InFlight(old[p]) => messages[p] = mutated[p]
  BY <1>3
<1>7. /\ DOMAIN messages = DOMAIN old
      /\ \A p \in DOMAIN old \ positions : messages[p] = old[p]
  OBVIOUS
<1> HIDE DEF messages, new
<1>8. /\ Sound(new, ids)
      /\ DOMAIN new = DOMAIN queues
      /\ new[n].messages = messages
      /\ \A k \in DOMAIN queues \ {n} : new[k] = queues[k]
  BY <1>1, <1>5, EditMessages
<1>9. \A p \in LivePositions(new[n]) :
        p \in LivePositions(queues[n]) /\ new[n].messages[p].id = queues[n].messages[p].id
  BY <1>5, <1>7, <1>8 DEF LivePositions
<1>10. Unstaged(new, n, positions) = queues
  <2> DEFINE undone == [p \in DOMAIN messages |-> IF p \in positions THEN old[p] ELSE messages[p]]
  <2>1. undone = old
    BY <1>2, <1>7
  <2>2. Unstaged(new, n, positions) = [new EXCEPT ![n].messages = undone]
    BY <1>8 DEF Unstaged, Sound, AreQueues
  <2> HIDE DEF undone
  <2>3. new = [queues EXCEPT ![n].messages = messages]
    BY <1>1 DEF WithMessages
  <2>4. [new EXCEPT ![n].messages = old] = [queues EXCEPT ![n].messages = old]
    BY <2>3, <1>2 DEF Sound, AreQueues, IsQueue, QueueFields
  <2>5. [queues[n] EXCEPT !.messages = old] = queues[n]
    BY <1>2 DEF IsQueue
  <2>6. queues = [k \in DOMAIN queues |-> queues[k]]
    BY DEF Sound, AreQueues
  <2> QED
    BY <2>1, <2>2, <2>4, <2>5, <2>6
<1> QED
  BY <1>6, <1>8, <1>9, <1>10 DEF new, StagedAs

-----------------------------------------------------------------------------
(***************************************************************************)
(* The inductive invariant, in two parts: what the server and its file     *)
(* hold, and the records that surround them.                               *)
(***************************************************************************)

Held(ids) ==
  /\ Sound(queues, ids)
  /\ Sound(Load(disk), ids)
  /\ up \in BOOLEAN
  /\ moveTasks \in Seq(MoveTask)
  /\ disk.moveTasks \in Seq(MoveTask)

HeldNext(ids) ==
  /\ Sound(queues', ids)
  /\ Sound(Load(disk'), ids)
  /\ up' \in BOOLEAN
  /\ moveTasks' \in Seq(MoveTask)
  /\ disk'.moveTasks \in Seq(MoveTask)

Records ==
  /\ now \in Nat
  /\ polls \in [Consumers -> Optional(Call)]
  /\ issued \subseteq MsgIds
  /\ minted \in [MsgIds -> Nat]
  /\ creates \in Nat
  /\ accepted \in Seq(Acceptance)
  /\ lease \in [MsgIds -> Nat]
  /\ AcceptedIds \cup removed \subseteq issued

LEMMA Parts == LedgerInv <=> Held(AcceptedIds \ removed) /\ Records
BY DEF LedgerInv, TypeOK, Held, Records, Sound

LEMMA PartsNext == HeldNext(AcceptedIds' \ removed') /\ Records' => LedgerInv'
BY DEF LedgerInv, TypeOK, HeldNext, Records, Sound

\* A handler that ends in persist() and undoes itself when that fails: what the
\* server and the file hold afterwards is the old store or the new one.
LEMMA PersistHeld ==
  ASSUME NEW outcome \in Outcomes, NEW before, NEW after, Held(before),
         NEW new, Sound(new, after), NEW tasks \in Seq(MoveTask),
         NEW undo, undo = queues,
         Persist(outcome, new, tasks, undo, moveTasks)
  PROVE  HeldNext(IF Effective(outcome) THEN after ELSE before)
<1>1. CASE outcome = "saved"
  <2>1. /\ queues' = new /\ moveTasks' = tasks /\ disk' = Saved(new, tasks) /\ up' = up
    BY <1>1 DEF Persist
  <2>2. Load(disk') = new /\ disk'.moveTasks = tasks
    BY <2>1, RoundTrip DEF Sound, Saved
  <2> QED
    BY <1>1, <2>1, <2>2 DEF Held, HeldNext, Effective
<1>2. CASE outcome = "failed"
  BY <1>2 DEF Persist, Held, HeldNext, Effective
<1>3. CASE outcome = "killed"
  <2>1. /\ queues' = NoFields /\ moveTasks' = <<>> /\ disk' = Saved(new, tasks) /\ up' = FALSE
    BY <1>3 DEF Persist
  <2>2. Load(disk') = new /\ disk'.moveTasks = tasks
    BY <2>1, RoundTrip DEF Sound, Saved
  <2>3. Sound(queues', after)
    BY <2>1, NoStore
  <2>4. up' \in BOOLEAN
    BY <2>1
  <2>5. moveTasks' \in Seq(MoveTask)
    BY <2>1
  <2>6. Effective(outcome)
    BY <1>3 DEF Effective
  <2> QED
    BY <2>2, <2>3, <2>4, <2>5, <2>6 DEF HeldNext
<1> QED
  BY <1>1, <1>2, <1>3 DEF Outcomes

\* The calls asleep after a handler.
LEMMA PollsTyped ==
  ASSUME polls \in [Consumers -> Optional(Call)], NEW outcome
  PROVE  PollsAfter(outcome) \in [Consumers -> Optional(Call)]
BY DEF PollsAfter, Optional

LEMMA CreateKeeps ==
  ASSUME LedgerInv, NEW n \in QueueNames, NEW request \in CreateRequests,
         NEW tags \in SUBSET TagKeys, CreateQueue(n, request, tags)
  PROVE  LedgerInv'
<1> DEFINE ids == AcceptedIds \ removed
           attributes == Merged(DefaultAttributes, request)
           queue == NewQueue(attributes, tags)
           new == With(queues, n, queue)
<1>1. Held(ids) /\ Records
  BY Parts
<1>2. PICK outcome \in Outcomes :
        /\ Persist(outcome, new, moveTasks, Without(new, {n}), moveTasks)
        /\ polls' = PollsAfter(outcome)
  BY DEF CreateQueue
<1>3. AreAttributes(attributes)
  BY MergedTyped, ConstantsAssumption
<1>4. IsQueue(queue) /\ LivePositions(queue) = {}
  <2> HIDE DEF attributes
  <2> QED
    BY <1>1, <1>3 DEF Records, NewQueue, IsQueue, QueueFields, NoFields, LivePositions
<1> HIDE DEF queue
<1>5. n \notin DOMAIN queues
  BY DEF CreateQueue
<1>6. Sound(new, ids)
  BY <1>1, <1>4, <1>5, CreateStore DEF Held
<1>7. Without(new, {n}) = queues
  BY <1>1, <1>5 DEF Held, Sound, AreQueues, With, Without, Restrict
<1> HIDE DEF new, ids
<1>8. HeldNext(ids)
  BY <1>1, <1>2, <1>6, <1>7, PersistHeld DEF Held
<1> QED
  BY <1>1, <1>2, <1>8, PollsTyped, PartsNext DEF ids, Records, CreateQueue, historyVars, AcceptedIds

\* What is no longer live anywhere may be struck off the ids of a store.
LEMMA RemovedStore ==
  ASSUME NEW new, NEW ids, Sound(new, ids), NEW gone, gone \cap AllLiveIds(new) = {}
  PROVE  Sound(new, ids \ gone)
BY DEF Sound

\* A step of a handler that ends in persist() and strikes the ids `gone` off.
LEMMA RemovalKeeps ==
  ASSUME LedgerInv, NEW outcome \in Outcomes, NEW gone \in SUBSET AllLiveIds(queues),
         NEW new, Sound(new, AcceptedIds \ removed), gone \cap AllLiveIds(new) = {},
         NEW undo, undo = queues,
         Persist(outcome, new, moveTasks, undo, moveTasks),
         polls' = PollsAfter(outcome),
         removed' = IF Effective(outcome) THEN removed \cup gone ELSE removed,
         UNCHANGED <<now, stampVars, accepted, lease>>
  PROVE  LedgerInv'
<1> DEFINE ids == AcceptedIds \ removed
<1>1. Held(ids) /\ Records
  BY Parts
<1>2. Sound(new, ids \ gone)
  BY RemovedStore
<1>3. moveTasks \in Seq(MoveTask)
  BY <1>1 DEF Held
<1>4. HeldNext(IF Effective(outcome) THEN ids \ gone ELSE ids)
  <2> HIDE DEF ids
  <2> QED
    BY <1>1, <1>2, <1>3, PersistHeld
<1>5. AcceptedIds' = AcceptedIds
  BY DEF AcceptedIds
<1>6. HeldNext(AcceptedIds' \ removed')
  <2>1. AcceptedIds' \ removed' = IF Effective(outcome) THEN ids \ gone ELSE ids
    BY <1>5
  <2> QED
    BY <1>4, <2>1
<1>7. gone \subseteq issued
  BY <1>1 DEF Held, Records, Sound
<1>8. Records'
  BY <1>1, <1>5, <1>7, PollsTyped DEF Records, stampVars
<1> QED
  BY <1>6, <1>8, PartsNext

\* The live messages of one queue are in no other.
LEMMA OwnIds ==
  ASSUME NEW qs, SingleCopy(qs), NEW n \in DOMAIN qs, NEW new,
         \A k \in DOMAIN new : /\ k \in DOMAIN qs
                               /\ (new[k] = qs[k] /\ k # n) \/ LivePositions(new[k]) = {}
  PROVE  LiveIds(qs[n]) \cap AllLiveIds(new) = {}
BY DEF SingleCopy, LiveIds, AllLiveIds

LEMMA DeleteQueueKeeps ==
  ASSUME LedgerInv, NEW n \in QueueNames, DeleteQueue(n)
  PROVE  LedgerInv'
<1> DEFINE ids == AcceptedIds \ removed
           new == Without(queues, {n})
           gone == LiveIds(queues[n])
<1>1. Held(ids) /\ Records
  BY Parts
<1>2. n \in DOMAIN queues
  BY DEF DeleteQueue
<1>3. PICK outcome \in Outcomes :
        /\ Persist(outcome, new, moveTasks, With(new, n, queues[n]), moveTasks)
        /\ polls' = PollsAfter(outcome)
        /\ removed' = IF Effective(outcome) THEN removed \cup gone ELSE removed
  BY DEF DeleteQueue, RemoveAll
<1>4. Sound(new, ids)
  BY <1>1, DropStore DEF Held
<1>5. With(new, n, queues[n]) = queues
  BY <1>1, <1>2 DEF Held, Sound, AreQueues, With, Without, Restrict
<1>6. gone \cap AllLiveIds(new) = {}
  <2>1. \A k \in DOMAIN new : k \in DOMAIN queues /\ new[k] = queues[k] /\ k # n
    BY DEF Without, Restrict
  <2> HIDE DEF new
  <2> QED
    BY <1>1, <1>2, <2>1, OwnIds DEF Held, Sound
<1>7. gone \in SUBSET AllLiveIds(queues)
  BY <1>2 DEF AllLiveIds
<1>8. UNCHANGED <<now, stampVars, accepted, lease>>
  BY DEF DeleteQueue
<1> HIDE DEF new, gone
<1> QED
  BY <1>3, <1>4, <1>5, <1>6, <1>7, <1>8, RemovalKeeps

LEMMA PurgeQueueKeeps ==
  ASSUME LedgerInv, NEW n \in QueueNames, PurgeQueue(n)
  PROVE  LedgerInv'
<1> DEFINE ids == AcceptedIds \ removed
           new == [queues EXCEPT ![n].messages = NoFields]
           undo == [new EXCEPT ![n].messages = queues[n].messages]
           gone == LiveIds(queues[n])
<1>1. Held(ids) /\ Records
  BY Parts
<1>2. n \in DOMAIN queues
  BY DEF PurgeQueue
<1>3. PICK outcome \in Outcomes :
        /\ Persist(outcome, new, moveTasks, undo, moveTasks)
        /\ polls' = PollsAfter(outcome)
        /\ removed' = IF Effective(outcome) THEN removed \cup gone ELSE removed
  BY DEF PurgeQueue, RemoveAll
<1> DEFINE purged == [queues[n] EXCEPT !.messages = NoFields]
<1>4. new = [queues EXCEPT ![n] = purged]
  OBVIOUS
<1>5. IsQueue(queues[n])
  BY <1>1, <1>2 DEF Held, Sound, AreQueues
<1>6. IsQueue(purged) /\ purged.messages = NoFields
  BY <1>5 DEF IsQueue, QueueFields, NoFields
<1>7. LivePositions(purged) = {}
  BY <1>6 DEF LivePositions, NoFields
<1>8. Sound(new, ids)
  <2>1. SubQueue(purged, queues[n])
    BY <1>7 DEF SubQueue
  <2> HIDE DEF purged, new
  <2> QED
    BY <1>1, <1>2, <1>4, <1>6, <2>1, EditStore DEF Held
<1>9. undo = queues
  BY <1>1, <1>2, <1>5 DEF Held, Sound, AreQueues, IsQueue, QueueFields
<1>10. gone \cap AllLiveIds(new) = {}
  <2> HIDE DEF purged, new
  <2>1. \A k \in DOMAIN new : /\ k \in DOMAIN queues
                              /\ (new[k] = queues[k] /\ k # n) \/ LivePositions(new[k]) = {}
    BY <1>4, <1>7
  <2> QED
    BY <1>1, <1>2, <2>1, OwnIds DEF Held, Sound
<1>11. gone \in SUBSET AllLiveIds(queues)
  BY <1>2 DEF AllLiveIds
<1>12. UNCHANGED <<now, stampVars, accepted, lease>>
  BY DEF PurgeQueue
<1> HIDE DEF new, gone, undo
<1> QED
  BY <1>3, <1>8, <1>9, <1>10, <1>11, <1>12, RemovalKeeps

\* A step of a handler that ends in persist() and removes nothing.
LEMMA EditKeeps ==
  ASSUME LedgerInv, NEW outcome \in Outcomes,
         NEW new, Sound(new, AcceptedIds \ removed), NEW tasks \in Seq(MoveTask),
         NEW undo, undo = queues,
         Persist(outcome, new, tasks, undo, moveTasks),
         polls' \in [Consumers -> Optional(Call)],
         lease' \in [MsgIds -> Nat],
         minted' \in [MsgIds -> Nat],
         UNCHANGED <<now, issued, creates, accepted, removed>>
  PROVE  LedgerInv'
<1> DEFINE ids == AcceptedIds \ removed
<1>1. Held(ids) /\ Records
  BY Parts
<1>2. HeldNext(ids)
  <2> HIDE DEF ids
  <2>1. Sound(new, ids)
    BY DEF ids
  <2> QED
    BY <1>1, <2>1, PersistHeld
<1>3. AcceptedIds' = AcceptedIds
  BY DEF AcceptedIds
<1>4. HeldNext(AcceptedIds' \ removed')
  BY <1>2, <1>3
<1>5. Records'
  BY <1>1, <1>3 DEF Records
<1> QED
  BY <1>4, <1>5, PartsNext

LEMMA ReplaceFieldKeeps ==
  ASSUME LedgerInv, NEW n \in DOMAIN queues, NEW field, NEW value,
         \/ field = "attributes" /\ AreAttributes(value)
         \/ field = "tags" /\ value \in SUBSET TagKeys,
         ReplaceField(n, field, value)
  PROVE  LedgerInv'
<1> DEFINE ids == AcceptedIds \ removed
           queue == With(queues[n], field, value)
           new == [queues EXCEPT ![n] = queue]
           undo == [new EXCEPT ![n] = queues[n]]
<1>1. Held(ids) /\ Records
  BY Parts
<1>2. PICK outcome \in Outcomes : /\ Persist(outcome, new, moveTasks, undo, moveTasks)
                                 /\ polls' = PollsAfter(outcome)
  BY DEF ReplaceField
<1>3. IsQueue(queues[n])
  BY <1>1 DEF Held, Sound, AreQueues
<1>4. IsQueue(queue) /\ queue.messages = queues[n].messages
  BY <1>3, NewField
<1>5. SubQueue(queue, queues[n])
  BY <1>4 DEF SubQueue, LivePositions
<1>6. undo = queues
  <2> HIDE DEF queue
  <2> QED
    BY <1>1 DEF Held, Sound, AreQueues
<1> HIDE DEF queue
<1>7. Sound(new, ids)
  BY <1>1, <1>4, <1>5, EditStore DEF Held
<1>8. moveTasks \in Seq(MoveTask)
  BY <1>1 DEF Held
<1>9. /\ polls' \in [Consumers -> Optional(Call)]
      /\ lease' \in [MsgIds -> Nat]
      /\ minted' \in [MsgIds -> Nat]
      /\ UNCHANGED <<now, issued, creates, accepted, removed>>
  BY <1>1, <1>2, PollsTyped DEF Records, ReplaceField, stampVars, historyVars
<1> HIDE DEF new, undo
<1> QED
  BY <1>2, <1>6, <1>7, <1>8, <1>9, EditKeeps

\* SetQueueAttributes, tags and permissions.
LEMMA ConfigureKeeps ==
  ASSUME LedgerInv, NEW n \in QueueNames,
         \/ \E request \in UpdateRequests : UpdateQueueAttributes(n, request)
         \/ \E keys \in SUBSET TagKeys \ {{}} : TagQueue(n, keys) \/ UntagQueue(n, keys)
         \/ \E label \in Labels : AddPermission(n, label) \/ RemovePermission(n, label)
  PROVE  LedgerInv'
<1>1. n \in DOMAIN queues
  BY DEF UpdateQueueAttributes, TagQueue, UntagQueue, AddPermission, RemovePermission
<1>2. IsQueue(queues[n])
  BY <1>1 DEF LedgerInv, TypeOK, AreQueues
<1>3. AreAttributes(queues[n].attributes) /\ queues[n].tags \in SUBSET TagKeys
  BY <1>2 DEF IsQueue
<1>4. ASSUME NEW request \in UpdateRequests, UpdateQueueAttributes(n, request)
      PROVE  LedgerInv'
  <2>1. AreAttributes(Merged(queues[n].attributes, request))
    BY <1>3, MergedTyped
  <2> QED
    BY <1>1, <1>4, <2>1, ReplaceFieldKeeps DEF UpdateQueueAttributes
<1>5. ASSUME NEW keys \in SUBSET TagKeys, TagQueue(n, keys) \/ UntagQueue(n, keys)
      PROVE  LedgerInv'
  <2>1. /\ queues[n].tags \cup keys \in SUBSET TagKeys
        /\ queues[n].tags \ keys \in SUBSET TagKeys
    BY <1>3
  <2> QED
    BY <1>1, <1>5, <2>1, ReplaceFieldKeeps DEF TagQueue, UntagQueue
<1>6. ASSUME NEW label \in Labels, AddPermission(n, label) \/ RemovePermission(n, label)
      PROVE  LedgerInv'
  <2>1. /\ AreAttributes([queues[n].attributes EXCEPT !.policy = @ \cup {label}])
        /\ AreAttributes([queues[n].attributes EXCEPT !.policy = @ \ {label}])
    <3> DEFINE a == queues[n].attributes
    <3>1. /\ "policy" \in DOMAIN AttributeValues
          /\ AttributeValues["policy"] = SUBSET Labels
          /\ a.policy = a["policy"]
      BY DEF AttributeValues
    <3>2. a = [f \in DOMAIN AttributeValues |-> a[f]]
      BY <1>3 DEF AreAttributes
    <3>3. a.policy \cup {label} \in SUBSET Labels /\ a.policy \ {label} \in SUBSET Labels
      BY <1>3, <3>1 DEF AreAttributes
    <3> HIDE DEF a
    <3>4. ASSUME NEW policy \in SUBSET Labels
          PROVE  AreAttributes([a EXCEPT !["policy"] = policy])
      BY <1>3, <3>1, <3>2 DEF AreAttributes, a
    <3> QED
      BY <3>1, <3>3, <3>4 DEF a
  <2> QED
    BY <1>1, <1>6, <2>1, ReplaceFieldKeeps DEF AddPermission, RemovePermission
<1> QED
  BY <1>4, <1>5, <1>6

\* A step that only cleans queue n up, in memory.
LEMMA CleanupKeeps ==
  ASSUME LedgerInv, NEW n \in DOMAIN queues, queues' = CleanedAt(n),
         polls' \in [Consumers -> Optional(Call)],
         UNCHANGED <<now, up, moveTasks, disk, stampVars, historyVars>>
  PROVE  LedgerInv'
<1> DEFINE ids == AcceptedIds \ removed
<1>1. Held(ids) /\ Records
  BY Parts
<1>2. AcceptedIds' = AcceptedIds /\ removed' = removed
  BY DEF AcceptedIds, historyVars
<1>3. IsQueue(Cleaned(queues[n])) /\ SubQueue(Cleaned(queues[n]), queues[n])
  BY <1>1, CleanedQueue DEF Held, Sound, AreQueues
<1>4. Sound([queues EXCEPT ![n] = Cleaned(queues[n])], ids)
  BY <1>1, <1>3, EditStore DEF Held
<1>5. Sound(queues', ids)
  BY <1>4 DEF CleanedAt
<1>6. HeldNext(AcceptedIds' \ removed')
  BY <1>1, <1>2, <1>5 DEF Held, HeldNext
<1>7. Records'
  BY <1>1, <1>2 DEF Records, stampVars, historyVars
<1> QED
  BY <1>6, <1>7, PartsNext

LEMMA DeleteMessagesKeeps ==
  ASSUME LedgerInv, NEW n \in QueueNames, NEW batch, DeleteMessages(n, batch)
  PROVE  LedgerInv'
<1> DEFINE ids == AcceptedIds \ removed
           messages == queues[n].messages
           positions == Receipted(queues[n], batch)
           mutated == [p \in positions |-> Tombstone(messages[p])]
           new == Staged(n, mutated)
           undo == Unstaged(new, n, positions)
           flying == {p \in positions : InFlight(messages[p])}
           gone == {messages[p].id : p \in flying}
<1>1. Held(ids) /\ Records
  BY Parts
<1>2. n \in DOMAIN queues
  BY DEF DeleteMessages
<1>3. PICK outcome \in Outcomes :
        /\ Persist(outcome, new, moveTasks, undo, moveTasks)
        /\ polls' = PollsAfter(outcome)
        /\ removed' = IF Effective(outcome) THEN removed \cup gone ELSE removed
  BY DEF DeleteMessages
<1>4. positions \in SUBSET LivePositions(queues[n])
  BY DEF Receipted
<1>5. \A p \in LivePositions(queues[n]) : messages[p] \in Message
  BY <1>1, <1>2 DEF Held, Sound, AreQueues, IsQueue, LivePositions
<1>6. \A p \in positions : Tombstone(messages[p]) \in Message /\ Tombstone(messages[p]).deleted
  <2>1. NoValue \in Optional(QueueNames) /\ 0 \in Nat
    BY DEF Optional
  <2> QED
    BY <1>1, <1>4, <1>5, <2>1, EditedMessage DEF Records
<1>7. /\ mutated \in [positions -> Message]
      /\ \A p \in positions : mutated[p].deleted
  BY <1>6
<1>8. flying \subseteq positions /\ \A p \in flying : InFlight(messages[p])
  OBVIOUS
<1>9. UNCHANGED <<now, stampVars, accepted, lease>>
  BY DEF DeleteMessages
<1> HIDE DEF mutated, positions, flying
<1>10. /\ Sound(new, ids)
       /\ DOMAIN new = DOMAIN queues
       /\ \A k \in DOMAIN queues \ {n} : new[k] = queues[k]
       /\ \A p \in positions : InFlight(messages[p]) => new[n].messages[p] = mutated[p]
       /\ \A p \in LivePositions(new[n]) :
            p \in LivePositions(queues[n]) /\ new[n].messages[p].id = messages[p].id
       /\ undo = queues
  <2>1. Sound(queues, ids) /\ now \in Nat /\ minted \in [MsgIds -> Nat]
    BY <1>1 DEF Held, Records
  <2>2. StagedAs(new, ids, n, positions, mutated)
    BY <1>2, <1>4, <1>7, <2>1, StagedStore
  <2> HIDE DEF new
  <2> QED
    BY <2>2 DEF StagedAs
<1> HIDE DEF new, undo
<1>11. flying \cap LivePositions(new[n]) = {}
  BY <1>7, <1>8, <1>10 DEF LivePositions
<1>12. gone \cap AllLiveIds(new) = {}
  <2> SUFFICES ASSUME NEW f \in flying, NEW k \in DOMAIN queues, NEW p \in LivePositions(new[k]),
                      new[k].messages[p].id = messages[f].id
               PROVE  FALSE
    BY <1>10 DEF AllLiveIds, LiveIds
  <2>1. p \in LivePositions(queues[k]) /\ queues[k].messages[p].id = queues[n].messages[f].id
    BY <1>10
  <2>2. k = n /\ p = f
    BY <1>1, <1>2, <1>4, <1>8, <2>1 DEF Held, Sound, SingleCopy
  <2> QED
    BY <1>11, <2>2
<1>13. gone \in SUBSET AllLiveIds(queues)
  BY <1>2, <1>4, <1>8 DEF AllLiveIds, LiveIds
<1> HIDE DEF gone
<1> QED
  BY <1>3, <1>9, <1>10, <1>12, <1>13, RemovalKeeps

LEMMA ChangeVisibilityKeeps ==
  ASSUME LedgerInv, NEW n \in QueueNames, NEW batch \in SUBSET Handles,
         NEW timeouts \in [batch -> VisibilityInputs], ChangeVisibility(n, timeouts)
  PROVE  LedgerInv'
<1> DEFINE ids == AcceptedIds \ removed
           messages == queues[n].messages
           valid == {h \in DOMAIN timeouts : timeouts[h] <= MaxVisibility}
           positions == Receipted(queues[n], valid)
           timeout(p) == timeouts[[id |-> messages[p].id, n |-> messages[p].receiptHandle]]
           mutated == [p \in positions |-> [messages[p] EXCEPT !.invisibleUntil = now + timeout(p)]]
           new == Staged(n, mutated)
           undo == Unstaged(new, n, positions)
           extended == {p \in positions : InFlight(messages[p])}
<1>1. Held(ids) /\ Records
  BY Parts
<1>2. n \in DOMAIN queues
  BY DEF ChangeVisibility
<1>3. PICK outcome \in Outcomes :
        /\ Persist(outcome, new, moveTasks, undo, moveTasks)
        /\ polls' = PollsAfter(outcome)
        /\ lease' = IF Effective(outcome)
                    THEN [id \in MsgIds |->
                            IF \E p \in extended : messages[p].id = id
                            THEN now + timeout(CHOOSE p \in extended : messages[p].id = id)
                            ELSE lease[id]]
                    ELSE lease
  BY DEF ChangeVisibility
<1>4. positions \in SUBSET LivePositions(queues[n])
  BY DEF Receipted
<1>5. \A p \in LivePositions(queues[n]) : messages[p] \in Message
  BY <1>1, <1>2 DEF Held, Sound, AreQueues, IsQueue, LivePositions
<1>6. \A p \in positions : timeout(p) \in Nat
  <2> SUFFICES ASSUME NEW p \in positions PROVE timeout(p) \in Nat
    OBVIOUS
  <2>1. PICK h \in valid : p \in Matches(queues[n], h)
    BY DEF Receipted
  <2>2. h \in batch
    OBVIOUS
  <2>3. PICK id \in MsgIds : h \in [id : {id}, n : 1..minted[id]]
    BY <2>2 DEF Handles
  <2>4. h = [id |-> messages[p].id, n |-> messages[p].receiptHandle]
    BY <2>1, <2>3 DEF Matches
  <2> QED
    BY <2>2, <2>4, ConstantsAssumption
<1> HIDE DEF timeout, positions
<1>7. now \in Nat /\ minted \in [MsgIds -> Nat] /\ lease \in [MsgIds -> Nat]
  BY <1>1 DEF Records
<1>8. \A p \in positions :
        /\ [messages[p] EXCEPT !.invisibleUntil = now + timeout(p)] \in Message
        /\ [messages[p] EXCEPT !.invisibleUntil = now + timeout(p)].id = messages[p].id
  <2>1. NoValue \in Optional(QueueNames)
    BY DEF Optional
  <2> QED
    BY <1>4, <1>5, <1>6, <1>7, <2>1, EditedMessage
<1>9. /\ mutated \in [positions -> Message]
      /\ \A p \in positions : mutated[p].id = messages[p].id
  BY <1>8
<1>10. lease' \in [MsgIds -> Nat]
  <2>1. \A p \in extended : now + timeout(p) \in Nat
    BY <1>6, <1>7
  <2>2. ASSUME NEW id \in MsgIds, \E p \in extended : messages[p].id = id
        PROVE  now + timeout(CHOOSE p \in extended : messages[p].id = id) \in Nat
    <3>1. (CHOOSE p \in extended : messages[p].id = id) \in extended
      BY <2>2
    <3> QED
      BY <2>1, <3>1
  <2> HIDE DEF extended
  <2> QED
    BY <1>3, <1>7, <2>2
<1> HIDE DEF mutated
<1>11. Sound(new, ids) /\ undo = queues
  <2>1. Sound(queues, ids)
    BY <1>1 DEF Held
  <2>2. StagedAs(new, ids, n, positions, mutated)
    BY <1>2, <1>4, <1>7, <1>9, <2>1, StagedStore
  <2> HIDE DEF new
  <2> QED
    BY <2>2 DEF StagedAs
<1>12. /\ polls' \in [Consumers -> Optional(Call)]
       /\ minted' \in [MsgIds -> Nat]
       /\ moveTasks \in Seq(MoveTask)
       /\ UNCHANGED <<now, issued, creates, accepted, removed>>
  BY <1>1, <1>3, PollsTyped DEF Held, Records, ChangeVisibility, stampVars
<1> HIDE DEF new, undo
<1> QED
  BY <1>3, <1>10, <1>11, <1>12, EditKeeps

\* One more accepted send.
LEMMA AcceptedGrows ==
  ASSUME accepted \in Seq(Acceptance), NEW entry \in Acceptance,
         accepted' = Append(accepted, entry)
  PROVE  accepted' \in Seq(Acceptance) /\ AcceptedIds' = AcceptedIds \cup {entry.id}
<1>1. accepted' \in Seq(Acceptance)
  OBVIOUS
<1>2. /\ DOMAIN accepted' = DOMAIN accepted \cup {Len(accepted) + 1}
      /\ \A i \in DOMAIN accepted : accepted'[i] = accepted[i]
      /\ accepted'[Len(accepted) + 1] = entry
  OBVIOUS
<1>3. AcceptedIds' = AcceptedIds \cup {entry.id}
  BY <1>2 DEF AcceptedIds
<1> QED
  BY <1>1, <1>3

\* The counters of a FIFO queue move on.
LEMMA EnteredQueue ==
  ASSUME NEW queue, IsQueue(queue), NEW key \in DedupKeys, NEW id \in MsgIds, now \in Nat
  PROVE  /\ IsQueue(Entered(queue, key, id))
         /\ Entered(queue, key, id).messages = queue.messages
         /\ Entered(queue, key, id).createdAt = queue.createdAt
         /\ Entered(queue, key, id).attributes = queue.attributes
         /\ Entered(queue, key, id).tags = queue.tags
<1> DEFINE state == [expiresAt |-> now + DedupWindow, id |-> id]
           dedup == With(queue.dedup, key, state)
           sequence == queue.sequence + 1
<1>1. state \in [expiresAt : Nat, id : MsgIds]
  BY ConstantsAssumption
<1>2. sequence \in Nat
  BY DEF IsQueue
<1> HIDE DEF state, sequence
<1>3. /\ DOMAIN dedup \subseteq DedupKeys
      /\ dedup \in [DOMAIN dedup -> [expiresAt : Nat, id : MsgIds]]
  BY <1>1 DEF With, IsQueue
<1>4. Entered(queue, key, id) = [queue EXCEPT !.sequence = sequence, !.dedup = dedup]
  BY DEF Entered, IsQueue, QueueFields, state, sequence
<1> HIDE DEF dedup
<1> QED
  BY <1>2, <1>3, <1>4 DEF IsQueue, QueueFields

LEMMA StoreMessageKeeps ==
  ASSUME LedgerInv, NEW request \in SendRequests, request.queue \in DOMAIN queues,
         ~Refused(request.queue, Cleaned(queues[request.queue]), request),
         NEW id \in MsgIds \ issued, NEW outcome \in Outcomes,
         StoreMessage(request, id, outcome)
  PROVE  LedgerInv'
<1> DEFINE ids      == AcceptedIds \ removed
           n        == request.queue
           queue    == Cleaned(queues[n])
           fifo     == IsFifo(n, queue.attributes)
           key      == DedupKey(queue.attributes, request)
           delay    == DelayOf(queue, request)
           entered  == IF fifo THEN Entered(queue, key, id) ELSE queue
           sequence == IF fifo THEN entered.sequence ELSE 0
           m == [id |-> id, sentAt |-> now, availableAt |-> now + delay,
                 invisibleUntil |-> 0, receiveCount |-> 0, receiptHandle |-> 0,
                 deleted |-> FALSE, group |-> request.group, sequence |-> sequence,
                 deadLetterSource |-> NoValue]
           sent == [queues EXCEPT ![n] = Push(entered, m)]
           undo == [sent EXCEPT ![n].messages = queues[n].messages,
                                ![n].pushed = queues[n].pushed,
                                ![n].sequence = queues[n].sequence,
                                ![n].dedup = queues[n].dedup]
           entry == [id |-> id, createdAt |-> queue.createdAt, at |-> now,
                     key |-> IF fifo THEN key ELSE NoValue, sequence |-> sequence]
<1>1. Held(ids) /\ Records
  BY Parts
<1>2. n \in DOMAIN queues
  OBVIOUS
<1>3. IsQueue(queues[n])
  BY <1>1, <1>2 DEF Held, Sound, AreQueues
<1>4. /\ IsQueue(queue) /\ SubQueue(queue, queues[n])
      /\ queue.attributes = queues[n].attributes
      /\ queue.createdAt = queues[n].createdAt
      /\ queue.tags = queues[n].tags
  BY <1>3, CleanedQueue
<1>5. Persist(outcome, sent, moveTasks, undo, moveTasks)
  BY DEF StoreMessage
<1>6. accepted' = IF Effective(outcome) THEN Append(accepted, entry) ELSE accepted
  BY DEF StoreMessage
<1>7. /\ polls' = PollsAfter(outcome)
      /\ issued' = issued \cup {id}
      /\ UNCHANGED <<now, minted, creates, removed, lease>>
  BY DEF StoreMessage
<1>8. now \in Nat /\ queue.createdAt \in Nat
  BY <1>1, <1>4 DEF Records, IsQueue
<1>9. delay \in Nat
  <2>1. queue.attributes.delay \in Nat
    <3>1. AreAttributes(queue.attributes)
      BY <1>4 DEF IsQueue
    <3>2. "delay" \in DOMAIN AttributeValues /\ AttributeValues["delay"] = Nat
      BY DEF AttributeValues
    <3> HIDE DEF queue
    <3> QED
      BY <3>1, <3>2 DEF AreAttributes
  <2>2. request.delay \in Optional(DelayInputs)
    BY DEF SendRequests
  <2> QED
    BY <2>1, <2>2, ConstantsAssumption DEF Optional, DelayOf
<1>10. fifo => key \in DedupKeys
  <2>1. request.dedup \in Optional(DedupIds) /\ request.content \in Contents
    BY DEF SendRequests
  <2>2. ~(fifo /\ key = NoValue)
    BY DEF Refused
  <2> HIDE DEF fifo, queue
  <2> QED
    BY <2>1, <2>2 DEF DedupKey, DedupKeys, Optional
<1>11. entered = IF fifo THEN Entered(queue, key, id) ELSE queue
  OBVIOUS
<1>12. sent = [queues EXCEPT ![n] = Push(entered, m)]
  OBVIOUS
<1>13. undo = [sent EXCEPT ![n].messages = queues[n].messages,
                           ![n].pushed = queues[n].pushed,
                           ![n].sequence = queues[n].sequence,
                           ![n].dedup = queues[n].dedup]
  OBVIOUS
<1> HIDE DEF fifo, key, queue, delay, entered, sent, undo
<1>14. /\ IsQueue(entered)
       /\ entered.messages = queue.messages
       /\ entered.createdAt = queue.createdAt
       /\ entered.attributes = queue.attributes
       /\ entered.tags = queue.tags
  BY <1>4, <1>8, <1>10, <1>11, EnteredQueue
<1>15. sequence \in Nat
  BY <1>14 DEF IsQueue
<1> HIDE DEF sequence
<1>16. m \in Message /\ m.id = id
  <2>1. request.group \in Optional(Groups) /\ NoValue \in Optional(QueueNames)
    BY DEF SendRequests, Optional
  <2>2. now + delay \in Nat
    BY <1>8, <1>9
  <2> QED
    BY <1>8, <1>15, <2>1, <2>2 DEF Message
<1>17. entry \in Acceptance /\ entry.id = id
  BY <1>8, <1>10, <1>15 DEF Acceptance, Optional
<1> HIDE DEF m, entry
<1>18. SubQueue(entered, queues[n])
  BY <1>4, <1>14 DEF SubQueue, LivePositions
<1>19. id \notin ids
  BY <1>1 DEF Records
<1>20. Sound(sent, ids \cup {id})
  <2>1. Sound(queues, ids)
    BY <1>1 DEF Held
  <2> HIDE DEF ids, n
  <2>2. Sound([queues EXCEPT ![n] = Push(entered, m)], ids \cup {m.id})
    BY <1>2, <1>14, <1>16, <1>18, <1>19, <2>1, SendStore
  <2> QED
    BY <1>12, <1>16, <2>2
<1>21. undo = queues
  <2> DEFINE pushed == Push(entered, m)
  <2>1. /\ pushed = [f \in QueueFields |-> pushed[f]]
        /\ \A field \in {"createdAt", "attributes", "tags"} : pushed[field] = queues[n][field]
    <3> DEFINE batch == <<m>>
    <3>1. batch \in [{1} -> Message] /\ {1} \in SUBSET (1..1) /\ 1 \in Nat
      BY <1>16
    <3>2. pushed = PushAll(entered, batch, 1)
      BY DEF Push
    <3> HIDE DEF batch, pushed
    <3>3. Appended(pushed, entered, {1}, batch)
      BY <1>14, <3>1, <3>2, PushedQueue
    <3> QED
      BY <1>4, <1>14, <3>3 DEF Appended, IsQueue
  <2> HIDE DEF pushed
  <2>2. sent = [queues EXCEPT ![n] = pushed]
    BY <1>12 DEF pushed
  <2>3. queues = [k \in DOMAIN queues |-> queues[k]]
    BY <1>1 DEF Held, Sound, AreQueues
  <2>4. undo = [queues EXCEPT ![n] = [pushed EXCEPT !.messages = queues[n].messages,
                                                    !.pushed = queues[n].pushed,
                                                    !.sequence = queues[n].sequence,
                                                    !.dedup = queues[n].dedup]]
    BY <1>2, <1>13, <2>2, <2>3
  <2>5. [pushed EXCEPT !.messages = queues[n].messages, !.pushed = queues[n].pushed,
                       !.sequence = queues[n].sequence, !.dedup = queues[n].dedup] = queues[n]
    BY <1>3, <2>1 DEF IsQueue, QueueFields
  <2> QED
    BY <2>3, <2>4, <2>5
<1>22. HeldNext(IF Effective(outcome) THEN ids \cup {id} ELSE ids)
  <2>1. moveTasks \in Seq(MoveTask)
    BY <1>1 DEF Held
  <2> HIDE DEF ids
  <2> QED
    BY <1>1, <1>5, <1>20, <1>21, <2>1, PersistHeld
<1>23. accepted \in Seq(Acceptance)
  BY <1>1 DEF Records
<1>24. /\ accepted' \in Seq(Acceptance)
       /\ AcceptedIds' = IF Effective(outcome) THEN AcceptedIds \cup {id} ELSE AcceptedIds
  <2>1. CASE Effective(outcome)
    <3>1. accepted' = Append(accepted, entry)
      BY <1>6, <2>1
    <3> QED
      BY <1>17, <1>23, <2>1, <3>1, AcceptedGrows
  <2>2. CASE ~Effective(outcome)
    BY <1>6, <1>23, <2>2 DEF AcceptedIds
  <2> QED
    BY <2>1, <2>2
<1>25. AcceptedIds' \ removed' = IF Effective(outcome) THEN ids \cup {id} ELSE ids
  BY <1>1, <1>7, <1>24 DEF Records
<1>26. Records'
  BY <1>1, <1>7, <1>24, PollsTyped DEF Records
<1> QED
  BY <1>22, <1>25, <1>26, PartsNext

LEMMA SendKeeps ==
  ASSUME LedgerInv, NEW request \in SendRequests, SendMessage(request)
  PROVE  LedgerInv'
<1> DEFINE n == request.queue
           queue == Cleaned(queues[n])
<1>1. n \in DOMAIN queues
  BY DEF SendMessage
<1>2. CASE /\ queues' = CleanedAt(n)
           /\ UNCHANGED <<now, up, moveTasks, disk, polls, stampVars, historyVars>>
  <2>1. polls' \in [Consumers -> Optional(Call)]
    BY <1>2 DEF LedgerInv, TypeOK
  <2> QED
    BY <1>1, <1>2, <2>1, CleanupKeeps
<1>3. CASE /\ ~Refused(n, queue, request)
           /\ \E id \in MsgIds \ issued, outcome \in Outcomes : StoreMessage(request, id, outcome)
  BY <1>1, <1>3, StoreMessageKeeps
<1> QED
  BY <1>2, <1>3 DEF SendMessage

\* A call before its next attempt.
PendingCall ==
  [queue : QueueNames, pin : Nat, left : Nat, max : BatchInputs,
   visibility : Optional(VisibilityInputs)]

LEMMA SleepTyped ==
  ASSUME polls \in [Consumers -> Optional(Call)], NEW c \in Consumers,
         NEW call \in PendingCall, NEW left \in Nat
  PROVE  /\ left > 0 => Sleep(c, call, left) \in [Consumers -> Optional(Call)]
         /\ Answer(c) \in [Consumers -> Optional(Call)]
<1>1. Answer(c) \in [Consumers -> Optional(Call)]
  BY DEF Answer, Optional
<1>2. ASSUME left > 0 PROVE Sleep(c, call, left) \in [Consumers -> Optional(Call)]
  <2>1. [call EXCEPT !.left = left] \in Call
    BY <1>2 DEF PendingCall, Call
  <2> QED
    BY <2>1 DEF Sleep, Optional
<1> QED
  BY <1>1, <1>2

LEMMA TakeMessagesKeeps ==
  ASSUME LedgerInv, NEW c \in Consumers, NEW call \in PendingCall, NEW left \in Nat,
         call.queue \in DOMAIN queues, NEW outcome \in Outcomes,
         TakeMessages(c, call, left, outcome)
  PROVE  LedgerInv'
<1> DEFINE ids        == AcceptedIds \ removed
           n          == call.queue
           qs         == CleanedAt(n)
           visibility == VisibilityOf(qs[n], call)
           max        == Clamped(call.max)
           out        == Delivered(qs, n, max)
           taken      == {qs[n].messages[p].id : p \in out}
           scanned    == ReceiveScan(qs, n, max, visibility)
           undo       == [k \in DOMAIN scanned |-> IF k \in Touched(qs, n) THEN queues[k] ELSE scanned[k]]
<1>1. Held(ids) /\ Records
  BY Parts
<1>2. n \in DOMAIN queues /\ n \in QueueNames
  BY DEF PendingCall
<1>3. Persist(outcome, scanned, moveTasks, undo, moveTasks)
  BY DEF TakeMessages
<1>4. polls' = CASE outcome = "killed" -> PollsAfter(outcome)
                 [] outcome = "saved" /\ out = {} /\ left > 0 -> Sleep(c, call, left)
                 [] OTHER -> Answer(c)
  BY DEF TakeMessages
<1>5. minted' = [id \in MsgIds |-> IF id \in taken THEN minted[id] + 1 ELSE minted[id]]
  BY DEF TakeMessages
<1>6. lease' = IF outcome = "saved"
               THEN [id \in MsgIds |-> IF id \in taken THEN now + visibility ELSE lease[id]]
               ELSE lease
  BY DEF TakeMessages
<1>7. UNCHANGED <<now, issued, creates, accepted, removed>>
  BY DEF TakeMessages
<1>8. now \in Nat /\ minted \in [MsgIds -> Nat] /\ lease \in [MsgIds -> Nat]
  BY <1>1 DEF Records
<1>9. /\ Sound(qs, ids) /\ DOMAIN qs = DOMAIN queues
      /\ \A k \in DOMAIN queues \ {n} : qs[k] = queues[k]
  <2>1. IsQueue(Cleaned(queues[n])) /\ SubQueue(Cleaned(queues[n]), queues[n])
    BY <1>1, <1>2, CleanedQueue DEF Held, Sound, AreQueues
  <2>2. Sound([queues EXCEPT ![n] = Cleaned(queues[n])], ids)
    BY <1>1, <1>2, <2>1, EditStore DEF Held
  <2> QED
    BY <1>1, <2>2 DEF CleanedAt, Held, Sound, AreQueues
<1> HIDE DEF qs
<1>10. visibility \in Nat
  <2>1. qs[n].attributes.visibility \in Nat
    <3>1. AreAttributes(qs[n].attributes)
      BY <1>2, <1>9 DEF Sound, AreQueues, IsQueue
    <3>2. "visibility" \in DOMAIN AttributeValues /\ AttributeValues["visibility"] = Nat
      BY DEF AttributeValues
    <3> QED
      BY <3>1, <3>2 DEF AreAttributes
  <2>2. call.visibility \in Optional(VisibilityInputs)
    BY DEF PendingCall
  <2> QED
    BY <2>1, <2>2, ConstantsAssumption DEF Optional, VisibilityOf
<1> HIDE DEF visibility, max, out, taken
<1>11. /\ Sound(scanned, ids) /\ DOMAIN scanned = DOMAIN qs
       /\ \A k \in DOMAIN qs \ Touched(qs, n) : scanned[k] = qs[k]
  BY <1>2, <1>8, <1>9, <1>10, ScannedStore DEF Touched
<1>12. undo = queues
  <2> HIDE DEF scanned
  <2>1. queues = [k \in DOMAIN queues |-> queues[k]]
    BY <1>1 DEF Held, Sound, AreQueues
  <2> QED
    BY <1>9, <1>11, <2>1 DEF Touched
<1>13. polls' \in [Consumers -> Optional(Call)]
  <2>1. polls \in [Consumers -> Optional(Call)]
    BY <1>1 DEF Records
  <2> QED
    BY <1>4, <2>1, PollsTyped, SleepTyped
<1>14. lease' \in [MsgIds -> Nat] /\ minted' \in [MsgIds -> Nat]
  BY <1>5, <1>6, <1>8, <1>10
<1>15. moveTasks \in Seq(MoveTask)
  BY <1>1 DEF Held
<1> HIDE DEF scanned, undo
<1> QED
  BY <1>3, <1>7, <1>11, <1>12, <1>13, <1>14, <1>15, EditKeeps

LEMMA AttemptKeeps ==
  ASSUME LedgerInv, NEW c \in Consumers, NEW call \in PendingCall, NEW left \in Nat,
         call.queue \in DOMAIN queues, Attempt(c, call, left)
  PROVE  LedgerInv'
<1>1. polls \in [Consumers -> Optional(Call)]
  BY DEF LedgerInv, TypeOK
<1>2. CASE /\ queues' = CleanedAt(call.queue)
           /\ polls' \in {Answer(c), IF left > 0 THEN Sleep(c, call, left) ELSE Answer(c)}
           /\ UNCHANGED <<now, up, moveTasks, disk, stampVars, historyVars>>
  <2>1. polls' \in [Consumers -> Optional(Call)]
    BY <1>1, <1>2, SleepTyped
  <2> QED
    BY <1>2, <2>1, CleanupKeeps
<1>3. CASE \E outcome \in Outcomes : TakeMessages(c, call, left, outcome)
  BY <1>3, TakeMessagesKeeps
<1> QED
  BY <1>2, <1>3 DEF Attempt

LEMMA ReceiveKeeps ==
  ASSUME LedgerInv, NEW c \in Consumers, NEW n \in QueueNames, NEW max \in BatchInputs,
         NEW visibility \in Optional(VisibilityInputs), NEW attempts \in AttemptInputs,
         ReceiveMessage(c, n, max, visibility, attempts)
  PROVE  LedgerInv'
<1> DEFINE call == [queue |-> n, pin |-> queues[n].createdAt, left |-> attempts - 1,
                    max |-> max, visibility |-> visibility]
<1>1. n \in DOMAIN queues /\ Attempt(c, call, attempts - 1)
  BY DEF ReceiveMessage
<1>2. attempts - 1 \in Nat
  BY ConstantsAssumption
<1>3. queues[n].createdAt \in Nat
  BY <1>1 DEF LedgerInv, TypeOK, AreQueues, IsQueue
<1>4. call \in PendingCall /\ call.queue = n
  BY <1>2, <1>3 DEF PendingCall
<1> HIDE DEF call
<1> QED
  BY <1>1, <1>2, <1>4, AttemptKeeps

LEMMA PollAgainKeeps ==
  ASSUME LedgerInv, NEW c \in Consumers, PollAgain(c)
  PROVE  LedgerInv'
<1>1. polls \in [Consumers -> Optional(Call)]
  BY DEF LedgerInv, TypeOK
<1>2. polls[c] \in Call
  BY <1>1 DEF PollAgain, Optional
<1>3. CASE StillPinned(polls[c]) /\ Attempt(c, polls[c], polls[c].left - 1)
  <2>1. polls[c] \in PendingCall /\ polls[c].left - 1 \in Nat
    BY <1>2 DEF PendingCall, Call
  <2> QED
    BY <1>3, <2>1, AttemptKeeps DEF StillPinned
<1>4. CASE polls' = Answer(c) /\ UNCHANGED <<now, serverVars, stampVars, historyVars>>
  <2>1. polls' \in [Consumers -> Optional(Call)]
    BY <1>1, <1>4 DEF Answer, Optional
  <2> QED
    BY <1>4, <2>1 DEF LedgerInv, TypeOK, AcceptedIds, serverVars, stampVars, historyVars
<1> QED
  BY <1>3, <1>4 DEF PollAgain

LEMMA MoveTaskKeeps ==
  ASSUME LedgerInv, NEW source \in QueueNames, NEW destination \in Optional(QueueNames),
         StartMessageMoveTask(source, destination)
  PROVE  LedgerInv'
<1> DEFINE ids     == AcceptedIds \ removed
           target  == MoveTargets(source, destination)
           moving  == Movable(target)
           moved   == MovedQueues(source, target)
           touched == {source} \cup {target[p] : p \in moving}
           task    == [source |-> source, destination |-> destination,
                       moved |-> Cardinality(moving)]
           carried == {queues[source].messages[p].id : p \in moving}
           undo    == [n \in DOMAIN moved |-> IF n \in touched THEN queues[n] ELSE moved[n]]
<1>1. Held(ids) /\ Records
  BY Parts
<1>2. source \in DOMAIN queues
  BY DEF StartMessageMoveTask
<1>3. PICK outcome \in Outcomes :
        /\ Persist(outcome, moved, Append(moveTasks, task), undo, moveTasks)
        /\ polls' = PollsAfter(outcome)
        /\ lease' = IF Effective(outcome)
                    THEN [id \in MsgIds |-> IF id \in carried THEN 0 ELSE lease[id]]
                    ELSE lease
  BY DEF StartMessageMoveTask
<1>4. UNCHANGED <<now, stampVars, accepted, removed>>
  BY DEF StartMessageMoveTask
<1>5. /\ Sound(moved, ids) /\ DOMAIN moved = DOMAIN queues
      /\ \A k \in DOMAIN queues :
           k = source \/ (\E p \in moving : k = target[p]) \/ moved[k] = queues[k]
  BY <1>1, <1>2, MovedStore DEF Held, Records
<1>6. Cardinality(moving) \in Nat
  <2>1. moving \subseteq LivePositions(queues[source])
    BY DEF Movable, MoveTargets
  <2>2. queues[source].pushed \in Nat /\ LivePositions(queues[source]) \subseteq 1..queues[source].pushed
    BY <1>1, <1>2 DEF Held, Sound, AreQueues, IsQueue, LivePositions
  <2>3. IsFiniteSet(1..queues[source].pushed)
    <3>1. 1 \in Int /\ queues[source].pushed \in Int
      BY <2>2
    <3> QED
      BY <3>1, FS_Interval
  <2> HIDE DEF moving
  <2>4. IsFiniteSet(moving)
    BY <2>1, <2>2, <2>3, FS_Subset
  <2> QED
    BY <2>4, FS_CardinalityType
<1> HIDE DEF moved, moving, target
<1>7. undo = queues
  <2>1. queues = [k \in DOMAIN queues |-> queues[k]]
    BY <1>1 DEF Held, Sound, AreQueues
  <2> QED
    BY <1>5, <2>1
<1>8. Append(moveTasks, task) \in Seq(MoveTask)
  <2>1. task \in MoveTask
    BY <1>6 DEF MoveTask
  <2>2. moveTasks \in Seq(MoveTask)
    BY <1>1 DEF Held
  <2> HIDE DEF task
  <2> QED
    BY <2>1, <2>2
<1>9. /\ polls' \in [Consumers -> Optional(Call)]
      /\ minted' \in [MsgIds -> Nat]
      /\ lease' \in [MsgIds -> Nat]
      /\ UNCHANGED <<now, issued, creates, accepted, removed>>
  <2> HIDE DEF carried
  <2> QED
    BY <1>1, <1>3, <1>4, PollsTyped DEF Records, stampVars
<1> HIDE DEF undo, task
<1> QED
  BY <1>3, <1>5, <1>7, <1>8, <1>9, EditKeeps

\* The clock, crashes and restarts, and steps that change nothing.
LEMMA EnvironmentKeeps ==
  ASSUME LedgerInv, Tick \/ Crash \/ Restart \/ UNCHANGED vars
  PROVE  LedgerInv'
<1> DEFINE ids == AcceptedIds \ removed
<1>1. Held(ids) /\ Records
  BY Parts
<1>2. AcceptedIds' = AcceptedIds /\ removed' = removed
  BY DEF Tick, Crash, Restart, vars, historyVars, AcceptedIds
<1>3. CASE Tick \/ UNCHANGED vars
  <2>1. HeldNext(ids)
    BY <1>1, <1>3 DEF Tick, vars, serverVars, Held, HeldNext
  <2>2. Records'
    BY <1>1, <1>2, <1>3 DEF Tick, vars, stampVars, historyVars, Records
  <2> QED
    BY <1>2, <2>1, <2>2, PartsNext
<1>4. CASE Crash
  <2>1. Sound(queues', ids)
    BY <1>4, NoStore DEF Crash
  <2>2. up' \in BOOLEAN /\ moveTasks' \in Seq(MoveTask)
    <3>1. up' = FALSE
      BY <1>4 DEF Crash
    <3>2. moveTasks' = <<>>
      BY <1>4 DEF Crash
    <3>3. up' \in BOOLEAN
      BY <3>1
    <3>4. moveTasks' \in Seq(MoveTask)
      BY <3>2
    <3> QED
      BY <3>3, <3>4
  <2>3. HeldNext(ids)
    BY <1>1, <1>4, <2>1, <2>2 DEF Crash, Held, HeldNext
  <2>4. polls' \in [Consumers -> Optional(Call)]
    BY <1>4 DEF Crash, Optional
  <2>5. Records'
    BY <1>1, <1>2, <1>4, <2>4 DEF Crash, stampVars, historyVars, Records
  <2> QED
    BY <1>2, <2>3, <2>5, PartsNext
<1>5. CASE Restart
  <2>1. up' \in BOOLEAN
    BY <1>5 DEF Restart
  <2>2. HeldNext(ids)
    BY <1>1, <1>5, <2>1 DEF Restart, Held, HeldNext
  <2>3. Records'
    BY <1>1, <1>2, <1>5 DEF Restart, stampVars, historyVars, Records
  <2> QED
    BY <1>2, <2>2, <2>3, PartsNext
<1> QED
  BY <1>3, <1>4, <1>5

-----------------------------------------------------------------------------
(***************************************************************************)
(* The theorems.                                                           *)
(***************************************************************************)

\* The ledger invariant is inductive: whatever handlers, failed saves, kills and
\* restarts do, memory and state.json each hold one copy of messages that were
\* accepted and not removed.
THEOREM LedgerSafe == Spec => []LedgerInv
<1>1. Init => LedgerInv
  <2> SUFFICES ASSUME Init PROVE LedgerInv
    OBVIOUS
  <2>1. Sound(queues, {})
    BY NoStore DEF Init
  <2>2. AreQueues(NoFields)
    BY NoStore DEF Sound
  <2>3. Load(disk) = NoFields /\ disk.moveTasks = <<>>
    BY <2>2, RoundTrip DEF Init, Saved
  <2>4. Sound(Load(disk), {})
    BY <2>3, NoStore
  <2>5. AcceptedIds = {} /\ removed = {}
    BY DEF Init, AcceptedIds
  <2>6. up \in BOOLEAN /\ moveTasks \in Seq(MoveTask) /\ disk.moveTasks \in Seq(MoveTask)
    <3>1. up = TRUE
      BY DEF Init
    <3>2. moveTasks = <<>> /\ disk.moveTasks = <<>>
      BY <2>3 DEF Init
    <3>3. up \in BOOLEAN
      BY <3>1
    <3>4. moveTasks \in Seq(MoveTask) /\ disk.moveTasks \in Seq(MoveTask)
      BY <3>2
    <3> QED
      BY <3>3, <3>4
  <2>7. Held(AcceptedIds \ removed)
    BY <2>1, <2>4, <2>5, <2>6 DEF Held
  <2>8. accepted \in Seq(Acceptance)
    BY DEF Init
  <2>9. Records
    BY <2>5, <2>8 DEF Init, Records, Optional
  <2> QED
    BY <2>7, <2>9, Parts
<1>2. LedgerInv /\ [Next]_vars => LedgerInv'
  <2> SUFFICES ASSUME LedgerInv, [Next]_vars PROVE LedgerInv'
    OBVIOUS
  <2>1. ASSUME NEW n \in QueueNames, ManageQueue(n) PROVE LedgerInv'
    BY <2>1, CreateKeeps, DeleteQueueKeeps, PurgeQueueKeeps, ConfigureKeeps DEF ManageQueue
  <2>2. ASSUME NEW n \in QueueNames, UseMessages(n) PROVE LedgerInv'
    <3>1. CASE \E c \in Consumers, max \in BatchInputs,
                  visibility \in Optional(VisibilityInputs), attempts \in AttemptInputs :
                 ReceiveMessage(c, n, max, visibility, attempts)
      BY <2>2, <3>1, ReceiveKeeps
    <3>2. CASE \E batch \in SUBSET Handles \ {{}} : DeleteMessages(n, batch)
      BY <2>2, <3>2, DeleteMessagesKeeps
    <3>3. CASE \E batch \in SUBSET Handles \ {{}} :
                 \E timeouts \in [batch -> VisibilityInputs] : ChangeVisibility(n, timeouts)
      <4>1. PICK batch \in SUBSET Handles \ {{}} :
                 \E timeouts \in [batch -> VisibilityInputs] : ChangeVisibility(n, timeouts)
        BY <3>3
      <4>2. batch \in SUBSET Handles
        OBVIOUS
      <4> QED
        BY <2>2, <4>1, <4>2, ChangeVisibilityKeeps
    <3>4. CASE \E destination \in Optional(QueueNames) : StartMessageMoveTask(n, destination)
      BY <2>2, <3>4, MoveTaskKeeps
    <3> QED
      BY <2>2, <3>1, <3>2, <3>3, <3>4 DEF UseMessages
  <2>3. ASSUME NEW request \in SendRequests, SendMessage(request) PROVE LedgerInv'
    BY <2>3, SendKeeps
  <2>4. ASSUME NEW c \in Consumers, PollAgain(c) PROVE LedgerInv'
    BY <2>4, PollAgainKeeps
  <2>5. CASE Tick \/ Crash \/ Restart \/ UNCHANGED vars
    BY <2>5, EnvironmentKeeps
  <2> QED
    BY <2>1, <2>2, <2>3, <2>4, <2>5 DEF Next
<1> QED
  BY <1>1, <1>2, PTL DEF Spec

\* Every variable, and what state.json holds, always has its type.
THEOREM TypeCorrect == Spec => []TypeOK
<1>1. LedgerInv => TypeOK
  BY DEF LedgerInv
<1> QED
  BY <1>1, LedgerSafe, PTL

\* No history of sends, receives, redrives, move tasks, failed saves and crashes
\* leaves a message live in two places.
THEOREM CopiesAreSingle == Spec => []OneCopy
<1>1. LedgerInv => OneCopy
  BY DEF LedgerInv, OneCopy, Sound
<1> QED
  BY <1>1, LedgerSafe, PTL

\* A message that was deleted, purged or dropped with its queue stays gone.
THEOREM RemovalIsFinal == Spec => []NeverResurrected
<1>1. LedgerInv => NeverResurrected
  BY DEF LedgerInv, NeverResurrected, Sound
<1> QED
  BY <1>1, LedgerSafe, PTL

\* What can be received was accepted: a send that reported an error left nothing.
THEOREM OnlyAcceptedMessages == Spec => []NoPhantom
<1>1. LedgerInv => NoPhantom
  BY DEF LedgerInv, NoPhantom, Sound
<1> QED
  BY <1>1, LedgerSafe, PTL


-----------------------------------------------------------------------------
(***************************************************************************)
(* The effect of a handler.                                                *)
(***************************************************************************)

Same(m, old) == m.id = old.id /\ m.sentAt = old.sentAt /\ m.group = old.group

\* No earlier live message of the queue has the group of the one at p.
FirstOfGroup(queue, p) ==
  \A e \in LivePositions(queue) :
    e < p /\ queue.messages[p].group # NoValue
      => queue.messages[e].group # queue.messages[p].group

\* The message at position p of queue n is the one that was there.
InPlace(new, n, p) ==
  /\ n \in DOMAIN queues
  /\ p \in LivePositions(queues[n])
  /\ Same(new[n].messages[p], queues[n].messages[p])

KeptMessage(new, n, p) ==
  /\ InPlace(new, n, p)
  /\ new[n].messages[p].invisibleUntil = queues[n].messages[p].invisibleUntil
  /\ lease'[new[n].messages[p].id] = lease[new[n].messages[p].id]

\* It has a new lease, as long as what its consumer was promised; in a FIFO queue
\* it was in flight or is the first of its group.
Handed(new, n, p) ==
  LET m == new[n].messages[p] IN
  /\ InPlace(new, n, p)
  /\ now < lease'[m.id] => lease'[m.id] <= m.invisibleUntil
  /\ n \in FifoNames => InFlight(queues[n].messages[p]) \/ FirstOfGroup(new[n], p)

\* It came to the end of the queue, promised to nobody: from another place, or as
\* a new message.
Arrived(new, n, p) ==
  LET m == new[n].messages[p] IN
  /\ n \in DOMAIN queues
  /\ p \in Nat /\ p > queues[n].pushed
  /\ m.invisibleUntil = 0
  /\ lease'[m.id] <= now
  /\ \/ \E k \in DOMAIN queues : \E b \in LivePositions(queues[k]) :
          Same(m, queues[k].messages[b])
     \/ m.id \notin issued /\ m.sentAt = now

Descent(new) ==
  \A n \in DOMAIN new : \A p \in LivePositions(new[n]) :
    KeptMessage(new, n, p) \/ Handed(new, n, p) \/ Arrived(new, n, p)

\* What was live still is, unless it was removed or grew too old.
Survival(new) ==
  \A n \in DOMAIN queues : \A p \in LivePositions(queues[n]) :
    LET m == queues[n].messages[p] IN
    \/ m.id \in removed'
    \/ now - m.sentAt > ShortestRetention
    \/ m.id \in AllLiveIds(new)

Retained(qs) ==
  \A n \in DOMAIN qs : \/ qs[n].attributes.retention = 0
                       \/ qs[n].attributes.retention >= ShortestRetention

\* A queue goes on counting and keeps the deduplication entries that are not due.
Remembers(queue, old) ==
  /\ queue.createdAt = old.createdAt
  /\ queue.sequence >= old.sequence
  /\ \A k \in DOMAIN old.dedup :
       now < old.dedup[k].expiresAt =>
         k \in DOMAIN queue.dedup /\ queue.dedup[k] = old.dedup[k]

\* Every queue is an old one or the one that was created.
QueueDescent(new) ==
  \A n \in DOMAIN new :
    \/ n \in DOMAIN queues /\ Remembers(new[n], queues[n])
    \/ /\ n \notin DOMAIN queues
       /\ DOMAIN new \ {n} \subseteq DOMAIN queues
       /\ creates < creates'
       /\ new[n].createdAt = creates'

\* The queue of an accepted message has counted it and remembers its key.
Entry(entry, new, n) ==
  /\ entry.id \notin issued
  /\ entry.id \in AllLiveIds(new)
  /\ entry.at = now
  /\ entry.createdAt = queues[n].createdAt
  /\ entry.key # NoValue =>
       /\ entry.sequence = new[n].sequence
       /\ queues[n].sequence < new[n].sequence
       /\ entry.key \in DOMAIN new[n].dedup
       /\ new[n].dedup[entry.key].expiresAt = now + DedupWindow
       /\ ~(entry.key \in DOMAIN queues[n].dedup /\ now < queues[n].dedup[entry.key].expiresAt)

Acceptances(new) ==
  \/ accepted' = accepted
  \/ \E n \in DOMAIN queues \cap DOMAIN new : \E entry \in Acceptance :
       accepted' = Append(accepted, entry) /\ Entry(entry, new, n)

\* Leases are given on live messages only, and the counters only grow.
Promises ==
  /\ \A id \in MsgIds : lease'[id] = lease[id] \/ id \in AllLiveIds(queues)
  /\ issued \subseteq issued'
  /\ removed \subseteq removed'
  /\ creates <= creates'

\* The store new is in memory and on disk, or on disk only.
Writes(new, tasks) ==
  /\ disk' = Saved(new, tasks)
  /\ \/ queues' = new /\ moveTasks' = tasks /\ up' = up
     \/ queues' = NoFields /\ up' = FALSE

Effect(new, tasks) ==
  /\ AreQueues(new)
  /\ Writes(new, tasks)
  /\ now' = now
  /\ Descent(new)
  /\ Survival(new)
  /\ Retained(new)
  /\ QueueDescent(new)
  /\ Acceptances(new)
  /\ Promises

\* The save failed, or there was nothing to do.
NoEffect ==
  /\ UNCHANGED <<now, queues, moveTasks, disk, up, accepted, removed, lease>>
  /\ issued \subseteq issued'
  /\ creates <= creates'

HandlerStep == NoEffect \/ \E new, tasks : Effect(new, tasks)

-----------------------------------------------------------------------------
(***************************************************************************)
(* Steps of handlers that end in persist().                                *)
(***************************************************************************)

LEMMA PersistEnds ==
  ASSUME NEW outcome \in Outcomes, NEW new, NEW tasks, NEW undo, undo = queues,
         Persist(outcome, new, tasks, undo, moveTasks)
  PROVE  IF Effective(outcome) THEN Writes(new, tasks)
                               ELSE UNCHANGED <<queues, moveTasks, disk, up>>
<1>1. CASE outcome = "saved"
  BY <1>1 DEF Persist, Effective, Writes
<1>2. CASE outcome = "failed"
  BY <1>2 DEF Persist, Effective
<1>3. CASE outcome = "killed"
  BY <1>3 DEF Persist, Effective, Writes
<1> QED
  BY <1>1, <1>2, <1>3 DEF Outcomes

\* A handler that changes no message and nothing a queue remembers.
LEMMA QuietEdit ==
  ASSUME LedgerInv, NEW new, NEW tasks, AreQueues(new), Writes(new, tasks), Retained(new),
         DOMAIN new = DOMAIN queues,
         \A n \in DOMAIN queues : \A f \in {"messages", "createdAt", "sequence", "dedup"} :
           new[n][f] = queues[n][f],
         UNCHANGED <<now, issued, creates, accepted, removed, lease>>
  PROVE  Effect(new, tasks)
<1>1. \A n \in DOMAIN queues : LivePositions(new[n]) = LivePositions(queues[n])
  BY DEF LivePositions
<1>2. Descent(new)
  BY <1>1 DEF Descent, KeptMessage, InPlace, Same
<1>3. Survival(new)
  BY <1>1 DEF Survival, AllLiveIds, LiveIds
<1>4. QueueDescent(new)
  <2>1. \A n \in DOMAIN queues : queues[n].sequence \in Nat
    BY DEF LedgerInv, TypeOK, AreQueues, IsQueue
  <2> QED
    BY <2>1 DEF QueueDescent, Remembers
<1>5. creates \in Nat
  BY DEF LedgerInv, TypeOK
<1> QED
  BY <1>2, <1>3, <1>4, <1>5 DEF Effect, Acceptances, Promises

\* Attributes keep a long enough retention period when a valid request is merged.
LEMMA RetentionNumbers ==
  /\ ShortestRetention \in Nat /\ MinRetention \in Nat /\ ShortestRetention <= MinRetention
  /\ DefaultAttributes.retention \in Nat
  /\ DefaultAttributes.retention = 0 \/ DefaultAttributes.retention >= ShortestRetention
<1>1. DefaultAttributes.retention \in Nat
  <2>1. "retention" \in DOMAIN AttributeValues /\ AttributeValues["retention"] = Nat
    BY DEF AttributeValues
  <2> QED
    BY <2>1, ConstantsAssumption DEF AreAttributes
<1>2. MinRetention \in Nat
  BY ConstantsAssumption
<1> QED
  BY <1>1, <1>2 DEF ShortestRetention

LEMMA MergedRetention ==
  ASSUME NEW attributes, NEW request \in CreateRequests \cup UpdateRequests, NEW name, NEW own,
         attributes.retention = 0 \/ attributes.retention >= ShortestRetention,
         ValidAttributes(name, own, request)
  PROVE  \/ Merged(attributes, request).retention = 0
         \/ Merged(attributes, request).retention >= ShortestRetention
<1>1. "retention" \in DOMAIN AttributeValues /\ AttributeValues["retention"] = Nat
  BY DEF AttributeValues
<1>2. CASE "retention" \in DOMAIN request
  <2>1. Merged(attributes, request).retention = request.retention
    BY <1>1, <1>2 DEF Merged
  <2>2. request.retention \in Nat
    BY <1>1, <1>2, ConstantsAssumption
  <2>3. request.retention >= MinRetention
    BY <1>2 DEF ValidAttributes
  <2> QED
    BY <2>1, <2>2, <2>3, RetentionNumbers
<1>3. CASE "retention" \notin DOMAIN request
  <2>1. Merged(attributes, request).retention = attributes.retention
    BY <1>1, <1>3 DEF Merged
  <2> QED
    BY <2>1
<1> QED
  BY <1>2, <1>3

LEMMA CreateEffect ==
  ASSUME LedgerInv, Retained(queues), NEW n \in QueueNames, NEW request \in CreateRequests,
         NEW tags \in SUBSET TagKeys, CreateQueue(n, request, tags)
  PROVE  HandlerStep
<1> DEFINE ids == AcceptedIds \ removed
           attributes == Merged(DefaultAttributes, request)
           queue == NewQueue(attributes, tags)
           new == With(queues, n, queue)
<1>1. Held(ids) /\ Records
  BY Parts
<1>2. PICK outcome \in Outcomes : Persist(outcome, new, moveTasks, Without(new, {n}), moveTasks)
  BY DEF CreateQueue
<1>3. /\ n \notin DOMAIN queues /\ creates' = creates + 1
      /\ UNCHANGED <<now, issued, minted, accepted, removed, lease>>
      /\ ValidAttributes(n, attributes, request)
  BY DEF CreateQueue, historyVars
<1>4. AreAttributes(attributes)
  BY MergedTyped, ConstantsAssumption
<1>5. /\ IsQueue(queue) /\ LivePositions(queue) = {}
      /\ queue.createdAt = creates + 1 /\ queue.attributes = attributes
  <2> HIDE DEF attributes
  <2> QED
    BY <1>1, <1>4 DEF Records, NewQueue, IsQueue, QueueFields, NoFields, LivePositions
<1>6. attributes.retention = 0 \/ attributes.retention >= ShortestRetention
  BY <1>3, MergedRetention, RetentionNumbers
<1> HIDE DEF queue, attributes
<1>7. /\ DOMAIN new = DOMAIN queues \cup {n} /\ new[n] = queue
      /\ \A k \in DOMAIN queues : new[k] = queues[k]
  BY <1>3 DEF With
<1>8. AreQueues(new)
  BY <1>1, <1>3, <1>5, CreateStore DEF Held, Sound
<1>9. Without(new, {n}) = queues
  BY <1>1, <1>3 DEF Held, Sound, AreQueues, With, Without, Restrict
<1> HIDE DEF new
<1>10. IF Effective(outcome) THEN Writes(new, moveTasks)
                             ELSE UNCHANGED <<queues, moveTasks, disk, up>>
  BY <1>2, <1>9, PersistEnds
<1>11. creates \in Nat
  BY <1>1 DEF Records
<1>12. CASE Effective(outcome)
  <2>1. Descent(new)
    BY <1>3, <1>5, <1>7 DEF Descent, KeptMessage, InPlace, Same
  <2>2. Survival(new)
    BY <1>7 DEF Survival, AllLiveIds, LiveIds
  <2>3. Retained(new)
    BY <1>5, <1>6, <1>7 DEF Retained
  <2>4. QueueDescent(new)
    <3>1. \A k \in DOMAIN queues : queues[k].sequence \in Nat
      BY <1>1 DEF Held, Sound, AreQueues, IsQueue
    <3> QED
      BY <1>3, <1>5, <1>7, <1>11, <3>1 DEF QueueDescent, Remembers
  <2>5. Promises /\ Acceptances(new)
    BY <1>3, <1>11 DEF Promises, Acceptances
  <2>6. Effect(new, moveTasks)
    BY <1>3, <1>8, <1>10, <1>12, <2>1, <2>2, <2>3, <2>4, <2>5 DEF Effect
  <2> QED
    BY <2>6 DEF HandlerStep
<1>13. CASE ~Effective(outcome)
  BY <1>3, <1>10, <1>11, <1>13 DEF HandlerStep, NoEffect
<1> QED
  BY <1>12, <1>13

\* A handler that drops queues or empties them, and strikes their live messages off.
LEMMA DropEffect ==
  ASSUME LedgerInv, Retained(queues), NEW new, NEW tasks, NEW n, AreQueues(new),
         Writes(new, tasks),
         DOMAIN new \subseteq DOMAIN queues,
         DOMAIN queues \ {n} \subseteq DOMAIN new,
         \A k \in DOMAIN new : \A f \in QueueFields \ {"messages"} : new[k][f] = queues[k][f],
         \A k \in DOMAIN new : IF k = n THEN LivePositions(new[k]) = {}
                                        ELSE new[k].messages = queues[k].messages,
         removed' = removed \cup LiveIds(queues[n]),
         UNCHANGED <<now, issued, creates, accepted, lease>>
  PROVE  Effect(new, tasks)
<1>1. \A k \in DOMAIN new \ {n} : LivePositions(new[k]) = LivePositions(queues[k])
  BY DEF LivePositions
<1>2. Descent(new)
  BY <1>1 DEF Descent, KeptMessage, InPlace, Same
<1>3. Survival(new)
  <2> SUFFICES ASSUME NEW k \in DOMAIN queues, NEW p \in LivePositions(queues[k])
               PROVE  \/ queues[k].messages[p].id \in removed'
                      \/ queues[k].messages[p].id \in AllLiveIds(new)
    BY DEF Survival
  <2>1. CASE k = n
    BY <2>1 DEF LiveIds
  <2>2. CASE k # n
    BY <1>1, <2>2 DEF AllLiveIds, LiveIds
  <2> QED
    BY <2>1, <2>2
<1>4. \A k \in DOMAIN new : /\ new[k].createdAt = queues[k].createdAt
                            /\ new[k].sequence = queues[k].sequence
                            /\ new[k].dedup = queues[k].dedup
                            /\ new[k].attributes = queues[k].attributes
  BY DEF QueueFields
<1>5. QueueDescent(new)
  <2>1. \A k \in DOMAIN queues : queues[k].sequence \in Nat
    BY DEF LedgerInv, TypeOK, AreQueues, IsQueue
  <2> QED
    BY <1>4, <2>1 DEF QueueDescent, Remembers
<1>6. Retained(new)
  BY <1>4 DEF Retained
<1>7. creates \in Nat
  BY DEF LedgerInv, TypeOK
<1> QED
  BY <1>2, <1>3, <1>5, <1>6, <1>7 DEF Effect, Acceptances, Promises

LEMMA DeleteQueueEffect ==
  ASSUME LedgerInv, Retained(queues), NEW n \in QueueNames, DeleteQueue(n)
  PROVE  HandlerStep
<1> DEFINE new == Without(queues, {n})
<1>1. AreQueues(queues) /\ creates \in Nat
  BY DEF LedgerInv, TypeOK
<1>2. n \in DOMAIN queues /\ UNCHANGED <<now, issued, creates, accepted, lease>>
  BY DEF DeleteQueue, stampVars
<1>3. PICK outcome \in Outcomes :
        /\ Persist(outcome, new, moveTasks, With(new, n, queues[n]), moveTasks)
        /\ removed' = IF Effective(outcome) THEN removed \cup LiveIds(queues[n]) ELSE removed
  BY DEF DeleteQueue, RemoveAll
<1>4. With(new, n, queues[n]) = queues
  BY <1>1, <1>2 DEF AreQueues, With, Without, Restrict
<1>5. AreQueues(new)
  BY <1>1 DEF AreQueues, Without, Restrict
<1>6. DOMAIN new = DOMAIN queues \ {n} /\ \A k \in DOMAIN new : new[k] = queues[k]
  BY DEF Without, Restrict
<1> HIDE DEF new
<1>7. IF Effective(outcome) THEN Writes(new, moveTasks)
                            ELSE UNCHANGED <<queues, moveTasks, disk, up>>
  BY <1>3, <1>4, PersistEnds
<1>8. CASE Effective(outcome)
  <2>1. Effect(new, moveTasks)
    BY <1>2, <1>3, <1>5, <1>6, <1>7, <1>8, DropEffect
  <2> QED
    BY <2>1 DEF HandlerStep
<1>9. CASE ~Effective(outcome)
  BY <1>1, <1>2, <1>3, <1>7, <1>9 DEF HandlerStep, NoEffect
<1> QED
  BY <1>8, <1>9

LEMMA PurgeQueueEffect ==
  ASSUME LedgerInv, Retained(queues), NEW n \in QueueNames, PurgeQueue(n)
  PROVE  HandlerStep
<1> DEFINE new == [queues EXCEPT ![n].messages = NoFields]
           undo == [new EXCEPT ![n].messages = queues[n].messages]
           purged == [queues[n] EXCEPT !.messages = NoFields]
<1>1. AreQueues(queues) /\ creates \in Nat
  BY DEF LedgerInv, TypeOK
<1>2. n \in DOMAIN queues /\ UNCHANGED <<now, issued, creates, accepted, lease>>
  BY DEF PurgeQueue, stampVars
<1>3. PICK outcome \in Outcomes :
        /\ Persist(outcome, new, moveTasks, undo, moveTasks)
        /\ removed' = IF Effective(outcome) THEN removed \cup LiveIds(queues[n]) ELSE removed
  BY DEF PurgeQueue, RemoveAll
<1>4. IsQueue(queues[n])
  BY <1>1, <1>2 DEF AreQueues
<1>5. undo = queues
  BY <1>1, <1>2, <1>4 DEF AreQueues, IsQueue, QueueFields
<1>6. /\ IsQueue(purged) /\ purged.messages = NoFields
      /\ \A f \in QueueFields \ {"messages"} : purged[f] = queues[n][f]
  BY <1>4 DEF IsQueue, QueueFields, NoFields
<1>7. LivePositions(purged) = {}
  BY <1>6 DEF LivePositions, NoFields
<1>8. new = [queues EXCEPT ![n] = purged]
  OBVIOUS
<1> HIDE DEF new, purged, undo
<1>9. /\ DOMAIN new = DOMAIN queues /\ new[n] = purged
      /\ \A k \in DOMAIN queues \ {n} : new[k] = queues[k]
      /\ AreQueues(new)
  BY <1>1, <1>2, <1>6, <1>8 DEF AreQueues
<1>10. IF Effective(outcome) THEN Writes(new, moveTasks)
                             ELSE UNCHANGED <<queues, moveTasks, disk, up>>
  BY <1>3, <1>5, PersistEnds
<1>11. CASE Effective(outcome)
  <2>1. Effect(new, moveTasks)
    <3>1. \A k \in DOMAIN new : \A f \in QueueFields \ {"messages"} : new[k][f] = queues[k][f]
      BY <1>6, <1>9
    <3>2. \A k \in DOMAIN new : IF k = n THEN LivePositions(new[k]) = {}
                                         ELSE new[k].messages = queues[k].messages
      BY <1>7, <1>9
    <3> QED
      BY <1>2, <1>3, <1>9, <1>10, <1>11, <3>1, <3>2, DropEffect
  <2> QED
    BY <2>1 DEF HandlerStep
<1>12. CASE ~Effective(outcome)
  BY <1>1, <1>2, <1>3, <1>10, <1>12 DEF HandlerStep, NoEffect
<1> QED
  BY <1>11, <1>12

LEMMA ReplaceFieldEffect ==
  ASSUME LedgerInv, Retained(queues), NEW n \in DOMAIN queues, NEW field, NEW value,
         \/ /\ field = "attributes" /\ AreAttributes(value)
            /\ value.retention = 0 \/ value.retention >= ShortestRetention
         \/ field = "tags" /\ value \in SUBSET TagKeys,
         ReplaceField(n, field, value)
  PROVE  HandlerStep
<1> DEFINE queue == With(queues[n], field, value)
           new == [queues EXCEPT ![n] = queue]
           undo == [new EXCEPT ![n] = queues[n]]
<1>1. AreQueues(queues) /\ creates \in Nat /\ IsQueue(queues[n])
  BY DEF LedgerInv, TypeOK, AreQueues
<1>2. PICK outcome \in Outcomes : Persist(outcome, new, moveTasks, undo, moveTasks)
  BY DEF ReplaceField
<1>3. UNCHANGED <<now, issued, creates, accepted, removed, lease>>
  BY DEF ReplaceField, stampVars, historyVars
<1>4. IsQueue(queue)
  BY <1>1, NewField
<1>5. /\ \A f \in {"messages", "createdAt", "sequence", "dedup"} : queue[f] = queues[n][f]
      /\ queue.attributes = IF field = "attributes" THEN value ELSE queues[n].attributes
  BY <1>1 DEF With, IsQueue, QueueFields
<1>6. queue.attributes.retention = 0 \/ queue.attributes.retention >= ShortestRetention
  BY <1>5 DEF Retained
<1> HIDE DEF queue
<1>7. undo = queues
  BY <1>1 DEF AreQueues
<1>8. /\ DOMAIN new = DOMAIN queues /\ new[n] = queue
      /\ \A k \in DOMAIN queues \ {n} : new[k] = queues[k]
      /\ AreQueues(new)
  BY <1>1, <1>4 DEF AreQueues
<1> HIDE DEF new, undo
<1>9. IF Effective(outcome) THEN Writes(new, moveTasks)
                            ELSE UNCHANGED <<queues, moveTasks, disk, up>>
  BY <1>2, <1>7, PersistEnds
<1>10. CASE Effective(outcome)
  <2>1. Retained(new)
    BY <1>6, <1>8 DEF Retained
  <2>2. \A k \in DOMAIN queues : \A f \in {"messages", "createdAt", "sequence", "dedup"} :
          new[k][f] = queues[k][f]
    BY <1>5, <1>8
  <2>3. Effect(new, moveTasks)
    BY <1>3, <1>8, <1>9, <1>10, <2>1, <2>2, QuietEdit
  <2> QED
    BY <2>3 DEF HandlerStep
<1>11. CASE ~Effective(outcome)
  BY <1>1, <1>3, <1>9, <1>11 DEF HandlerStep, NoEffect
<1> QED
  BY <1>10, <1>11

LEMMA NewPolicy ==
  ASSUME NEW attributes, AreAttributes(attributes), NEW policy \in SUBSET Labels
  PROVE  /\ AreAttributes([attributes EXCEPT !.policy = policy])
         /\ [attributes EXCEPT !.policy = policy].retention = attributes.retention
<1>1. /\ "policy" \in DOMAIN AttributeValues /\ AttributeValues["policy"] = SUBSET Labels
      /\ "retention" \in DOMAIN AttributeValues
  BY DEF AttributeValues
<1>2. attributes = [f \in DOMAIN AttributeValues |-> attributes[f]]
  BY DEF AreAttributes
<1> QED
  BY <1>1, <1>2 DEF AreAttributes

\* SetQueueAttributes, tags and permissions.
LEMMA ConfigureEffect ==
  ASSUME LedgerInv, Retained(queues), NEW n \in QueueNames,
         \/ \E request \in UpdateRequests : UpdateQueueAttributes(n, request)
         \/ \E keys \in SUBSET TagKeys \ {{}} : TagQueue(n, keys) \/ UntagQueue(n, keys)
         \/ \E label \in Labels : AddPermission(n, label) \/ RemovePermission(n, label)
  PROVE  HandlerStep
<1>1. n \in DOMAIN queues
  BY DEF UpdateQueueAttributes, TagQueue, UntagQueue, AddPermission, RemovePermission
<1>2. IsQueue(queues[n])
  BY <1>1 DEF LedgerInv, TypeOK, AreQueues
<1>3. AreAttributes(queues[n].attributes) /\ queues[n].tags \in SUBSET TagKeys
  BY <1>2 DEF IsQueue
<1>4. queues[n].attributes.retention = 0 \/ queues[n].attributes.retention >= ShortestRetention
  BY <1>1 DEF Retained
<1>5. ASSUME NEW request \in UpdateRequests, UpdateQueueAttributes(n, request)
      PROVE  HandlerStep
  <2> DEFINE merged == Merged(queues[n].attributes, request)
  <2>1. AreAttributes(merged)
    BY <1>3, MergedTyped
  <2>2. merged.retention = 0 \/ merged.retention >= ShortestRetention
    BY <1>4, <1>5, MergedRetention DEF UpdateQueueAttributes
  <2> QED
    BY <1>1, <1>5, <2>1, <2>2, ReplaceFieldEffect DEF UpdateQueueAttributes
<1>6. ASSUME NEW keys \in SUBSET TagKeys, TagQueue(n, keys) \/ UntagQueue(n, keys)
      PROVE  HandlerStep
  <2>1. /\ queues[n].tags \cup keys \in SUBSET TagKeys
        /\ queues[n].tags \ keys \in SUBSET TagKeys
    BY <1>3
  <2> QED
    BY <1>1, <1>6, <2>1, ReplaceFieldEffect DEF TagQueue, UntagQueue
<1>7. ASSUME NEW label \in Labels, AddPermission(n, label) \/ RemovePermission(n, label)
      PROVE  HandlerStep
  <2> DEFINE a == queues[n].attributes
             granted == [a EXCEPT !.policy = @ \cup {label}]
             revoked == [a EXCEPT !.policy = @ \ {label}]
  <2>1. a.policy \cup {label} \in SUBSET Labels /\ a.policy \ {label} \in SUBSET Labels
    <3>1. "policy" \in DOMAIN AttributeValues /\ AttributeValues["policy"] = SUBSET Labels
      BY DEF AttributeValues
    <3> QED
      BY <1>3, <3>1 DEF AreAttributes
  <2>2. /\ AreAttributes(granted) /\ granted.retention = a.retention
        /\ AreAttributes(revoked) /\ revoked.retention = a.retention
    BY <1>3, <2>1, NewPolicy
  <2>3. /\ AddPermission(n, label) => ReplaceField(n, "attributes", granted)
        /\ RemovePermission(n, label) => ReplaceField(n, "attributes", revoked)
    BY DEF AddPermission, RemovePermission
  <2> HIDE DEF granted, revoked
  <2> QED
    BY <1>1, <1>4, <1>7, <2>2, <2>3, ReplaceFieldEffect
<1> QED
  BY <1>5, <1>6, <1>7

-----------------------------------------------------------------------------
(***************************************************************************)
(* Deleting messages and changing their visibility.                        *)
(***************************************************************************)

\* What staging leaves at each position: the staged message if it was in flight,
\* and otherwise the old one, perhaps without its handle.
Restaged(new, n, positions, mutated) ==
  /\ DOMAIN new = DOMAIN queues
  /\ \A k \in DOMAIN queues \ {n} : new[k] = queues[k]
  /\ \A f \in QueueFields \ {"messages"} : new[n][f] = queues[n][f]
  /\ DOMAIN new[n].messages = DOMAIN queues[n].messages
  /\ \A p \in DOMAIN queues[n].messages :
       IF p \in positions /\ InFlight(queues[n].messages[p])
       THEN new[n].messages[p] = mutated[p]
       ELSE /\ Same(new[n].messages[p], queues[n].messages[p])
            /\ new[n].messages[p].deleted = queues[n].messages[p].deleted
            /\ new[n].messages[p].invisibleUntil = queues[n].messages[p].invisibleUntil

LEMMA RestagedStore ==
  ASSUME AreQueues(queues), NEW n \in DOMAIN queues,
         NEW positions \in SUBSET LivePositions(queues[n]), NEW mutated, DOMAIN mutated = positions
  PROVE  Restaged(Staged(n, mutated), n, positions, mutated)
<1> DEFINE old == queues[n].messages
           messages == [p \in DOMAIN old |->
                          CASE p \notin DOMAIN mutated -> old[p]
                            [] p \in DOMAIN mutated /\ InFlight(old[p]) -> mutated[p]
                            [] OTHER -> [old[p] EXCEPT !.receiptHandle = 0]]
           new == Staged(n, mutated)
<1>1. IsQueue(queues[n]) /\ old \in [DOMAIN old -> Message]
  BY DEF AreQueues, IsQueue
<1>2. new = [queues EXCEPT ![n].messages = messages]
  BY DEF Staged, AreQueues
<1>3. \A p \in DOMAIN old :
        /\ Same([old[p] EXCEPT !.receiptHandle = 0], old[p])
        /\ [old[p] EXCEPT !.receiptHandle = 0].deleted = old[p].deleted
        /\ [old[p] EXCEPT !.receiptHandle = 0].invisibleUntil = old[p].invisibleUntil
  BY <1>1 DEF Same, Message
<1>4. /\ DOMAIN messages = DOMAIN old
      /\ \A p \in DOMAIN old :
           IF p \in positions /\ InFlight(old[p])
           THEN messages[p] = mutated[p]
           ELSE messages[p] = old[p] \/ messages[p] = [old[p] EXCEPT !.receiptHandle = 0]
  OBVIOUS
<1> HIDE DEF messages, new
<1>5. /\ DOMAIN new = DOMAIN queues
      /\ \A k \in DOMAIN queues \ {n} : new[k] = queues[k]
      /\ new[n].messages = messages
      /\ \A f \in QueueFields \ {"messages"} : new[n][f] = queues[n][f]
  BY <1>1, <1>2 DEF AreQueues, IsQueue, QueueFields
<1>6. \A p \in DOMAIN old :
        IF p \in positions /\ InFlight(old[p])
        THEN messages[p] = mutated[p]
        ELSE /\ Same(messages[p], old[p])
             /\ messages[p].deleted = old[p].deleted
             /\ messages[p].invisibleUntil = old[p].invisibleUntil
  BY <1>3, <1>4 DEF Same
<1> QED
  BY <1>4, <1>5, <1>6 DEF Restaged, new

\* The queues' memory and the retention periods are as they were.
LEMMA RestagedQueues ==
  ASSUME LedgerInv, Retained(queues), NEW n \in DOMAIN queues, NEW new, NEW positions, NEW mutated,
         Restaged(new, n, positions, mutated)
  PROVE  Retained(new) /\ QueueDescent(new)
<1>1. \A k \in DOMAIN queues : queues[k].sequence \in Nat
  BY DEF LedgerInv, TypeOK, AreQueues, IsQueue
<1>2. \A k \in DOMAIN queues : /\ new[k].createdAt = queues[k].createdAt
                               /\ new[k].sequence = queues[k].sequence
                               /\ new[k].dedup = queues[k].dedup
                               /\ new[k].attributes = queues[k].attributes
  <2> SUFFICES ASSUME NEW k \in DOMAIN queues
               PROVE  /\ new[k].createdAt = queues[k].createdAt
                      /\ new[k].sequence = queues[k].sequence
                      /\ new[k].dedup = queues[k].dedup
                      /\ new[k].attributes = queues[k].attributes
    OBVIOUS
  <2>1. CASE k = n
    BY <2>1 DEF Restaged, QueueFields
  <2>2. CASE k # n
    BY <2>2 DEF Restaged
  <2> QED
    BY <2>1, <2>2
<1> QED
  BY <1>1, <1>2 DEF Retained, QueueDescent, Remembers, Restaged

LEMMA DeleteMessagesEffect ==
  ASSUME LedgerInv, Retained(queues), NEW n \in QueueNames, NEW batch, DeleteMessages(n, batch)
  PROVE  HandlerStep
<1> DEFINE ids == AcceptedIds \ removed
           messages == queues[n].messages
           positions == Receipted(queues[n], batch)
           mutated == [p \in positions |-> Tombstone(messages[p])]
           new == Staged(n, mutated)
           undo == Unstaged(new, n, positions)
           flying == {p \in positions : InFlight(messages[p])}
           gone == {messages[p].id : p \in flying}
<1>1. Held(ids) /\ Records
  BY Parts
<1>2. n \in DOMAIN queues /\ UNCHANGED <<now, issued, creates, accepted, lease>>
  BY DEF DeleteMessages, stampVars
<1>3. PICK outcome \in Outcomes :
        /\ Persist(outcome, new, moveTasks, undo, moveTasks)
        /\ removed' = IF Effective(outcome) THEN removed \cup gone ELSE removed
  BY DEF DeleteMessages
<1>4. positions \in SUBSET LivePositions(queues[n])
  BY DEF Receipted
<1>5. \A p \in LivePositions(queues[n]) : messages[p] \in Message
  BY <1>1, <1>2 DEF Held, Sound, AreQueues, IsQueue, LivePositions
<1>6. \A p \in positions : Tombstone(messages[p]) \in Message /\ Tombstone(messages[p]).deleted
  <2>1. NoValue \in Optional(QueueNames) /\ 0 \in Nat
    BY DEF Optional
  <2> QED
    BY <1>1, <1>4, <1>5, <2>1, EditedMessage DEF Records
<1>7. /\ mutated \in [positions -> Message] /\ DOMAIN mutated = positions
      /\ \A p \in positions : mutated[p].deleted
  BY <1>6
<1>8. \A p \in LivePositions(queues[n]) :
        p \in positions /\ InFlight(messages[p]) => messages[p].id \in gone
  OBVIOUS
<1> HIDE DEF mutated, positions, gone
<1>9. Sound(queues, ids) /\ now \in Nat /\ minted \in [MsgIds -> Nat] /\ creates \in Nat
  BY <1>1 DEF Held, Records
<1>10. Restaged(new, n, positions, mutated)
  BY <1>2, <1>4, <1>7, <1>9, RestagedStore DEF Sound
<1>11. AreQueues(new) /\ undo = queues
  <2>1. StagedAs(new, ids, n, positions, mutated)
    BY <1>2, <1>4, <1>7, <1>9, StagedStore
  <2> HIDE DEF new
  <2> QED
    BY <2>1 DEF StagedAs, Sound
<1> HIDE DEF new, undo
<1>12. IF Effective(outcome) THEN Writes(new, moveTasks)
                             ELSE UNCHANGED <<queues, moveTasks, disk, up>>
  BY <1>3, <1>11, PersistEnds
<1>13. CASE Effective(outcome)
  <2>1. Descent(new)
    <3> SUFFICES ASSUME NEW k \in DOMAIN new, NEW p \in LivePositions(new[k])
                 PROVE  KeptMessage(new, k, p)
      BY DEF Descent
    <3>1. CASE k # n
      BY <1>2, <1>10, <3>1 DEF Restaged, KeptMessage, InPlace, Same
    <3>2. CASE k = n
      BY <1>2, <1>7, <1>10, <3>2 DEF Restaged, KeptMessage, InPlace, Same, LivePositions
    <3> QED
      BY <3>1, <3>2
  <2>2. Survival(new)
    <3> SUFFICES ASSUME NEW k \in DOMAIN queues, NEW p \in LivePositions(queues[k]),
                        queues[k].messages[p].id \notin removed'
                 PROVE  queues[k].messages[p].id \in AllLiveIds(new)
      BY DEF Survival
    <3>1. CASE k # n
      BY <1>10, <3>1 DEF Restaged, AllLiveIds, LiveIds
    <3>2. CASE k = n
      <4>1. ~(p \in positions /\ InFlight(messages[p]))
        BY <1>3, <1>8, <1>13, <3>2
      <4>2. p \in LivePositions(new[n]) /\ new[n].messages[p].id = messages[p].id
        BY <1>10, <3>2, <4>1 DEF Restaged, LivePositions, Same
      <4> QED
        BY <1>2, <1>10, <3>2, <4>2 DEF AllLiveIds, LiveIds, Restaged
    <3> QED
      BY <3>1, <3>2
  <2>3. Retained(new) /\ QueueDescent(new)
    BY <1>2, <1>10, RestagedQueues
  <2>4. Promises /\ Acceptances(new)
    BY <1>2, <1>3, <1>9, <1>13 DEF Promises, Acceptances
  <2>5. Effect(new, moveTasks)
    BY <1>2, <1>11, <1>12, <1>13, <2>1, <2>2, <2>3, <2>4 DEF Effect
  <2> QED
    BY <2>5 DEF HandlerStep
<1>14. CASE ~Effective(outcome)
  BY <1>2, <1>3, <1>9, <1>12, <1>14 DEF HandlerStep, NoEffect
<1> QED
  BY <1>13, <1>14

LEMMA ChangeVisibilityEffect ==
  ASSUME LedgerInv, Retained(queues), NEW n \in QueueNames, NEW batch \in SUBSET Handles,
         NEW timeouts \in [batch -> VisibilityInputs], ChangeVisibility(n, timeouts)
  PROVE  HandlerStep
<1> DEFINE ids == AcceptedIds \ removed
           messages == queues[n].messages
           valid == {h \in DOMAIN timeouts : timeouts[h] <= MaxVisibility}
           positions == Receipted(queues[n], valid)
           timeout(p) == timeouts[[id |-> messages[p].id, n |-> messages[p].receiptHandle]]
           mutated == [p \in positions |-> [messages[p] EXCEPT !.invisibleUntil = now + timeout(p)]]
           new == Staged(n, mutated)
           undo == Unstaged(new, n, positions)
           extended == {p \in positions : InFlight(messages[p])}
           chosen(id) == CHOOSE p \in extended : messages[p].id = id
<1>1. Held(ids) /\ Records
  BY Parts
<1>2. n \in DOMAIN queues /\ UNCHANGED <<now, issued, creates, accepted, removed>>
  BY DEF ChangeVisibility, stampVars
<1>3. PICK outcome \in Outcomes :
        /\ Persist(outcome, new, moveTasks, undo, moveTasks)
        /\ lease' = IF Effective(outcome)
                    THEN [id \in MsgIds |->
                            IF \E p \in extended : messages[p].id = id
                            THEN now + timeout(chosen(id))
                            ELSE lease[id]]
                    ELSE lease
  BY DEF ChangeVisibility
<1>4. positions \in SUBSET LivePositions(queues[n])
  BY DEF Receipted
<1>5. \A p \in LivePositions(queues[n]) : messages[p] \in Message
  BY <1>1, <1>2 DEF Held, Sound, AreQueues, IsQueue, LivePositions
<1>6. \A p \in positions : timeout(p) \in Nat
  <2> SUFFICES ASSUME NEW p \in positions PROVE timeout(p) \in Nat
    OBVIOUS
  <2>1. PICK h \in valid : p \in Matches(queues[n], h)
    BY DEF Receipted
  <2>2. h \in batch
    OBVIOUS
  <2>3. PICK id \in MsgIds : h \in [id : {id}, n : 1..minted[id]]
    BY <2>2 DEF Handles
  <2>4. h = [id |-> messages[p].id, n |-> messages[p].receiptHandle]
    BY <2>1, <2>3 DEF Matches
  <2> QED
    BY <2>2, <2>4, ConstantsAssumption
<1> HIDE DEF timeout, positions
<1>7. now \in Nat /\ minted \in [MsgIds -> Nat] /\ lease \in [MsgIds -> Nat] /\ creates \in Nat
  BY <1>1 DEF Records
<1>8. \A p \in positions :
        LET m == [messages[p] EXCEPT !.invisibleUntil = now + timeout(p)] IN
        /\ m \in Message /\ Same(m, messages[p]) /\ m.invisibleUntil = now + timeout(p)
  <2> SUFFICES ASSUME NEW p \in positions
               PROVE  LET m == [messages[p] EXCEPT !.invisibleUntil = now + timeout(p)] IN
                      m \in Message /\ Same(m, messages[p]) /\ m.invisibleUntil = now + timeout(p)
    OBVIOUS
  <2>1. messages[p] \in Message
    BY <1>4, <1>5
  <2>2. now + timeout(p) \in Nat
    BY <1>6, <1>7
  <2> QED
    BY <2>1, <2>2 DEF Message, Same
<1>9. /\ mutated \in [positions -> Message] /\ DOMAIN mutated = positions
      /\ \A p \in positions : /\ Same(mutated[p], messages[p])
                              /\ mutated[p].id = messages[p].id
                              /\ mutated[p].invisibleUntil = now + timeout(p)
  BY <1>8 DEF Same
<1>10. extended \subseteq positions /\ \A p \in positions : p \in extended <=> InFlight(messages[p])
  OBVIOUS
<1> HIDE DEF mutated, extended
<1>11. Sound(queues, ids)
  BY <1>1 DEF Held
<1>12. Restaged(new, n, positions, mutated)
  BY <1>2, <1>4, <1>9, <1>11, RestagedStore DEF Sound
<1>13. AreQueues(new) /\ undo = queues
  <2>1. StagedAs(new, ids, n, positions, mutated)
    BY <1>2, <1>4, <1>7, <1>9, <1>11, StagedStore
  <2> HIDE DEF new
  <2> QED
    BY <2>1 DEF StagedAs, Sound
<1> HIDE DEF new, undo
<1>14. IF Effective(outcome) THEN Writes(new, moveTasks)
                             ELSE UNCHANGED <<queues, moveTasks, disk, up>>
  BY <1>3, <1>13, PersistEnds
<1>15. CASE Effective(outcome)
  <2>1. ASSUME NEW k \in DOMAIN queues, NEW p \in LivePositions(queues[k])
        PROVE  /\ queues[k].messages[p].id \in MsgIds
               /\ lease'[queues[k].messages[p].id] =
                    IF k = n /\ p \in extended THEN now + timeout(p)
                                               ELSE lease[queues[k].messages[p].id]
    <3> DEFINE id == queues[k].messages[p].id
    <3>1. id \in MsgIds
      BY <1>11 DEF Sound, AreQueues, IsQueue, LivePositions, Message
    <3>2. \A e \in extended : messages[e].id = id => k = n /\ p = e
      BY <1>2, <1>4, <1>10, <1>11 DEF Sound, SingleCopy
    <3>3. CASE k = n /\ p \in extended
      <4>1. \E e \in extended : messages[e].id = id
        BY <3>3
      <4>2. chosen(id) \in extended /\ messages[chosen(id)].id = id
        BY <4>1
      <4>3. chosen(id) = p
        BY <3>2, <4>2
      <4>4. lease'[id] = now + timeout(chosen(id))
        BY <1>3, <1>15, <3>1, <4>1
      <4> QED
        BY <3>1, <3>3, <4>3, <4>4
    <3>4. CASE ~(k = n /\ p \in extended)
      BY <1>3, <1>15, <3>1, <3>2, <3>4
    <3> QED
      BY <3>3, <3>4
  <2>2. Descent(new)
    <3> SUFFICES ASSUME NEW k \in DOMAIN new, NEW p \in LivePositions(new[k])
                 PROVE  KeptMessage(new, k, p) \/ Handed(new, k, p)
      BY DEF Descent
    <3>1. CASE k # n
      BY <1>2, <1>12, <2>1, <3>1 DEF Restaged, KeptMessage, InPlace, Same
    <3>2. CASE k = n /\ p \in positions /\ InFlight(messages[p])
      <4>1. p \in LivePositions(queues[n]) /\ new[n].messages[p] = mutated[p]
        BY <1>4, <1>12, <3>2 DEF Restaged, LivePositions
      <4>2. lease'[new[n].messages[p].id] = now + timeout(p)
        BY <1>2, <1>9, <1>10, <2>1, <3>2, <4>1
      <4>3. new[n].messages[p].invisibleUntil = now + timeout(p)
        BY <1>9, <3>2, <4>1
      <4>4. InPlace(new, n, p)
        BY <1>2, <1>9, <3>2, <4>1 DEF InPlace
      <4> QED
        BY <1>6, <1>7, <3>2, <4>2, <4>3, <4>4 DEF Handed
    <3>3. CASE k = n /\ ~(p \in positions /\ InFlight(messages[p]))
      <4>1. /\ p \in LivePositions(queues[n])
            /\ Same(new[n].messages[p], messages[p])
            /\ new[n].messages[p].invisibleUntil = messages[p].invisibleUntil
        BY <1>12, <3>3 DEF Restaged, LivePositions
      <4>2. lease'[messages[p].id] = lease[messages[p].id]
        BY <1>2, <1>10, <2>1, <3>3, <4>1
      <4> QED
        BY <1>2, <3>3, <4>1, <4>2 DEF KeptMessage, InPlace, Same
    <3> QED
      BY <3>1, <3>2, <3>3
  <2>3. Survival(new)
    <3> SUFFICES ASSUME NEW k \in DOMAIN queues, NEW p \in LivePositions(queues[k])
                 PROVE  queues[k].messages[p].id \in AllLiveIds(new)
      BY DEF Survival
    <3>1. p \in LivePositions(new[k]) /\ new[k].messages[p].id = queues[k].messages[p].id
      <4>1. CASE k # n
        BY <1>12, <4>1 DEF Restaged
      <4>2. CASE k = n /\ p \in extended
        <5>1. p \in DOMAIN new[n].messages /\ new[n].messages[p] = mutated[p]
          BY <1>4, <1>10, <1>12, <4>2 DEF Restaged, LivePositions
        <5>2. ~mutated[p].deleted
          <6>1. mutated[p].deleted = messages[p].deleted
            BY <1>4, <1>5, <1>10, <4>2 DEF mutated, Message
          <6> QED
            BY <4>2, <6>1 DEF LivePositions
        <5> QED
          BY <1>9, <1>10, <4>2, <5>1, <5>2 DEF LivePositions
      <4>3. CASE k = n /\ p \notin extended
        BY <1>10, <1>12, <4>3 DEF Restaged, LivePositions, Same
      <4> QED
        BY <4>1, <4>2, <4>3
    <3> QED
      BY <1>12, <3>1 DEF Restaged, AllLiveIds, LiveIds
  <2>4. Retained(new) /\ QueueDescent(new)
    BY <1>2, <1>12, RestagedQueues
  <2>5. \A id \in MsgIds : lease'[id] = lease[id] \/ id \in AllLiveIds(queues)
    <3>1. \A p \in extended : messages[p].id \in AllLiveIds(queues)
      BY <1>2, <1>4, <1>10 DEF AllLiveIds, LiveIds
    <3> QED
      BY <1>3, <1>15, <3>1
  <2>6. Promises /\ Acceptances(new)
    BY <1>2, <1>7, <2>5 DEF Promises, Acceptances
  <2>7. Effect(new, moveTasks)
    BY <1>2, <1>13, <1>14, <1>15, <2>2, <2>3, <2>4, <2>6 DEF Effect
  <2> QED
    BY <2>7 DEF HandlerStep
<1>16. CASE ~Effective(outcome)
  BY <1>2, <1>3, <1>7, <1>14, <1>16 DEF HandlerStep, NoEffect
<1> QED
  BY <1>15, <1>16

-----------------------------------------------------------------------------
(***************************************************************************)
(* The retention cleanup, and sending.                                     *)
(***************************************************************************)

\* The cleanup drops tombstones, messages that are too old, and deduplication
\* entries that are due, and leaves the rest as it is.
LEMMA CleanedExactly ==
  ASSUME NEW queue, IsQueue(queue)
  PROVE  /\ DOMAIN Cleaned(queue).messages =
              {p \in LivePositions(queue) : ~OutOfRetention(queue, queue.messages[p])}
         /\ LivePositions(Cleaned(queue)) = DOMAIN Cleaned(queue).messages
         /\ \A p \in DOMAIN Cleaned(queue).messages :
              Cleaned(queue).messages[p] = queue.messages[p]
         /\ DOMAIN Cleaned(queue).dedup =
              {k \in DOMAIN queue.dedup : now < queue.dedup[k].expiresAt}
         /\ \A k \in DOMAIN Cleaned(queue).dedup : Cleaned(queue).dedup[k] = queue.dedup[k]
<1> DEFINE kept == {p \in LivePositions(queue) : ~OutOfRetention(queue, queue.messages[p])}
           fresh == {k \in DOMAIN queue.dedup : now < queue.dedup[k].expiresAt}
<1>1. /\ Cleaned(queue).messages = Restrict(queue.messages, kept)
      /\ Cleaned(queue).dedup = Restrict(queue.dedup, fresh)
  BY DEF Cleaned, IsQueue, QueueFields
<1>2. kept \subseteq LivePositions(queue)
  OBVIOUS
<1> HIDE DEF kept, fresh
<1>3. /\ DOMAIN Cleaned(queue).messages = kept
      /\ \A p \in kept : Cleaned(queue).messages[p] = queue.messages[p]
      /\ DOMAIN Cleaned(queue).dedup = fresh
      /\ \A k \in fresh : Cleaned(queue).dedup[k] = queue.dedup[k]
  BY <1>1 DEF Restrict
<1>4. LivePositions(Cleaned(queue)) = kept
  BY <1>2, <1>3 DEF LivePositions
<1> QED
  BY <1>3, <1>4 DEF kept, fresh

\* What the cleanup drops was too old.
LEMMA CleanedSurvivors ==
  ASSUME NEW queue, IsQueue(queue), now \in Nat,
         queue.attributes.retention = 0 \/ queue.attributes.retention >= ShortestRetention,
         NEW p \in LivePositions(queue)
  PROVE  p \in LivePositions(Cleaned(queue)) \/ now - queue.messages[p].sentAt > ShortestRetention
<1>1. CASE ~OutOfRetention(queue, queue.messages[p])
  BY <1>1, CleanedExactly
<1>2. CASE OutOfRetention(queue, queue.messages[p])
  <2>1. queue.messages[p].sentAt \in Nat
    BY DEF IsQueue, LivePositions, Message
  <2>2. queue.attributes.retention \in Nat
    <3>1. "retention" \in DOMAIN AttributeValues /\ AttributeValues["retention"] = Nat
      BY DEF AttributeValues
    <3> QED
      BY <3>1 DEF IsQueue, AreAttributes
  <2> QED
    BY <1>2, <2>1, <2>2, RetentionNumbers DEF OutOfRetention
<1> QED
  BY <1>1, <1>2

\* An id that was never issued was never leased.
Unleased == \A id \in MsgIds \ issued : lease[id] = 0

LEMMA StoreMessageEffect ==
  ASSUME LedgerInv, Retained(queues), Unleased,
         NEW request \in SendRequests, request.queue \in DOMAIN queues,
         ~Refused(request.queue, Cleaned(queues[request.queue]), request),
         ~Duplicate(request.queue, Cleaned(queues[request.queue]), request),
         NEW id \in MsgIds \ issued, NEW outcome \in Outcomes,
         StoreMessage(request, id, outcome)
  PROVE  HandlerStep
<1> DEFINE ids      == AcceptedIds \ removed
           n        == request.queue
           queue    == Cleaned(queues[n])
           fifo     == IsFifo(n, queue.attributes)
           key      == DedupKey(queue.attributes, request)
           delay    == DelayOf(queue, request)
           entered  == IF fifo THEN Entered(queue, key, id) ELSE queue
           sequence == IF fifo THEN entered.sequence ELSE 0
           m == [id |-> id, sentAt |-> now, availableAt |-> now + delay,
                 invisibleUntil |-> 0, receiveCount |-> 0, receiptHandle |-> 0,
                 deleted |-> FALSE, group |-> request.group, sequence |-> sequence,
                 deadLetterSource |-> NoValue]
           sent == [queues EXCEPT ![n] = Push(entered, m)]
           undo == [sent EXCEPT ![n].messages = queues[n].messages,
                                ![n].pushed = queues[n].pushed,
                                ![n].sequence = queues[n].sequence,
                                ![n].dedup = queues[n].dedup]
           entry == [id |-> id, createdAt |-> queue.createdAt, at |-> now,
                     key |-> IF fifo THEN key ELSE NoValue, sequence |-> sequence]
<1>1. Held(ids) /\ Records
  BY Parts
<1>2. n \in DOMAIN queues
  OBVIOUS
<1>3. IsQueue(queues[n]) /\ AreQueues(queues)
  BY <1>1, <1>2 DEF Held, Sound, AreQueues
<1>4. /\ IsQueue(queue)
      /\ queue.attributes = queues[n].attributes
      /\ queue.createdAt = queues[n].createdAt
      /\ queue.tags = queues[n].tags
      /\ queue.pushed = queues[n].pushed
      /\ queue.sequence = queues[n].sequence
  BY <1>3, CleanedQueue
<1>5. /\ LivePositions(queue) = DOMAIN queue.messages
      /\ \A p \in DOMAIN queue.messages :
           p \in LivePositions(queues[n]) /\ queue.messages[p] = queues[n].messages[p]
      /\ \A k \in DOMAIN queues[n].dedup :
           now < queues[n].dedup[k].expiresAt
             <=> k \in DOMAIN queue.dedup
      /\ \A k \in DOMAIN queue.dedup : k \in DOMAIN queues[n].dedup /\ queue.dedup[k] = queues[n].dedup[k]
      /\ \A p \in LivePositions(queues[n]) :
           \/ p \in DOMAIN queue.messages
           \/ now - queues[n].messages[p].sentAt > ShortestRetention
  <2>1. now \in Nat
    BY <1>1 DEF Records
  <2>2. queues[n].attributes.retention = 0 \/ queues[n].attributes.retention >= ShortestRetention
    BY DEF Retained
  <2> QED
    BY <1>3, <2>1, <2>2, CleanedExactly, CleanedSurvivors
<1>6. Persist(outcome, sent, moveTasks, undo, moveTasks)
  BY DEF StoreMessage
<1>7. /\ accepted' = IF Effective(outcome) THEN Append(accepted, entry) ELSE accepted
      /\ issued' = issued \cup {id}
      /\ UNCHANGED <<now, minted, creates, removed, lease>>
  BY DEF StoreMessage
<1>8. now \in Nat /\ queue.createdAt \in Nat /\ creates \in Nat
  BY <1>1, <1>4 DEF Records, IsQueue
<1>9. delay \in Nat
  <2>1. queue.attributes.delay \in Nat
    <3>1. AreAttributes(queue.attributes)
      BY <1>4 DEF IsQueue
    <3>2. "delay" \in DOMAIN AttributeValues /\ AttributeValues["delay"] = Nat
      BY DEF AttributeValues
    <3> HIDE DEF queue
    <3> QED
      BY <3>1, <3>2 DEF AreAttributes
  <2>2. request.delay \in Optional(DelayInputs)
    BY DEF SendRequests
  <2> QED
    BY <2>1, <2>2, ConstantsAssumption DEF Optional, DelayOf
<1>10. fifo => key \in DedupKeys /\ key \notin DOMAIN queue.dedup
  <2>1. request.dedup \in Optional(DedupIds) /\ request.content \in Contents
    BY DEF SendRequests
  <2>2. ~(fifo /\ key = NoValue) /\ ~(fifo /\ key \in DOMAIN queue.dedup)
    BY DEF Refused, Duplicate
  <2> HIDE DEF fifo, queue
  <2> QED
    BY <2>1, <2>2 DEF DedupKey, DedupKeys, Optional
<1>11. entered = IF fifo THEN Entered(queue, key, id) ELSE queue
  OBVIOUS
<1>12. sent = [queues EXCEPT ![n] = Push(entered, m)]
  OBVIOUS
<1>13. undo = [sent EXCEPT ![n].messages = queues[n].messages,
                           ![n].pushed = queues[n].pushed,
                           ![n].sequence = queues[n].sequence,
                           ![n].dedup = queues[n].dedup]
  OBVIOUS
<1> HIDE DEF fifo, key, queue, delay, entered, sent, undo
<1>14. /\ IsQueue(entered)
       /\ entered.messages = queue.messages
       /\ entered.createdAt = queue.createdAt
       /\ entered.attributes = queue.attributes
       /\ entered.tags = queue.tags
  BY <1>4, <1>8, <1>10, <1>11, EnteredQueue
<1>15. /\ entered.pushed = queue.pushed
       /\ entered.sequence \in Nat /\ queue.sequence \in Nat
       /\ IF fifo
          THEN /\ entered.sequence = queue.sequence + 1
               /\ entered.dedup = With(queue.dedup, key, [expiresAt |-> now + DedupWindow, id |-> id])
          ELSE entered = queue
  <2>1. entered.sequence \in Nat /\ queue.sequence \in Nat
    BY <1>4, <1>14 DEF IsQueue
  <2>2. CASE fifo
    BY <1>4, <1>11, <2>1, <2>2 DEF Entered, IsQueue, QueueFields
  <2>3. CASE ~fifo
    BY <1>11, <2>1, <2>3
  <2> QED
    BY <2>2, <2>3
<1>16. sequence \in Nat /\ (fifo => sequence = entered.sequence)
  BY <1>15
<1> HIDE DEF sequence
<1>17. m \in Message /\ m.id = id /\ m.sentAt = now /\ m.invisibleUntil = 0 /\ m.deleted = FALSE
  <2>1. request.group \in Optional(Groups) /\ NoValue \in Optional(QueueNames)
    BY DEF SendRequests, Optional
  <2>2. now + delay \in Nat
    BY <1>8, <1>9
  <2> QED
    BY <1>8, <1>16, <2>1, <2>2 DEF Message
<1>18. /\ entry \in Acceptance /\ entry.id = id /\ entry.at = now
       /\ entry.createdAt = queue.createdAt /\ entry.sequence = sequence
       /\ entry.key = IF fifo THEN key ELSE NoValue
  BY <1>8, <1>10, <1>16 DEF Acceptance, Optional
<1> HIDE DEF m, entry
<1> DEFINE pushed == Push(entered, m)
<1>19. /\ IsQueue(pushed)
       /\ DOMAIN pushed.messages = DOMAIN queue.messages \cup {queue.pushed + 1}
       /\ \A p \in DOMAIN queue.messages : pushed.messages[p] = queue.messages[p]
       /\ queue.pushed + 1 \notin DOMAIN queue.messages
       /\ pushed.messages[queue.pushed + 1] = m
       /\ \A f \in {"createdAt", "attributes", "tags", "sequence", "dedup"} : pushed[f] = entered[f]
  <2> DEFINE batch == <<m>>
  <2>1. batch \in [{1} -> Message] /\ batch[1] = m /\ {1} \in SUBSET (1..1) /\ 1 \in Nat
    BY <1>17
  <2>2. pushed = PushAll(entered, batch, 1)
    BY DEF Push
  <2> HIDE DEF batch, pushed
  <2>3. Appended(pushed, entered, {1}, batch)
    BY <1>14, <2>1, <2>2, PushedQueue
  <2>4. Slots(entered, {1}) = {queue.pushed + 1}
    BY <1>15 DEF Slots
  <2>5. /\ IsQueue(pushed)
        /\ DOMAIN pushed.messages = DOMAIN queue.messages \cup {queue.pushed + 1}
        /\ \A f \in {"createdAt", "attributes", "tags", "sequence", "dedup"} : pushed[f] = entered[f]
    BY <1>14, <2>3, <2>4 DEF Appended
  <2>6. /\ queue.pushed + 1 \notin DOMAIN queue.messages
        /\ pushed.messages[queue.pushed + 1] = m
        /\ \A p \in DOMAIN queue.messages : pushed.messages[p] = queue.messages[p]
    BY <1>14, <1>15, <2>1, <2>3 DEF Appended
  <2> QED
    BY <2>5, <2>6
<1> HIDE DEF pushed
<1>20. /\ DOMAIN sent = DOMAIN queues /\ sent[n] = pushed
       /\ \A k \in DOMAIN queues \ {n} : sent[k] = queues[k]
       /\ AreQueues(sent)
  BY <1>2, <1>3, <1>12, <1>19 DEF AreQueues, pushed
<1>21. undo = queues
  <2>1. queues = [k \in DOMAIN queues |-> queues[k]]
    BY <1>3 DEF AreQueues
  <2>2. sent = [queues EXCEPT ![n] = pushed]
    BY <1>12 DEF pushed
  <2>3. undo = [queues EXCEPT ![n] = [pushed EXCEPT !.messages = queues[n].messages,
                                                    !.pushed = queues[n].pushed,
                                                    !.sequence = queues[n].sequence,
                                                    !.dedup = queues[n].dedup]]
    BY <1>2, <1>13, <2>1, <2>2
  <2>4. \A f \in {"createdAt", "attributes", "tags"} : pushed[f] = queues[n][f]
    BY <1>4, <1>14, <1>19
  <2>5. [pushed EXCEPT !.messages = queues[n].messages, !.pushed = queues[n].pushed,
                       !.sequence = queues[n].sequence, !.dedup = queues[n].dedup] = queues[n]
    BY <1>3, <1>19, <2>4 DEF IsQueue, QueueFields
  <2> QED
    BY <2>1, <2>3, <2>5
<1>22. IF Effective(outcome) THEN Writes(sent, moveTasks)
                             ELSE UNCHANGED <<queues, moveTasks, disk, up>>
  BY <1>6, <1>21, PersistEnds
<1>23. CASE Effective(outcome)
  <2>1. LivePositions(pushed) = LivePositions(queue) \cup {queue.pushed + 1}
    <3>1. ~m.deleted
      BY <1>17
    <3> QED
      BY <1>5, <1>19, <3>1 DEF LivePositions
  <2>2. Descent(sent)
    <3> SUFFICES ASSUME NEW k \in DOMAIN sent, NEW p \in LivePositions(sent[k])
                 PROVE  KeptMessage(sent, k, p) \/ Arrived(sent, k, p)
      BY DEF Descent
    <3>1. CASE k # n
      BY <1>7, <1>20, <3>1 DEF KeptMessage, InPlace, Same
    <3>2. CASE k = n /\ p \in LivePositions(queue)
      BY <1>2, <1>5, <1>7, <1>19, <1>20, <3>2 DEF KeptMessage, InPlace, Same
    <3>3. CASE k = n /\ p = queue.pushed + 1
      <4>1. queues[n].pushed \in Nat
        BY <1>3 DEF IsQueue
      <4>2. sent[k].messages[p] = m
        BY <1>19, <1>20, <3>3
      <4>3. lease'[id] <= now
        BY <1>7, <1>8 DEF Unleased
      <4> QED
        BY <1>2, <1>4, <1>17, <3>3, <4>1, <4>2, <4>3 DEF Arrived
    <3> QED
      BY <1>20, <2>1, <3>1, <3>2, <3>3
  <2>3. id \in AllLiveIds(sent)
    BY <1>2, <1>17, <1>19, <1>20, <2>1 DEF AllLiveIds, LiveIds
  <2>4. Survival(sent)
    <3> SUFFICES ASSUME NEW k \in DOMAIN queues, NEW p \in LivePositions(queues[k])
                 PROVE  \/ now - queues[k].messages[p].sentAt > ShortestRetention
                        \/ queues[k].messages[p].id \in AllLiveIds(sent)
      BY DEF Survival
    <3>1. CASE k # n
      BY <1>20, <3>1 DEF AllLiveIds, LiveIds
    <3>2. CASE k = n /\ p \in DOMAIN queue.messages
      BY <1>2, <1>5, <1>19, <1>20, <2>1, <3>2 DEF AllLiveIds, LiveIds
    <3> QED
      BY <1>5, <3>1, <3>2
  <2>5. Retained(sent)
    <3>1. pushed.attributes = queues[n].attributes
      BY <1>4, <1>14, <1>19
    <3> QED
      BY <1>20, <3>1 DEF Retained
  <2>6. Remembers(pushed, queues[n])
    <3>1. /\ pushed.createdAt = queues[n].createdAt
          /\ pushed.sequence = entered.sequence
          /\ pushed.dedup = entered.dedup
      BY <1>4, <1>14, <1>19
    <3>2. pushed.sequence >= queues[n].sequence
      BY <1>4, <1>15, <3>1
    <3>3. ASSUME NEW k \in DOMAIN queues[n].dedup, now < queues[n].dedup[k].expiresAt
          PROVE  k \in DOMAIN pushed.dedup /\ pushed.dedup[k] = queues[n].dedup[k]
      <4>1. k \in DOMAIN queue.dedup /\ queue.dedup[k] = queues[n].dedup[k]
        BY <1>5, <3>3
      <4> QED
        BY <1>10, <1>15, <3>1, <4>1 DEF With
    <3> QED
      BY <3>1, <3>2, <3>3 DEF Remembers
  <2>7. QueueDescent(sent)
    <3>1. \A k \in DOMAIN queues : Remembers(queues[k], queues[k])
      BY <1>3 DEF Remembers, AreQueues, IsQueue
    <3> QED
      BY <1>20, <2>6, <3>1 DEF QueueDescent
  <2>8. Entry(entry, sent, n)
    <3>1. ASSUME entry.key # NoValue
          PROVE  /\ entry.sequence = sent[n].sequence
                 /\ queues[n].sequence < sent[n].sequence
                 /\ entry.key \in DOMAIN sent[n].dedup
                 /\ sent[n].dedup[entry.key].expiresAt = now + DedupWindow
                 /\ ~(entry.key \in DOMAIN queues[n].dedup /\ now < queues[n].dedup[entry.key].expiresAt)
      <4>1. fifo /\ entry.key = key
        BY <1>18, <3>1
      <4>2. sent[n].sequence = entered.sequence /\ sent[n].dedup = entered.dedup
        BY <1>19, <1>20
      <4>3. /\ key \in DOMAIN entered.dedup
            /\ entered.dedup[key] = [expiresAt |-> now + DedupWindow, id |-> id]
        BY <1>15, <4>1 DEF With
      <4>4. entry.sequence = sent[n].sequence /\ queues[n].sequence < sent[n].sequence
        BY <1>4, <1>15, <1>16, <1>18, <4>1, <4>2
      <4>5. ~(key \in DOMAIN queues[n].dedup /\ now < queues[n].dedup[key].expiresAt)
        BY <1>5, <1>10, <4>1
      <4> QED
        BY <4>1, <4>2, <4>3, <4>4, <4>5
    <3> QED
      BY <1>4, <1>18, <2>3, <3>1 DEF Entry
  <2>9. Acceptances(sent)
    BY <1>2, <1>7, <1>18, <1>20, <1>23, <2>8 DEF Acceptances
  <2>10. Promises
    BY <1>7, <1>8 DEF Promises
  <2>11. Effect(sent, moveTasks)
    BY <1>7, <1>20, <1>22, <1>23, <2>2, <2>4, <2>5, <2>7, <2>9, <2>10 DEF Effect
  <2> QED
    BY <2>11 DEF HandlerStep
<1>24. CASE ~Effective(outcome)
  BY <1>7, <1>8, <1>22, <1>24 DEF HandlerStep, NoEffect
<1> QED
  BY <1>23, <1>24

-----------------------------------------------------------------------------
(***************************************************************************)
(* Receiving, redriving and moving.                                        *)
(***************************************************************************)

\* The store with queue n cleaned up, next to the store before.
CleanedFrom(qs) ==
  /\ DOMAIN qs = DOMAIN queues
  /\ \A k \in DOMAIN queues :
       /\ Remembers(qs[k], queues[k])
       /\ qs[k].attributes = queues[k].attributes
       /\ qs[k].pushed = queues[k].pushed
       /\ \A p \in LivePositions(qs[k]) :
            p \in LivePositions(queues[k]) /\ qs[k].messages[p] = queues[k].messages[p]
       /\ \A p \in LivePositions(queues[k]) :
            \/ p \in LivePositions(qs[k])
            \/ now - queues[k].messages[p].sentAt > ShortestRetention

LEMMA CleanedStore ==
  ASSUME NEW ids, Sound(queues, ids), Retained(queues), now \in Nat, NEW n \in DOMAIN queues
  PROVE  Sound(CleanedAt(n), ids) /\ CleanedFrom(CleanedAt(n))
<1> DEFINE qs == CleanedAt(n)
           queue == Cleaned(queues[n])
<1>1. AreQueues(queues) /\ IsQueue(queues[n])
  BY DEF Sound, AreQueues
<1>2. /\ DOMAIN qs = DOMAIN queues /\ qs[n] = queue
      /\ \A k \in DOMAIN queues \ {n} : qs[k] = queues[k]
  BY <1>1 DEF CleanedAt, AreQueues
<1>3. Sound(qs, ids)
  <2>1. IsQueue(queue) /\ SubQueue(queue, queues[n])
    BY <1>1, CleanedQueue
  <2>2. Sound([queues EXCEPT ![n] = queue], ids)
    <3> HIDE DEF queue
    <3> QED
      BY <2>1, EditStore
  <2> QED
    BY <2>2 DEF CleanedAt
<1>4. ASSUME NEW k \in DOMAIN queues, k # n
      PROVE  Remembers(queues[k], queues[k])
  BY <1>1 DEF Remembers, AreQueues, IsQueue
<1>5. /\ Remembers(queue, queues[n])
      /\ queue.attributes = queues[n].attributes
      /\ queue.pushed = queues[n].pushed
  <2>1. queues[n].sequence \in Nat
    BY <1>1 DEF IsQueue
  <2> QED
    BY <1>1, <2>1, CleanedQueue, CleanedExactly DEF Remembers
<1>6. \A p \in LivePositions(queue) :
        p \in LivePositions(queues[n]) /\ queue.messages[p] = queues[n].messages[p]
  BY <1>1, CleanedExactly
<1>7. \A p \in LivePositions(queues[n]) :
        p \in LivePositions(queue) \/ now - queues[n].messages[p].sentAt > ShortestRetention
  BY <1>1, CleanedSurvivors DEF Retained
<1> HIDE DEF qs, queue
<1>8. CleanedFrom(qs)
  BY <1>2, <1>4, <1>5, <1>6, <1>7 DEF CleanedFrom
<1> QED
  BY <1>3, <1>8 DEF qs

\* The copies bound for a queue are pushed to it, and the rest stays as it is in left.
DealtOut(new, left, moved, copies, target, top) ==
  \A k \in DOMAIN left :
    LET bound == Bound(target, k) \cap moved IN
    IF bound = {} THEN new[k] = left[k]
    ELSE new[k] = PushAll(left[k], [p \in bound |-> copies[p]], top)

\* Where every live message of new comes from, and where every copy went.
Relocation(new, qs, src, messages, moved, copies, target) ==
  LET before(k) == IF k = src THEN messages ELSE qs[k].messages IN
  \A k \in DOMAIN qs :
    /\ \A f \in {"createdAt", "attributes", "sequence", "dedup"} : new[k][f] = qs[k][f]
    /\ \A p \in LivePositions(new[k]) :
         \/ p \in DOMAIN qs[k].messages /\ new[k].messages[p] = before(k)[p]
         \/ \E b \in moved : /\ target[b] = k
                             /\ p = qs[k].pushed + b
                             /\ new[k].messages[p] = copies[b]
    /\ \A p \in DOMAIN qs[k].messages :
         ~before(k)[p].deleted => before(k)[p].id \in LiveIds(new[k])
    /\ \A b \in moved : target[b] = k /\ ~copies[b].deleted => copies[b].id \in LiveIds(new[k])

LEMMA Relocating ==
  ASSUME NEW qs, AreQueues(qs), NEW src \in DOMAIN qs,
         NEW messages \in [DOMAIN qs[src].messages -> Message],
         NEW moved \in SUBSET LivePositions(qs[src]),
         NEW copies \in [moved -> Message],
         NEW target, moved \subseteq DOMAIN target,
         NEW new,
         NEW left, left = WithMessages(qs, src, messages),
         DealtOut(new, left, moved, copies, target, qs[src].pushed)
  PROVE  Relocation(new, qs, src, messages, moved, copies, target)
<1> DEFINE before(k) == IF k = src THEN messages ELSE qs[k].messages
           bound(k) == Bound(target, k) \cap moved
           batch(k) == [p \in bound(k) |-> copies[p]]
<1>1. IsQueue(qs[src]) /\ DOMAIN messages = DOMAIN qs[src].messages
  BY DEF AreQueues
<1>2. /\ DOMAIN left = DOMAIN qs
      /\ IsQueue(left[src]) /\ left[src].messages = messages /\ left[src].pushed = qs[src].pushed
      /\ \A f \in {"createdAt", "attributes", "sequence", "dedup"} : left[src][f] = qs[src][f]
      /\ \A k \in DOMAIN qs \ {src} : left[k] = qs[k]
  <2> DEFINE queue == [qs[src] EXCEPT !.messages = messages]
  <2>1. DOMAIN messages \subseteq 1..qs[src].pushed /\ messages \in [DOMAIN messages -> Message]
    BY <1>1 DEF IsQueue
  <2>2. IsQueue(queue) /\ queue.messages = messages /\ queue.pushed = qs[src].pushed
    BY <1>1, <2>1, NewMessages
  <2>3. \A f \in {"createdAt", "attributes", "sequence", "dedup"} : queue[f] = qs[src][f]
    BY <1>1 DEF IsQueue, QueueFields
  <2>4. left = [qs EXCEPT ![src] = queue]
    BY DEF WithMessages
  <2> HIDE DEF queue
  <2> QED
    BY <2>2, <2>3, <2>4 DEF AreQueues
<1>3. \A k \in DOMAIN qs : /\ IsQueue(left[k]) /\ left[k].pushed = qs[k].pushed
                           /\ left[k].messages = before(k)
                           /\ DOMAIN left[k].messages = DOMAIN qs[k].messages
                           /\ \A f \in {"createdAt", "attributes", "sequence", "dedup"} :
                                left[k][f] = qs[k][f]
  BY <1>1, <1>2 DEF AreQueues
<1>4. qs[src].pushed \in Nat /\ moved \subseteq 1..qs[src].pushed
  BY <1>1 DEF IsQueue, LivePositions
<1>5. \A k \in DOMAIN qs : bound(k) \in SUBSET (1..qs[src].pushed) /\ batch(k) \in [bound(k) -> Message]
  BY <1>4
<1> HIDE DEF before
<1> SUFFICES ASSUME NEW k \in DOMAIN qs
             PROVE  /\ \A f \in {"createdAt", "attributes", "sequence", "dedup"} : new[k][f] = qs[k][f]
                    /\ \A p \in LivePositions(new[k]) :
                         \/ p \in DOMAIN qs[k].messages /\ new[k].messages[p] = before(k)[p]
                         \/ \E b \in moved : /\ target[b] = k
                                             /\ p = qs[k].pushed + b
                                             /\ new[k].messages[p] = copies[b]
                    /\ \A p \in DOMAIN qs[k].messages :
                         ~before(k)[p].deleted => before(k)[p].id \in LiveIds(new[k])
                    /\ \A b \in moved : target[b] = k /\ ~copies[b].deleted
                                          => copies[b].id \in LiveIds(new[k])
  BY DEF Relocation, before
<1>6. \A b \in moved : target[b] = k <=> b \in bound(k)
  BY DEF Bound
<1>7. CASE bound(k) = {}
  <2>1. new[k] = left[k]
    BY <1>2, <1>7 DEF DealtOut
  <2>2. \A b \in moved : target[b] # k
    BY <1>6, <1>7
  <2> QED
    BY <1>3, <2>1, <2>2 DEF LiveIds, LivePositions
<1>8. CASE bound(k) # {}
  <2> DEFINE D == bound(k)
             B == batch(k)
  <2>1. new[k] = PushAll(left[k], B, qs[src].pushed)
    BY <1>2, <1>8 DEF DealtOut
  <2>2. /\ D \in SUBSET (1..qs[src].pushed) /\ B \in [D -> Message]
        /\ \A b \in D : B[b] = copies[b] /\ b \in moved /\ target[b] = k
    BY <1>5 DEF Bound
  <2>3. \A b \in moved : target[b] = k => b \in D
    BY <1>6
  <2> HIDE DEF D, B
  <2>4. Appended(new[k], left[k], D, B)
    BY <1>3, <1>4, <2>1, <2>2, PushedQueue
  <2>5. \A f \in {"createdAt", "attributes", "sequence", "dedup"} : new[k][f] = qs[k][f]
    BY <1>3, <2>4 DEF Appended
  <2>6. \A p \in DOMAIN qs[k].messages : /\ p \in DOMAIN new[k].messages
                                         /\ new[k].messages[p] = before(k)[p]
    BY <1>3, <2>4 DEF Appended
  <2>7. \A b \in D : /\ qs[k].pushed + b \in DOMAIN new[k].messages
                     /\ new[k].messages[qs[k].pushed + b] = copies[b]
    BY <1>3, <2>2, <2>4 DEF Appended, Slots
  <2>8. \A p \in DOMAIN new[k].messages :
          p \in DOMAIN qs[k].messages \/ \E b \in D : p = qs[k].pushed + b
    BY <1>3, <2>4 DEF Appended, Slots
  <2>9. \A p \in LivePositions(new[k]) :
          \/ p \in DOMAIN qs[k].messages /\ new[k].messages[p] = before(k)[p]
          \/ \E b \in moved : /\ target[b] = k
                              /\ p = qs[k].pushed + b
                              /\ new[k].messages[p] = copies[b]
    BY <2>2, <2>6, <2>7, <2>8 DEF LivePositions
  <2>10. \A p \in DOMAIN qs[k].messages :
           ~before(k)[p].deleted => before(k)[p].id \in LiveIds(new[k])
    BY <2>6 DEF LiveIds, LivePositions
  <2>11. \A b \in moved : target[b] = k /\ ~copies[b].deleted
                            => copies[b].id \in LiveIds(new[k])
    BY <2>3, <2>7 DEF LiveIds, LivePositions
  <2> QED
    BY <2>5, <2>9, <2>10, <2>11
<1> QED
  BY <1>7, <1>8

\* What the edits of a message leave alone.
LEMMA EditedFields ==
  ASSUME NEW m \in Message, now \in Nat, minted \in [MsgIds -> Nat],
         NEW visibility \in Nat, NEW source \in Optional(QueueNames)
  PROVE  /\ Same(Leased(m, visibility), m)
         /\ Leased(m, visibility).invisibleUntil = now + visibility
         /\ Same(Relocated(m, source), m)
         /\ Relocated(m, source).invisibleUntil = 0
         /\ Relocated(m, source).deleted = m.deleted
<1>1. /\ Same(Relocated(m, source), m)
      /\ Relocated(m, source).invisibleUntil = 0
      /\ Relocated(m, source).deleted = m.deleted
  BY DEF Relocated, Message, Same
<1>2. /\ Same(Leased(m, visibility), m)
      /\ Leased(m, visibility).invisibleUntil = now + visibility
  BY DEF Leased, Message, Same
<1> QED
  BY <1>1, <1>2

\* Every live message after a scan is an old one the scan passed over, one it
\* handed out, or one it redrove; and none of the old ones is lost.
ScanOf(new, qs, n, out, dead, visibility) ==
  \A k \in DOMAIN qs :
    /\ \A f \in {"createdAt", "attributes", "sequence", "dedup"} : new[k][f] = qs[k][f]
    /\ \A p \in LivePositions(new[k]) :
         \/ /\ p \in LivePositions(qs[k])
            /\ ~(k = n /\ p \in out)
            /\ new[k].messages[p] = qs[k].messages[p]
         \/ k = n /\ p \in out /\ new[k].messages[p] = Leased(qs[n].messages[p], visibility)
         \/ \E b \in dead : /\ p = qs[k].pushed + b
                            /\ new[k].messages[p] = Relocated(qs[n].messages[b], n)
    /\ \A p \in LivePositions(qs[k]) : qs[k].messages[p].id \in AllLiveIds(new)

LEMMA ScannedExactly ==
  ASSUME NEW qs, AreQueues(qs), NEW n \in DOMAIN qs, NEW max,
         NEW visibility \in Nat, now \in Nat, minted \in [MsgIds -> Nat]
  PROVE  ScanOf(ReceiveScan(qs, n, max, visibility), qs, n,
                Delivered(qs, n, max), DeadLettered(qs, n, max), visibility)
<1> DEFINE out == Delivered(qs, n, max)
           dead == DeadLettered(qs, n, max)
           old == qs[n].messages
           messages == [p \in DOMAIN old |-> CASE p \in out  -> Leased(old[p], visibility)
                                               [] p \in dead -> Tombstone(old[p])
                                               [] OTHER      -> old[p]]
           copies == [p \in dead |-> Relocated(old[p], n)]
           dlq == DeadLetterQueue(qs, n)
           target == [p \in dead |-> dlq]
           new == ReceiveScan(qs, n, max, visibility)
           left == [qs EXCEPT ![n].messages = messages]
<1>1. out \subseteq LivePositions(qs[n]) /\ dead \subseteq LivePositions(qs[n])
  BY DEF Delivered, DeadLettered, Deliverable, Considered
<1>2. dead \cap out = {}
  BY DEF Delivered, DeadLettered
<1>3. dead # {} => dlq \in DOMAIN qs
  BY DeadLetterTarget DEF DeadLettered, Deliverable, Poisoned
<1>4. IsQueue(qs[n]) /\ old \in [DOMAIN old -> Message] /\ qs[n].pushed \in Nat
  BY DEF AreQueues, IsQueue
<1>5. LivePositions(qs[n]) = {p \in DOMAIN old : ~old[p].deleted}
  BY DEF LivePositions
<1>6. n \in Optional(QueueNames)
  BY DEF AreQueues, Optional
<1>7. \A p \in DOMAIN old : /\ Leased(old[p], visibility) \in Message
                            /\ Leased(old[p], visibility).id = old[p].id
                            /\ Leased(old[p], visibility).deleted = old[p].deleted
                            /\ Tombstone(old[p]) \in Message
                            /\ Tombstone(old[p]).deleted
                            /\ Relocated(old[p], n) \in Message
                            /\ Relocated(old[p], n).id = old[p].id
                            /\ Relocated(old[p], n).deleted = old[p].deleted
  BY <1>4, <1>6, EditedMessage, EditedFields
<1>8. new = IF dead = {} THEN left
            ELSE [left EXCEPT ![dlq] = PushAll(left[dlq], copies, qs[n].pushed)]
  BY <1>3 DEF ReceiveScan, AreQueues
<1> HIDE DEF out, dead, dlq
<1>9. /\ messages \in [DOMAIN qs[n].messages -> Message]
      /\ \A p \in DOMAIN old : /\ p \in out => messages[p] = Leased(old[p], visibility)
                               /\ p \in dead => messages[p] = Tombstone(old[p])
                               /\ p \notin out \cup dead => messages[p] = old[p]
  BY <1>2, <1>4, <1>7
<1>10. /\ copies \in [dead -> Message] /\ dead \subseteq DOMAIN target
       /\ \A p \in dead : copies[p] = Relocated(old[p], n) /\ target[p] = dlq
  BY <1>1, <1>5, <1>7
<1>11. DOMAIN left = DOMAIN qs
  BY DEF AreQueues
<1>12. DealtOut(new, left, dead, copies, target, qs[n].pushed)
  <2> SUFFICES ASSUME NEW k \in DOMAIN qs
               PROVE  LET bound == Bound(target, k) \cap dead IN
                      IF bound = {} THEN new[k] = left[k]
                      ELSE new[k] = PushAll(left[k], [p \in bound |-> copies[p]], qs[n].pushed)
    BY <1>11 DEF DealtOut
  <2>1. CASE k = dlq /\ dead # {}
    <3>1. Bound(target, k) \cap dead = dead
      BY <2>1 DEF Bound
    <3>2. [p \in dead |-> copies[p]] = copies
      OBVIOUS
    <3> HIDE DEF new, left, copies, target
    <3> QED
      BY <1>8, <1>11, <2>1, <3>1, <3>2
  <2>2. CASE ~(k = dlq /\ dead # {})
    <3>1. Bound(target, k) \cap dead = {}
      BY <2>2 DEF Bound
    <3> HIDE DEF new, left, copies, target
    <3> QED
      BY <1>8, <1>11, <2>2, <3>1
  <2> QED
    BY <2>1, <2>2
<1>13. left = WithMessages(qs, n, messages)
  BY DEF WithMessages
<1> HIDE DEF new, messages, copies, target, left
<1>14. Relocation(new, qs, n, messages, dead, copies, target)
  BY <1>1, <1>9, <1>10, <1>12, <1>13, Relocating
<1>15. \A p \in DOMAIN old : ~messages[p].deleted => p \in LivePositions(qs[n]) /\ p \notin dead
  BY <1>1, <1>5, <1>7, <1>9
<1>16. \A k \in DOMAIN qs :
         \A f \in {"createdAt", "attributes", "sequence", "dedup"} : new[k][f] = qs[k][f]
  BY <1>14 DEF Relocation
<1>17. ASSUME NEW k \in DOMAIN qs, NEW p \in LivePositions(new[k])
       PROVE  \/ /\ p \in LivePositions(qs[k])
                 /\ ~(k = n /\ p \in out)
                 /\ new[k].messages[p] = qs[k].messages[p]
              \/ k = n /\ p \in out /\ new[k].messages[p] = Leased(qs[n].messages[p], visibility)
              \/ \E b \in dead : /\ p = qs[k].pushed + b
                                 /\ new[k].messages[p] = Relocated(qs[n].messages[b], n)
  <2>1. CASE \E b \in dead : p = qs[k].pushed + b /\ new[k].messages[p] = copies[b]
    BY <1>10, <2>1
  <2>2. CASE k # n /\ p \in DOMAIN qs[k].messages /\ new[k].messages[p] = qs[k].messages[p]
    BY <2>2 DEF LivePositions
  <2>3. CASE k = n /\ p \in DOMAIN qs[k].messages /\ new[k].messages[p] = messages[p]
    <3>1. ~messages[p].deleted
      BY <2>3 DEF LivePositions
    <3>2. p \in LivePositions(qs[n]) /\ p \notin dead
      BY <1>15, <2>3, <3>1
    <3> QED
      BY <1>9, <2>3, <3>2
  <2> QED
    BY <1>14, <2>1, <2>2, <2>3 DEF Relocation
<1>18. DOMAIN new = DOMAIN qs
  BY <1>3, <1>8, <1>11
<1>19. ASSUME NEW k \in DOMAIN qs, NEW p \in LivePositions(qs[k])
       PROVE  qs[k].messages[p].id \in AllLiveIds(new)
  <2>1. CASE k # n
    <3>1. qs[k].messages[p].id \in LiveIds(new[k])
      BY <1>14, <2>1 DEF Relocation, LivePositions
    <3> QED
      BY <1>18, <3>1 DEF AllLiveIds
  <2>2. CASE k = n /\ p \notin dead
    <3>1. ~messages[p].deleted /\ messages[p].id = old[p].id /\ p \in DOMAIN qs[n].messages
      BY <1>5, <1>7, <1>9, <2>2
    <3>2. messages[p].id \in LiveIds(new[n])
      BY <1>14, <3>1 DEF Relocation
    <3> QED
      BY <1>18, <2>2, <3>1, <3>2 DEF AllLiveIds
  <2>3. CASE k = n /\ p \in dead
    <3>1. ~copies[p].deleted /\ copies[p].id = old[p].id /\ target[p] = dlq
      BY <1>5, <1>7, <1>10, <2>3
    <3>2. copies[p].id \in LiveIds(new[dlq])
      BY <1>3, <1>14, <2>3, <3>1 DEF Relocation
    <3> QED
      BY <1>3, <1>18, <2>3, <3>1, <3>2 DEF AllLiveIds
  <2> QED
    BY <2>1, <2>2, <2>3
<1> QED
  BY <1>16, <1>17, <1>19 DEF ScanOf, new, out, dead

\* The messages of a store are invisible as long as their consumers were promised.
Honoured(qs, time, promised) ==
  \A n \in DOMAIN qs : \A p \in LivePositions(qs[n]) :
    LET m == qs[n].messages[p] IN
    time < promised[m.id] => promised[m.id] <= m.invisibleUntil

LEMMA TakeMessagesEffect ==
  ASSUME LedgerInv, Retained(queues), Honoured(queues, now, lease),
         NEW c \in Consumers, NEW call \in PendingCall, NEW left \in Nat,
         call.queue \in DOMAIN queues, NEW outcome \in Outcomes,
         TakeMessages(c, call, left, outcome)
  PROVE  HandlerStep
<1> DEFINE ids        == AcceptedIds \ removed
           n          == call.queue
           qs         == CleanedAt(n)
           visibility == VisibilityOf(qs[n], call)
           max        == Clamped(call.max)
           out        == Delivered(qs, n, max)
           dead       == DeadLettered(qs, n, max)
           taken      == {qs[n].messages[p].id : p \in out}
           new        == ReceiveScan(qs, n, max, visibility)
           undo       == [k \in DOMAIN new |-> IF k \in Touched(qs, n) THEN queues[k] ELSE new[k]]
<1>1. Held(ids) /\ Records
  BY Parts
<1>2. n \in DOMAIN queues /\ n \in QueueNames
  BY DEF PendingCall
<1>3. Persist(outcome, new, moveTasks, undo, moveTasks)
  BY DEF TakeMessages
<1>4. lease' = IF outcome = "saved"
               THEN [id \in MsgIds |-> IF id \in taken THEN now + visibility ELSE lease[id]]
               ELSE lease
  BY DEF TakeMessages
<1>5. UNCHANGED <<now, issued, creates, accepted, removed>>
  BY DEF TakeMessages
<1>6. /\ now \in Nat /\ minted \in [MsgIds -> Nat] /\ lease \in [MsgIds -> Nat] /\ creates \in Nat
      /\ Sound(queues, ids)
  BY <1>1 DEF Held, Records
<1>7. Sound(qs, ids) /\ CleanedFrom(qs)
  BY <1>2, <1>6, CleanedStore
<1>8. \A k \in DOMAIN queues \ {n} : qs[k] = queues[k]
  BY <1>2, <1>6 DEF CleanedAt, Sound, AreQueues
<1> HIDE DEF qs
<1>9. visibility \in Nat
  <2>1. qs[n].attributes.visibility \in Nat
    <3>1. AreAttributes(qs[n].attributes)
      BY <1>2, <1>7 DEF Sound, AreQueues, IsQueue, CleanedFrom
    <3>2. "visibility" \in DOMAIN AttributeValues /\ AttributeValues["visibility"] = Nat
      BY DEF AttributeValues
    <3> QED
      BY <3>1, <3>2 DEF AreAttributes
  <2>2. call.visibility \in Optional(VisibilityInputs)
    BY DEF PendingCall
  <2> QED
    BY <2>1, <2>2, ConstantsAssumption DEF Optional, VisibilityOf
<1>10. /\ out \cup dead \subseteq Considered(n, qs[n]) /\ out \cap dead = {}
       /\ Considered(n, qs[n]) \subseteq LivePositions(qs[n])
       /\ \A p \in Considered(n, qs[n]) : HeadOfGroup(n, qs[n], p) /\ Ready(qs[n].messages[p])
  BY DEF Delivered, DeadLettered, Deliverable, Considered
<1>11. DOMAIN qs = DOMAIN queues /\ n \in DOMAIN qs
  BY <1>2, <1>7 DEF CleanedFrom
<1>12. \A id : id \in taken <=> \E p \in out : qs[n].messages[p].id = id
  OBVIOUS
<1> HIDE DEF visibility, max
<1>13. /\ AreQueues(new) /\ DOMAIN new = DOMAIN queues
       /\ \A k \in DOMAIN queues \ Touched(qs, n) : new[k] = qs[k]
  <2>1. /\ Sound(new, ids) /\ DOMAIN new = DOMAIN qs
        /\ \A k \in DOMAIN qs \ Touched(qs, n) : new[k] = qs[k]
    <3> HIDE DEF ids, n
    <3> QED
      BY <1>6, <1>7, <1>9, <1>11, ScannedStore DEF Touched
  <2> QED
    BY <1>11, <2>1 DEF Sound
<1>14. ScanOf(new, qs, n, out, dead, visibility)
  BY <1>6, <1>7, <1>9, <1>11, ScannedExactly DEF Sound
<1>15. undo = queues
  <2> HIDE DEF new
  <2>1. queues = [k \in DOMAIN queues |-> queues[k]]
    BY <1>6 DEF Sound, AreQueues
  <2> QED
    BY <1>8, <1>11, <1>13, <2>1 DEF Touched
<1> HIDE DEF new, undo, out, dead, taken
<1>16. IF Effective(outcome) THEN Writes(new, moveTasks)
                             ELSE UNCHANGED <<queues, moveTasks, disk, up>>
  BY <1>3, <1>15, PersistEnds
<1>17. ASSUME NEW k \in DOMAIN queues, NEW p \in LivePositions(qs[k])
       PROVE  /\ p \in LivePositions(queues[k])
              /\ qs[k].messages[p] = queues[k].messages[p]
              /\ qs[k].messages[p] \in Message
              /\ qs[k].messages[p].id \in taken => k = n /\ p \in out
  <2>1. p \in LivePositions(queues[k]) /\ qs[k].messages[p] = queues[k].messages[p]
    BY <1>7 DEF CleanedFrom
  <2>2. qs[k].messages[p] \in Message
    BY <1>7, <1>11 DEF Sound, AreQueues, IsQueue, LivePositions
  <2>3. ASSUME qs[k].messages[p].id \in taken PROVE k = n /\ p \in out
    <3>1. PICK e \in out : qs[n].messages[e].id = qs[k].messages[p].id
      BY <1>12, <2>3
    <3> QED
      BY <1>7, <1>10, <1>11, <3>1 DEF Sound, SingleCopy
  <2> QED
    BY <2>1, <2>2, <2>3
<1>18. ASSUME NEW p \in out \cup dead PROVE lease[qs[n].messages[p].id] <= now
  <2>1. p \in LivePositions(qs[n]) /\ Ready(qs[n].messages[p])
    BY <1>10
  <2>2. /\ p \in LivePositions(queues[n]) /\ qs[n].messages[p] = queues[n].messages[p]
        /\ qs[n].messages[p] \in Message
    BY <1>2, <1>17, <2>1
  <2>3. /\ lease[qs[n].messages[p].id] \in Nat
        /\ qs[n].messages[p].invisibleUntil \in Nat
        /\ qs[n].messages[p].invisibleUntil <= now
    BY <1>6, <2>1, <2>2 DEF Message, Ready
  <2>4. now < lease[qs[n].messages[p].id]
          => lease[qs[n].messages[p].id] <= qs[n].messages[p].invisibleUntil
    BY <1>2, <2>2 DEF Honoured
  <2> QED
    BY <1>6, <2>3, <2>4
<1>19. CASE Effective(outcome)
  <2>1. Descent(new)
    <3> SUFFICES ASSUME NEW k \in DOMAIN queues, NEW p \in LivePositions(new[k])
                 PROVE  KeptMessage(new, k, p) \/ Handed(new, k, p) \/ Arrived(new, k, p)
      BY <1>13 DEF Descent
    <3>1. CASE /\ p \in LivePositions(qs[k])
               /\ ~(k = n /\ p \in out)
               /\ new[k].messages[p] = qs[k].messages[p]
      <4>1. qs[k].messages[p].id \notin taken /\ qs[k].messages[p].id \in MsgIds
        BY <1>17, <3>1 DEF Message
      <4>2. lease'[qs[k].messages[p].id] = lease[qs[k].messages[p].id]
        BY <1>4, <4>1
      <4> QED
        BY <1>17, <3>1, <4>2 DEF KeptMessage, InPlace, Same
    <3>2. CASE k = n /\ p \in out /\ new[k].messages[p] = Leased(qs[n].messages[p], visibility)
      <4> DEFINE m == Leased(qs[n].messages[p], visibility)
      <4>1. p \in LivePositions(qs[n]) /\ HeadOfGroup(n, qs[n], p)
        BY <1>10, <3>2
      <4>2. /\ p \in LivePositions(queues[n]) /\ qs[n].messages[p] = queues[n].messages[p]
            /\ qs[n].messages[p] \in Message
        BY <1>2, <1>17, <4>1
      <4>3. Same(m, qs[n].messages[p]) /\ m.invisibleUntil = now + visibility
        <5>1. NoValue \in Optional(QueueNames)
          BY DEF Optional
        <5> QED
          BY <1>6, <1>9, <4>2, <5>1, EditedFields
      <4>4. m.id = qs[n].messages[p].id /\ m.id \in MsgIds /\ m.id \in taken
        BY <1>12, <3>2, <4>2, <4>3 DEF Same, Message
      <4> HIDE DEF m
      <4>5. lease'[m.id] = now + visibility \/ lease'[m.id] = lease[m.id]
        BY <1>4, <4>4
      <4>6. lease[m.id] <= now
        BY <1>18, <3>2, <4>4
      <4>7. now < lease'[m.id] => lease'[m.id] <= m.invisibleUntil
        BY <1>6, <1>9, <4>3, <4>4, <4>5, <4>6
      <4>8. ASSUME n \in FifoNames PROVE FirstOfGroup(new[n], p)
        <5> SUFFICES ASSUME NEW e \in LivePositions(new[n]), e < p, m.group # NoValue
                     PROVE  new[n].messages[e].group # m.group
          BY <3>2 DEF FirstOfGroup, m
        <5>1. m.group = qs[n].messages[p].group
          BY <4>3 DEF Same
        <5>2. \A d \in LivePositions(qs[n]) : d < p => qs[n].messages[d].group # m.group
          BY <4>1, <4>8, <5>1 DEF HeadOfGroup, IsFifo
        <5>3. ASSUME e \in LivePositions(qs[n])
              PROVE  Same(Leased(qs[n].messages[e], visibility), qs[n].messages[e])
          <6>1. qs[n].messages[e] \in Message /\ NoValue \in Optional(QueueNames)
            BY <1>2, <1>17, <5>3 DEF Optional
          <6> QED
            BY <1>6, <1>9, <6>1, EditedFields
        <5>4. ASSUME NEW b \in dead, e = qs[n].pushed + b PROVE FALSE
          <6>1. qs[n].pushed \in Nat /\ LivePositions(qs[n]) \subseteq 1..qs[n].pushed
            BY <1>7, <1>11 DEF Sound, AreQueues, IsQueue, LivePositions
          <6> QED
            BY <1>10, <4>1, <5>4, <6>1
        <5>5. /\ e \in LivePositions(qs[n])
              /\ new[n].messages[e].group = qs[n].messages[e].group
          BY <1>10, <1>11, <1>14, <5>3, <5>4 DEF ScanOf, Same
        <5> QED
          BY <5>2, <5>5
      <4>9. InPlace(new, n, p)
        BY <1>2, <3>2, <4>2, <4>3 DEF InPlace, m
      <4> QED
        BY <3>2, <4>7, <4>8, <4>9 DEF Handed, m
    <3>3. ASSUME NEW b \in dead, p = qs[k].pushed + b,
                 new[k].messages[p] = Relocated(qs[n].messages[b], n)
          PROVE  Arrived(new, k, p)
      <4> DEFINE m == Relocated(qs[n].messages[b], n)
      <4>1. b \in LivePositions(qs[n]) /\ b \notin out
        BY <1>10, <3>3
      <4>2. /\ b \in LivePositions(queues[n]) /\ qs[n].messages[b] = queues[n].messages[b]
            /\ qs[n].messages[b] \in Message /\ qs[n].messages[b].id \notin taken
        BY <1>2, <1>17, <4>1
      <4>3. Same(m, qs[n].messages[b]) /\ m.invisibleUntil = 0
        <5>1. n \in Optional(QueueNames) /\ 0 \in Nat
          BY <1>2 DEF Optional
        <5> QED
          BY <1>6, <4>2, <5>1, EditedFields
      <4>4. m.id = qs[n].messages[b].id /\ m.id \in MsgIds /\ m.id \notin taken
        BY <4>2, <4>3 DEF Same, Message
      <4>5. lease'[m.id] <= now
        <5>1. lease'[m.id] = lease[m.id]
          BY <1>4, <4>4
        <5> QED
          BY <1>18, <4>4, <5>1
      <4>6. p \in Nat /\ p > queues[k].pushed
        <5>1. qs[k].pushed \in Nat /\ qs[k].pushed = queues[k].pushed
          BY <1>7, <1>11 DEF Sound, AreQueues, IsQueue, CleanedFrom
        <5>2. b \in Nat /\ b >= 1
          BY <1>7, <1>11, <4>1 DEF Sound, AreQueues, IsQueue, LivePositions
        <5> QED
          BY <3>3, <5>1, <5>2
      <4>7. \E j \in DOMAIN queues : \E a \in LivePositions(queues[j]) : Same(m, queues[j].messages[a])
        BY <1>2, <4>2, <4>3
      <4> HIDE DEF m
      <4>8. new[k].messages[p] = m
        BY <3>3 DEF m
      <4> QED
        BY <4>3, <4>5, <4>6, <4>7, <4>8 DEF Arrived
    <3> QED
      BY <1>11, <1>14, <3>1, <3>2, <3>3 DEF ScanOf
  <2>2. Survival(new)
    BY <1>7, <1>11, <1>14 DEF Survival, CleanedFrom, ScanOf
  <2>3. Retained(new)
    <3>1. \A k \in DOMAIN queues : new[k].attributes = queues[k].attributes
      BY <1>7, <1>11, <1>14 DEF CleanedFrom, ScanOf
    <3> QED
      BY <1>13, <3>1 DEF Retained
  <2>4. QueueDescent(new)
    <3>1. \A k \in DOMAIN queues : /\ new[k].createdAt = qs[k].createdAt
                                   /\ new[k].sequence = qs[k].sequence
                                   /\ new[k].dedup = qs[k].dedup
      BY <1>11, <1>14 DEF ScanOf
    <3> QED
      BY <1>7, <1>13, <3>1 DEF QueueDescent, CleanedFrom, Remembers
  <2>5. \A id \in MsgIds : lease'[id] = lease[id] \/ id \in AllLiveIds(queues)
    <3>1. \A id \in taken : id \in AllLiveIds(queues)
      <4> SUFFICES ASSUME NEW id \in taken PROVE id \in AllLiveIds(queues)
        OBVIOUS
      <4>1. PICK p \in out : qs[n].messages[p].id = id
        BY <1>12
      <4>2. p \in LivePositions(qs[n])
        BY <1>10
      <4>3. p \in LivePositions(queues[n]) /\ queues[n].messages[p].id = id
        BY <1>2, <1>17, <4>1, <4>2
      <4> QED
        BY <1>2, <4>3 DEF AllLiveIds, LiveIds
    <3> QED
      BY <1>4, <3>1
  <2>6. Promises /\ Acceptances(new)
    BY <1>5, <1>6, <2>5 DEF Promises, Acceptances
  <2>7. Effect(new, moveTasks)
    BY <1>5, <1>13, <1>16, <1>19, <2>1, <2>2, <2>3, <2>4, <2>6 DEF Effect
  <2> QED
    BY <2>7 DEF HandlerStep
<1>20. CASE ~Effective(outcome)
  <2>1. lease' = lease
    BY <1>4, <1>20 DEF Effective
  <2> QED
    BY <1>5, <1>6, <1>16, <1>20, <2>1 DEF HandlerStep, NoEffect
<1> QED
  BY <1>19, <1>20

LEMMA MoveTaskEffect ==
  ASSUME LedgerInv, Retained(queues),
         NEW source \in QueueNames, NEW destination \in Optional(QueueNames),
         StartMessageMoveTask(source, destination)
  PROVE  HandlerStep
<1> DEFINE ids     == AcceptedIds \ removed
           target  == MoveTargets(source, destination)
           moving  == Movable(target)
           new     == MovedQueues(source, target)
           touched == {source} \cup {target[p] : p \in moving}
           task    == [source |-> source, destination |-> destination,
                       moved |-> Cardinality(moving)]
           carried == {queues[source].messages[p].id : p \in moving}
           undo    == [n \in DOMAIN new |-> IF n \in touched THEN queues[n] ELSE new[n]]
           old     == queues[source].messages
           messages == [p \in DOMAIN old |-> IF p \in moving THEN Tombstone(old[p]) ELSE old[p]]
           copies  == [p \in moving |-> Relocated(old[p], NoValue)]
           left    == [queues EXCEPT ![source].messages = messages]
<1>1. Held(ids) /\ Records
  BY Parts
<1>2. source \in DOMAIN queues /\ UNCHANGED <<now, issued, creates, accepted, removed>>
  BY DEF StartMessageMoveTask, stampVars
<1>3. PICK outcome \in Outcomes :
        /\ Persist(outcome, new, Append(moveTasks, task), undo, moveTasks)
        /\ lease' = IF Effective(outcome)
                    THEN [id \in MsgIds |-> IF id \in carried THEN 0 ELSE lease[id]]
                    ELSE lease
  BY DEF StartMessageMoveTask
<1>4. /\ now \in Nat /\ minted \in [MsgIds -> Nat] /\ lease \in [MsgIds -> Nat] /\ creates \in Nat
      /\ Sound(queues, ids) /\ AreQueues(queues)
  BY <1>1 DEF Held, Records, Sound
<1>5. /\ AreQueues(new) /\ DOMAIN new = DOMAIN queues
      /\ \A k \in DOMAIN queues :
           k = source \/ (\E p \in moving : k = target[p]) \/ new[k] = queues[k]
  BY <1>2, <1>4, MovedStore DEF Sound
<1>6. /\ moving \subseteq LivePositions(queues[source]) /\ moving \subseteq DOMAIN target
      /\ \A p \in moving : target[p] \in DOMAIN queues
      /\ \A k \in DOMAIN queues : Bound(target, k) \subseteq moving
  BY DEF Movable, MoveTargets, Bound
<1>7. IsQueue(queues[source]) /\ old \in [DOMAIN old -> Message]
  BY <1>2, <1>4 DEF AreQueues, IsQueue
<1>8. LivePositions(queues[source]) = {p \in DOMAIN old : ~old[p].deleted}
  BY DEF LivePositions
<1>9. \A p \in DOMAIN old : /\ Tombstone(old[p]) \in Message
                            /\ Tombstone(old[p]).deleted
                            /\ Relocated(old[p], NoValue) \in Message
                            /\ Same(Relocated(old[p], NoValue), old[p])
                            /\ Relocated(old[p], NoValue).invisibleUntil = 0
                            /\ Relocated(old[p], NoValue).deleted = old[p].deleted
  <2>1. NoValue \in Optional(QueueNames) /\ 0 \in Nat
    BY DEF Optional
  <2> QED
    BY <1>4, <1>7, <2>1, EditedMessage, EditedFields
<1>10. left = WithMessages(queues, source, messages)
  BY DEF WithMessages
<1>11. new = [k \in DOMAIN queues |->
                IF Bound(target, k) = {} THEN left[k]
                ELSE PushAll(left[k], [p \in Bound(target, k) |-> Relocated(old[p], NoValue)],
                             queues[source].pushed)]
  BY DEF MovedQueues
<1>12. \A id : id \in carried <=> \E p \in moving : old[p].id = id
  OBVIOUS
<1> HIDE DEF target, moving, new
<1>13. /\ messages \in [DOMAIN queues[source].messages -> Message]
       /\ \A p \in DOMAIN old : messages[p] = IF p \in moving THEN Tombstone(old[p]) ELSE old[p]
       /\ copies \in [moving -> Message]
       /\ \A p \in moving : copies[p] = Relocated(old[p], NoValue)
  BY <1>6, <1>7, <1>8, <1>9
<1>14. DOMAIN left = DOMAIN queues
  BY <1>4 DEF AreQueues
<1>15. DealtOut(new, left, moving, copies, target, queues[source].pushed)
  <2> SUFFICES ASSUME NEW k \in DOMAIN queues
               PROVE  LET bound == Bound(target, k) \cap moving IN
                      IF bound = {} THEN new[k] = left[k]
                      ELSE new[k] = PushAll(left[k], [p \in bound |-> copies[p]], queues[source].pushed)
    BY <1>14 DEF DealtOut
  <2>1. Bound(target, k) \cap moving = Bound(target, k)
    BY <1>6
  <2>2. [p \in Bound(target, k) |-> copies[p]]
          = [p \in Bound(target, k) |-> Relocated(old[p], NoValue)]
    BY <1>6, <1>13
  <2> HIDE DEF copies, left
  <2> QED
    BY <1>11, <2>1, <2>2
<1>16. undo = queues
  <2>1. queues = [k \in DOMAIN queues |-> queues[k]]
    BY <1>4 DEF AreQueues
  <2> QED
    BY <1>5, <2>1
<1> HIDE DEF messages, left, copies, undo, carried, task
<1>17. Relocation(new, queues, source, messages, moving, copies, target)
  BY <1>2, <1>4, <1>6, <1>10, <1>13, <1>15, Relocating
<1>18. IF Effective(outcome) THEN Writes(new, Append(moveTasks, task))
                             ELSE UNCHANGED <<queues, moveTasks, disk, up>>
  BY <1>3, <1>16, PersistEnds
<1>19. CASE Effective(outcome)
  <2>1. ASSUME NEW k \in DOMAIN queues, NEW p \in LivePositions(queues[k])
        PROVE  /\ queues[k].messages[p].id \in MsgIds
               /\ queues[k].messages[p].id \in carried => k = source /\ p \in moving
    <3>1. queues[k].messages[p].id \in MsgIds
      BY <1>4 DEF AreQueues, IsQueue, LivePositions, Message
    <3>2. ASSUME queues[k].messages[p].id \in carried PROVE k = source /\ p \in moving
      <4>1. PICK e \in moving : old[e].id = queues[k].messages[p].id
        BY <1>12, <3>2
      <4> QED
        BY <1>2, <1>4, <1>6, <4>1 DEF Sound, SingleCopy
    <3> QED
      BY <3>1, <3>2
  <2>2. Descent(new)
    <3> SUFFICES ASSUME NEW k \in DOMAIN queues, NEW p \in LivePositions(new[k])
                 PROVE  KeptMessage(new, k, p) \/ Arrived(new, k, p)
      BY <1>5 DEF Descent
    <3>1. ASSUME /\ p \in LivePositions(queues[k])
                 /\ ~(k = source /\ p \in moving)
                 /\ new[k].messages[p] = queues[k].messages[p]
          PROVE  KeptMessage(new, k, p)
      <4>1. lease'[queues[k].messages[p].id] = lease[queues[k].messages[p].id]
        BY <1>3, <1>19, <2>1, <3>1
      <4> QED
        BY <3>1, <4>1 DEF KeptMessage, InPlace, Same
    <3>2. CASE k # source /\ p \in DOMAIN queues[k].messages /\ new[k].messages[p] = queues[k].messages[p]
      BY <3>1, <3>2 DEF LivePositions
    <3>3. CASE k = source /\ p \in DOMAIN queues[k].messages /\ new[k].messages[p] = messages[p]
      <4>1. ~messages[p].deleted
        BY <3>3 DEF LivePositions
      <4>2. p \notin moving /\ messages[p] = old[p]
        BY <1>9, <1>13, <3>3, <4>1
      <4>3. p \in LivePositions(queues[k])
        BY <1>8, <3>3, <4>1, <4>2
      <4> QED
        BY <3>1, <3>3, <4>2, <4>3
    <3>4. ASSUME NEW b \in moving, p = queues[k].pushed + b, new[k].messages[p] = copies[b]
          PROVE  Arrived(new, k, p)
      <4>1. b \in LivePositions(queues[source]) /\ b \in DOMAIN old
        BY <1>6, <1>8
      <4>2. Same(copies[b], old[b]) /\ copies[b].invisibleUntil = 0
        BY <1>9, <1>13, <4>1
      <4>3. copies[b].id = old[b].id /\ copies[b].id \in carried
        BY <1>12, <4>2 DEF Same
      <4>4. lease'[copies[b].id] = 0
        <5>1. copies[b].id \in MsgIds
          BY <1>2, <2>1, <4>1, <4>3
        <5> QED
          BY <1>3, <1>19, <4>3, <5>1
      <4>5. p \in Nat /\ p > queues[k].pushed
        <5>1. queues[k].pushed \in Nat
          BY <1>4 DEF AreQueues, IsQueue
        <5>2. b \in Nat /\ b >= 1
          BY <1>7, <4>1 DEF IsQueue
        <5> QED
          BY <3>4, <5>1, <5>2
      <4>6. \E j \in DOMAIN queues : \E a \in LivePositions(queues[j]) :
              Same(new[k].messages[p], queues[j].messages[a])
        BY <1>2, <3>4, <4>1, <4>2
      <4>7. new[k].messages[p].invisibleUntil = 0 /\ lease'[new[k].messages[p].id] <= now
        BY <1>4, <3>4, <4>2, <4>4
      <4> QED
        BY <4>5, <4>6, <4>7 DEF Arrived
    <3> QED
      BY <1>17, <3>2, <3>3, <3>4 DEF Relocation
  <2>3. Survival(new)
    <3> SUFFICES ASSUME NEW k \in DOMAIN queues, NEW p \in LivePositions(queues[k])
                 PROVE  queues[k].messages[p].id \in AllLiveIds(new)
      BY DEF Survival
    <3>1. CASE k # source
      <4>1. queues[k].messages[p].id \in LiveIds(new[k])
        BY <1>17, <3>1 DEF Relocation, LivePositions
      <4> QED
        BY <1>5, <4>1 DEF AllLiveIds
    <3>2. CASE k = source /\ p \notin moving
      <4>1. ~messages[p].deleted /\ messages[p].id = old[p].id /\ p \in DOMAIN queues[source].messages
        BY <1>8, <1>13, <3>2
      <4>2. messages[p].id \in LiveIds(new[source])
        BY <1>2, <1>17, <4>1 DEF Relocation
      <4> QED
        BY <1>2, <1>5, <3>2, <4>1, <4>2 DEF AllLiveIds
    <3>3. CASE k = source /\ p \in moving
      <4>1. ~copies[p].deleted /\ copies[p].id = old[p].id
        BY <1>8, <1>9, <1>13, <3>3 DEF Same
      <4>2. copies[p].id \in LiveIds(new[target[p]])
        BY <1>6, <1>17, <3>3, <4>1 DEF Relocation
      <4> QED
        BY <1>5, <1>6, <3>3, <4>1, <4>2 DEF AllLiveIds
    <3> QED
      BY <3>1, <3>2, <3>3
  <2>4. \A k \in DOMAIN queues : /\ new[k].createdAt = queues[k].createdAt
                                 /\ new[k].sequence = queues[k].sequence
                                 /\ new[k].dedup = queues[k].dedup
                                 /\ new[k].attributes = queues[k].attributes
    BY <1>17 DEF Relocation
  <2>5. Retained(new) /\ QueueDescent(new)
    <3>1. \A k \in DOMAIN queues : queues[k].sequence \in Nat
      BY <1>4 DEF AreQueues, IsQueue
    <3> QED
      BY <1>5, <2>4, <3>1 DEF Retained, QueueDescent, Remembers
  <2>6. \A id \in MsgIds : lease'[id] = lease[id] \/ id \in AllLiveIds(queues)
    <3>1. \A id \in carried : id \in AllLiveIds(queues)
      BY <1>2, <1>6, <1>12 DEF AllLiveIds, LiveIds
    <3> QED
      BY <1>3, <1>19, <3>1
  <2>7. Promises /\ Acceptances(new)
    BY <1>2, <1>4, <2>6 DEF Promises, Acceptances
  <2>8. Effect(new, Append(moveTasks, task))
    BY <1>2, <1>5, <1>18, <1>19, <2>2, <2>3, <2>5, <2>7 DEF Effect
  <2> QED
    BY <2>8 DEF HandlerStep
<1>20. CASE ~Effective(outcome)
  BY <1>2, <1>3, <1>4, <1>18, <1>20 DEF HandlerStep, NoEffect
<1> QED
  BY <1>19, <1>20

-----------------------------------------------------------------------------
(***************************************************************************)
(* Every step of the specification.                                        *)
(***************************************************************************)

CleanupStep(n) ==
  /\ queues' = CleanedAt(n)
  /\ UNCHANGED <<now, up, moveTasks, disk, issued, creates, accepted, removed, lease>>

ServerStep == HandlerStep \/ \E n \in DOMAIN queues : CleanupStep(n)

LEMMA AttemptEffect ==
  ASSUME LedgerInv, Retained(queues), Honoured(queues, now, lease),
         NEW c \in Consumers, NEW call \in PendingCall, NEW left \in Nat,
         call.queue \in DOMAIN queues, Attempt(c, call, left)
  PROVE  ServerStep
<1>1. CASE /\ queues' = CleanedAt(call.queue)
           /\ UNCHANGED <<now, up, moveTasks, disk, stampVars, historyVars>>
  BY <1>1 DEF ServerStep, CleanupStep, stampVars, historyVars
<1>2. CASE \E outcome \in Outcomes : TakeMessages(c, call, left, outcome)
  BY <1>2, TakeMessagesEffect DEF ServerStep
<1> QED
  BY <1>1, <1>2 DEF Attempt

LEMMA ReceiveEffect ==
  ASSUME LedgerInv, Retained(queues), Honoured(queues, now, lease),
         NEW c \in Consumers, NEW n \in QueueNames, NEW max \in BatchInputs,
         NEW visibility \in Optional(VisibilityInputs), NEW attempts \in AttemptInputs,
         ReceiveMessage(c, n, max, visibility, attempts)
  PROVE  ServerStep
<1> DEFINE call == [queue |-> n, pin |-> queues[n].createdAt, left |-> attempts - 1,
                    max |-> max, visibility |-> visibility]
<1>1. n \in DOMAIN queues /\ Attempt(c, call, attempts - 1)
  BY DEF ReceiveMessage
<1>2. attempts - 1 \in Nat
  BY ConstantsAssumption
<1>3. queues[n].createdAt \in Nat
  BY <1>1 DEF LedgerInv, TypeOK, AreQueues, IsQueue
<1>4. call \in PendingCall /\ call.queue = n
  BY <1>2, <1>3 DEF PendingCall
<1> HIDE DEF call
<1> QED
  BY <1>1, <1>2, <1>4, AttemptEffect

LEMMA PollAgainEffect ==
  ASSUME LedgerInv, Retained(queues), Honoured(queues, now, lease),
         NEW c \in Consumers, PollAgain(c)
  PROVE  ServerStep
<1>1. polls[c] \in Call
  BY DEF LedgerInv, TypeOK, PollAgain, Optional
<1>2. CASE StillPinned(polls[c]) /\ Attempt(c, polls[c], polls[c].left - 1)
  <2>1. polls[c] \in PendingCall /\ polls[c].left - 1 \in Nat
    BY <1>1 DEF PendingCall, Call
  <2> QED
    BY <1>2, <2>1, AttemptEffect DEF StillPinned
<1>3. CASE UNCHANGED <<now, serverVars, stampVars, historyVars>>
  <2>1. creates \in Nat
    BY DEF LedgerInv, TypeOK
  <2> QED
    BY <1>3, <2>1 DEF ServerStep, HandlerStep, NoEffect, serverVars, stampVars, historyVars
<1> QED
  BY <1>2, <1>3 DEF PollAgain

LEMMA SendEffect ==
  ASSUME LedgerInv, Retained(queues), Unleased, NEW request \in SendRequests, SendMessage(request)
  PROVE  ServerStep
<1> DEFINE n == request.queue
           queue == Cleaned(queues[n])
<1>1. n \in DOMAIN queues
  BY DEF SendMessage
<1>2. CASE /\ queues' = CleanedAt(n)
           /\ UNCHANGED <<now, up, moveTasks, disk, polls, stampVars, historyVars>>
  BY <1>1, <1>2 DEF ServerStep, CleanupStep, stampVars, historyVars
<1>3. CASE /\ ~Refused(n, queue, request) /\ ~Duplicate(n, queue, request)
           /\ \E id \in MsgIds \ issued, outcome \in Outcomes : StoreMessage(request, id, outcome)
  BY <1>1, <1>3, StoreMessageEffect DEF ServerStep
<1> QED
  BY <1>2, <1>3 DEF SendMessage

LEMMA StepEffect ==
  ASSUME LedgerInv, Retained(queues), Honoured(queues, now, lease), Unleased, [Next]_vars
  PROVE  ServerStep \/ Tick \/ Crash \/ Restart
<1>1. ASSUME NEW n \in QueueNames, ManageQueue(n) PROVE ServerStep
  <2>1. HandlerStep
    BY <1>1, CreateEffect, DeleteQueueEffect, PurgeQueueEffect, ConfigureEffect DEF ManageQueue
  <2> QED
    BY <2>1 DEF ServerStep
<1>2. ASSUME NEW n \in QueueNames, UseMessages(n) PROVE ServerStep
  <2>1. CASE \E c \in Consumers, max \in BatchInputs,
                visibility \in Optional(VisibilityInputs), attempts \in AttemptInputs :
               ReceiveMessage(c, n, max, visibility, attempts)
    BY <1>2, <2>1, ReceiveEffect
  <2>2. CASE \E batch \in SUBSET Handles \ {{}} : DeleteMessages(n, batch)
    BY <1>2, <2>2, DeleteMessagesEffect DEF ServerStep
  <2>3. CASE \E batch \in SUBSET Handles \ {{}} :
               \E timeouts \in [batch -> VisibilityInputs] : ChangeVisibility(n, timeouts)
    <3>1. PICK batch \in SUBSET Handles \ {{}} :
               \E timeouts \in [batch -> VisibilityInputs] : ChangeVisibility(n, timeouts)
      BY <2>3
    <3>2. batch \in SUBSET Handles
      OBVIOUS
    <3> QED
      BY <1>2, <3>1, <3>2, ChangeVisibilityEffect DEF ServerStep
  <2>4. CASE \E destination \in Optional(QueueNames) : StartMessageMoveTask(n, destination)
    BY <1>2, <2>4, MoveTaskEffect DEF ServerStep
  <2> QED
    BY <1>2, <2>1, <2>2, <2>3, <2>4 DEF UseMessages
<1>3. ASSUME NEW request \in SendRequests, SendMessage(request) PROVE ServerStep
  BY <1>3, SendEffect
<1>4. ASSUME NEW c \in Consumers, PollAgain(c) PROVE ServerStep
  BY <1>4, PollAgainEffect
<1>5. CASE UNCHANGED vars
  <2>1. creates \in Nat
    BY DEF LedgerInv, TypeOK
  <2> QED
    BY <1>5, <2>1 DEF ServerStep, HandlerStep, NoEffect, vars, serverVars, stampVars, historyVars
<1> QED
  BY <1>1, <1>2, <1>3, <1>4, <1>5 DEF Next

-----------------------------------------------------------------------------
(***************************************************************************)
(* The inductive invariant.  Every part is about a store, and holds of the *)
(* one in memory and of the one a restart would load.                      *)
(***************************************************************************)

\* FifoGroupExclusive of a store.
Exclusive(qs, time) ==
  \A n \in DOMAIN qs \cap FifoNames : \A e, p \in LivePositions(qs[n]) :
    LET messages == qs[n].messages IN
    e < p /\ messages[e].group = messages[p].group /\ messages[p].group # NoValue
      => ~(time < messages[p].invisibleUntil)

\* A live message has the age of its acceptance, however often it was moved.
Dated(qs, sends) ==
  \A i \in DOMAIN sends : \A n \in DOMAIN qs : \A p \in LivePositions(qs[n]) :
    qs[n].messages[p].id = sends[i].id => qs[n].messages[p].sentAt = sends[i].at

\* created_at identifies a queue, and the next stamp is above all of them.
Stamped(qs, stamps) ==
  /\ \A n \in DOMAIN qs : qs[n].createdAt <= stamps
  /\ \A n1, n2 \in DOMAIN qs : qs[n1].createdAt = qs[n2].createdAt => n1 = n2

\* A FIFO queue has counted all it accepted, and still has the keys of what it
\* accepted within the window.
Remembered(qs, time, sends) ==
  \A i \in DOMAIN sends : \A n \in DOMAIN qs :
    LET a == sends[i]
        queue == qs[n]
    IN a.createdAt = queue.createdAt /\ a.key # NoValue
         => /\ a.sequence <= queue.sequence
            /\ time < a.at + DedupWindow =>
                 /\ a.key \in DOMAIN queue.dedup
                 /\ a.at + DedupWindow <= queue.dedup[a.key].expiresAt

StoreInv(qs, time, promised, sends, stamps) ==
  /\ Retained(qs)
  /\ Honoured(qs, time, promised)
  /\ Exclusive(qs, time)
  /\ Dated(qs, sends)
  /\ Stamped(qs, stamps)
  /\ Remembered(qs, time, sends)

DeliveryInv ==
  /\ StoreInv(queues, now, lease, accepted, creates)
  /\ StoreInv(Load(disk), now, lease, accepted, creates)
  /\ Unleased
  /\ \A i \in DOMAIN accepted : accepted[i].createdAt <= creates
  /\ NothingLost
  /\ AcceptanceKept

LEMMA EmptyStore ==
  ASSUME NEW time, NEW promised, NEW sends, NEW stamps
  PROVE  StoreInv(NoFields, time, promised, sends, stamps)
<1>1. DOMAIN NoFields = {}
  BY DEF NoFields
<1> HIDE DEF NoFields
<1> QED
  BY <1>1 DEF StoreInv, Retained, Honoured, Exclusive, Dated, Stamped, Remembered

\* The numbers in a store and in the history.
LEMMA StoreNumbers ==
  ASSUME NEW qs, AreQueues(qs)
  PROVE  /\ \A n \in DOMAIN qs :
              /\ qs[n].createdAt \in Nat /\ qs[n].sequence \in Nat /\ qs[n].pushed \in Nat
              /\ \A k \in DOMAIN qs[n].dedup : qs[n].dedup[k].expiresAt \in Nat
         /\ \A n \in DOMAIN qs : \A p \in LivePositions(qs[n]) :
              /\ p \in Nat /\ p <= qs[n].pushed
              /\ qs[n].messages[p].id \in MsgIds
              /\ qs[n].messages[p].sentAt \in Nat
              /\ qs[n].messages[p].invisibleUntil \in Nat
<1> SUFFICES ASSUME NEW n \in DOMAIN qs
             PROVE  /\ qs[n].createdAt \in Nat /\ qs[n].sequence \in Nat /\ qs[n].pushed \in Nat
                    /\ \A k \in DOMAIN qs[n].dedup : qs[n].dedup[k].expiresAt \in Nat
                    /\ \A p \in LivePositions(qs[n]) :
                         /\ p \in Nat /\ p <= qs[n].pushed
                         /\ qs[n].messages[p].id \in MsgIds
                         /\ qs[n].messages[p].sentAt \in Nat
                         /\ qs[n].messages[p].invisibleUntil \in Nat
  OBVIOUS
<1> DEFINE queue == qs[n]
<1>1. IsQueue(queue)
  BY DEF AreQueues
<1> HIDE DEF queue
<1>2. queue.createdAt \in Nat /\ queue.sequence \in Nat /\ queue.pushed \in Nat
  BY <1>1 DEF IsQueue
<1>3. \A k \in DOMAIN queue.dedup : queue.dedup[k].expiresAt \in Nat
  BY <1>1 DEF IsQueue
<1>4. \A p \in LivePositions(queue) :
        p \in Nat /\ p <= queue.pushed /\ queue.messages[p] \in Message
  BY <1>1 DEF IsQueue, LivePositions
<1>5. \A m \in Message : m.id \in MsgIds /\ m.sentAt \in Nat /\ m.invisibleUntil \in Nat
  BY DEF Message
<1> QED
  BY <1>2, <1>3, <1>4, <1>5 DEF queue

LEMMA HistoryNumbers ==
  ASSUME LedgerInv
  PROVE  /\ now \in Nat /\ creates \in Nat /\ lease \in [MsgIds -> Nat] /\ DedupWindow \in Nat
         /\ accepted \in Seq(Acceptance) /\ ShortestRetention \in Nat
         /\ \A i \in DOMAIN accepted :
              /\ accepted[i].id \in issued /\ accepted[i].id \in MsgIds
              /\ accepted[i].createdAt \in Nat
              /\ accepted[i].at \in Nat /\ accepted[i].sequence \in Nat
         /\ \A n \in DOMAIN queues : \A p \in LivePositions(queues[n]) :
              queues[n].messages[p].id \in issued
<1>1. /\ now \in Nat /\ creates \in Nat /\ lease \in [MsgIds -> Nat] /\ DedupWindow \in Nat
      /\ accepted \in Seq(Acceptance) /\ ShortestRetention \in Nat
  BY ConstantsAssumption, RetentionNumbers DEF LedgerInv, TypeOK
<1>2. \A i \in DOMAIN accepted : accepted[i] \in Acceptance
  BY <1>1
<1>3. \A i \in DOMAIN accepted : accepted[i].id \in issued
  BY DEF LedgerInv, AcceptedIds
<1>4. \A a \in Acceptance : a.id \in MsgIds /\ a.createdAt \in Nat /\ a.at \in Nat /\ a.sequence \in Nat
  BY DEF Acceptance
<1>5. AllLiveIds(queues) \subseteq issued
  BY DEF LedgerInv, Sound
<1>6. \A n \in DOMAIN queues : \A p \in LivePositions(queues[n]) :
        queues[n].messages[p].id \in issued
  BY <1>5 DEF AllLiveIds, LiveIds
<1> QED
  BY <1>1, <1>2, <1>3, <1>4, <1>6

-----------------------------------------------------------------------------
(***************************************************************************)
(* What a handler leaves.                                                  *)
(***************************************************************************)

\* A message is as invisible as before, or as its new consumer was promised.
LEMMA EffectHonours ==
  ASSUME LedgerInv, Honoured(queues, now, lease), NEW new, AreQueues(new), Descent(new),
         lease' \in [MsgIds -> Nat]
  PROVE  Honoured(new, now, lease')
<1> SUFFICES ASSUME NEW n \in DOMAIN new, NEW p \in LivePositions(new[n]),
                    now < lease'[new[n].messages[p].id]
             PROVE  lease'[new[n].messages[p].id] <= new[n].messages[p].invisibleUntil
  BY DEF Honoured
<1>1. CASE KeptMessage(new, n, p)
  BY <1>1 DEF KeptMessage, InPlace, Same, Honoured
<1>2. CASE Handed(new, n, p)
  BY <1>2 DEF Handed
<1>3. CASE Arrived(new, n, p)
  <2>1. now \in Nat /\ lease'[new[n].messages[p].id] \in Nat
    BY HistoryNumbers, StoreNumbers
  <2> QED
    BY <1>3, <2>1 DEF Arrived
<1> QED
  BY <1>1, <1>2, <1>3 DEF Descent

\* What is in flight was, or was the first of its group; what came is at the end.
LEMMA EffectExcludes ==
  ASSUME LedgerInv, Exclusive(queues, now), NEW new, AreQueues(new), Descent(new)
  PROVE  Exclusive(new, now)
<1> SUFFICES ASSUME NEW n \in DOMAIN new \cap FifoNames,
                    NEW e \in LivePositions(new[n]), NEW p \in LivePositions(new[n]),
                    e < p, new[n].messages[e].group = new[n].messages[p].group,
                    new[n].messages[p].group # NoValue,
                    now < new[n].messages[p].invisibleUntil
             PROVE  FALSE
  BY DEF Exclusive
<1>1. now \in Nat /\ AreQueues(queues)
  BY HistoryNumbers DEF LedgerInv, Sound
<1>2. e \in Nat /\ p \in Nat
  BY StoreNumbers
<1>3. ASSUME InPlace(new, n, p) PROVE InPlace(new, n, e)
  <2>1. p \in Nat /\ p <= queues[n].pushed /\ queues[n].pushed \in Nat
    BY <1>1, <1>3, StoreNumbers DEF InPlace
  <2>2. ~Arrived(new, n, e)
    BY <1>2, <2>1 DEF Arrived
  <2> QED
    BY <2>2 DEF Descent, KeptMessage, Handed
<1>4. ASSUME InPlace(new, n, p), now < queues[n].messages[p].invisibleUntil PROVE FALSE
  BY <1>3, <1>4 DEF InPlace, Same, Exclusive
<1>5. CASE KeptMessage(new, n, p)
  BY <1>4, <1>5 DEF KeptMessage
<1>6. CASE Handed(new, n, p)
  <2>1. ~FirstOfGroup(new[n], p)
    BY DEF FirstOfGroup
  <2> QED
    BY <1>4, <1>6, <2>1 DEF Handed, InFlight
<1>7. CASE Arrived(new, n, p)
  BY <1>1, <1>7 DEF Arrived
<1> QED
  BY <1>5, <1>6, <1>7 DEF Descent

\* A live message came from an old one of the same age, or is new.
LEMMA Ancestry ==
  ASSUME NEW new, Descent(new), NEW n \in DOMAIN new, NEW p \in LivePositions(new[n])
  PROVE  \/ \E k \in DOMAIN queues : \E b \in LivePositions(queues[k]) :
              Same(new[n].messages[p], queues[k].messages[b])
         \/ new[n].messages[p].id \notin issued /\ new[n].messages[p].sentAt = now
  BY DEF Descent, KeptMessage, Handed, Arrived, InPlace

\* The history after a handler: as it was, or with one entry more.
LEMMA Appending ==
  ASSUME accepted \in Seq(Acceptance), NEW entry \in Acceptance, accepted' = Append(accepted, entry)
  PROVE  /\ DOMAIN accepted' = DOMAIN accepted \cup {Len(accepted) + 1}
         /\ accepted'[Len(accepted) + 1] = entry
         /\ \A i \in DOMAIN accepted : accepted'[i] = accepted[i] /\ i # Len(accepted) + 1
         /\ \A i \in DOMAIN accepted : i \in Nat /\ i < Len(accepted) + 1
  OBVIOUS

LEMMA EffectDates ==
  ASSUME LedgerInv, Dated(queues, accepted), NEW new, Descent(new), Acceptances(new)
  PROVE  Dated(new, accepted')
<1> SUFFICES ASSUME NEW i \in DOMAIN accepted', NEW n \in DOMAIN new, NEW p \in LivePositions(new[n]),
                    new[n].messages[p].id = accepted'[i].id
             PROVE  new[n].messages[p].sentAt = accepted'[i].at
  BY DEF Dated
<1>1. ASSUME i \in DOMAIN accepted, accepted'[i] = accepted[i]
      PROVE  new[n].messages[p].sentAt = accepted'[i].at
  <2>1. new[n].messages[p].id \in issued
    BY <1>1, HistoryNumbers
  <2> QED
    BY <1>1, <2>1, Ancestry DEF Same, Dated
<1>2. ASSUME NEW k \in DOMAIN queues, NEW entry \in Acceptance,
             accepted' = Append(accepted, entry), Entry(entry, new, k)
      PROVE  new[n].messages[p].sentAt = accepted'[i].at
  <2>1. CASE i \in DOMAIN accepted
    BY <1>1, <1>2, <2>1, HistoryNumbers, Appending
  <2>2. CASE i \notin DOMAIN accepted
    <3>1. accepted'[i] = entry /\ entry.id \notin issued /\ entry.at = now
      BY <1>2, <2>2, HistoryNumbers, Appending DEF Entry
    <3>2. \A j \in DOMAIN queues : \A b \in LivePositions(queues[j]) :
            queues[j].messages[b].id # entry.id
      BY <3>1, HistoryNumbers
    <3> QED
      BY <3>1, <3>2, Ancestry DEF Same
  <2> QED
    BY <2>1, <2>2
<1> QED
  BY <1>1, <1>2 DEF Acceptances

LEMMA EffectStamps ==
  ASSUME Stamped(queues, creates), AreQueues(queues), creates \in Nat, creates' \in Nat,
         creates <= creates', NEW new, QueueDescent(new)
  PROVE  Stamped(new, creates')
<1>1. \A n \in DOMAIN queues : queues[n].createdAt \in Nat
  BY StoreNumbers
<1>2. \A n \in DOMAIN new : /\ new[n].createdAt \in Nat
                            /\ new[n].createdAt <= creates'
  BY <1>1 DEF QueueDescent, Remembers, Stamped
<1>3. ASSUME NEW n1 \in DOMAIN new, NEW n2 \in DOMAIN new,
             new[n1].createdAt = new[n2].createdAt
      PROVE  n1 = n2
  <2>1. CASE n1 \in DOMAIN queues /\ n2 \in DOMAIN queues
    BY <1>3, <2>1 DEF QueueDescent, Remembers, Stamped
  <2>2. CASE n1 \notin DOMAIN queues /\ n2 \notin DOMAIN queues
    BY <2>2 DEF QueueDescent
  <2>3. ASSUME NEW k \in DOMAIN new, NEW l \in DOMAIN new, k \in DOMAIN queues, l \notin DOMAIN queues
        PROVE  new[k].createdAt < new[l].createdAt
    BY <1>1, <2>3 DEF QueueDescent, Remembers, Stamped
  <2>4. CASE n1 \in DOMAIN queues /\ n2 \notin DOMAIN queues
    BY <1>2, <1>3, <2>3, <2>4
  <2>5. CASE n1 \notin DOMAIN queues /\ n2 \in DOMAIN queues
    BY <1>2, <1>3, <2>3, <2>5
  <2> QED
    BY <2>1, <2>2, <2>4, <2>5
<1> QED
  BY <1>2, <1>3 DEF Stamped

\* Remembered, for one acceptance and one queue.
RemembersSend(queue, time, a) ==
  a.createdAt = queue.createdAt /\ a.key # NoValue
    => /\ a.sequence <= queue.sequence
       /\ time < a.at + DedupWindow =>
            /\ a.key \in DOMAIN queue.dedup
            /\ a.at + DedupWindow <= queue.dedup[a.key].expiresAt

\* A queue that goes on counting and keeps what is not due forgets no acceptance.
LEMMA StillRemembered ==
  ASSUME NEW a, a.sequence \in Nat, a.at \in Nat, NEW queue, NEW old, now \in Nat,
         DedupWindow \in Nat, queue.sequence \in Nat, old.sequence \in Nat,
         \A k \in DOMAIN old.dedup : old.dedup[k].expiresAt \in Nat,
         RemembersSend(old, now, a), Remembers(queue, old)
  PROVE  RemembersSend(queue, now, a)
<1> SUFFICES ASSUME a.createdAt = queue.createdAt, a.key # NoValue
             PROVE  /\ a.sequence <= queue.sequence
                    /\ now < a.at + DedupWindow =>
                         /\ a.key \in DOMAIN queue.dedup
                         /\ a.at + DedupWindow <= queue.dedup[a.key].expiresAt
  BY DEF RemembersSend
<1>1. a.createdAt = old.createdAt
  BY DEF Remembers
<1>2. a.sequence <= queue.sequence
  BY <1>1 DEF Remembers, RemembersSend
<1>3. ASSUME now < a.at + DedupWindow
      PROVE  /\ a.key \in DOMAIN queue.dedup
             /\ a.at + DedupWindow <= queue.dedup[a.key].expiresAt
  <2>1. a.key \in DOMAIN old.dedup /\ a.at + DedupWindow <= old.dedup[a.key].expiresAt
    BY <1>1, <1>3 DEF RemembersSend
  <2>2. now < old.dedup[a.key].expiresAt
    BY <1>3, <2>1
  <2> QED
    BY <2>1, <2>2 DEF Remembers
<1> QED
  BY <1>2, <1>3

LEMMA EffectRemembers ==
  ASSUME LedgerInv, Remembered(queues, now, accepted), Stamped(queues, creates),
         \A i \in DOMAIN accepted : accepted[i].createdAt <= creates,
         NEW new, AreQueues(new), QueueDescent(new), Acceptances(new), Stamped(new, creates'),
         creates' \in Nat, creates <= creates'
  PROVE  Remembered(new, now, accepted')
<1> SUFFICES ASSUME NEW i \in DOMAIN accepted', NEW n \in DOMAIN new
             PROVE  RemembersSend(new[n], now, accepted'[i])
  BY DEF Remembered, RemembersSend
<1>1. AreQueues(queues)
  BY DEF LedgerInv, Sound
<1>2. ASSUME i \in DOMAIN accepted, accepted'[i] = accepted[i]
      PROVE  RemembersSend(new[n], now, accepted'[i])
  <2> DEFINE a == accepted[i]
  <2>1. /\ a.sequence \in Nat /\ a.at \in Nat /\ a.createdAt \in Nat /\ now \in Nat
        /\ DedupWindow \in Nat /\ creates \in Nat /\ a.createdAt <= creates
    BY <1>2, HistoryNumbers
  <2>2. CASE n \in DOMAIN queues /\ Remembers(new[n], queues[n])
    <3>1. RemembersSend(queues[n], now, a)
      BY <1>2, <2>2 DEF Remembered, RemembersSend
    <3>2. /\ new[n].sequence \in Nat /\ queues[n].sequence \in Nat
          /\ \A k \in DOMAIN queues[n].dedup : queues[n].dedup[k].expiresAt \in Nat
      BY <1>1, <2>2, StoreNumbers
    <3> HIDE DEF a
    <3>3. RemembersSend(new[n], now, a)
      BY <2>1, <2>2, <3>1, <3>2, StillRemembered
    <3> QED
      BY <1>2, <3>3 DEF a
  <2>3. CASE creates < creates' /\ new[n].createdAt = creates'
    <3>1. a.createdAt # new[n].createdAt
      BY <2>1, <2>3
    <3> QED
      BY <1>2, <3>1 DEF RemembersSend
  <2> QED
    BY <2>2, <2>3 DEF QueueDescent
<1>3. ASSUME NEW k \in DOMAIN queues \cap DOMAIN new, NEW entry \in Acceptance,
             accepted' = Append(accepted, entry), Entry(entry, new, k)
      PROVE  RemembersSend(new[n], now, accepted'[i])
  <2>1. CASE i \in DOMAIN accepted
    BY <1>2, <1>3, <2>1, HistoryNumbers, Appending
  <2>2. CASE i \notin DOMAIN accepted
    <3>1. accepted'[i] = entry
      BY <1>3, <2>2, HistoryNumbers, Appending
    <3>2. new[k].createdAt = entry.createdAt
      BY <1>3 DEF Entry, QueueDescent, Remembers
    <3>3. entry.createdAt = new[n].createdAt => n = k
      BY <3>2 DEF Stamped
    <3>4. new[k].sequence \in Nat /\ now + DedupWindow \in Nat
      BY StoreNumbers, HistoryNumbers
    <3> QED
      BY <1>3, <3>1, <3>3, <3>4 DEF Entry, RemembersSend
  <2> QED
    BY <2>1, <2>2
<1> QED
  BY <1>2, <1>3 DEF Acceptances

\* A message is accepted when nothing within the window has its key, and is
\* counted after all the others.
LEMMA EffectAccepts ==
  ASSUME LedgerInv, Remembered(queues, now, accepted), AcceptanceKept,
         NEW new, AreQueues(new), Acceptances(new)
  PROVE  AcceptanceKept'
<1>1. CASE accepted' = accepted
  BY <1>1 DEF AcceptanceKept, DeduplicationWindow, SequenceGrows
<1>2. ASSUME NEW n \in DOMAIN queues \cap DOMAIN new, NEW entry \in Acceptance,
             accepted' = Append(accepted, entry), Entry(entry, new, n)
      PROVE  AcceptanceKept'
  <2> DEFINE last == Len(accepted) + 1
  <2>1. /\ DOMAIN accepted' = DOMAIN accepted \cup {last} /\ accepted'[last] = entry
        /\ \A i \in DOMAIN accepted :
             accepted'[i] = accepted[i] /\ i \in Nat /\ i < last
    BY <1>2, HistoryNumbers, Appending
  <2>2. last \in Nat
    BY HistoryNumbers
  <2> HIDE DEF last
  <2>3. AreQueues(queues) /\ now \in Nat /\ DedupWindow \in Nat
    BY HistoryNumbers DEF LedgerInv, Sound
  <2>4. ASSUME NEW i \in DOMAIN accepted, accepted[i].createdAt = entry.createdAt,
               accepted[i].key # NoValue, entry.key # NoValue
        PROVE  /\ accepted[i].sequence < entry.sequence
               /\ accepted[i].key = entry.key => entry.at - accepted[i].at >= DedupWindow
    <3> DEFINE a == accepted[i]
               queue == queues[n]
    <3>1. /\ a.sequence \in Nat /\ a.at \in Nat /\ queue.sequence \in Nat
          /\ \A k \in DOMAIN queue.dedup : queue.dedup[k].expiresAt \in Nat
          /\ new[n].sequence \in Nat
      BY <2>3, HistoryNumbers, StoreNumbers
    <3>2. RemembersSend(queue, now, a)
      BY DEF Remembered, RemembersSend
    <3>3. /\ a.createdAt = queue.createdAt /\ a.key # NoValue
          /\ entry.at = now /\ entry.sequence = new[n].sequence
          /\ queue.sequence < new[n].sequence
          /\ ~(entry.key \in DOMAIN queue.dedup /\ now < queue.dedup[entry.key].expiresAt)
      BY <1>2, <2>4 DEF Entry
    <3> HIDE DEF a, queue
    <3>4. a.sequence < entry.sequence
      BY <3>1, <3>2, <3>3 DEF RemembersSend
    <3>5. a.key = entry.key => entry.at - a.at >= DedupWindow
      BY <2>3, <3>1, <3>2, <3>3 DEF RemembersSend
    <3> QED
      BY <3>4, <3>5 DEF a
  <2>5. DeduplicationWindow'
    <3> SUFFICES ASSUME NEW i \in DOMAIN accepted', NEW j \in DOMAIN accepted', i < j,
                        accepted'[i].createdAt = accepted'[j].createdAt,
                        accepted'[i].key = accepted'[j].key, accepted'[i].key # NoValue
                 PROVE  accepted'[j].at - accepted'[i].at >= DedupWindow
      BY DEF DeduplicationWindow
    <3>1. i \in DOMAIN accepted
      BY <2>1, <2>2
    <3>2. CASE j \in DOMAIN accepted
      BY <2>1, <3>1, <3>2 DEF AcceptanceKept, DeduplicationWindow
    <3>3. CASE j = last
      BY <2>1, <2>4, <3>1, <3>3
    <3> QED
      BY <2>1, <3>2, <3>3
  <2>6. SequenceGrows'
    <3> SUFFICES ASSUME NEW i \in DOMAIN accepted', NEW j \in DOMAIN accepted', i < j,
                        accepted'[i].createdAt = accepted'[j].createdAt,
                        accepted'[i].key # NoValue, accepted'[j].key # NoValue
                 PROVE  accepted'[i].sequence < accepted'[j].sequence
      BY DEF SequenceGrows
    <3>1. i \in DOMAIN accepted
      BY <2>1, <2>2
    <3>2. CASE j \in DOMAIN accepted
      BY <2>1, <3>1, <3>2 DEF AcceptanceKept, SequenceGrows
    <3>3. CASE j = last
      BY <2>1, <2>4, <3>1, <3>3
    <3> QED
      BY <2>1, <3>2, <3>3
  <2> QED
    BY <2>5, <2>6 DEF AcceptanceKept
<1> QED
  BY <1>1, <1>2 DEF Acceptances

\* What NothingLost says of one acceptance and one store.
LEMMA EffectLoses ==
  ASSUME LedgerInv, Dated(queues, accepted), NothingLost, up,
         NEW new, Survival(new), Acceptances(new), removed \subseteq removed'
  PROVE  \A i \in DOMAIN accepted' :
           \/ accepted'[i].id \in removed'
           \/ now - accepted'[i].at > ShortestRetention
           \/ accepted'[i].id \in AllLiveIds(new)
<1> SUFFICES ASSUME NEW i \in DOMAIN accepted'
             PROVE  \/ accepted'[i].id \in removed'
                    \/ now - accepted'[i].at > ShortestRetention
                    \/ accepted'[i].id \in AllLiveIds(new)
  OBVIOUS
<1>1. ASSUME i \in DOMAIN accepted, accepted'[i] = accepted[i],
             accepted[i].id \notin removed', ~(now - accepted[i].at > ShortestRetention)
      PROVE  accepted[i].id \in AllLiveIds(new)
  <2>1. accepted[i].id \in AllLiveIds(queues)
    BY <1>1, Zenon DEF NothingLost
  <2>2. PICK n \in DOMAIN queues : \E p \in LivePositions(queues[n]) :
          queues[n].messages[p].id = accepted[i].id
    BY <2>1 DEF AllLiveIds, LiveIds
  <2>3. PICK p \in LivePositions(queues[n]) : queues[n].messages[p].id = accepted[i].id
    BY <2>2
  <2>4. queues[n].messages[p].sentAt = accepted[i].at
    BY <1>1, <2>3 DEF Dated
  <2> QED
    BY <1>1, <2>3, <2>4 DEF Survival
<1>2. ASSUME NEW k \in DOMAIN queues \cap DOMAIN new, NEW entry \in Acceptance,
             accepted' = Append(accepted, entry), Entry(entry, new, k),
             i \notin DOMAIN accepted
      PROVE  accepted'[i].id \in AllLiveIds(new)
  <2>1. accepted'[i] = entry
    BY <1>2, HistoryNumbers, Appending
  <2> QED
    BY <1>2, <2>1 DEF Entry
<1>3. i \in DOMAIN accepted => accepted'[i] = accepted[i]
  <2>1. ASSUME NEW entry \in Acceptance, accepted' = Append(accepted, entry), i \in DOMAIN accepted
        PROVE  accepted'[i] = accepted[i]
    BY <2>1, HistoryNumbers, Appending
  <2> QED
    BY <2>1 DEF Acceptances
<1> QED
  BY <1>1, <1>2, <1>3 DEF Acceptances

LEMMA EffectKeeps ==
  ASSUME LedgerInv, LedgerInv', DeliveryInv, up, NEW new, NEW tasks, Effect(new, tasks)
  PROVE  DeliveryInv'
<1> USE DEF StoreInv
<1>1. /\ AreQueues(queues) /\ AreQueues(new) /\ creates \in Nat /\ creates' \in Nat
      /\ lease' \in [MsgIds -> Nat]
  BY DEF LedgerInv, TypeOK, Effect
<1>2. /\ Descent(new) /\ Survival(new) /\ Retained(new) /\ QueueDescent(new) /\ Acceptances(new)
      /\ issued \subseteq issued' /\ removed \subseteq removed' /\ creates <= creates'
      /\ \A id \in MsgIds : lease'[id] = lease[id] \/ id \in AllLiveIds(queues)
      /\ now' = now
  BY DEF Effect, Promises
<1>3. /\ Honoured(queues, now, lease) /\ Exclusive(queues, now) /\ Dated(queues, accepted)
      /\ Stamped(queues, creates) /\ Remembered(queues, now, accepted)
      /\ \A i \in DOMAIN accepted : accepted[i].createdAt <= creates
      /\ NothingLost /\ AcceptanceKept /\ Unleased
  BY DEF DeliveryInv
<1>4. Stamped(new, creates')
  BY <1>1, <1>2, <1>3, EffectStamps
<1>5. StoreInv(new, now', lease', accepted', creates')
  BY <1>1, <1>2, <1>3, <1>4, EffectHonours, EffectExcludes, EffectDates, EffectRemembers
<1>6. /\ Load(disk') = new
      /\ queues' = new \/ (queues' = NoFields /\ up' = FALSE)
  <2>1. disk' = Saved(new, tasks)
    BY Zenon DEF Effect, Writes
  <2>2. queues' = new \/ (queues' = NoFields /\ up' = FALSE)
    BY Zenon DEF Effect, Writes
  <2>3. Load(Saved(new, tasks)) = new
    BY <1>1, RoundTrip
  <2> QED
    BY <2>1, <2>2, <2>3, Zenon
<1>7. StoreInv(queues', now', lease', accepted', creates')
  <2> HIDE DEF StoreInv
  <2> QED
    BY <1>5, <1>6, EmptyStore
<1>8. Unleased'
  <2> SUFFICES ASSUME NEW id \in MsgIds \ issued' PROVE lease'[id] = 0
    BY DEF Unleased
  <2>1. id \notin AllLiveIds(queues)
    BY <1>2 DEF LedgerInv, Sound
  <2> QED
    BY <1>2, <1>3, <2>1 DEF Unleased
<1>9. \A i \in DOMAIN accepted' : accepted'[i].createdAt <= creates'
  <2> SUFFICES ASSUME NEW i \in DOMAIN accepted' PROVE accepted'[i].createdAt <= creates'
    OBVIOUS
  <2>1. ASSUME i \in DOMAIN accepted, accepted'[i] = accepted[i]
        PROVE  accepted'[i].createdAt <= creates'
    BY <1>1, <1>2, <1>3, <2>1, HistoryNumbers
  <2>2. ASSUME NEW k \in DOMAIN queues \cap DOMAIN new, NEW entry \in Acceptance,
               accepted' = Append(accepted, entry), Entry(entry, new, k)
        PROVE  accepted'[i].createdAt <= creates'
    <3>1. entry.createdAt <= creates'
      BY <1>1, <1>2, <1>3, <2>2, StoreNumbers DEF Entry, Stamped
    <3> QED
      BY <2>1, <2>2, <3>1, HistoryNumbers, Appending
  <2> QED
    BY <1>2, <2>1, <2>2 DEF Acceptances
<1>10. AcceptanceKept'
  BY <1>1, <1>2, <1>3, EffectAccepts
<1>11. NothingLost'
  <2>1. \A i \in DOMAIN accepted' :
           \/ accepted'[i].id \in removed'
           \/ now' - accepted'[i].at > ShortestRetention
           \/ accepted'[i].id \in AllLiveIds(new)
    BY <1>2, <1>3, EffectLoses
  <2>2. up' => queues' = new
    BY <1>6
  <2>3. AllLiveIds(Load(disk'))  = AllLiveIds(new)
    BY <1>6
  <2> QED
    BY <2>1, <2>2, <2>3, Zenon DEF NothingLost
<1> QED
  BY <1>5, <1>6, <1>7, <1>8, <1>9, <1>10, <1>11 DEF DeliveryInv, Load

\* A retention cleanup drops messages and entries whose time has come.
LEMMA CleanupDelivers ==
  ASSUME LedgerInv, LedgerInv', DeliveryInv, NEW n \in DOMAIN queues, CleanupStep(n)
  PROVE  DeliveryInv'
<1> DEFINE qs == CleanedAt(n)
<1>1. /\ queues' = qs /\ now' = now /\ up' = up /\ disk' = disk /\ issued' = issued
      /\ creates' = creates /\ accepted' = accepted /\ removed' = removed /\ lease' = lease
  BY DEF CleanupStep
<1>2. /\ Retained(queues) /\ Honoured(queues, now, lease) /\ Exclusive(queues, now)
      /\ Dated(queues, accepted) /\ Stamped(queues, creates) /\ Remembered(queues, now, accepted)
  BY DEF DeliveryInv, StoreInv
<1>3. AreQueues(queues) /\ AreQueues(qs) /\ CleanedFrom(qs)
  <2>1. Sound(queues, AcceptedIds \ removed) /\ now \in Nat
    BY DEF LedgerInv, TypeOK
  <2>2. Sound(qs, AcceptedIds \ removed) /\ CleanedFrom(qs)
    BY <1>2, <2>1, CleanedStore
  <2> QED
    BY <2>1, <2>2 DEF Sound
<1> HIDE DEF qs
<1>4. /\ Retained(qs) /\ Honoured(qs, now, lease) /\ Exclusive(qs, now) /\ Dated(qs, accepted)
      /\ Stamped(qs, creates)
  <2>1. Retained(qs)
    BY <1>2, <1>3 DEF CleanedFrom, Retained
  <2>2. Honoured(qs, now, lease)
    BY <1>2, <1>3 DEF CleanedFrom, Honoured
  <2>3. Exclusive(qs, now)
    BY <1>2, <1>3 DEF CleanedFrom, Exclusive
  <2>4. Dated(qs, accepted)
    BY <1>2, <1>3 DEF CleanedFrom, Dated
  <2>5. Stamped(qs, creates)
    BY <1>2, <1>3 DEF CleanedFrom, Remembers, Stamped
  <2> QED
    BY <2>1, <2>2, <2>3, <2>4, <2>5
<1>5. Remembered(qs, now, accepted)
  <2> SUFFICES ASSUME NEW i \in DOMAIN accepted, NEW k \in DOMAIN qs
               PROVE  RemembersSend(qs[k], now, accepted[i])
    BY DEF Remembered, RemembersSend
  <2>1. RemembersSend(queues[k], now, accepted[i]) /\ Remembers(qs[k], queues[k])
    BY <1>2, <1>3 DEF Remembered, RemembersSend, CleanedFrom
  <2>2. /\ qs[k].sequence \in Nat /\ queues[k].sequence \in Nat
        /\ \A key \in DOMAIN queues[k].dedup : queues[k].dedup[key].expiresAt \in Nat
    BY <1>3, StoreNumbers DEF CleanedFrom
  <2>3. /\ accepted[i].sequence \in Nat /\ accepted[i].at \in Nat /\ now \in Nat
        /\ DedupWindow \in Nat
    BY HistoryNumbers
  <2> QED
    BY <2>1, <2>2, <2>3, StillRemembered
<1>6. StoreInv(queues', now', lease', accepted', creates')
  BY <1>1, <1>4, <1>5 DEF StoreInv
<1>7. StoreInv(Load(disk'), now', lease', accepted', creates')
  BY <1>1 DEF DeliveryInv
<1>8. ASSUME NEW i \in DOMAIN accepted, accepted[i].id \in AllLiveIds(queues)
      PROVE  accepted[i].id \in AllLiveIds(qs) \/ now - accepted[i].at > ShortestRetention
  <2>1. PICK k \in DOMAIN queues : \E p \in LivePositions(queues[k]) :
          queues[k].messages[p].id = accepted[i].id
    BY <1>8 DEF AllLiveIds, LiveIds
  <2>2. PICK p \in LivePositions(queues[k]) : queues[k].messages[p].id = accepted[i].id
    BY <2>1
  <2>3. queues[k].messages[p].sentAt = accepted[i].at
    BY <1>2, <2>2 DEF Dated
  <2>4. CASE p \in LivePositions(qs[k])
    BY <1>3, <2>2, <2>4 DEF CleanedFrom, AllLiveIds, LiveIds
  <2> QED
    BY <1>3, <2>2, <2>3, <2>4 DEF CleanedFrom
<1>9. NothingLost'
  <2>1. NothingLost
    BY DEF DeliveryInv
  <2> SUFFICES ASSUME NEW i \in DOMAIN accepted
               PROVE  \/ accepted[i].id \in removed
                      \/ now - accepted[i].at > ShortestRetention
                      \/ /\ up => accepted[i].id \in AllLiveIds(qs)
                         /\ accepted[i].id \in AllLiveIds(Load(disk))
    BY <1>1, Zenon DEF NothingLost
  <2> QED
    BY <1>8, <2>1, Zenon DEF NothingLost
<1>10. Unleased' /\ AcceptanceKept' /\ \A i \in DOMAIN accepted' : accepted'[i].createdAt <= creates'
  BY <1>1 DEF DeliveryInv, Unleased, AcceptanceKept, DeduplicationWindow, SequenceGrows
<1> QED
  BY <1>6, <1>7, <1>9, <1>10 DEF DeliveryInv

\* Leases, windows and retention periods only run out.
LEMMA LaterStore ==
  ASSUME LedgerInv, NEW qs, AreQueues(qs), StoreInv(qs, now, lease, accepted, creates),
         NEW stamps \in Nat, creates <= stamps, NEW time \in {now, now + 1}
  PROVE  StoreInv(qs, time, lease, accepted, stamps)
<1> USE DEF StoreInv
<1>1. now \in Nat /\ creates \in Nat /\ lease \in [MsgIds -> Nat] /\ DedupWindow \in Nat
  BY HistoryNumbers
<1>2. time \in Nat /\ now <= time
  BY <1>1
<1>3. Honoured(qs, time, lease)
  <2>1. ASSUME NEW n \in DOMAIN qs, NEW p \in LivePositions(qs[n])
        PROVE  lease[qs[n].messages[p].id] \in Nat
    BY <1>1, StoreNumbers
  <2> QED
    BY <1>1, <1>2, <2>1 DEF Honoured
<1>4. Exclusive(qs, time)
  <2>1. \A n \in DOMAIN qs : \A p \in LivePositions(qs[n]) : qs[n].messages[p].invisibleUntil \in Nat
    BY StoreNumbers
  <2> QED
    BY <1>1, <1>2, <2>1 DEF Exclusive
<1>5. Stamped(qs, stamps)
  <2>1. \A n \in DOMAIN qs : qs[n].createdAt \in Nat
    BY StoreNumbers
  <2> QED
    BY <1>1, <2>1 DEF Stamped
<1>6. Remembered(qs, time, accepted)
  <2>1. \A i \in DOMAIN accepted : accepted[i].at \in Nat
    BY HistoryNumbers
  <2>2. \A i \in DOMAIN accepted : time < accepted[i].at + DedupWindow => now < accepted[i].at + DedupWindow
    BY <1>1, <1>2, <2>1
  <2> QED
    BY <2>2 DEF Remembered
<1> QED
  BY <1>3, <1>4, <1>5, <1>6

LEMMA NoEffectDelivers ==
  ASSUME LedgerInv, LedgerInv', DeliveryInv, NoEffect
  PROVE  DeliveryInv'
<1>1. /\ queues' = queues /\ now' = now /\ up' = up /\ disk' = disk /\ issued \subseteq issued'
      /\ creates <= creates' /\ accepted' = accepted /\ removed' = removed /\ lease' = lease
  BY DEF NoEffect
<1>2. AreQueues(queues) /\ AreQueues(Load(disk)) /\ creates \in Nat /\ creates' \in Nat
  BY DEF LedgerInv, TypeOK
<1>3. /\ StoreInv(queues, now, lease, accepted, creates')
      /\ StoreInv(Load(disk), now, lease, accepted, creates')
  BY <1>1, <1>2, LaterStore DEF DeliveryInv
<1>4. NothingLost'
  BY <1>1, Zenon DEF DeliveryInv, NothingLost
<1>5. Unleased' /\ AcceptanceKept'
  BY <1>1 DEF DeliveryInv, Unleased, AcceptanceKept, DeduplicationWindow, SequenceGrows
<1>6. \A i \in DOMAIN accepted : accepted[i].createdAt <= creates'
  BY <1>1, <1>2, HistoryNumbers DEF DeliveryInv
<1> QED
  BY <1>1, <1>3, <1>4, <1>5, <1>6 DEF DeliveryInv

LEMMA TickDelivers ==
  ASSUME LedgerInv, DeliveryInv, Tick
  PROVE  DeliveryInv'
<1>1. /\ queues' = queues /\ now' = now + 1 /\ up' = up /\ disk' = disk /\ issued' = issued
      /\ creates' = creates /\ accepted' = accepted /\ removed' = removed /\ lease' = lease
  BY DEF Tick, serverVars, stampVars, historyVars
<1>2. AreQueues(queues) /\ AreQueues(Load(disk)) /\ creates \in Nat /\ now \in Nat
  BY DEF LedgerInv, TypeOK
<1>3. /\ StoreInv(queues, now + 1, lease, accepted, creates)
      /\ StoreInv(Load(disk), now + 1, lease, accepted, creates)
  BY <1>2, LaterStore DEF DeliveryInv
<1>4. NothingLost'
  <2>1. \A i \in DOMAIN accepted : now - accepted[i].at > ShortestRetention
                                     => now' - accepted[i].at > ShortestRetention
    BY <1>1, <1>2, HistoryNumbers
  <2>2. NothingLost
    BY DEF DeliveryInv
  <2>3. /\ queues' = queues /\ up' = up /\ disk' = disk /\ accepted' = accepted
        /\ removed' = removed
    BY <1>1
  <2> QED
    BY <2>1, <2>2, <2>3, Zenon DEF NothingLost
<1>5. /\ Unleased' /\ AcceptanceKept'
      /\ \A i \in DOMAIN accepted' : accepted'[i].createdAt <= creates'
  BY <1>1 DEF DeliveryInv, Unleased, AcceptanceKept, DeduplicationWindow, SequenceGrows
<1> QED
  BY <1>1, <1>3, <1>4, <1>5 DEF DeliveryInv

\* Memory is lost, or read back from state.json.
LEMMA ProcessDelivers ==
  ASSUME LedgerInv, DeliveryInv, Crash \/ Restart
  PROVE  DeliveryInv'
<1>1. /\ now' = now /\ disk' = disk /\ issued' = issued
      /\ creates' = creates /\ accepted' = accepted /\ removed' = removed /\ lease' = lease
  BY DEF Crash, Restart, stampVars, historyVars
<1>2. (queues' = NoFields /\ up' = FALSE) \/ queues' = Load(disk)
  BY Zenon DEF Crash, Restart
<1>3. /\ StoreInv(queues', now', lease', accepted', creates')
      /\ StoreInv(Load(disk'), now', lease', accepted', creates')
  BY <1>1, <1>2, EmptyStore DEF DeliveryInv
<1>4. NothingLost'
  BY <1>1, <1>2, Zenon DEF DeliveryInv, NothingLost
<1>5. /\ Unleased' /\ AcceptanceKept'
      /\ \A i \in DOMAIN accepted' : accepted'[i].createdAt <= creates'
  BY <1>1 DEF DeliveryInv, Unleased, AcceptanceKept, DeduplicationWindow, SequenceGrows
<1> QED
  BY <1>3, <1>4, <1>5 DEF DeliveryInv

-----------------------------------------------------------------------------
(***************************************************************************)
(* The theorems.                                                           *)
(***************************************************************************)

\* Handlers run in a running server.
LEMMA OnlyWhenUp ==
  ASSUME [Next]_vars
  PROVE  up \/ Tick \/ Restart \/ UNCHANGED vars
<1>1. ASSUME NEW n \in QueueNames, ManageQueue(n) PROVE up
  BY <1>1, Zenon DEF ManageQueue, CreateQueue, DeleteQueue, PurgeQueue, UpdateQueueAttributes,
                     TagQueue, UntagQueue, AddPermission, RemovePermission
<1>2. ASSUME NEW n \in QueueNames, UseMessages(n) PROVE up
  BY <1>2, Zenon DEF UseMessages, ReceiveMessage, DeleteMessages, ChangeVisibility,
                     StartMessageMoveTask
<1>3. ASSUME NEW request \in SendRequests, SendMessage(request) PROVE up
  BY <1>3, Zenon DEF SendMessage
<1>4. ASSUME NEW c \in Consumers, PollAgain(c) PROVE up
  BY <1>4, Zenon DEF PollAgain
<1>5. Crash => up
  BY Zenon DEF Crash
<1> QED
  BY <1>1, <1>2, <1>3, <1>4, <1>5, Zenon DEF Next

\* The invariant of both stores is inductive: what handlers save, failed saves put
\* back, kills leave behind and restarts load keeps leases, groups, ages, stamps
\* and deduplication entries together.
THEOREM DeliverySafe == Spec => []DeliveryInv
<1>1. Init => DeliveryInv
  <2> SUFFICES ASSUME Init PROVE DeliveryInv
    OBVIOUS
  <2>1. queues = NoFields /\ Load(disk) = NoFields
    <3>1. AreQueues(NoFields)
      BY NoStore DEF Sound
    <3> QED
      BY <3>1, RoundTrip DEF Init
  <2>2. DOMAIN accepted = {}
    BY DEF Init
  <2>3. /\ StoreInv(queues, now, lease, accepted, creates)
        /\ StoreInv(Load(disk), now, lease, accepted, creates)
    BY <2>1, EmptyStore
  <2>4. Unleased
    BY DEF Init, Unleased
  <2> QED
    BY <2>2, <2>3, <2>4
       DEF DeliveryInv, NothingLost, AcceptanceKept, DeduplicationWindow, SequenceGrows
<1>2. LedgerInv /\ LedgerInv' /\ DeliveryInv /\ [Next]_vars => DeliveryInv'
  <2> SUFFICES ASSUME LedgerInv, LedgerInv', DeliveryInv, [Next]_vars PROVE DeliveryInv'
    OBVIOUS
  <2>1. Retained(queues) /\ Honoured(queues, now, lease) /\ Unleased
    BY DEF DeliveryInv, StoreInv
  <2>2. CASE UNCHANGED vars
    <3>1. NoEffect
      BY <2>2, HistoryNumbers DEF NoEffect, vars, serverVars, stampVars, historyVars
    <3> QED
      BY <3>1, NoEffectDelivers
  <2>3. CASE Tick
    BY <2>3, TickDelivers
  <2>4. CASE Crash \/ Restart
    BY <2>4, ProcessDelivers
  <2>5. CASE up /\ ServerStep
    BY <2>5, EffectKeeps, NoEffectDelivers, CleanupDelivers DEF ServerStep, HandlerStep
  <2> QED
    BY <2>1, <2>2, <2>3, <2>4, <2>5, StepEffect, OnlyWhenUp
<1> QED
  BY <1>1, <1>2, LedgerSafe, PTL DEF Spec

\* A message handed to a consumer stays invisible for as long as it was promised,
\* in memory and in state.json.
THEOREM LeasesAreHonoured == Spec => []LeaseHonoured
<1>1. DeliveryInv => LeaseHonoured
  BY DEF DeliveryInv, StoreInv, Honoured, LeaseHonoured
<1> QED
  BY <1>1, DeliverySafe, PTL

\* No message of a FIFO group is in flight behind a live one of its group.
THEOREM GroupsAreExclusive == Spec => []FifoGroupExclusive
<1>1. DeliveryInv => FifoGroupExclusive
  BY DEF DeliveryInv, StoreInv, Exclusive, FifoGroupExclusive, InFlight
<1> QED
  BY <1>1, DeliverySafe, PTL

\* What was accepted can be received, before and after any crash, until it is
\* removed or outlives the shortest retention period.
THEOREM AcceptedIsNotLost == Spec => []NothingLost
<1>1. DeliveryInv => NothingLost
  BY DEF DeliveryInv
<1> QED
  BY <1>1, DeliverySafe, PTL

\* Deduplication windows and sequence numbers survive purges, failed saves, kills
\* and restarts.
THEOREM AcceptancesStand == Spec => []AcceptanceKept
<1>1. DeliveryInv => AcceptanceKept
  BY DEF DeliveryInv
<1> QED
  BY <1>1, DeliverySafe, PTL

-----------------------------------------------------------------------------
(***************************************************************************)
(* Memory and state.json.                                                  *)
(***************************************************************************)

\* cleanup_expired_messages at a given time.
Kept(queue, time) ==
  {p \in LivePositions(queue) : ~(/\ queue.attributes.retention > 0
                                  /\ time - queue.messages[p].sentAt > queue.attributes.retention)}

NotDue(queue, time) == {k \in DOMAIN queue.dedup : time < queue.dedup[k].expiresAt}

Fresh(queue, time) ==
  [queue EXCEPT !.messages = Restrict(@, Kept(queue, time)),
                !.dedup = Restrict(@, NotDue(queue, time))]

LEMMA CleanedIsFresh ==
  ASSUME NEW queue, IsQueue(queue)
  PROVE  Cleaned(queue) = Fresh(queue, now)
  BY DEF Cleaned, Fresh, Kept, NotDue, OutOfRetention, IsQueue, QueueFields

\* What one cleanup drops the next would drop too.
LEMMA FreshAgain ==
  ASSUME NEW queue, IsQueue(queue), NEW time \in Nat, NEW later \in Nat, time <= later
  PROVE  Fresh(Fresh(queue, time), later) = Fresh(queue, later)
<1> DEFINE cleaned == Fresh(queue, time)
<1>1. /\ queue = [f \in QueueFields |-> queue[f]]
      /\ \A p \in DOMAIN queue.messages : queue.messages[p].sentAt \in Nat
      /\ \A k \in DOMAIN queue.dedup : queue.dedup[k].expiresAt \in Nat
  <2>1. \A m \in Message : m.sentAt \in Nat
    BY DEF Message
  <2> QED
    BY <2>1 DEF IsQueue
<1>2. queue.attributes.retention \in Nat
  <2>1. "retention" \in DOMAIN AttributeValues /\ AttributeValues["retention"] = Nat
    BY DEF AttributeValues
  <2> QED
    BY <2>1 DEF IsQueue, AreAttributes
<1>3. /\ cleaned = [f \in QueueFields |-> cleaned[f]]
      /\ cleaned.messages = Restrict(queue.messages, Kept(queue, time))
      /\ cleaned.dedup = Restrict(queue.dedup, NotDue(queue, time))
      /\ \A f \in QueueFields \ {"messages", "dedup"} : cleaned[f] = queue[f]
  BY <1>1 DEF Fresh, QueueFields
<1> HIDE DEF cleaned
<1>4. cleaned.attributes = queue.attributes
  BY <1>3 DEF QueueFields
<1>5. /\ DOMAIN cleaned.messages = Kept(queue, time)
      /\ \A p \in Kept(queue, time) : cleaned.messages[p] = queue.messages[p]
      /\ DOMAIN cleaned.dedup = NotDue(queue, time)
      /\ \A k \in NotDue(queue, time) : cleaned.dedup[k] = queue.dedup[k]
  BY <1>3 DEF Restrict
<1>6. LivePositions(cleaned) = Kept(queue, time)
  BY <1>5 DEF LivePositions, Kept
<1>7. Kept(queue, later) \subseteq Kept(queue, time)
  <2> SUFFICES ASSUME NEW p \in Kept(queue, later) PROVE p \in Kept(queue, time)
    OBVIOUS
  <2>1. p \in LivePositions(queue) /\ queue.messages[p].sentAt \in Nat
    BY <1>1 DEF Kept, LivePositions
  <2> QED
    BY <1>2, <2>1 DEF Kept
<1>8. NotDue(queue, later) \subseteq NotDue(queue, time)
  BY <1>1 DEF NotDue
<1>9. Kept(cleaned, later) = Kept(queue, later)
  <2>1. ASSUME NEW p PROVE p \in Kept(cleaned, later) <=> p \in Kept(queue, later)
    <3>1. CASE p \in Kept(queue, time)
      <4>1. p \in LivePositions(queue) /\ p \in LivePositions(cleaned)
        BY <1>6, <3>1 DEF Kept
      <4> QED
        BY <1>4, <1>5, <3>1, <4>1 DEF Kept
    <3>2. CASE p \notin Kept(queue, time)
      <4>1. p \notin LivePositions(cleaned)
        BY <1>6, <3>2
      <4>2. p \notin Kept(cleaned, later)
        BY <4>1 DEF Kept
      <4> QED
        BY <1>7, <3>2, <4>2
    <3> QED
      BY <3>1, <3>2
  <2> QED
    BY <2>1
<1>10. NotDue(cleaned, later) = NotDue(queue, later)
  <2>1. ASSUME NEW k PROVE k \in NotDue(cleaned, later) <=> k \in NotDue(queue, later)
    <3>1. CASE k \in NotDue(queue, time)
      BY <1>5, <3>1 DEF NotDue
    <3>2. CASE k \notin NotDue(queue, time)
      <4>1. k \notin NotDue(cleaned, later)
        BY <1>5, <3>2 DEF NotDue
      <4> QED
        BY <1>8, <3>2, <4>1
    <3> QED
      BY <3>1, <3>2
  <2> QED
    BY <2>1
<1>11. /\ Restrict(cleaned.messages, Kept(cleaned, later)) = Restrict(queue.messages, Kept(queue, later))
       /\ Restrict(cleaned.dedup, NotDue(cleaned, later)) = Restrict(queue.dedup, NotDue(queue, later))
  BY <1>5, <1>7, <1>8, <1>9, <1>10 DEF Restrict
<1> QED
  BY <1>1, <1>3, <1>11 DEF Fresh, cleaned, QueueFields

\* Two stores that the next cleanup of each queue makes equal.
Agree(qs, others, time) ==
  /\ DOMAIN qs = DOMAIN others
  /\ \A n \in DOMAIN qs : Fresh(qs[n], time) = Fresh(others[n], time)

InStep == up => moveTasks = disk.moveTasks /\ Agree(queues, Load(disk), now)

LEMMA TickInStep ==
  ASSUME LedgerInv, InStep, Tick
  PROVE  InStep'
<1>1. /\ queues' = queues /\ now' = now + 1 /\ up' = up /\ disk' = disk
      /\ moveTasks' = moveTasks
  BY DEF Tick, serverVars
<1>2. AreQueues(queues) /\ AreQueues(Load(disk)) /\ now \in Nat
  BY DEF LedgerInv, TypeOK
<1>3. Agree(queues, Load(disk), now) => Agree(queues, Load(disk), now + 1)
  <2> SUFFICES ASSUME Agree(queues, Load(disk), now), NEW n \in DOMAIN queues
               PROVE  Fresh(queues[n], now + 1) = Fresh(Load(disk)[n], now + 1)
    BY DEF Agree
  <2> DEFINE mine == queues[n]
             other == Load(disk)[n]
  <2>1. IsQueue(mine) /\ IsQueue(other) /\ Fresh(mine, now) = Fresh(other, now)
    BY <1>2 DEF AreQueues, Agree
  <2> HIDE DEF mine, other
  <2>2. now + 1 \in Nat /\ now <= now + 1
    BY <1>2
  <2>3. /\ Fresh(Fresh(mine, now), now + 1) = Fresh(mine, now + 1)
        /\ Fresh(Fresh(other, now), now + 1) = Fresh(other, now + 1)
    BY <1>2, <2>1, <2>2, FreshAgain
  <2> QED
    BY <2>1, <2>3 DEF mine, other
<1> QED
  BY <1>1, <1>3, Zenon DEF InStep

LEMMA CleanupInStep ==
  ASSUME LedgerInv, InStep, NEW n \in DOMAIN queues, CleanupStep(n)
  PROVE  InStep'
<1>1. /\ queues' = CleanedAt(n) /\ now' = now /\ up' = up /\ disk' = disk
      /\ moveTasks' = moveTasks
  BY DEF CleanupStep
<1>2. AreQueues(queues) /\ now \in Nat
  BY DEF LedgerInv, TypeOK
<1>3. /\ DOMAIN CleanedAt(n) = DOMAIN queues /\ CleanedAt(n)[n] = Cleaned(queues[n])
      /\ \A k \in DOMAIN queues \ {n} : CleanedAt(n)[k] = queues[k]
  BY <1>2 DEF CleanedAt, AreQueues
<1>4. Fresh(CleanedAt(n)[n], now) = Fresh(queues[n], now)
  <2>1. IsQueue(queues[n]) /\ now <= now
    BY <1>2 DEF AreQueues
  <2>2. Fresh(Fresh(queues[n], now), now) = Fresh(queues[n], now)
    BY <1>2, <2>1, FreshAgain
  <2> QED
    BY <1>3, <2>1, <2>2, CleanedIsFresh
<1>5. Agree(queues, Load(disk), now) => Agree(CleanedAt(n), Load(disk), now)
  BY <1>3, <1>4 DEF Agree
<1> QED
  BY <1>1, <1>5, Zenon DEF InStep

LEMMA EffectInStep ==
  ASSUME NEW new, NEW tasks, Effect(new, tasks)
  PROVE  InStep'
<1>1. AreQueues(new) /\ disk' = Saved(new, tasks)
  BY Zenon DEF Effect, Writes
<1>2. (queues' = new /\ moveTasks' = tasks) \/ up' = FALSE
  BY Zenon DEF Effect, Writes
<1>3. Load(disk') = new /\ disk'.moveTasks = tasks
  BY <1>1, RoundTrip DEF Saved
<1>4. Agree(new, new, now')
  BY DEF Agree
<1> QED
  BY <1>2, <1>3, <1>4, Zenon DEF InStep

\* A restart shows nothing but what the next cleanup would have shown: after every
\* step, a failed save included, the running server agrees with its file.
THEOREM RestartsAreInvisible == Spec => []RestartInvisible
<1>1. Init => InStep
  <2> SUFFICES ASSUME Init PROVE InStep
    OBVIOUS
  <2>1. AreQueues(NoFields)
    BY NoStore DEF Sound
  <2>2. queues = NoFields /\ Load(disk) = NoFields /\ moveTasks = disk.moveTasks
    BY <2>1, RoundTrip DEF Init, Saved
  <2>3. Agree(queues, Load(disk), now)
    BY <2>2 DEF Agree
  <2> QED
    BY <2>2, <2>3 DEF InStep
<1>2. LedgerInv /\ DeliveryInv /\ InStep /\ [Next]_vars => InStep'
  <2> SUFFICES ASSUME LedgerInv, DeliveryInv, InStep, [Next]_vars PROVE InStep'
    OBVIOUS
  <2>1. Retained(queues) /\ Honoured(queues, now, lease) /\ Unleased
    BY DEF DeliveryInv, StoreInv
  <2>2. CASE NoEffect
    BY <2>2, Zenon DEF NoEffect, InStep
  <2>3. CASE Crash
    <3>1. up' = FALSE
      BY <2>3 DEF Crash
    <3> QED
      BY <3>1 DEF InStep
  <2>4. CASE Restart
    <3>1. queues' = Load(disk') /\ moveTasks' = disk'.moveTasks
      BY <2>4 DEF Restart
    <3>2. Agree(queues', Load(disk'), now')
      BY <3>1 DEF Agree
    <3> QED
      BY <3>1, <3>2, Zenon DEF InStep
  <2> QED
    BY <2>1, <2>2, <2>3, <2>4, StepEffect, TickInStep, CleanupInStep, EffectInStep
       DEF ServerStep, HandlerStep
<1>3. LedgerInv /\ InStep => RestartInvisible
  <2> SUFFICES ASSUME LedgerInv, InStep, up PROVE RestartInvisible
    BY DEF RestartInvisible
  <2>1. AreQueues(queues) /\ AreQueues(Load(disk))
    BY DEF LedgerInv, TypeOK
  <2>2. moveTasks = disk.moveTasks /\ Agree(queues, Load(disk), now)
    BY Zenon DEF InStep
  <2>3. DOMAIN Load(disk) = DOMAIN disk.queues
    BY DEF Load
  <2>4. \A n \in DOMAIN queues : Cleaned(queues[n]) = Cleaned(Load(disk)[n])
    <3> SUFFICES ASSUME NEW n \in DOMAIN queues
                 PROVE  Cleaned(queues[n]) = Cleaned(Load(disk)[n])
      OBVIOUS
    <3>1. IsQueue(queues[n]) /\ IsQueue(Load(disk)[n])
      BY <2>1, <2>2 DEF AreQueues, Agree
    <3> QED
      BY <2>2, <3>1, CleanedIsFresh DEF Agree
  <2> QED
    BY <2>2, <2>3, <2>4, Zenon DEF RestartInvisible, Agree
<1> QED
  BY <1>1, <1>2, <1>3, LedgerSafe, DeliverySafe, PTL DEF Spec

-----------------------------------------------------------------------------
(***************************************************************************)
(* Long polls.                                                             *)
(***************************************************************************)

\* An attempt of consumer c leaves the polls of the others alone, or dies with them.
LEMMA AttemptPolls ==
  ASSUME polls \in [Consumers -> Optional(Call)], NEW c \in Consumers, NEW call, NEW left,
         Attempt(c, call, left), up'
  PROVE  \A k \in Consumers \ {c} : polls'[k] = polls[k]
<1>1. \A value : \A k \in Consumers \ {c} : [polls EXCEPT ![c] = value][k] = polls[k]
  OBVIOUS
<1>2. \/ polls' = Answer(c) \/ polls' = Sleep(c, call, left)
      \/ \E outcome \in Outcomes : TakeMessages(c, call, left, outcome)
  BY Zenon DEF Attempt
<1>3. ASSUME NEW outcome \in Outcomes, TakeMessages(c, call, left, outcome)
      PROVE  polls' = Answer(c) \/ polls' = Sleep(c, call, left)
  <2>1. outcome # "killed"
    <3> SUFFICES ASSUME outcome = "killed" PROVE FALSE
      OBVIOUS
    <3>1. ASSUME NEW new, NEW tasks, NEW undo, NEW undoTasks,
                 Persist("killed", new, tasks, undo, undoTasks)
          PROVE  up' = FALSE
      BY <3>1 DEF Persist
    <3>2. \E new, tasks, undo, undoTasks : Persist("killed", new, tasks, undo, undoTasks)
      BY <1>3, Zenon DEF TakeMessages
    <3> QED
      BY <3>1, <3>2
  <2> QED
    BY <1>3, <2>1 DEF TakeMessages
<1> QED
  BY <1>1, <1>2, <1>3 DEF Answer, Sleep

\* A long poll takes messages only from the queue it started on.
THEOREM PollsStay == Spec => PollStaysOnQueue
<1> DEFINE Pinned(c) == /\ polls[c].queue \in DOMAIN queues
                        /\ queues[polls[c].queue].createdAt = polls[c].pin
           Step == \A c \in Consumers :
                     polls[c] # NoValue /\ polls'[c] # polls[c] /\ minted' # minted /\ up'
                       => Pinned(c)
<1>1. TypeOK /\ [Next]_vars => Step
  <2> SUFFICES ASSUME TypeOK, [Next]_vars, NEW c \in Consumers, polls[c] # NoValue,
                      polls'[c] # polls[c], minted' # minted, up'
               PROVE  Pinned(c)
    OBVIOUS
  <2>1. polls \in [Consumers -> Optional(Call)]
    BY DEF TypeOK
  <2>2. ASSUME NEW n \in QueueNames, ManageQueue(n) PROVE minted' = minted
    BY <2>2 DEF ManageQueue, CreateQueue, DeleteQueue, PurgeQueue, UpdateQueueAttributes, TagQueue,
                UntagQueue, AddPermission, RemovePermission, ReplaceField, stampVars
  <2>3. ASSUME NEW n \in QueueNames, UseMessages(n) PROVE FALSE
    <3>1. ASSUME NEW k \in Consumers, NEW max, NEW visibility, NEW attempts,
                 ReceiveMessage(k, n, max, visibility, attempts)
          PROVE  FALSE
      BY <2>1, <3>1, AttemptPolls DEF ReceiveMessage
    <3>2. \/ \E batch \in SUBSET Handles : DeleteMessages(n, batch)
          \/ \E timeouts : ChangeVisibility(n, timeouts)
          \/ \E destination \in Optional(QueueNames) : StartMessageMoveTask(n, destination)
      BY <2>3, <3>1 DEF UseMessages
    <3> QED
      BY <3>2 DEF DeleteMessages, ChangeVisibility, StartMessageMoveTask, stampVars
  <2>4. ASSUME NEW request \in SendRequests, SendMessage(request) PROVE minted' = minted
    BY <2>4 DEF SendMessage, StoreMessage, stampVars
  <2>5. ASSUME NEW k \in Consumers, PollAgain(k) PROVE Pinned(c)
    <3>1. CASE StillPinned(polls[k]) /\ Attempt(k, polls[k], polls[k].left - 1)
      <4>1. k = c
        BY <2>1, <3>1, AttemptPolls
      <4> QED
        BY <3>1, <4>1 DEF StillPinned
    <3>2. CASE UNCHANGED stampVars
      BY <3>2 DEF stampVars
    <3> QED
      BY <2>5, <3>1, <3>2 DEF PollAgain
  <2>6. CASE Tick \/ Crash \/ Restart \/ UNCHANGED vars
    BY <2>6 DEF Tick, Crash, Restart, vars, stampVars
  <2> QED
    BY <2>2, <2>3, <2>4, <2>5, <2>6 DEF Next
<1>2. TypeOK /\ [Next]_vars => [Step]_vars
  BY <1>1
<1> HIDE DEF Step
<1>3. (Spec => [][Step]_vars) => (Spec => PollStaysOnQueue)
  BY DEF PollStaysOnQueue, Step
<1> QED
  BY <1>2, <1>3, TypeCorrect, PTL DEF Spec

=============================================================================
