------------------------------- MODULE MCSqs -------------------------------
(***************************************************************************)
(* Instances of Sqs for TLC.                                               *)
(***************************************************************************)
EXTENDS Sqs, TLC

CONSTANTS q, d, f, m1, m2, m3, g1, g2, k1, k2, b1, c1, c2, none, l1, t1

MCDefaults ==
  [fifo |-> "unset", contentBased |-> FALSE, delay |-> 0, retention |-> MinRetention,
   visibility |-> 1, redrive |-> none, allow |-> none, policy |-> {}]

Symmetry == Permutations(MsgIds) \cup Permutations(DedupIds) \cup Permutations(Groups)

\* A plain queue, one that dead-letters to d after one delivery, one that only d may
\* dead-letter to.
MCStandardCreates ==
  {NoFields, [redrive |-> [target |-> d, max |-> 1]],
   [allow |-> [permission |-> "byQueue", sources |-> {d}]]}

MCPlainCreates == {NoFields}

\* A FIFO queue that derives missing deduplication ids from bodies.
MCFifoCreates == {[fifo |-> "true", contentBased |-> TRUE]}

\* A policy, which makes d its own dead-letter queue, its removal, and one out of range.
MCRedriveUpdates ==
  {[redrive |-> [target |-> d, max |-> 1]], [redrive |-> none], [visibility |-> MaxVisibility + 1]}

\* A FIFO queue becomes its own dead-letter queue.
MCFifoUpdates == {[redrive |-> [target |-> f, max |-> 1]]}

NoRequests == {}

=============================================================================
