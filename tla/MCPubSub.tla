------------------------------ MODULE MCPubSub ------------------------------
(***************************************************************************)
(* An instance of PubSub for TLC.                                          *)
(***************************************************************************)
EXTENDS PubSub, TLC

CONSTANTS t, d, s1, s2, n1, c1, k, a1, a2, none

One == {<<[key |-> none, attribute |-> a1]>>}

Basic ==
  [topics |-> {t}, subscriptions |-> {s1}, apis |-> {"grpc"}, snapshotApis |-> {}, manages |-> FALSE,
   creates |-> {[topic |-> t]}, updates |-> {}, retentions |-> {none}, batches |-> One, pulls |-> {1},
   deadlines |-> {}, seeks |-> {}, streams |-> {}, retention |-> 5, faults |-> {"failed"},
   maxTime |-> 2, maxMessages |-> 2, maxAcks |-> 2]

\* A subscription that keeps acknowledged messages and filters.
Retaining == [topic |-> t, retainAcked |-> TRUE, filter |-> {a1}]

\* Two subscriptions of a topic, their leases, deadlines and retention, over both protocols.
Delivering ==
  [Basic EXCEPT !.subscriptions = {s1, s2}, !.apis = {"rest", "grpc"}, !.creates = {Retaining},
                !.deadlines = {2}, !.retention = 1, !.maxTime = 3, !.maxMessages = 1]

\* Ordering keys with retry backoff or a dead-letter policy.
Ordering ==
  [Basic EXCEPT !.topics = {t, d}, !.apis = {"rest"}, !.faults = {},
                !.creates = {[topic |-> t, ordering |-> TRUE, backoff |-> [min |-> 1, max |-> none]],
                             [topic |-> t, ordering |-> TRUE, deadLetter |-> [topic |-> d, max |-> 1]]},
                !.batches = {<<[key |-> k, attribute |-> a1], [key |-> k, attribute |-> a1]>>,
                             <<[key |-> k, attribute |-> a1]>>},
                !.pulls = {0, 3}, !.deadlines = {0}, !.maxTime = 2, !.maxMessages = 3, !.maxAcks = 3]

\* A stream that holds one message, or two within some bytes, beside pulls, whose client
\* moves deadlines.
Streaming ==
  [Basic EXCEPT !.deadlines = {2}, !.faults = {},
                !.streams = {[limit |-> 1, bytes |-> FALSE, deadline |-> 0],
                             [limit |-> 2, bytes |-> TRUE, deadline |-> 1]}]

\* The same streams, whose saves may fail.
Failing == [Streaming EXCEPT !.deadlines = {}, !.faults = {"failed"}]

\* Snapshots and seeks, with a kill between the two files.
Seeking ==
  [Basic EXCEPT !.snapshotApis = {"grpc"}, !.creates = {Retaining}, !.seeks = {2}, !.retention = 2,
                !.faults = {"failed", "halfKilled"}, !.maxTime = 3, !.maxMessages = 1, !.maxAcks = 2]

\* Configurations in and out of range, and policies that may be refused.
Managing ==
  [Basic EXCEPT !.apis = {"rest", "grpc"}, !.manages = TRUE,
                !.creates = {[topic |-> t, ackDeadline |-> 0],
                             [topic |-> t, ackDeadline |-> MaxAckDeadline + 1, filter |-> {a2}],
                             [topic |-> t, deadLetter |-> [topic |-> d, max |-> 1]]},
                !.updates = {[ackDeadline |-> MaxAckDeadline + 1], [backoff |-> [min |-> 2, max |-> 1]],
                             [deadLetter |-> [topic |-> t, max |-> 9]]},
                !.retentions = {none, 2}, !.streams = {[limit |-> 0, bytes |-> FALSE, deadline |-> MaxAckDeadline]},
                !.maxTime = 1, !.maxMessages = 1, !.maxAcks = 1]

MCWorkloads == {Delivering, Ordering, Streaming, Failing, Seeking, Managing}

\* The theorems' hypothesis holds of these workloads.
ASSUME SilentCopiesAssumption == NoSilentCopies
=============================================================================
