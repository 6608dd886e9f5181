---------------------------- MODULE MCSqsStandard ----------------------------
(***************************************************************************)
(* Two standard queues are explored in two parts, by bounding the steps:   *)
(* two messages, q with or without d for its dead letters, and no move     *)
(* task; or one message, queues whose policies change, and a move task.    *)
(***************************************************************************)
EXTENDS MCSqs

VARIABLE part

SameAttributes(before, after) ==
  \A n \in DOMAIN before \cap DOMAIN after :
    before[n].createdAt = after[n].createdAt => before[n].attributes = after[n].attributes

TwoMessages ==
  /\ moveTasks' = <<>> /\ disk'.moveTasks = <<>>
  /\ SameAttributes(disk.queues, disk'.queues)
  /\ \A id \in MsgIds : minted'[id] <= 1
  /\ d \in DOMAIN disk'.queues => disk'.queues[d].attributes.redrive = none
  /\ q \in DOMAIN disk'.queues => disk'.queues[q].attributes.allow = none

Plain(qs) == \A n \in DOMAIN qs : qs[n].attributes.allow = none

MovedMessage ==
  /\ Cardinality(issued') <= 1 /\ now' <= 2
  /\ Plain(queues') /\ Plain(disk'.queues)

PartsInit == Init /\ part \in {"two messages", "move tasks"}

PartsNext ==
  /\ UNCHANGED part
  /\ Next
  /\ IF part = "two messages" THEN TwoMessages ELSE MovedMessage

PartsSpec == PartsInit /\ [][PartsNext]_<<part, vars>>

=============================================================================
