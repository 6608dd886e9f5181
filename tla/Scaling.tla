------------------------------ MODULE Scaling ------------------------------
(***************************************************************************)
(* Application Auto Scaling: scalable targets, the scaling policies and    *)
(* scheduled actions put for them, and tags, four maps in memory under one *)
(* mutex, saved whole after each change.  A change is made in memory first *)
(* and taken back by hand when the save fails.  The map keys are the parts *)
(* of a name joined by "|"; names are modelled without that character, so  *)
(* a key is the tuple of its parts.                                        *)
(***************************************************************************)
EXTENDS Naturals, Sequences, FiniteSets

CONSTANTS Targets,      \* pairs <<ResourceId, ScalableDimension>>
          Names,        \* policy and action names
          Arns,         \* tagged resources
          Tags,         \* tag keys
          Workloads,    \* what clients do in a run: [ops, registrations]
          MaxTime,      \* bound: the clock
          MaxFaults     \* bound: failed saves and restarts

VARIABLES workload,     \* the run's member of Workloads
          st,           \* State: targets, policies, actions, tags
          disk,         \* state.json
          up,
          told,         \* the state as the answers let a client know
          clock,        \* now_rfc3339, also what makes a new ARN different
          faults

vars == <<workload, st, disk, up, told, clock, faults>>

Unset == "unset"
Empty == [targets |-> <<>>, policies |-> <<>>, actions |-> <<>>, tags |-> <<>>]
Insert(f, k, v) == [m \in DOMAIN f \cup {k} |-> IF m = k THEN v ELSE f[m]]
Without(f, K) == [m \in DOMAIN f \ K |-> f[m]]
Of(target, f) == {k \in DOMAIN f : k[1] = target[1] /\ k[2] = target[2]}

-----------------------------------------------------------------------------
(* The entries.                                                            *)

Held(f, k) == k \in DOMAIN f
TargetAnew(key, req) == [created |-> clock, min |-> req.min, max |-> req.max, role |-> req.role, suspended |-> req.suspended]
\* Registering again keeps what the request leaves out, and the creation time.
Target(key, req) ==
    LET old == st.targets[key]
        kept(field, new) == IF new # Unset THEN new ELSE IF Held(st.targets, key) THEN old[field] ELSE Unset
    IN  [created |-> IF Held(st.targets, key) THEN old.created ELSE clock,
         min |-> kept("min", req.min), max |-> kept("max", req.max), role |-> kept("role", req.role), suspended |-> kept("suspended", req.suspended)]
\* A policy keeps its ARN, which is new for a new policy, and its creation time.
Policy(key, kind) ==
    LET old == st.policies[key]
    IN  [kind |-> IF kind = "" THEN "StepScaling" ELSE kind,
         arn |-> IF Held(st.policies, key) THEN old.arn ELSE <<key, clock>>,
         created |-> IF Held(st.policies, key) THEN old.created ELSE clock]
Action(key, schedule) ==
    [schedule |-> schedule, created |-> IF Held(st.actions, key) THEN st.actions[key].created ELSE clock]

\* A bucket of tags goes when its last tag does.
Tagged(arn, keys, v) == Insert(st.tags, arn, [k \in keys \cup (IF Held(st.tags, arn) THEN DOMAIN st.tags[arn] ELSE {}) |->
                                                 IF k \in keys THEN v ELSE st.tags[arn][k]])
Untagged(arn, keys) ==
    IF ~Held(st.tags, arn) THEN st.tags
    ELSE IF DOMAIN st.tags[arn] \subseteq keys THEN Without(st.tags, {arn})
    ELSE Insert(st.tags, arn, Without(st.tags[arn], keys))

\* restore_entry: the map as it was before k was inserted or removed.
Restored(after, before, k) == IF k \in DOMAIN before THEN Insert(after, k, before[k]) ELSE Without(after, {k})

-----------------------------------------------------------------------------
(* The operations.  Each either saves and answers, or fails to save, takes *)
(* its change back and answers 500.  told follows what the answers mean.   *)

Called(op) == up /\ op \in workload.ops
Change(field, k, after, meant) ==
    /\ \/ /\ st' = [st EXCEPT ![field] = after] /\ disk' = st' /\ told' = [told EXCEPT ![field] = meant]
          /\ UNCHANGED faults
       \/ /\ faults < MaxFaults /\ faults' = faults + 1
          /\ st' = [st EXCEPT ![field] = Restored(after, st[field], k)]
          /\ UNCHANGED <<disk, told>>
    /\ UNCHANGED <<workload, up, clock>>

\* What a client may conclude from the answers alone.
Merged(old, new) == [f \in DOMAIN old |-> IF f \in DOMAIN new /\ new[f] # Unset THEN new[f] ELSE old[f]]
MeantTarget(key, req) == Insert(told.targets, key, IF Held(told.targets, key) THEN Merged(told.targets[key], req) ELSE TargetAnew(key, req))

RegisterScalableTarget(key, req) ==
    /\ Called("register")
    /\ Change("targets", key, Insert(st.targets, key, Target(key, req)), MeantTarget(key, req))

\* The target goes together with its policies and scheduled actions.
Deregistered(key) == [st EXCEPT !.targets = Without(@, {key}), !.policies = Without(@, Of(key, @)), !.actions = Without(@, Of(key, @))]
Extended(f, g, K) == [k \in DOMAIN f \cup K |-> IF k \in K THEN g[k] ELSE f[k]]
TargetReinserted(key, after) == [after EXCEPT !.targets = Insert(@, key, st.targets[key]),
                                              !.policies = Extended(@, st.policies, Of(key, st.policies))]
Reinserted(key, after) == [TargetReinserted(key, after) EXCEPT !.actions = Extended(@, st.actions, Of(key, st.actions))]
DeregisterScalableTarget(key) ==
    /\ Called("register") /\ Held(st.targets, key)
    /\ \/ /\ st' = Deregistered(key) /\ disk' = st' /\ UNCHANGED faults
          /\ told' = [told EXCEPT !.targets = [k \in DOMAIN @ \ {key} |-> @[k]],
                                  !.policies = [k \in {j \in DOMAIN @ : <<j[1], j[2]>> # key} |-> @[k]],
                                  !.actions = [k \in {j \in DOMAIN @ : <<j[1], j[2]>> # key} |-> @[k]]]
       \/ /\ faults < MaxFaults /\ faults' = faults + 1
          /\ st' = Reinserted(key, Deregistered(key)) /\ UNCHANGED <<disk, told>>
    /\ UNCHANGED <<workload, up, clock>>

PutScalingPolicy(target, name, kind) ==
    LET key == <<target[1], target[2], name>>
        new == [kind |-> IF kind = "" THEN "StepScaling" ELSE kind, arn |-> <<key, clock>>, created |-> clock]
    IN  /\ Called("policy") /\ kind \in {"", "StepScaling", "TargetTrackingScaling"}
        /\ Change("policies", key, Insert(st.policies, key, Policy(key, kind)),
                  Insert(told.policies, key, IF Held(told.policies, key) THEN [told.policies[key] EXCEPT !.kind = new.kind] ELSE new))
DeleteScalingPolicy(target, name) ==
    LET key == <<target[1], target[2], name>>
    IN  /\ Called("policy") /\ Held(st.policies, key)
        /\ Change("policies", key, Without(st.policies, {key}), Without(told.policies, {key}))

PutScheduledAction(target, name, schedule) ==
    LET key == <<target[1], target[2], name>>
    IN  /\ Called("action")
        /\ Change("actions", key, Insert(st.actions, key, Action(key, schedule)),
                  Insert(told.actions, key, [schedule |-> schedule, created |-> IF Held(told.actions, key) THEN told.actions[key].created ELSE clock]))
DeleteScheduledAction(target, name) ==
    LET key == <<target[1], target[2], name>>
    IN  /\ Called("action") /\ Held(st.actions, key)
        /\ Change("actions", key, Without(st.actions, {key}), Without(told.actions, {key}))

TagsMeant(arn) == IF Held(told.tags, arn) THEN told.tags[arn] ELSE <<>>
TagResource(arn, keys, v) ==
    Called("tag") /\ Change("tags", arn, Tagged(arn, keys, v),
                            Insert(told.tags, arn, [k \in keys \cup DOMAIN TagsMeant(arn) |-> IF k \in keys THEN v ELSE TagsMeant(arn)[k]]))
UntagResource(arn, keys) ==
    LET left == Without(TagsMeant(arn), keys)
    IN  /\ Called("tag")
        /\ Change("tags", arn, Untagged(arn, keys), Insert(told.tags, arn, left))

\* Describing filters on the resource, the dimension and the names given.
Matches(key, target, names) == (target = <<>> \/ <<key[1], key[2]>> = target) /\ (names = {} \/ key[3] \in names)
Described(f, target, names) == {k \in DOMAIN f : Matches(k, target, names)}

Refuse(kind) == up /\ kind \notin {"", "StepScaling", "TargetTrackingScaling"} /\ UNCHANGED vars
Tick == clock < MaxTime /\ clock' = clock + 1 /\ UNCHANGED <<workload, st, disk, up, told, faults>>
Crash == /\ up /\ faults < MaxFaults /\ faults' = faults + 1
         /\ up' = FALSE /\ st' = Empty /\ UNCHANGED <<workload, disk, told, clock>>
Start == ~up /\ up' = TRUE /\ st' = disk /\ UNCHANGED <<workload, disk, told, clock, faults>>

Init == workload \in Workloads /\ st = Empty /\ disk = Empty /\ up = TRUE /\ told = Empty /\ clock = 1 /\ faults = 0

Next == \/ \E t \in Targets : \/ \E r \in workload.registrations : RegisterScalableTarget(t, r)
                              \/ DeregisterScalableTarget(t)
                              \/ \E n \in Names, k \in {"", "TargetTrackingScaling", "other"} : PutScalingPolicy(t, n, k) \/ Refuse(k)
                              \/ \E n \in Names : DeleteScalingPolicy(t, n) \/ DeleteScheduledAction(t, n) \/ PutScheduledAction(t, n, "daily")
        \/ \E a \in Arns, K \in SUBSET Tags : (\E v \in {"1", "2"} : TagResource(a, K, v)) \/ UntagResource(a, K)
        \/ Tick \/ Crash \/ Start

Spec == Init /\ [][Next]_vars

-----------------------------------------------------------------------------
TypeOK ==
    /\ DOMAIN st = DOMAIN Empty /\ clock \in 1..MaxTime /\ faults \in 0..MaxFaults
    /\ DOMAIN st.targets \subseteq Targets
    /\ \A k \in DOMAIN st.policies \cup DOMAIN st.actions : <<k[1], k[2]>> \in Targets /\ k[3] \in Names
    /\ \A a \in DOMAIN st.tags : DOMAIN st.tags[a] \subseteq Tags

\* What the answers told clients is what is kept: a failed save took back all
\* it changed (a deregistration three maps), an overwrite kept ARN and creation
\* time, a deregistration took its own policies and actions and no others'.
\* (A bucket without tags, left by a TagResource that names none, is the same
\* to a client as no bucket.)
Visible(s) == [s EXCEPT !.tags = [a \in {b \in DOMAIN @ : @[b] # <<>>} |-> @[a]]]
AnsweredIsKept == (up => Visible(st) = Visible(told)) /\ Visible(disk) = Visible(told)

\* A client that describes policies or actions, of one target or of all, of
\* some names or of any, is shown the ones it put and did not delete.
DescribedIsTold ==
    up => \A field \in {"policies", "actions"}, t \in Targets \cup {<<>>}, N \in SUBSET Names :
             Described(st[field], t, N) =
                {k \in DOMAIN told[field] : (t # <<>> => k[1] = t[1] /\ k[2] = t[2]) /\ (N # {} => k[3] \in N)}
=============================================================================
