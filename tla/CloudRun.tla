------------------------------ MODULE CloudRun ------------------------------
(***************************************************************************)
(* The Cloud Run emulator (services/cloudrun): services, revisions and     *)
(* policies in state.json, and the local instances that requests start on  *)
(* demand.                                                                 *)
(*                                                                         *)
(* Control-plane handlers change a copy of the state under its mutex, save *)
(* it and swap it in: one step each, except DeleteService, which goes on   *)
(* to stop the service's instance.  Data-plane requests run on several     *)
(* threads and meet in a service's slot, whose lock is a fair (FIFO) tokio *)
(* mutex held across the start or stop of a process.  A slot is shared by  *)
(* reference: it lives as long as the map or a connection refers to it,    *)
(* and dropping it drops its instance, whose guard kills the process.      *)
(*                                                                         *)
(* A template is the revision name asked for and what its first container  *)
(* launches; names, URLs, timestamps and the other fields of a resource,   *)
(* which are stored and echoed, are left out, and so is the list of        *)
(* finished operations, which only its own getters read.                   *)
(***************************************************************************)
EXTENDS Integers, FiniteSets, Functions, SequencesExt

CONSTANTS
  Services,       \* full names of services
  Inputs,         \* Service resources a request may carry: [template, traffic, public]
  Masks,          \* update masks: sets of fields, or None
  Tokens,         \* whether a request carries the bearer token
  Members,        \* who a policy lets invoke a service
  Conns,          \* connections, each serving one request at a time
  Ports,          \* loopback ports free_port() may return
  Pids,           \* process ids
  Unnamed,        \* an absent template.revision
  None,           \* an absent option
  Docker,         \* docker_bin is configured
  Strict,         \* auth_mode is "strict"
  MaxUids,        \* bound on the services ever created
  MaxGeneration   \* bound on the updates of one service

VARIABLES
  phase,       \* "up", "aborted" (shutdown has dropped the connections) or "down"
  state,       \* Server::state
  disk,        \* the content of state.json
  uids,        \* ids new_id() has given to services
  map,         \* Slots::map: the slot of each service, or None
  closed,      \* Slots::closed
  slots,       \* the slots in memory: instance, retired, and who queues for the lock
  ports,       \* Manager::ports
  live,        \* running child processes, by pid
  containers,  \* pids of docker clients whose container exists
  removals,    \* Manager::removals: the containers that threads are removing
  conns        \* what each connection is doing

controlVars == <<state, disk, uids>>
dockerVars == <<containers, removals>>
managerVars == <<map, closed, slots, ports, live, dockerVars>>
vars == <<phase, controlVars, managerVars, conns>>

ASSUME ConstantsAssumption ==
  /\ IsFiniteSet(Services) /\ IsFiniteSet(Conns)
  /\ \A x \in Inputs : x.template # None => x.template.launch \in {"process", "image", "invalid"}
  /\ \A mask \in Masks : mask # None => mask \subseteq {"template", "traffic", "public"}
  /\ Docker \in BOOLEAN /\ Strict \in BOOLEAN
  /\ None \notin Services \cup Pids \cup Ports
  /\ MaxUids \in Nat /\ MaxGeneration \in Nat \ {0}

With(f, x, y) == [z \in DOMAIN f \cup {x} |-> IF z = x THEN y ELSE f[z]]

Without(f, S) == Restrict(f, DOMAIN f \ S)

Empty == [x \in {} |-> x]

-----------------------------------------------------------------------------
(***************************************************************************)
(* Services, revisions and policies (server.rs).                           *)
(***************************************************************************)

EmptyState == [services |-> Empty, revisions |-> {}, policies |-> Empty]

\* The fields of a Service a client may set, as far as the server acts on them.
Fields == {"template", "traffic", "public"}

\* validate_template: there is a template and its containers are well formed.
ValidTemplate(template) == template # None /\ template.launch # "invalid"

\* validate_service: the percentages of a traffic list are in range and add up to 100.
ValidService(service) ==
  /\ ValidTemplate(service.template)
  /\ service.traffic # None /\ service.traffic # <<>> =>
       /\ \A i \in DOMAIN service.traffic : service.traffic[i] \in 0..100
       /\ FoldSeq(+, 0, service.traffic) = 100

NewService(input, uid) ==
  [uid |-> uid, generation |-> 0, template |-> input.template, traffic |-> input.traffic,
   public |-> input.public, latest |-> None, born |-> None]

\* apply_mask_path for every path of the mask, a field absent from the input being cleared;
\* without a mask, the fields the input has.
Masked(service, input, mask) ==
  LET replaced == IF mask = None THEN {f \in Fields : input[f] # None} ELSE mask
  IN [f \in DOMAIN service |-> IF f \in replaced THEN input[f] ELSE service[f]]

\* The etag is a hash of the resource, which differs by uid and generation.
EtagOf(service) == <<service.uid, service.generation>>

EtagMatches(etag, service) == etag = None \/ etag = EtagOf(service)

\* A revision is created when the template changed, and always for a new service.
NeedsRevision(st, n, service) ==
  n \in DOMAIN st.services => st.services[n].template # service.template

RevisionId(service, generation) ==
  IF service.template.revision = Unnamed THEN <<service.uid, generation>>
  ELSE service.template.revision

Generation(st, n) == IF n \in DOMAIN st.services THEN st.services[n].generation + 1 ELSE 1

\* roll_out is refused if the name of the revision it would create is taken.
RevisionFree(st, n, service) ==
  NeedsRevision(st, n, service) =>
    \A r \in st.revisions : r.service = n => r.id # RevisionId(service, Generation(st, n))

\* roll_out and revision_json: the state with the service and its new revision.
RolledOut(st, n, service) ==
  LET id    == RevisionId(service, Generation(st, n))
      fresh == NeedsRevision(st, n, service)
  IN [st EXCEPT
        !.services = With(@, n, [service EXCEPT
                                   !.generation = Generation(st, n),
                                   !.latest = IF fresh THEN id ELSE st.services[n].latest,
                                   !.born = IF fresh THEN <<service.uid, Generation(st, n)>>
                                            ELSE st.services[n].born,
                                   !.traffic = IF @ = None THEN <<100>> ELSE @]),
        !.revisions = IF fresh
                      THEN @ \cup {[service |-> n, id |-> id, launch |-> service.template.launch]}
                      ELSE @]

\* What DeleteService leaves.
Removed(st, n) ==
  [services |-> Without(st.services, {n}),
   revisions |-> {r \in st.revisions : r.service # n},
   policies |-> Without(st.policies, {n})]

-----------------------------------------------------------------------------
(***************************************************************************)
(* Slots, locks and processes (instances.rs).                              *)
(***************************************************************************)

Idle == [pc |-> "idle", service |-> None, token |-> FALSE, slot |-> None,
         pid |-> None, port |-> None, seen |-> None, got |-> None]

\* Enough slots for the map and for every connection to refer to another one.
SlotIds == 1..(Cardinality(Conns) + Cardinality(Services))

ASSUME SlotsAssumption == None \notin SlotIds

NoInstance == [got |-> None, port |-> None, pid |-> None]

EmptySlot == [instance |-> NoInstance, retired |-> FALSE, queue |-> <<>>]

Referenced(i, m, cs) == (\E n \in Services : m[n] = i) \/ (\E c \in Conns : cs[c].slot = i)

\* Docker runs the containers that have no command.
InContainer(spec) == spec.launch = "image"

\* Mutant: an instance that is dropped with its slot is left running.
NoneDropped(m, s, cs) == {}

Dropped(m, s, cs) == {s[i].instance : i \in {j \in SlotIds : ~Referenced(j, m, cs)}} \ {NoInstance}

\* The last reference to a slot is gone: Slot, Instance and TeardownGuard are dropped.  The
\* guard kills the process and starts a thread that removes the container; the port stays
\* reserved.
Settle(m, s, cs, running, existing, removing) ==
  LET dropped == Dropped(m, s, cs) IN
  /\ map' = m
  /\ conns' = cs
  /\ slots' = [i \in SlotIds |-> IF Referenced(i, m, cs) THEN s[i] ELSE EmptySlot]
  /\ live' = Without(running, {x.pid : x \in dropped})
  /\ containers' = existing
  /\ removals' = removing \cup {x.pid : x \in {y \in dropped : y.pid \in existing}}

\* A step that changes what a connection does and a slot, and no process.
Step(c, conn, m, s) ==
  /\ Settle(m, s, [conns EXCEPT ![c] = conn], live, containers, removals)
  /\ UNCHANGED <<phase, controlVars, closed, ports>>

\* The holder of a slot's lock is the head of its queue; the lock passes to the next.
HoldsLock(c) == conns[c].slot # None /\ slots[conns[c].slot].queue # <<>>
                  /\ Head(slots[conns[c].slot].queue) = c

Unlocked(i) == [slots EXCEPT ![i].queue = Tail(@)]

\* public_invoke_allowed
PublicInvoke(n) ==
  \/ ~Strict
  \/ state.services[n].public = TRUE
  \/ n \in DOMAIN state.policies /\ state.policies[n] = "allUsers"

\* authorized_launch_spec: why the request is refused, or "ok".
Current(n, token) ==
  CASE n \notin DOMAIN state.services              -> "gone"
    [] Strict /\ ~token /\ ~PublicInvoke(n)        -> "forbidden"
    [] OTHER                                       -> "ok"

\* LaunchSpec::from_service
LaunchSpec(n) ==
  [service |-> n, revision |-> state.services[n].latest,
   launch |-> state.services[n].template.launch]

\* The launch spec and, for the properties, when its revision was made.
Launch(n) == [spec |-> LaunchSpec(n), born |-> state.services[n].born]

\* proxy: a request is admitted if the service can be invoked at that moment.
Admit(c, n, token) ==
  /\ phase = "up"
  /\ conns[c].pc = "idle"
  /\ Current(n, token) = "ok"
  /\ Step(c, [Idle EXCEPT !.pc = "admitted", !.service = n, !.token = token,
                          !.seen = Launch(n)], map, slots)

NewSlot == CHOOSE i \in SlotIds : ~Referenced(i, map, conns)

\* Manager::slot
TakeSlot(c) ==
  LET n == conns[c].service
      i == IF map[n] = None THEN NewSlot ELSE map[n]
  IN
  /\ conns[c].pc = "admitted"
  /\ IF closed THEN Step(c, Idle, map, slots)
     ELSE Step(c, [conns[c] EXCEPT !.pc = "holding", !.slot = i], [map EXCEPT ![n] = i], slots)

\* slot.lock().await: another thread may run between getting the slot and queueing for it.
AwaitLock(c) ==
  /\ conns[c].pc \in {"holding", "unmapped"}
  /\ Step(c, [conns[c] EXCEPT !.pc = IF @ = "holding" THEN "locking" ELSE "retiring"], map,
          [slots EXCEPT ![conns[c].slot].queue = Append(@, c)])

\* Instance::alive: the process has not exited.
Alive(instance) == instance.pid \in DOMAIN live

Usable(instance, spec) == Alive(instance) /\ instance.got.spec = spec

\* What the request is given: an instance of the current spec is as good as a new one.
Given(instance, n) == IF instance.got.spec = LaunchSpec(n) THEN Launch(n) ELSE instance.got

InstanceFor(c) == slots[conns[c].slot].instance

\* ensure, from getting the lock to the next await.  The service was deleted meanwhile:
FindRetired(c) ==
  /\ conns[c].pc = "locking"
  /\ HoldsLock(c)
  /\ slots[conns[c].slot].retired
  /\ Step(c, Idle, map, Unlocked(conns[c].slot))

\* The service is gone, or closed to the caller:
FindRefused(c) ==
  /\ conns[c].pc = "locking"
  /\ HoldsLock(c)
  /\ ~slots[conns[c].slot].retired
  /\ Current(conns[c].service, conns[c].token) # "ok"
  /\ Step(c, [conns[c] EXCEPT !.pc = "discarding"], map, Unlocked(conns[c].slot))

MayUse(c) ==
  /\ conns[c].pc = "locking"
  /\ HoldsLock(c)
  /\ ~slots[conns[c].slot].retired
  /\ Current(conns[c].service, conns[c].token) = "ok"

\* The instance is alive and of the current revision; the slot is let go of:
FindUsable(c) ==
  /\ MayUse(c)
  /\ InstanceFor(c) # NoInstance /\ Usable(InstanceFor(c), LaunchSpec(conns[c].service))
  /\ Step(c, [conns[c] EXCEPT !.pc = "answered", !.slot = None, !.got = Given(InstanceFor(c), conns[c].service)],
          map, Unlocked(conns[c].slot))

\* It is not, and is replaced; terminate starts by giving its port back:
FindOutdated(c) ==
  /\ MayUse(c)
  /\ InstanceFor(c) # NoInstance /\ ~Usable(InstanceFor(c), LaunchSpec(conns[c].service))
  /\ Settle(map, [slots EXCEPT ![conns[c].slot].instance = NoInstance],
            [conns EXCEPT ![c].pc = "replacing", ![c].got = Launch(conns[c].service),
                          ![c].pid = InstanceFor(c).pid],
            live, containers, removals)
  /\ ports' = ports \ {InstanceFor(c).port}
  /\ UNCHANGED <<phase, controlVars, closed>>

\* There is none yet:
FindNone(c) ==
  /\ MayUse(c)
  /\ InstanceFor(c) = NoInstance
  /\ Step(c, [conns[c] EXCEPT !.pc = "starting", !.got = Launch(conns[c].service)], map, slots)

\* The rest of terminate: the container is removed, then nothing of the group survives.
EndTerminate(c) ==
  LET conn == conns[c]
      next == IF conn.pc = "replacing" THEN [conn EXCEPT !.pc = "starting", !.pid = None] ELSE Idle
  IN
  /\ conn.pc \in {"replacing", "stopping"}
  /\ Settle(map, IF conn.pc = "replacing" THEN slots ELSE Unlocked(conn.slot),
            [conns EXCEPT ![c] = next],
            Without(live, {conn.pid}), containers \ {conn.pid}, removals)
  /\ UNCHANGED <<phase, controlVars, closed, ports>>

\* The answer of a request; the connection is then relayed until either side ends it.
Answer(c) ==
  /\ conns[c].pc = "answered"
  /\ Step(c, Idle, map, slots)

\* discard_empty_slot
Discard(c) ==
  LET n == conns[c].service
      i == conns[c].slot
      unused == map[n] = i /\ slots[i].queue = <<>> /\ slots[i].instance = NoInstance
  IN
  /\ conns[c].pc = "discarding"
  /\ Step(c, Idle, IF unused THEN [map EXCEPT ![n] = None] ELSE map, slots)

\* free_port: the operating system gives out ports nobody listens on.
Unbound == Ports \ {live[p].port : p \in {q \in DOMAIN live : live[q].listening}}

\* reserve_port: a port no other start or instance of the manager has.
FreePorts == Unbound \ ports

FreshPids == Pids \ (DOMAIN live \cup containers
                       \cup {conns[c].pid : c \in Conns}
                       \cup {slots[i].instance.pid : i \in {j \in SlotIds : slots[j].instance # NoInstance}})

\* start and start_on up to the first wait for readiness.
Spawn(c) ==
  LET spec == conns[c].got.spec IN
  /\ conns[c].pc = "starting"
  /\ InContainer(spec) => Docker
  /\ FreshPids # {}
  /\ \E port \in FreePorts, pid \in {CHOOSE p \in FreshPids : TRUE} :
       /\ ports' = ports \cup {port}
       /\ Settle(map, slots, [conns EXCEPT ![c].pc = "waiting", ![c].pid = pid, ![c].port = port],
                 With(live, pid, [service |-> spec.service, uid |-> conns[c].got.born[1], port |-> port,
                            listening |-> FALSE]),
                 IF InContainer(spec) THEN containers \cup {pid} ELSE containers, removals)
  /\ UNCHANGED <<phase, controlVars, closed>>

\* Nothing to run, no port, or no process: the request fails and the lock is released.
CannotSpawn(c) ==
  /\ conns[c].pc = "starting"
  /\ Step(c, Idle, map, Unlocked(conns[c].slot))

\* The process listens: the slot takes the instance, and the instance the port.
Ready(c) ==
  LET conn     == conns[c]
      instance == [got |-> conn.got, port |-> conn.port, pid |-> conn.pid]
  IN
  /\ conn.pc = "waiting"
  /\ conn.pid \in DOMAIN live
  /\ Settle(map, [Unlocked(conn.slot) EXCEPT ![conn.slot].instance = instance],
            [conns EXCEPT ![c].pc = "answered", ![c].slot = None, ![c].pid = None, ![c].port = None],
            [live EXCEPT ![conn.pid].listening = TRUE], containers, removals)
  /\ UNCHANGED <<phase, controlVars, closed, ports>>

\* The process exited or did not listen in time: it is killed, its container removed, and
\* the reservation dropped.
Unhealthy(c) ==
  LET conn == conns[c] IN
  /\ conn.pc = "waiting"
  /\ Settle(map, Unlocked(conn.slot), [conns EXCEPT ![c] = Idle],
            Without(live, {conn.pid}), containers \ {conn.pid}, removals)
  /\ ports' = ports \ {conn.port}
  /\ UNCHANGED <<phase, controlVars, closed>>

\* stop, after DeleteService has saved: the slot leaves the map.
Unmap(c) ==
  LET n == conns[c].service IN
  /\ conns[c].pc = "deleted"
  /\ IF map[n] = None
     THEN Step(c, Idle, map, slots)
     ELSE Step(c, [conns[c] EXCEPT !.pc = "unmapped", !.slot = map[n]], [map EXCEPT ![n] = None], slots)

RetiredSlot(slot) == [slot EXCEPT !.instance = NoInstance, !.retired = TRUE]

\* retire, with the lock: whoever queues behind finds the slot retired.
Retire(c) ==
  LET i        == conns[c].slot
      instance == slots[i].instance
  IN
  /\ conns[c].pc = "retiring"
  /\ HoldsLock(c)
  /\ IF instance = NoInstance
     THEN /\ Settle(map, [Unlocked(i) EXCEPT ![i] = RetiredSlot(@)],
                    [conns EXCEPT ![c] = Idle], live, containers, removals)
          /\ UNCHANGED ports
     ELSE /\ Settle(map, [slots EXCEPT ![i] = RetiredSlot(@)],
                    [conns EXCEPT ![c].pc = "stopping", ![c].pid = instance.pid], live, containers, removals)
          /\ ports' = ports \ {instance.port}
  /\ UNCHANGED <<phase, controlVars, closed>>

\* A child process ends on its own.
ProcessExits(pid) ==
  /\ phase # "down"
  /\ pid \in DOMAIN live
  /\ live' = Without(live, {pid})
  /\ UNCHANGED <<phase, controlVars, map, closed, slots, ports, dockerVars, conns>>

\* remove_container_blocking, on the thread a dropped guard started.
EndRemoval(pid) ==
  /\ pid \in removals
  /\ containers' = containers \ {pid}
  /\ removals' = removals \ {pid}
  /\ UNCHANGED <<phase, controlVars, map, closed, slots, ports, live, conns>>

-----------------------------------------------------------------------------
(***************************************************************************)
(* Control-plane calls.                                                    *)
(***************************************************************************)

\* Mutant: the new state is swapped in before it is saved, and stays if the save fails.
SwapFirst(outcome, next) ==
  /\ disk' = IF outcome = "failed" THEN disk ELSE next
  /\ state' = IF outcome = "killed" THEN EmptyState ELSE next
  /\ phase' = IF outcome = "killed" THEN "down" ELSE phase

\* apply and persist: the copy is saved, then swapped in.  The save may fail, or the
\* process may be killed once the file is renamed into place.  (With validateOnly the
\* copy is thrown away, which changes nothing.)
Commit(outcome, next) ==
  /\ disk' = IF outcome = "failed" THEN disk ELSE next
  /\ state' = CASE outcome = "saved"  -> next
                [] outcome = "failed" -> state
                [] outcome = "killed" -> EmptyState
  /\ phase' = IF outcome = "killed" THEN "down" ELSE phase

Outcomes == {"saved", "failed", "killed"}

\* What a kill takes with it: everything in memory.  The children are left to the
\* operating system.
LoseMemory ==
  /\ map' = [n \in Services |-> None]
  /\ closed' = FALSE
  /\ slots' = [i \in SlotIds |-> EmptySlot]
  /\ ports' = {}
  /\ live' = Empty
  /\ containers' = {}
  /\ removals' = {}
  /\ conns' = [c \in Conns |-> Idle]

\* The end of a handler that does nothing after its save.
Finish(outcome) ==
  IF outcome = "killed" THEN LoseMemory
  ELSE UNCHANGED <<managerVars, conns>>

CreateService(n, input, outcome) ==
  LET service == NewService(input, uids + 1) IN
  /\ phase = "up"
  /\ uids < MaxUids
  /\ ValidService(input)
  /\ n \notin DOMAIN state.services
  /\ RevisionFree(state, n, service)
  /\ Commit(outcome, RolledOut(state, n, service))
  /\ uids' = uids + 1
  /\ Finish(outcome)

\* update_service; with allowMissing a service that is not there is created.
UpdateService(n, input, mask, etag, outcome) ==
  LET previous == state.services[n]
      service  == Masked(previous, input, mask)
  IN
  /\ phase = "up"
  /\ n \in DOMAIN state.services
  /\ previous.generation < MaxGeneration
  /\ EtagMatches(etag, previous)
  /\ ValidService(service)
  /\ RevisionFree(state, n, service)
  /\ Commit(outcome, RolledOut(state, n, service))
  /\ UNCHANGED uids
  /\ Finish(outcome)

\* delete_service up to its save; the connection goes on to stop the instance.
DeleteService(c, n, etag, outcome) ==
  /\ phase = "up"
  /\ conns[c].pc = "idle"
  /\ n \in DOMAIN state.services
  /\ EtagMatches(etag, state.services[n])
  /\ Commit(outcome, Removed(state, n))
  /\ UNCHANGED uids
  /\ CASE outcome = "saved"  -> /\ conns' = [conns EXCEPT ![c] = [Idle EXCEPT !.pc = "deleted", !.service = n]]
                                /\ UNCHANGED managerVars
       [] outcome = "failed" -> UNCHANGED <<managerVars, conns>>
       [] outcome = "killed" -> LoseMemory

Deletable(service, id) == service.latest # id

DeleteRevision(n, r, outcome) ==
  /\ phase = "up"
  /\ n \in DOMAIN state.services
  /\ r \in state.revisions /\ r.service = n
  /\ Deletable(state.services[n], r.id)
  /\ Commit(outcome, [state EXCEPT !.revisions = @ \ {r}])
  /\ UNCHANGED uids
  /\ Finish(outcome)

\* set_iam_policy
SetIamPolicy(n, members, outcome) ==
  /\ phase = "up"
  /\ n \in DOMAIN state.services
  /\ Commit(outcome, [state EXCEPT !.policies = With(@, n, members)])
  /\ UNCHANGED uids
  /\ Finish(outcome)

-----------------------------------------------------------------------------
(***************************************************************************)
(* The process.                                                            *)
(***************************************************************************)

\* The children of starts and stops in progress: dropping the future kills them.
HeldPids == {conns[c].pid : c \in Conns} \ {None}

\* serve, at shutdown: every connection is cancelled where it stands.  Locks are released,
\* reservations of starts dropped, and guards kill what was being started or stopped.
Abort ==
  /\ phase = "up"
  /\ phase' = "aborted"
  /\ Settle(map, [i \in SlotIds |-> [slots[i] EXCEPT !.queue = <<>>]], [c \in Conns |-> Idle],
            Without(live, HeldPids), containers, removals \cup (HeldPids \cap containers))
  /\ ports' = ports \ {conns[c].port : c \in Conns}
  /\ UNCHANGED <<controlVars, closed>>

Instances == {slots[i].instance : i \in SlotIds} \ {NoInstance}

RemovalsDone == removals = {}

\* stop_all: no slot is created any more, and those there are are retired one after the
\* other; then the removals that dropped instances started get to finish.
StopAll ==
  /\ phase = "aborted"
  /\ RemovalsDone
  /\ phase' = "down"
  /\ closed' = TRUE
  /\ Settle([n \in Services |-> None], slots, conns,
            Without(live, {x.pid : x \in Instances}),
            containers \ {x.pid : x \in Instances}, {})
  /\ ports' = ports \ {x.port : x \in Instances}
  /\ UNCHANGED controlVars

\* Server::new and load
Restart ==
  /\ phase = "down"
  /\ phase' = "up"
  /\ state' = disk
  /\ LoseMemory
  /\ UNCHANGED <<disk, uids>>

Crash ==
  /\ phase # "down"
  /\ phase' = "down"
  /\ state' = EmptyState
  /\ LoseMemory
  /\ UNCHANGED <<disk, uids>>

-----------------------------------------------------------------------------
Init ==
  /\ phase = "up"
  /\ state = EmptyState
  /\ disk = EmptyState
  /\ uids = 0
  /\ map = [n \in Services |-> None]
  /\ closed = FALSE
  /\ slots = [i \in SlotIds |-> EmptySlot]
  /\ ports = {}
  /\ live = Empty
  /\ containers = {}
  /\ removals = {}
  /\ conns = [c \in Conns |-> Idle]

\* What a connection does by itself once its request is accepted.
Proceed(c) ==
  \/ TakeSlot(c)
  \/ AwaitLock(c)
  \/ FindRetired(c)
  \/ FindRefused(c)
  \/ FindUsable(c)
  \/ FindOutdated(c)
  \/ FindNone(c)
  \/ EndTerminate(c)
  \/ Answer(c)
  \/ Discard(c)
  \/ Spawn(c)
  \/ CannotSpawn(c)
  \/ Ready(c)
  \/ Unhealthy(c)
  \/ Unmap(c)
  \/ Retire(c)

Etags == {None} \cup ((1..MaxUids) \X (1..MaxGeneration))

Manage(n, outcome) ==
  \/ \E input \in Inputs : CreateService(n, input, outcome)
  \/ \E input \in Inputs, mask \in Masks, etag \in Etags :
       UpdateService(n, input, mask, etag, outcome)
  \/ \E c \in Conns, etag \in Etags : DeleteService(c, n, etag, outcome)
  \/ \E r \in state.revisions : DeleteRevision(n, r, outcome)
  \/ \E members \in Members : SetIamPolicy(n, members, outcome)

Next ==
  \/ \E c \in Conns : Proceed(c)
  \/ \E c \in Conns, n \in Services, token \in Tokens : Admit(c, n, token)
  \/ \E n \in Services, outcome \in Outcomes : Manage(n, outcome)
  \/ \E pid \in Pids : ProcessExits(pid) \/ EndRemoval(pid)
  \/ Abort
  \/ StopAll
  \/ Crash
  \/ Restart

Spec == Init /\ [][Next]_vars

-----------------------------------------------------------------------------
(***************************************************************************)
(* Properties.                                                             *)
(***************************************************************************)

\* Every variable has its type.
TypeOK ==
  /\ phase \in {"up", "aborted", "down"}
  /\ DOMAIN state.services \subseteq Services
  /\ \A n \in DOMAIN state.services : state.services[n].generation \in 1..MaxGeneration
  /\ uids \in 0..MaxUids
  /\ map \in [Services -> SlotIds \cup {None}]
  /\ ports \subseteq Ports
  /\ DOMAIN live \subseteq Pids
  /\ removals \subseteq containers
  /\ \A c \in Conns : conns[c].slot \in SlotIds \cup {None}

\* A service's latest revision is there and launches what the service's template says;
\* revisions and policies exist only with their service, so a service created again under
\* an old name starts without them.  In memory and in state.json.
ResourcesMatch ==
  \A st \in {state, disk} :
    /\ \A n \in DOMAIN st.services :
         [service |-> n, id |-> st.services[n].latest,
          launch |-> st.services[n].template.launch] \in st.revisions
    /\ \A r \in st.revisions : r.service \in DOMAIN st.services
    /\ DOMAIN st.policies \subseteq DOMAIN st.services

\* A call that could not be saved had no effect, and a restart finds what was answered.
SavedFirst == phase = "up" => state = disk

\* Two processes never have the same port: neither two cold starts at once, nor a start
\* and an instance that is still being stopped.
PortsApart == \A p, q \in DOMAIN live : live[p].port = live[q].port => p = q

Busy(n) == \E c \in Conns : conns[c].pc # "idle" /\ conns[c].service = n

\* Once no connection is working on a service, what runs for it is the instance of its slot
\* and nothing else, and nothing if the service is gone.
NothingLeftRunning ==
  phase = "up" => \A p \in DOMAIN live : ~Busy(live[p].service) =>
    LET n == live[p].service IN
    /\ n \in DOMAIN state.services
    /\ map[n] # None
    /\ slots[map[n]].instance # NoInstance
    /\ slots[map[n]].instance.pid = p

\* Shutdown leaves neither processes nor containers behind, whatever the connections it
\* cancelled were in the middle of.
ShutdownLeavesNothing == phase = "down" => live = Empty /\ containers = {}

Later(a, b) == a[1] > b[1] \/ (a[1] = b[1] /\ a[2] >= b[2])

\* A request is never answered by a revision that was out of date when it arrived.
AnswersAreCurrent ==
  \A c \in Conns : conns[c].pc = "answered" =>
    conns[c].got.spec = conns[c].seen.spec \/ Later(conns[c].got.born, conns[c].seen.born)

\* What runs is accounted for: ports apart, one process per idle service, nothing after a
\* shutdown (instances.rs: the slots, the reserved ports, stop_all and the removals).
InstancesAccounted == TypeOK /\ PortsApart /\ NothingLeftRunning /\ ShutdownLeavesNothing

\* What is answered is saved and current (server.rs: commit; instances.rs: ensure).
AnswersStand == ResourcesMatch /\ SavedFirst /\ AnswersAreCurrent

=============================================================================
