--------------------------- MODULE CloudRunProofs ---------------------------
(***************************************************************************)
(* What CloudRun guarantees for every choice of its constants.             *)
(*                                                                         *)
(* The control plane: revisions and policies go with their services in     *)
(* memory and in state.json, what was answered was saved, and no request   *)
(* is answered by a revision that was out of date when it arrived.  A      *)
(* revision is dated by the uid of its service and the generation that     *)
(* made it.  The invariant follows that date: a service's only grows, a    *)
(* service created again under an old name has a later uid, and a request  *)
(* holds a date that its service had.                                      *)
(*                                                                         *)
(* The instance manager: whatever requests, deletions, exits and a         *)
(* shutdown do at the same time, ports stay apart, an idle service runs    *)
(* the instance of its slot and nothing else, and nothing survives a       *)
(* shutdown.  A process is held by a slot, whose instance it is, or by a   *)
(* connection that starts or stops it.  The steps of the manager take up,  *)
(* hand over or let go of what is held, and HoldInv is shown once for each *)
(* of these; every step of a connection ends in Settle, which lets go of   *)
(* what the slots hold that nobody refers to any more.                     *)
(***************************************************************************)
EXTENDS CloudRun, FiniteSetTheorems, TLAPS

-----------------------------------------------------------------------------
(***************************************************************************)
(* The invariant of the control plane.                                     *)
(***************************************************************************)

ServiceFields == {"uid", "generation", "template", "traffic", "public", "latest", "born"}

\* A service as the server keeps it: its latest revision was made under its uid, at one of
\* its generations.
IsService(service, top) ==
  /\ service = [f \in ServiceFields |-> service[f]]
  /\ service.uid \in 1..top
  /\ service.generation \in 1..MaxGeneration
  /\ service.born[1] = service.uid
  /\ service.born[2] \in 1..service.generation

\* The part of ResourcesMatch that is about one state.
Matched(st) ==
  /\ \A n \in DOMAIN st.services :
       [service |-> n, id |-> st.services[n].latest,
        launch |-> st.services[n].template.launch] \in st.revisions
  /\ \A r \in st.revisions : r.service \in DOMAIN st.services
  /\ DOMAIN st.policies \subseteq DOMAIN st.services

StateInv(st, top) ==
  /\ st = [services |-> st.services, revisions |-> st.revisions, policies |-> st.policies]
  /\ st.services = [n \in DOMAIN st.services |-> st.services[n]]
  /\ DOMAIN st.services \subseteq Services
  /\ \A n \in DOMAIN st.services : IsService(st.services[n], top)
  /\ Matched(st)

ConnFields == {"pc", "service", "token", "slot", "pid", "port", "seen", "got"}

\* A request that has been given a revision, and one that was admitted.
HasRevision == {"replacing", "starting", "waiting", "answered"}
Admitted == HasRevision \cup {"admitted", "holding", "locking", "discarding"}

\* What a request saw when it arrived is no later than what its service has become, nor than
\* what the request was given.
SeenInv(conn, services, top) ==
  /\ conn = [f \in ConnFields |-> conn[f]]
  /\ conn.pc \in Admitted =>
       /\ conn.seen.born[1] \in 1..top
       /\ conn.seen.born[2] \in Nat
       /\ conn.service \in DOMAIN services => Later(services[conn.service].born, conn.seen.born)
  /\ conn.pc \in HasRevision => Later(conn.got.born, conn.seen.born)

AnswersInv ==
  /\ uids \in Nat
  /\ StateInv(state, uids)
  /\ StateInv(disk, uids)
  /\ SavedFirst
  /\ conns = [c \in Conns |-> conns[c]]
  /\ \A c \in Conns : SeenInv(conns[c], state.services, uids)

-----------------------------------------------------------------------------
(***************************************************************************)
(* The resources of a state.                                               *)
(***************************************************************************)

LEMMA NothingStored == \A top : StateInv(EmptyState, top)
  BY DEF StateInv, EmptyState, Matched, Empty

LEMMA MoreUids ==
  ASSUME NEW top \in Nat, NEW st, StateInv(st, top)
  PROVE  StateInv(st, top + 1)
<1>1. \A uid \in 1..top : uid \in 1..(top + 1)
  OBVIOUS
<1>2. \A service : IsService(service, top) => IsService(service, top + 1)
  BY <1>1 DEF IsService
<1> QED
  BY <1>2 DEF StateInv

\* roll_out: the service has its revision, which it gets a later one than it had.
LEMMA RollOut ==
  ASSUME NEW top \in Nat, NEW st, StateInv(st, top), NEW n \in Services, NEW service,
         service = [f \in ServiceFields |-> service[f]],
         service.uid \in 1..top,
         n \in DOMAIN st.services =>
           service.uid = st.services[n].uid /\ st.services[n].generation < MaxGeneration
  PROVE  LET next == RolledOut(st, n, service) IN
         /\ StateInv(next, top)
         /\ n \in DOMAIN st.services => Later(next.services[n].born, st.services[n].born)
         /\ next.services[n].born[1] = service.uid
         /\ \A k \in DOMAIN next.services : k # n => k \in DOMAIN st.services /\ next.services[k] = st.services[k]
<1> DEFINE g == Generation(st, n)
           fresh == NeedsRevision(st, n, service)
           id == RevisionId(service, g)
           next == RolledOut(st, n, service)
           latest == IF fresh THEN id ELSE st.services[n].latest
           born == IF fresh THEN <<service.uid, g>> ELSE st.services[n].born
           kept == [service EXCEPT !.generation = g, !.latest = latest, !.born = born,
                                   !.traffic = IF @ = None THEN <<100>> ELSE @]
           made == IF fresh
                   THEN st.revisions \cup {[service |-> n, id |-> id, launch |-> service.template.launch]}
                   ELSE st.revisions
<1>1. MaxGeneration \in Nat /\ 1 \in 1..MaxGeneration
  BY ConstantsAssumption
<1>2. \A k \in DOMAIN st.services : IsService(st.services[k], top)
  BY DEF StateInv
<1>3. g \in 1..MaxGeneration
  <2>1. CASE n \in DOMAIN st.services
    <3>1. g = st.services[n].generation + 1 /\ st.services[n].generation \in 1..MaxGeneration
      BY <1>2, <2>1 DEF Generation, IsService
    <3> QED
      BY <1>1, <2>1, <3>1
  <2>2. CASE n \notin DOMAIN st.services
    BY <1>1, <2>2 DEF Generation
  <2> QED
    BY <2>1, <2>2
<1>4. n \in DOMAIN st.services =>
        /\ g = st.services[n].generation + 1
        /\ st.services[n].generation \in 1..MaxGeneration
        /\ st.services[n].born[1] = service.uid
        /\ st.services[n].born[2] \in 1..st.services[n].generation
  BY <1>2 DEF Generation, IsService
<1>5. ~fresh => n \in DOMAIN st.services /\ st.services[n].template = service.template
  BY DEF NeedsRevision
<1>6. /\ next.services = With(st.services, n, kept)
      /\ next.revisions = made
      /\ next.policies = st.policies
      /\ next = [services |-> next.services, revisions |-> next.revisions, policies |-> next.policies]
  <2>1. next = [st EXCEPT !.services = With(@, n, kept), !.revisions = made]
    BY DEF RolledOut
  <2> HIDE DEF next, kept, made
  <2> QED
    BY <2>1 DEF StateInv
<1>7. /\ kept = [f \in ServiceFields |-> kept[f]]
      /\ kept.uid = service.uid /\ kept.generation = g /\ kept.latest = latest
      /\ kept.born = born /\ kept.template = service.template
  BY DEF ServiceFields
<1> HIDE DEF kept, next, made, g, id, fresh
<1>8. born[1] = service.uid /\ born[2] \in 1..g
  <2>1. CASE fresh
    BY <1>3, <2>1
  <2>2. CASE ~fresh
    BY <1>3, <1>4, <1>5, <2>2
  <2> QED
    BY <2>1, <2>2
<1>9. n \in DOMAIN st.services => Later(born, st.services[n].born)
  <2>1. CASE fresh
    BY <1>3, <1>4, <2>1 DEF Later
  <2>2. CASE ~fresh
    BY <1>4, <2>2 DEF Later
  <2> QED
    BY <2>1, <2>2
<1> HIDE DEF born
<1>10. IsService(kept, top)
  BY <1>3, <1>7, <1>8 DEF IsService
<1>11. /\ DOMAIN next.services = DOMAIN st.services \cup {n}
       /\ next.services[n] = kept
       /\ \A k \in DOMAIN st.services : k # n => next.services[k] = st.services[k]
       /\ next.services = [k \in DOMAIN next.services |-> next.services[k]]
  BY <1>6 DEF With
<1>12. [service |-> n, id |-> latest, launch |-> service.template.launch] \in made
  <2>1. CASE fresh
    BY <2>1 DEF made
  <2>2. CASE ~fresh
    BY <1>5, <2>2 DEF made, StateInv, Matched
  <2> QED
    BY <2>1, <2>2
<1>13. st.revisions \subseteq made /\ \A r \in made : r \in st.revisions \/ r.service = n
  BY DEF made
<1> HIDE DEF latest
<1>14. Matched(next)
  <2>1. \A k \in DOMAIN next.services :
          [service |-> k, id |-> next.services[k].latest,
           launch |-> next.services[k].template.launch] \in next.revisions
    <3> SUFFICES ASSUME NEW k \in DOMAIN next.services
                 PROVE  [service |-> k, id |-> next.services[k].latest,
                         launch |-> next.services[k].template.launch] \in next.revisions
      OBVIOUS
    <3>1. CASE k = n
      BY <1>6, <1>7, <1>11, <1>12, <3>1
    <3>2. CASE k # n
      BY <1>6, <1>11, <1>13, <3>2 DEF StateInv, Matched
    <3> QED
      BY <3>1, <3>2
  <2>2. \A r \in next.revisions : r.service \in DOMAIN next.services
    BY <1>6, <1>11, <1>13 DEF StateInv, Matched
  <2>3. DOMAIN next.policies \subseteq DOMAIN next.services
    BY <1>6, <1>11 DEF StateInv, Matched
  <2> QED
    BY <2>1, <2>2, <2>3 DEF Matched
<1>15. StateInv(next, top)
  BY <1>2, <1>6, <1>10, <1>11, <1>14 DEF StateInv
<1> QED
  BY <1>7, <1>8, <1>9, <1>11, <1>15 DEF next

\* delete_service, delete_revision and set_iam_policy keep what belongs to the others.
LEMMA RemoveService ==
  ASSUME NEW top, NEW st, StateInv(st, top), NEW n
  PROVE  /\ StateInv(Removed(st, n), top)
         /\ \A k \in DOMAIN Removed(st, n).services :
              k \in DOMAIN st.services /\ Removed(st, n).services[k] = st.services[k]
<1> DEFINE next == Removed(st, n)
<1>1. /\ next = [services |-> next.services, revisions |-> next.revisions, policies |-> next.policies]
      /\ next.services = Without(st.services, {n})
      /\ next.policies = Without(st.policies, {n})
      /\ next.revisions = {r \in st.revisions : r.service # n}
  BY DEF Removed
<1> HIDE DEF next
<1>2. /\ DOMAIN next.services = DOMAIN st.services \ {n}
      /\ \A k \in DOMAIN st.services \ {n} : next.services[k] = st.services[k]
      /\ next.services = [k \in DOMAIN next.services |-> next.services[k]]
      /\ DOMAIN next.policies = DOMAIN st.policies \ {n}
  BY <1>1 DEF Without, Restrict
<1>3. \A k \in DOMAIN next.services :
        [service |-> k, id |-> next.services[k].latest,
         launch |-> next.services[k].template.launch] \in next.revisions
  <2> SUFFICES ASSUME NEW k \in DOMAIN next.services
               PROVE  [service |-> k, id |-> next.services[k].latest,
                       launch |-> next.services[k].template.launch] \in next.revisions
    OBVIOUS
  <2>1. [service |-> k, id |-> st.services[k].latest,
         launch |-> st.services[k].template.launch] \in st.revisions
    BY <1>2 DEF StateInv, Matched
  <2> QED
    BY <1>1, <1>2, <2>1
<1>4. Matched(next)
  BY <1>1, <1>2, <1>3 DEF StateInv, Matched
<1>5. StateInv(next, top)
  BY <1>1, <1>2, <1>4 DEF StateInv
<1> QED
  BY <1>2, <1>5 DEF next

LEMMA RemoveRevision ==
  ASSUME NEW top, NEW st, StateInv(st, top), NEW n \in DOMAIN st.services, NEW r \in st.revisions,
         r.service = n, Deletable(st.services[n], r.id)
  PROVE  /\ StateInv([st EXCEPT !.revisions = @ \ {r}], top)
         /\ [st EXCEPT !.revisions = @ \ {r}].services = st.services
<1> DEFINE next == [st EXCEPT !.revisions = @ \ {r}]
<1>1. /\ next = [services |-> next.services, revisions |-> next.revisions, policies |-> next.policies]
      /\ next.services = st.services
      /\ next.policies = st.policies
      /\ next.revisions = st.revisions \ {r}
  BY DEF StateInv
<1> HIDE DEF next
<1>2. \A k \in DOMAIN st.services :
        [service |-> k, id |-> st.services[k].latest, launch |-> st.services[k].template.launch] # r
  BY DEF Deletable
<1>3. Matched(next)
  BY <1>1, <1>2 DEF StateInv, Matched
<1>4. StateInv(next, top)
  BY <1>1, <1>3 DEF StateInv
<1> QED
  BY <1>1, <1>4 DEF next

LEMMA StorePolicy ==
  ASSUME NEW top, NEW st, StateInv(st, top), NEW n \in DOMAIN st.services, NEW members
  PROVE  /\ StateInv([st EXCEPT !.policies = With(@, n, members)], top)
         /\ [st EXCEPT !.policies = With(@, n, members)].services = st.services
<1> DEFINE next == [st EXCEPT !.policies = With(@, n, members)]
<1>1. /\ next = [services |-> next.services, revisions |-> next.revisions, policies |-> next.policies]
      /\ next.services = st.services
      /\ next.policies = With(st.policies, n, members)
      /\ next.revisions = st.revisions
  BY DEF StateInv
<1> HIDE DEF next
<1>2. DOMAIN next.policies = DOMAIN st.policies \cup {n}
  BY <1>1 DEF With
<1>3. Matched(next)
  BY <1>1, <1>2 DEF StateInv, Matched
<1>4. StateInv(next, top)
  BY <1>1, <1>3 DEF StateInv
<1> QED
  BY <1>1, <1>4 DEF next

-----------------------------------------------------------------------------
(***************************************************************************)
(* Steps of connections.                                                   *)
(***************************************************************************)

\* A step of c that leaves the control plane alone and what c saw in order.
Proceeds(c) ==
  /\ UNCHANGED <<phase, state, disk, uids>>
  /\ conns' = [d \in Conns |-> conns'[d]]
  /\ \A d \in Conns : d # c => conns'[d] = conns[d]
  /\ SeenInv(conns'[c], state.services, uids)

LEMMA IdleSees == \A services, top : SeenInv(Idle, services, top)
  BY DEF SeenInv, Idle, ConnFields, Admitted, HasRevision

\* The parts of a connection that SeenInv is about.
LEMMA SeenKept ==
  ASSUME NEW services, NEW top, NEW conn, NEW next, SeenInv(conn, services, top),
         next = [f \in ConnFields |-> next[f]],
         conn.pc \in Admitted \/ next.pc \notin Admitted,
         next.service = conn.service, next.seen = conn.seen,
         next.pc \in HasRevision => Later(next.got.born, next.seen.born)
  PROVE  SeenInv(next, services, top)
  BY DEF SeenInv, Admitted

LEMMA ProceedSees ==
  ASSUME AnswersInv, NEW c \in Conns, Proceed(c)
  PROVE  Proceeds(c)
<1> DEFINE conn == conns[c]
           n == conn.service
           next == conns'[c]
           frame == /\ UNCHANGED <<phase, controlVars>>
                    /\ conns' = [d \in Conns |-> conns'[d]]
                    /\ \A d \in Conns : d # c => conns'[d] = conns[d]
           keeps == /\ next = [f \in ConnFields |-> next[f]]
                    /\ next.service = conn.service /\ next.seen = conn.seen
<1>1. SeenInv(conn, state.services, uids)
  BY DEF AnswersInv
<1>2. conn = [f \in ConnFields |-> conn[f]]
  BY <1>1 DEF SeenInv
<1>3. conn.pc \in Admitted /\ n \in DOMAIN state.services =>
        Later(Launch(n).born, conn.seen.born)
  BY <1>1 DEF SeenInv, Launch
<1>4. Current(n, conn.token) = "ok" => n \in DOMAIN state.services
  BY DEF Current
<1>5. conn.pc \in HasRevision => Later(conn.got.born, conn.seen.born)
  BY <1>1 DEF SeenInv
<1>6. frame /\ next = Idle => Proceeds(c)
  BY IdleSees DEF Proceeds, controlVars
<1>7. /\ frame /\ keeps
      /\ conn.pc \in Admitted \/ next.pc \notin Admitted
      /\ next.pc \in HasRevision => Later(next.got.born, next.seen.born)
      => Proceeds(c)
  <2> HIDE DEF conn, next
  <2> SUFFICES ASSUME frame, keeps,
                      conn.pc \in Admitted \/ next.pc \notin Admitted,
                      next.pc \in HasRevision => Later(next.got.born, next.seen.born)
               PROVE  Proceeds(c)
    OBVIOUS
  <2>1. SeenInv(next, state.services, uids)
    BY <1>1, SeenKept
  <2> QED
    BY <2>1 DEF Proceeds, controlVars, next
<1>8. conns = [d \in Conns |-> conns[d]]
  BY DEF AnswersInv
<1>9. CASE TakeSlot(c)
  <2>1. CASE closed
    BY <1>6, <1>8, <1>9, <2>1 DEF TakeSlot, Step, Settle
  <2>2. CASE ~closed
    <3>1. PICK i : Step(c, [conns[c] EXCEPT !.pc = "holding", !.slot = i], [map EXCEPT ![n] = i], slots)
      BY <1>9, <2>2 DEF TakeSlot
    <3>2. frame /\ keeps /\ next.pc = "holding"
      BY <1>2, <1>8, <3>1 DEF Step, Settle, ConnFields
    <3>3. conn.pc = "admitted"
      BY <1>9 DEF TakeSlot
    <3> QED
      BY <1>7, <3>2, <3>3 DEF HasRevision, Admitted
  <2> QED
    BY <2>1, <2>2
<1>10. CASE AwaitLock(c)
  <2>1. frame /\ keeps
    BY <1>2, <1>8, <1>10 DEF AwaitLock, Step, Settle, ConnFields
  <2>2. \/ conn.pc = "holding" /\ next.pc = "locking"
        \/ conn.pc = "unmapped" /\ next.pc = "retiring"
    BY <1>2, <1>8, <1>10 DEF AwaitLock, Step, Settle, ConnFields
  <2> QED
    BY <1>7, <2>1, <2>2 DEF HasRevision, Admitted
<1>11. CASE FindRetired(c) \/ Answer(c) \/ Discard(c) \/ CannotSpawn(c) \/ Unhealthy(c)
  <2>1. frame /\ next = Idle
    BY <1>8, <1>11 DEF FindRetired, Answer, Discard, CannotSpawn, Unhealthy, Step, Settle
  <2> QED
    BY <1>6, <2>1
<1>12. CASE FindRefused(c)
  <2>1. frame /\ keeps /\ conn.pc = "locking" /\ next.pc = "discarding"
    BY <1>2, <1>8, <1>12 DEF FindRefused, Step, Settle, ConnFields
  <2> QED
    BY <1>7, <2>1 DEF HasRevision, Admitted
<1>13. CASE FindUsable(c)
  <2>1. frame /\ keeps /\ conn.pc = "locking" /\ next.got = Given(InstanceFor(c), n)
    BY <1>2, <1>8, <1>13 DEF FindUsable, MayUse, Step, Settle, ConnFields
  <2>2. n \in DOMAIN state.services
    BY <1>4, <1>13 DEF FindUsable, MayUse
  <2>3. Given(InstanceFor(c), n) = Launch(n)
    BY <1>13 DEF FindUsable, Usable, Given
  <2> QED
    BY <1>3, <1>7, <2>1, <2>2, <2>3 DEF HasRevision, Admitted
<1>14. CASE FindOutdated(c) \/ FindNone(c)
  <2>1. frame /\ keeps /\ conn.pc = "locking" /\ next.got = Launch(n)
    <3>1. CASE FindOutdated(c)
      BY <1>2, <1>8, <3>1 DEF FindOutdated, MayUse, Settle, ConnFields
    <3>2. CASE FindNone(c)
      BY <1>2, <1>8, <3>2 DEF FindNone, MayUse, Step, Settle, ConnFields
    <3> QED
      BY <1>14, <3>1, <3>2
  <2>2. n \in DOMAIN state.services
    BY <1>4, <1>14 DEF FindOutdated, FindNone, MayUse
  <2> QED
    BY <1>3, <1>7, <2>1, <2>2 DEF HasRevision, Admitted
<1>15. CASE EndTerminate(c)
  <2>1. frame /\ (next = Idle \/ (keeps /\ conn.pc = "replacing" /\ next.got = conn.got))
    BY <1>2, <1>8, <1>15 DEF EndTerminate, Settle, ConnFields
  <2> QED
    BY <1>5, <1>6, <1>7, <2>1 DEF HasRevision, Admitted
<1>16. CASE Spawn(c)
  <2>1. frame /\ keeps /\ conn.pc = "starting" /\ next.got = conn.got
    <3>1. PICK port, pid :
            conns' = [conns EXCEPT ![c].pc = "waiting", ![c].pid = pid, ![c].port = port]
      BY <1>16 DEF Spawn, Settle
    <3>2. conn.pc = "starting" /\ UNCHANGED <<phase, controlVars>>
      BY <1>16 DEF Spawn
    <3> QED
      BY <1>2, <1>8, <3>1, <3>2 DEF ConnFields
  <2> QED
    BY <1>5, <1>7, <2>1 DEF HasRevision, Admitted
<1>17. CASE Ready(c)
  <2>1. frame /\ keeps /\ conn.pc = "waiting" /\ next.got = conn.got
    BY <1>2, <1>8, <1>17 DEF Ready, Settle, ConnFields
  <2> QED
    BY <1>5, <1>7, <2>1 DEF HasRevision, Admitted
<1>18. CASE Unmap(c)
  <2>1. frame /\ (next = Idle \/ (keeps /\ next.pc = "unmapped"))
    BY <1>2, <1>8, <1>18 DEF Unmap, Step, Settle, ConnFields
  <2> QED
    BY <1>6, <1>7, <2>1 DEF HasRevision, Admitted
<1>19. CASE Retire(c)
  <2>1. frame /\ (next = Idle \/ (keeps /\ next.pc = "stopping"))
    <3>1. UNCHANGED <<phase, controlVars>>
      BY <1>19 DEF Retire
    <3>2. \/ conns' = [conns EXCEPT ![c] = Idle]
          \/ \E pid : conns' = [conns EXCEPT ![c].pc = "stopping", ![c].pid = pid]
      BY <1>19 DEF Retire, Settle
    <3> QED
      BY <1>2, <1>8, <3>1, <3>2 DEF ConnFields
  <2> QED
    BY <1>6, <1>7, <2>1 DEF HasRevision, Admitted
<1> QED
  BY <1>9, <1>10, <1>11, <1>12, <1>13, <1>14, <1>15, <1>16, <1>17, <1>18, <1>19 DEF Proceed

-----------------------------------------------------------------------------
(***************************************************************************)
(* Steps of the control plane.                                             *)
(***************************************************************************)

\* The services after a call: each is as late as it was, or new under a later uid.
Advanced(before, after, top) ==
  \A n \in DOMAIN after :
    \/ n \in DOMAIN before /\ Later(after[n].born, before[n].born)
    \/ after[n].born[1] > top

LEMMA StillSeen ==
  ASSUME NEW top \in Nat, NEW st, StateInv(st, top), NEW top2 \in Nat, NEW st2, StateInv(st2, top2),
         top =< top2, Advanced(st.services, st2.services, top),
         NEW conn, SeenInv(conn, st.services, top)
  PROVE  SeenInv(conn, st2.services, top2)
<1>1. SUFFICES ASSUME conn.pc \in Admitted
               PROVE  /\ conn.seen.born[1] \in 1..top2
                      /\ conn.seen.born[2] \in Nat
                      /\ conn.service \in DOMAIN st2.services =>
                           Later(st2.services[conn.service].born, conn.seen.born)
  BY DEF SeenInv
<1> DEFINE n == conn.service
           seen == conn.seen.born
<1>2. seen[1] \in 1..top /\ seen[2] \in Nat /\ (n \in DOMAIN st.services => Later(st.services[n].born, seen))
  BY <1>1 DEF SeenInv
<1>3. ASSUME n \in DOMAIN st2.services
      PROVE  Later(st2.services[n].born, seen)
  <2> DEFINE now == st2.services[n].born
  <2>1. now[1] \in Nat /\ now[2] \in Nat
    <3>1. IsService(st2.services[n], top2)
      BY <1>3 DEF StateInv
    <3>2. MaxGeneration \in Nat
      BY ConstantsAssumption
    <3> QED
      BY <3>1, <3>2 DEF IsService
  <2>2. CASE n \in DOMAIN st.services /\ Later(now, st.services[n].born)
    <3> DEFINE was == st.services[n].born
    <3>1. was[1] \in Nat /\ was[2] \in Nat
      <4>1. IsService(st.services[n], top)
        BY <2>2 DEF StateInv
      <4>2. MaxGeneration \in Nat
        BY ConstantsAssumption
      <4> QED
        BY <4>1, <4>2 DEF IsService
    <3>2. Later(now, was) /\ Later(was, seen) /\ seen[1] \in Nat /\ seen[2] \in Nat
      BY <1>2, <2>2
    <3> HIDE DEF now, was, seen
    <3>3. Later(now, seen)
      BY <2>1, <3>1, <3>2 DEF Later
    <3> QED
      BY <3>3 DEF now, seen
  <2>3. CASE now[1] > top
    <3> HIDE DEF now, seen
    <3>1. Later(now, seen)
      BY <1>2, <2>1, <2>3 DEF Later
    <3> QED
      BY <3>1 DEF now, seen
  <2> QED
    BY <1>3, <2>2, <2>3 DEF Advanced
<1>4. seen[1] \in 1..top2
  <2> HIDE DEF seen
  <2> QED
    BY <1>2
<1> QED
  BY <1>2, <1>3, <1>4

\* The connections when memory is lost.
LEMMA NobodyConnected ==
  ASSUME conns' = [c \in Conns |-> Idle]
  PROVE  /\ conns' = [c \in Conns |-> conns'[c]]
         /\ \A c \in Conns : \A services, top : SeenInv(conns'[c], services, top)
  BY IdleSees

LEMMA SameServices ==
  ASSUME NEW top \in Nat, NEW st, StateInv(st, top)
  PROVE  Advanced(st.services, st.services, top)
<1>1. \A service : IsService(service, top) => Later(service.born, service.born)
  BY ConstantsAssumption DEF IsService, Later
<1> QED
  BY <1>1 DEF StateInv, Advanced

LEMMA Committed ==
  ASSUME AnswersInv, phase = "up", NEW outcome \in Outcomes, NEW next, Commit(outcome, next),
         StateInv(next, uids'), Advanced(state.services, next.services, uids),
         uids' = uids \/ uids' = uids + 1,
         outcome = "killed" => conns' = [c \in Conns |-> Idle],
         outcome # "killed" => /\ conns' = [c \in Conns |-> conns'[c]]
                               /\ \A c \in Conns : conns'[c] = conns[c]
                                    \/ (outcome = "saved" /\ SeenInv(conns'[c], next.services, uids'))
  PROVE  AnswersInv'
<1> USE DEF AnswersInv
<1>1. uids' \in Nat /\ uids =< uids'
  OBVIOUS
<1>2. StateInv(state, uids') /\ StateInv(disk, uids')
  BY MoreUids
<1>3. Advanced(state.services, state.services, uids)
  BY SameServices
<1>4. \A c \in Conns : /\ SeenInv(conns[c], next.services, uids')
                       /\ SeenInv(conns[c], state.services, uids')
  BY <1>1, <1>2, <1>3, StillSeen
<1>5. StateInv(EmptyState, uids')
  BY NothingStored
<1>6. CASE outcome = "saved"
  BY <1>1, <1>2, <1>4, <1>6 DEF Commit, SavedFirst
<1>7. CASE outcome = "failed"
  BY <1>1, <1>2, <1>4, <1>7 DEF Commit, SavedFirst
<1>8. CASE outcome = "killed"
  BY <1>1, <1>2, <1>5, <1>8, NobodyConnected DEF Commit, SavedFirst
<1> QED
  BY <1>6, <1>7, <1>8 DEF Outcomes

LEMMA Finished ==
  ASSUME AnswersInv, NEW outcome, Finish(outcome)
  PROVE  /\ outcome = "killed" => conns' = [c \in Conns |-> Idle]
         /\ outcome # "killed" => conns' = [c \in Conns |-> conns'[c]] /\ \A c \in Conns : conns'[c] = conns[c]
  BY DEF Finish, LoseMemory, AnswersInv

LEMMA ManageSound ==
  ASSUME AnswersInv, NEW n \in Services, NEW outcome \in Outcomes, Manage(n, outcome)
  PROVE  AnswersInv'
<1>0. uids \in Nat /\ StateInv(state, uids)
  BY DEF AnswersInv
<1>1. CASE \E input \in Inputs : CreateService(n, input, outcome)
  <2>1. PICK input \in Inputs : CreateService(n, input, outcome)
    BY <1>1
  <2> DEFINE service == NewService(input, uids + 1)
             next == RolledOut(state, n, service)
  <2>2. /\ phase = "up" /\ uids' = uids + 1 /\ n \notin DOMAIN state.services
        /\ Commit(outcome, next) /\ Finish(outcome)
    BY <2>1 DEF CreateService
  <2>3. service = [f \in ServiceFields |-> service[f]] /\ service.uid = uids + 1
    BY DEF NewService, ServiceFields
  <2>4. StateInv(state, uids + 1) /\ uids + 1 \in Nat /\ uids + 1 \in 1..(uids + 1)
    BY <1>0, MoreUids
  <2> HIDE DEF service
  <2>5. /\ StateInv(next, uids + 1)
        /\ next.services[n].born[1] = uids + 1
        /\ \A k \in DOMAIN next.services : k # n => k \in DOMAIN state.services /\ next.services[k] = state.services[k]
    BY <2>2, <2>3, <2>4, RollOut
  <2> HIDE DEF next
  <2>6. Advanced(state.services, next.services, uids)
    BY <1>0, <2>5, SameServices DEF Advanced
  <2> QED
    BY <2>2, <2>5, <2>6, Finished, Committed
<1>2. CASE \E input \in Inputs, mask \in Masks, etag \in Etags : UpdateService(n, input, mask, etag, outcome)
  <2>1. PICK input \in Inputs, mask \in Masks, etag \in Etags : UpdateService(n, input, mask, etag, outcome)
    BY <1>2
  <2> DEFINE previous == state.services[n]
             service == Masked(previous, input, mask)
             next == RolledOut(state, n, service)
  <2>2. /\ phase = "up" /\ uids' = uids /\ n \in DOMAIN state.services
        /\ previous.generation < MaxGeneration
        /\ Commit(outcome, next) /\ Finish(outcome)
    BY <2>1 DEF UpdateService
  <2>3. IsService(previous, uids)
    BY <1>0, <2>2 DEF StateInv
  <2>4. service = [f \in ServiceFields |-> service[f]] /\ service.uid = previous.uid
    <3> DEFINE replaced == IF mask = None THEN {f \in Fields : input[f] # None} ELSE mask
    <3>1. "uid" \notin replaced
      BY ConstantsAssumption DEF Fields
    <3>2. service = [f \in DOMAIN previous |-> IF f \in replaced THEN input[f] ELSE previous[f]]
      BY DEF Masked
    <3>3. DOMAIN previous = ServiceFields
      BY <2>3 DEF IsService
    <3> HIDE DEF service, replaced, previous
    <3>4. DOMAIN service = ServiceFields /\ service.uid = previous.uid
      BY <3>1, <3>2, <3>3 DEF ServiceFields
    <3> QED
      BY <3>2, <3>3, <3>4
  <2>5. previous.uid \in 1..uids
    BY <2>3 DEF IsService
  <2> HIDE DEF service
  <2>6. /\ StateInv(next, uids)
        /\ Later(next.services[n].born, state.services[n].born)
        /\ \A k \in DOMAIN next.services : k # n => k \in DOMAIN state.services /\ next.services[k] = state.services[k]
    BY <1>0, <2>2, <2>4, <2>5, RollOut
  <2> HIDE DEF next
  <2>7. Advanced(state.services, next.services, uids)
    BY <1>0, <2>2, <2>6, SameServices DEF Advanced
  <2> QED
    BY <2>2, <2>6, <2>7, Finished, Committed
<1>3. CASE \E c \in Conns, etag \in Etags : DeleteService(c, n, etag, outcome)
  <2>1. PICK c \in Conns, etag \in Etags : DeleteService(c, n, etag, outcome)
    BY <1>3
  <2> DEFINE next == Removed(state, n)
  <2>2. phase = "up" /\ uids' = uids /\ Commit(outcome, next)
    BY <2>1 DEF DeleteService
  <2>3. /\ StateInv(next, uids)
        /\ \A k \in DOMAIN next.services : k \in DOMAIN state.services /\ next.services[k] = state.services[k]
    BY <1>0, RemoveService
  <2> HIDE DEF next
  <2>4. Advanced(state.services, next.services, uids)
    BY <1>0, <2>3, SameServices DEF Advanced
  <2>5. outcome = "killed" => conns' = [d \in Conns |-> Idle]
    BY <2>1 DEF DeleteService, LoseMemory
  <2>6. CASE outcome = "failed"
    <3>1. conns' = [d \in Conns |-> conns'[d]] /\ \A d \in Conns : conns'[d] = conns[d]
      BY <2>1, <2>6 DEF DeleteService, AnswersInv
    <3> QED
      BY <2>2, <2>3, <2>4, <2>5, <3>1, Committed
  <2>7. CASE outcome = "saved"
    <3> DEFINE deleted == [Idle EXCEPT !.pc = "deleted", !.service = n]
    <3>1. SeenInv(deleted, next.services, uids)
      BY DEF SeenInv, Idle, ConnFields, Admitted, HasRevision
    <3>2. conns' = [conns EXCEPT ![c] = deleted]
      BY <2>1, <2>7 DEF DeleteService
    <3> HIDE DEF deleted
    <3>3. /\ conns' = [d \in Conns |-> conns'[d]]
          /\ \A d \in Conns : conns'[d] = conns[d] \/ SeenInv(conns'[d], next.services, uids)
      BY <3>1, <3>2 DEF AnswersInv
    <3> QED
      BY <2>2, <2>3, <2>4, <2>5, <2>7, <3>3, Committed
  <2>8. CASE outcome = "killed"
    BY <2>2, <2>3, <2>4, <2>5, <2>8, Committed
  <2> QED
    BY <2>6, <2>7, <2>8 DEF Outcomes
<1>4. CASE \E r \in state.revisions : DeleteRevision(n, r, outcome)
  <2>1. PICK r \in state.revisions : DeleteRevision(n, r, outcome)
    BY <1>4
  <2> DEFINE next == [state EXCEPT !.revisions = @ \ {r}]
  <2>2. /\ phase = "up" /\ uids' = uids /\ Commit(outcome, next) /\ Finish(outcome)
        /\ n \in DOMAIN state.services /\ r.service = n /\ Deletable(state.services[n], r.id)
    BY <2>1 DEF DeleteRevision
  <2>3. StateInv(next, uids) /\ next.services = state.services
    BY <1>0, <2>2, RemoveRevision
  <2> HIDE DEF next
  <2> QED
    BY <1>0, <2>2, <2>3, SameServices, Finished, Committed
<1>5. CASE \E members \in Members : SetIamPolicy(n, members, outcome)
  <2>1. PICK members \in Members : SetIamPolicy(n, members, outcome)
    BY <1>5
  <2> DEFINE next == [state EXCEPT !.policies = With(@, n, members)]
  <2>2. /\ phase = "up" /\ uids' = uids /\ Commit(outcome, next) /\ Finish(outcome)
        /\ n \in DOMAIN state.services
    BY <2>1 DEF SetIamPolicy
  <2>3. StateInv(next, uids) /\ next.services = state.services
    BY <1>0, <2>2, StorePolicy
  <2> HIDE DEF next
  <2> QED
    BY <1>0, <2>2, <2>3, SameServices, Finished, Committed
<1> QED
  BY <1>1, <1>2, <1>3, <1>4, <1>5 DEF Manage

-----------------------------------------------------------------------------
(***************************************************************************)
(* The invariant holds.                                                    *)
(***************************************************************************)

LEMMA AnswersInit == Init => AnswersInv
  BY NothingStored, IdleSees DEF Init, AnswersInv, SavedFirst

LEMMA AdmitSound ==
  ASSUME AnswersInv, NEW c \in Conns, NEW n \in Services, NEW token, Admit(c, n, token)
  PROVE  AnswersInv'
<1> DEFINE conn == [Idle EXCEPT !.pc = "admitted", !.service = n, !.token = token, !.seen = Launch(n)]
<1>1. UNCHANGED <<phase, state, disk, uids>> /\ conns' = [conns EXCEPT ![c] = conn] /\ n \in DOMAIN state.services
  BY DEF Admit, Step, Settle, Current, controlVars
<1>2. /\ conn = [f \in ConnFields |-> conn[f]] /\ conn.pc = "admitted" /\ conn.service = n
      /\ conn.seen.born = state.services[n].born
  BY DEF Idle, ConnFields, Launch
<1> HIDE DEF conn
<1>3. IsService(state.services[n], uids)
  BY <1>1 DEF AnswersInv, StateInv
<1>4. LET born == state.services[n].born IN born[1] \in 1..uids /\ born[2] \in Nat /\ Later(born, born)
  BY <1>3, ConstantsAssumption DEF IsService, Later, AnswersInv
<1>5. SeenInv(conn, state.services, uids)
  BY <1>2, <1>4 DEF SeenInv, Admitted, HasRevision
<1> QED
  BY <1>1, <1>5 DEF AnswersInv, SavedFirst

LEMMA AnswersStep ==
  ASSUME AnswersInv, [Next]_vars
  PROVE  AnswersInv'
<1>1. CASE \E c \in Conns : Proceed(c)
  <2>1. PICK c \in Conns : Proceed(c)
    BY <1>1
  <2>2. Proceeds(c)
    BY <2>1, ProceedSees
  <2> QED
    BY <2>2 DEF AnswersInv, Proceeds, SavedFirst
<1>2. CASE \E c \in Conns, n \in Services, token \in Tokens : Admit(c, n, token)
  BY <1>2, AdmitSound
<1>3. CASE \E n \in Services, outcome \in Outcomes : Manage(n, outcome)
  BY <1>3, ManageSound
<1>4. CASE \E pid \in Pids : ProcessExits(pid) \/ EndRemoval(pid)
  <2>1. UNCHANGED <<phase, state, disk, uids, conns>>
    BY <1>4 DEF ProcessExits, EndRemoval, controlVars
  <2> QED
    BY <2>1 DEF AnswersInv, SavedFirst
<1>5. CASE Abort
  <2>1. UNCHANGED <<state, disk, uids>> /\ phase' = "aborted" /\ conns' = [c \in Conns |-> Idle]
    BY <1>5 DEF Abort, Settle, controlVars
  <2> QED
    BY <2>1, NobodyConnected DEF AnswersInv, SavedFirst
<1>6. CASE StopAll
  <2>1. UNCHANGED <<state, disk, uids>> /\ phase' = "down" /\ conns' = conns
    BY <1>6 DEF StopAll, Settle, controlVars
  <2> QED
    BY <2>1 DEF AnswersInv, SavedFirst
<1>7. CASE Crash
  <2>1. UNCHANGED <<disk, uids>> /\ phase' = "down" /\ state' = EmptyState /\ conns' = [c \in Conns |-> Idle]
    BY <1>7 DEF Crash, LoseMemory
  <2> QED
    BY <2>1, NobodyConnected, NothingStored DEF AnswersInv, SavedFirst
<1>8. CASE Restart
  <2>1. UNCHANGED <<disk, uids>> /\ phase' = "up" /\ state' = disk /\ conns' = [c \in Conns |-> Idle]
    BY <1>8 DEF Restart, LoseMemory
  <2> QED
    BY <2>1, NobodyConnected DEF AnswersInv, SavedFirst
<1>9. CASE UNCHANGED vars
  BY <1>9 DEF vars, controlVars, AnswersInv, SavedFirst
<1> QED
  BY <1>1, <1>2, <1>3, <1>4, <1>5, <1>6, <1>7, <1>8, <1>9 DEF Next

\* The server's resources, its file and what requests hold are in step at every moment
\* (server.rs: apply, persist and the handlers; instances.rs: ensure).
THEOREM AnswersInvariant == Spec => []AnswersInv
  BY AnswersInit, AnswersStep, PTL DEF Spec

LEMMA AnswersImplied == AnswersInv => AnswersStand
<1> SUFFICES ASSUME AnswersInv PROVE AnswersStand
  OBVIOUS
<1>1. ResourcesMatch
  BY DEF AnswersInv, StateInv, Matched, ResourcesMatch
<1>2. AnswersAreCurrent
  BY DEF AnswersInv, SeenInv, AnswersAreCurrent, HasRevision
<1> QED
  BY <1>1, <1>2 DEF AnswersInv, AnswersStand

\* Whatever the control plane is asked meanwhile, a request is answered by a revision that
\* was current when it arrived or a later one; a service's latest revision exists and
\* launches its template, nothing of a deleted service is left for its successor, and what
\* was answered is what a restart finds (server.rs: roll_out, apply; instances.rs: ensure).
THEOREM AnswersAreRight == Spec => []AnswersStand
  BY AnswersInvariant, AnswersImplied, PTL


-----------------------------------------------------------------------------
(***************************************************************************)
(* The invariant of the instance manager.                                  *)
(***************************************************************************)

\* What a connection does with the slot it refers to.
WithLock == {"replacing", "starting", "waiting", "stopping"}
Queued == WithLock \cup {"locking", "retiring"}
Slotted == Queued \cup {"holding", "unmapped", "discarding"}
Owning == {"replacing", "waiting", "stopping"}
Launching == {"replacing", "starting", "waiting"}
Working == Slotted \cup {"admitted", "answered", "deleted"}

\* A connection has a slot, a process and a port exactly while its request needs them.
IsConn(conn) ==
  /\ conn = [f \in ConnFields |-> conn[f]]
  /\ conn.pc \in Working \cup {"idle"}
  /\ conn.pc = "idle" => conn = Idle
  /\ conn.pc \in Working => conn.service \in Services
  /\ IF conn.pc \in Slotted THEN conn.slot \in SlotIds ELSE conn.slot = None
  /\ IF conn.pc \in Owning THEN conn.pid \in Pids ELSE conn.pid = None
  /\ IF conn.pc = "waiting" THEN conn.port \in Ports ELSE conn.port = None
  /\ conn.pc \in Launching => conn.got.spec.service = conn.service

ConnInv(cs) == cs = [c \in Conns |-> cs[c]] /\ \A c \in Conns : IsConn(cs[c])

\* What a slot has.
IsSlot(slot) ==
  /\ slot = [f \in {"instance", "retired", "queue"} |-> slot[f]]
  /\ slot.queue \in Seq(Conns)
  /\ slot.instance # NoInstance => slot.instance.pid \in Pids /\ slot.instance.port \in Ports

SlotInv(s) == s = [i \in SlotIds |-> s[i]] /\ \A i \in SlotIds : IsSlot(s[i])

\* The queue of a lock holds those who wait for it or have it, once each, and who works
\* with the lock is its head and has taken the instance out.
LockInv(s, cs) ==
  /\ \A i \in SlotIds : \A j, k \in DOMAIN s[i].queue : s[i].queue[j] = s[i].queue[k] => j = k
  /\ \A i \in SlotIds : \A j \in DOMAIN s[i].queue :
       cs[s[i].queue[j]].slot = i /\ cs[s[i].queue[j]].pc \in Queued
  /\ \A c \in Conns : cs[c].pc \in Queued =>
       \E j \in DOMAIN s[cs[c].slot].queue : s[cs[c].slot].queue[j] = c
  /\ \A c \in Conns : cs[c].pc \in WithLock =>
       Head(s[cs[c].slot].queue) = c /\ s[cs[c].slot].instance = NoInstance

\* A slot, who refers to it and its instance are of one service.
Belongs(owner, m, s, cs) ==
  /\ \A n \in Services : m[n] # None => owner[m[n]] = n
  /\ \A c \in Conns : cs[c].slot # None => owner[cs[c].slot] = cs[c].service
  /\ \A i \in SlotIds : s[i].instance # NoInstance => owner[i] = s[i].instance.got.spec.service

AffinityInv(m, s, cs) ==
  /\ m \in [Services -> SlotIds \cup {None}]
  /\ \E owner \in [SlotIds -> Services \cup {None}] : Belongs(owner, m, s, cs)

\* What slots and connections hold: a process, its port while it is reserved, the service it
\* runs for, and whether it has been seen to listen.
Nothing == [pid |-> None, port |-> None, service |-> None, stage |-> "ready"]

SlotHolds(slot) ==
  IF slot.instance = NoInstance THEN Nothing
  ELSE [pid |-> slot.instance.pid, port |-> slot.instance.port,
        service |-> slot.instance.got.spec.service, stage |-> "ready"]

ConnHolds(conn) ==
  IF conn.pid = None THEN Nothing
  ELSE [pid |-> conn.pid, port |-> conn.port, service |-> conn.service,
        stage |-> IF conn.pc = "waiting" THEN "starting" ELSE "ready"]

Holders == ({"slot"} \X SlotIds) \cup ({"conn"} \X Conns)

Held(s, cs) == [h \in Holders |-> IF h[1] = "slot" THEN SlotHolds(s[h[2]]) ELSE ConnHolds(cs[h[2]])]

IsHeld(x) ==
  \/ x = Nothing
  \/ x.pid \in Pids /\ (x.port \in Ports \/ (x.port = None /\ x.stage = "ready"))

\* A process and a reserved port have one holder; no process has a port that is reserved
\* for another.
ProcessInv(hold, run, prt) ==
  /\ \A h \in Holders : IsHeld(hold[h])
  /\ \A h, k \in Holders : hold[h].pid = hold[k].pid /\ hold[h].pid # None => h = k
  /\ \A h, k \in Holders : hold[h].port = hold[k].port /\ hold[h].port # None => h = k
  /\ \A h \in Holders : hold[h].port # None =>
       hold[h].port \in prt /\ \A p \in DOMAIN run : run[p].port = hold[h].port => p = hold[h].pid
  /\ \A p \in DOMAIN run : \E h \in Holders : hold[h].pid = p
  /\ \A h \in Holders : hold[h].pid \in DOMAIN run =>
       /\ run[hold[h].pid].service = hold[h].service
       /\ hold[h].port # None => run[hold[h].pid].port = hold[h].port
       /\ hold[h].stage = "ready" => run[hold[h].pid].listening = TRUE
  /\ \A p, q \in DOMAIN run : run[p].port = run[q].port => p = q

\* A container is that of a process somebody holds, or a thread is removing it.
ContainerInv(hold, existing, removing) ==
  /\ removing \subseteq existing
  /\ existing \subseteq Pids
  /\ \A p \in existing : p \in removing \/ \E h \in Holders : hold[h].pid = p
  /\ \A h \in Holders : hold[h].pid \notin removing

IsProcess(x) == x = [f \in {"service", "uid", "port", "listening"} |-> x[f]]

HoldInv(hold, run, prt, existing, removing) ==
  /\ run = [p \in DOMAIN run |-> run[p]]
  /\ \A p \in DOMAIN run : IsProcess(run[p])
  /\ DOMAIN run \subseteq Pids
  /\ prt \subseteq Ports
  /\ ProcessInv(hold, run, prt)
  /\ ContainerInv(hold, existing, removing)

ManagerInv(m, s, cs, run, prt, existing, removing) ==
  /\ ConnInv(cs)
  /\ SlotInv(s)
  /\ LockInv(s, cs)
  /\ AffinityInv(m, s, cs)
  /\ HoldInv(Held(s, cs), run, prt, existing, removing)

\* The slot of a service that is gone is empty, or its deleter is on the way.
InUse(m, s, cs, n) ==
  /\ m[n] # None
  /\ s[m[n]].instance # NoInstance \/ \E c \in Conns : cs[c].slot = m[n] /\ cs[c].pc \in Launching

GoneInv(m, s, cs, services) ==
  \A n \in Services \ services : InUse(m, s, cs, n) =>
    \E d \in Conns : cs[d].pc = "deleted" /\ cs[d].service = n

Unused(m, s, cs) == \A i \in SlotIds : ~Referenced(i, m, cs) => s[i] = EmptySlot

InstancesInv ==
  /\ phase \in {"up", "aborted", "down"}
  /\ uids =< MaxUids
  /\ ManagerInv(map, slots, conns, live, ports, containers, removals)
  /\ Unused(map, slots, conns)
  /\ phase = "up" => GoneInv(map, slots, conns, DOMAIN state.services)
  /\ phase # "up" => conns = [c \in Conns |-> Idle]
  /\ phase = "down" => live = Empty /\ containers = {}

-----------------------------------------------------------------------------
(***************************************************************************)
(* Taking up, handing over and letting go.                                 *)
(***************************************************************************)

\* Guards kill what the holders in G hold, and hand some of the containers to threads; the
\* reservations of ports that go, if any, are theirs.
LEMMA LettingGo ==
  ASSUME NEW hold, NEW run, NEW prt, NEW existing, NEW removing,
         HoldInv(hold, run, prt, existing, removing),
         NEW G \in SUBSET Holders, NEW hold2,
         \A h \in Holders : hold2[h] = IF h \in G THEN Nothing ELSE hold[h],
         NEW P, \A p : p \in P <=> p # None /\ \E h \in G : hold[h].pid = p,
         NEW run2, run2 = Without(run, P),
         NEW prt2 \in SUBSET prt, \A h \in Holders \ G : hold[h].port # None => hold[h].port \in prt2,
         NEW existing2 \in SUBSET existing, NEW removing2,
         existing \ existing2 \subseteq P, removing2 \subseteq existing2,
         removing \subseteq removing2, removing2 \subseteq removing \cup P,
         P \cap existing2 \subseteq removing2
  PROVE  HoldInv(hold2, run2, prt2, existing2, removing2)
<1>1. /\ DOMAIN run2 = DOMAIN run \ P
      /\ run2 = [p \in DOMAIN run2 |-> run2[p]]
      /\ \A p \in DOMAIN run2 : run2[p] = run[p]
  BY DEF Without, Restrict
<1>2. Nothing.pid = None /\ Nothing.port = None
  BY DEF Nothing
<1>3. \A h \in Holders : hold2[h].pid # None => h \notin G /\ hold2[h] = hold[h] /\ hold[h].pid \notin P
  BY <1>2 DEF HoldInv, ProcessInv
<1>4. \A h \in Holders : hold2[h].port # None => h \notin G /\ hold2[h] = hold[h]
  BY <1>2
<1>5. None \notin Pids /\ DOMAIN run \subseteq Pids
  BY ConstantsAssumption DEF HoldInv
<1>6. ProcessInv(hold2, run2, prt2)
  <2>1. \A h \in Holders : IsHeld(hold2[h])
    BY DEF HoldInv, ProcessInv, IsHeld
  <2>2. \A h, k \in Holders : hold2[h].pid = hold2[k].pid /\ hold2[h].pid # None => h = k
    BY <1>3 DEF HoldInv, ProcessInv
  <2>3. \A h, k \in Holders : hold2[h].port = hold2[k].port /\ hold2[h].port # None => h = k
    BY <1>4 DEF HoldInv, ProcessInv
  <2>4. \A h \in Holders : hold2[h].port # None =>
          hold2[h].port \in prt2 /\ \A p \in DOMAIN run2 : run2[p].port = hold2[h].port => p = hold2[h].pid
    BY <1>1, <1>4 DEF HoldInv, ProcessInv
  <2>5. \A p \in DOMAIN run2 : \E h \in Holders : hold2[h].pid = p
    BY <1>1, <1>5 DEF HoldInv, ProcessInv
  <2>6. \A h \in Holders : hold2[h].pid \in DOMAIN run2 =>
          /\ run2[hold2[h].pid].service = hold2[h].service
          /\ hold2[h].port # None => run2[hold2[h].pid].port = hold2[h].port
          /\ hold2[h].stage = "ready" => run2[hold2[h].pid].listening = TRUE
    BY <1>1, <1>3, <1>5 DEF HoldInv, ProcessInv
  <2>7. \A p, q \in DOMAIN run2 : run2[p].port = run2[q].port => p = q
    BY <1>1 DEF HoldInv, ProcessInv
  <2> QED
    BY <2>1, <2>2, <2>3, <2>4, <2>5, <2>6, <2>7 DEF ProcessInv
<1>7. ContainerInv(hold2, existing2, removing2)
  <2>1. \A p \in existing2 : p \in removing2 \/ \E h \in Holders : hold2[h].pid = p
    BY <1>5 DEF HoldInv, ContainerInv
  <2>2. \A h \in Holders : hold2[h].pid \notin removing2
    <3> SUFFICES ASSUME NEW h \in Holders, hold2[h].pid \in removing2 PROVE FALSE
      OBVIOUS
    <3>1. hold2[h].pid # None
      BY <1>5 DEF HoldInv, ContainerInv
    <3> QED
      BY <1>3, <3>1 DEF HoldInv, ContainerInv
  <2>3. existing2 \subseteq Pids
    BY DEF HoldInv, ContainerInv
  <2> QED
    BY <2>1, <2>2, <2>3 DEF ContainerInv
<1> QED
  BY <1>1, <1>5, <1>6, <1>7 DEF HoldInv

\* A process that is new, on a port that nobody reserved or listens on.
IsNew(pid, port, hold, run, prt, existing) ==
  /\ pid \in Pids /\ pid \notin DOMAIN run /\ pid \notin existing
  /\ \A k \in Holders : hold[k].pid # pid
  /\ port \in Ports /\ port \notin prt
  /\ \A p \in DOMAIN run : run[p].listening = TRUE => run[p].port # port

TakesUp(h, hold, hold2, pid, process) ==
  /\ h \in Holders /\ hold[h] = Nothing /\ IsProcess(process)
  /\ \A k \in Holders : k # h => hold2[k] = hold[k]
  /\ hold2[h].pid = pid /\ hold2[h].port = process.port /\ hold2[h].service = process.service
  /\ hold2[h].stage = "starting"

\* A start takes it up.
LEMMA TakenUp ==
  ASSUME NEW hold, NEW run, NEW prt, NEW existing, NEW removing,
         HoldInv(hold, run, prt, existing, removing),
         NEW pid, NEW process, IsNew(pid, process.port, hold, run, prt, existing),
         NEW h, NEW hold2, TakesUp(h, hold, hold2, pid, process),
         NEW run2, run2 = With(run, pid, process), NEW prt2, prt2 = prt \cup {process.port},
         NEW existing2, existing2 = existing \/ existing2 = existing \cup {pid}
  PROVE  HoldInv(hold2, run2, prt2, existing2, removing)
<1> DEFINE port == process.port
<1> USE DEF IsNew, TakesUp
<1>1. /\ DOMAIN run2 = DOMAIN run \cup {pid}
      /\ \A p \in DOMAIN run : run2[p] = run[p]
      /\ run2[pid] = process
  BY DEF With
<1>0. IsProcess(run2[pid]) /\ run2 = [p \in DOMAIN run2 |-> run2[p]]
  BY DEF With
<1>2. None \notin Pids /\ None \notin Ports
  BY ConstantsAssumption
<1>3. \A p \in DOMAIN run : run[p].port # port
  <2> SUFFICES ASSUME NEW p \in DOMAIN run PROVE run[p].port # port
    OBVIOUS
  <2>1. PICK k \in Holders : hold[k].pid = p
    BY DEF HoldInv, ProcessInv
  <2>2. p # None
    BY <1>2 DEF HoldInv
  <2>3. hold[k].port = None => hold[k].stage = "ready"
    BY <1>2 DEF HoldInv, ProcessInv, IsHeld, Nothing
  <2> QED
    BY <2>1, <2>2, <2>3 DEF HoldInv, ProcessInv
<1>4. hold[h].pid = None /\ hold[h].port = None
  BY DEF Nothing
<1>5. hold2[h].pid = pid /\ hold2[h].port = port /\ hold2[h].service = process.service /\ hold2[h].stage # "ready"
  OBVIOUS
<1>6. \A k \in Holders : hold[k].port # port
  BY <1>2 DEF HoldInv, ProcessInv
<1>10. \A p \in DOMAIN run2 : \/ p = pid /\ run2[p].port = port
                              \/ p \in DOMAIN run /\ run2[p].port = run[p].port
  BY <1>1
<1>7. ProcessInv(hold2, run2, prt2)
  <2>1. \A k \in Holders : IsHeld(hold2[k])
    BY <1>5 DEF HoldInv, ProcessInv, IsHeld
  <2>2. \A i, k \in Holders : hold2[i].pid = hold2[k].pid /\ hold2[i].pid # None => i = k
    BY <1>5 DEF HoldInv, ProcessInv
  <2>3. \A i, k \in Holders : hold2[i].port = hold2[k].port /\ hold2[i].port # None => i = k
    BY <1>5, <1>6 DEF HoldInv, ProcessInv
  <2>4. \A k \in Holders : hold2[k].port # None =>
          hold2[k].port \in prt2 /\ \A p \in DOMAIN run2 : run2[p].port = hold2[k].port => p = hold2[k].pid
    <3>1. \A k \in Holders : hold[k].port # None =>
            hold[k].port \in prt /\ \A p \in DOMAIN run : run[p].port = hold[k].port => p = hold[k].pid
      BY DEF HoldInv, ProcessInv
    <3> QED
      <4> SUFFICES ASSUME NEW k \in Holders, hold2[k].port # None
                   PROVE  /\ hold2[k].port \in prt2
                          /\ \A p \in DOMAIN run2 : run2[p].port = hold2[k].port => p = hold2[k].pid
        OBVIOUS
      <4>1. CASE k = h
        <5>1. hold2[k].pid = pid /\ hold2[k].port = port /\ port \in prt2
          BY <1>5, <4>1
        <5>2. \A p \in DOMAIN run2 : run2[p].port = port => p = pid
          BY <1>3, <1>10
        <5> QED
          BY <5>1, <5>2
      <4>2. CASE k # h
        <5>1. hold2[k] = hold[k] /\ hold[k].port # port
          BY <1>6, <4>2
        <5>2. hold[k].port \in prt /\ \A p \in DOMAIN run : run[p].port = hold[k].port => p = hold[k].pid
          BY <3>1, <5>1
        <5>3. \A p \in DOMAIN run2 : run2[p].port = hold[k].port => p = hold[k].pid
          BY <1>10, <5>1, <5>2
        <5> QED
          BY <5>1, <5>2, <5>3
      <4> QED
        BY <4>1, <4>2
  <2>5. \A p \in DOMAIN run2 : \E k \in Holders : hold2[k].pid = p
    BY <1>1, <1>2, <1>4, <1>5 DEF HoldInv, ProcessInv
  <2>6. \A k \in Holders : hold2[k].pid \in DOMAIN run2 =>
          /\ run2[hold2[k].pid].service = hold2[k].service
          /\ hold2[k].port # None => run2[hold2[k].pid].port = hold2[k].port
          /\ hold2[k].stage = "ready" => run2[hold2[k].pid].listening = TRUE
    <3> SUFFICES ASSUME NEW k \in Holders, hold2[k].pid \in DOMAIN run2
                 PROVE  /\ run2[hold2[k].pid].service = hold2[k].service
                        /\ hold2[k].port # None => run2[hold2[k].pid].port = hold2[k].port
                        /\ hold2[k].stage = "ready" => run2[hold2[k].pid].listening = TRUE
      OBVIOUS
    <3>1. CASE k = h
      BY <1>1, <1>5, <3>1
    <3>2. CASE k # h
      <4>1. hold[k].pid \in DOMAIN run =>
              /\ run[hold[k].pid].service = hold[k].service
              /\ hold[k].port # None => run[hold[k].pid].port = hold[k].port
              /\ hold[k].stage = "ready" => run[hold[k].pid].listening = TRUE
        BY DEF HoldInv, ProcessInv
      <4>2. hold2[k] = hold[k] /\ hold[k].pid # pid
        BY <3>2
      <4>3. hold[k].pid \in DOMAIN run /\ run2[hold[k].pid] = run[hold[k].pid]
        BY <1>1, <4>2
      <4> QED
        BY <4>1, <4>2, <4>3
    <3> QED
      BY <3>1, <3>2
  <2>7. \A p, q \in DOMAIN run2 : run2[p].port = run2[q].port => p = q
    <3>1. \A p, q \in DOMAIN run : run[p].port = run[q].port => p = q
      BY DEF HoldInv, ProcessInv
    <3> QED
      <4> SUFFICES ASSUME NEW p \in DOMAIN run2, NEW q \in DOMAIN run2, run2[p].port = run2[q].port
                   PROVE  p = q
        OBVIOUS
      <4>1. CASE p = pid
        BY <1>1, <1>3, <1>10, <4>1
      <4>2. CASE q = pid
        BY <1>1, <1>3, <1>10, <4>2
      <4>3. CASE p # pid /\ q # pid
        BY <1>10, <3>1, <4>3
      <4> QED
        BY <4>1, <4>2, <4>3
  <2> QED
    BY <2>1, <2>2, <2>3, <2>4, <2>5, <2>6, <2>7 DEF ProcessInv
<1>8. ContainerInv(hold2, existing2, removing)
  <2>1. removing \subseteq existing2 /\ existing2 \subseteq Pids
    BY DEF HoldInv, ContainerInv
  <2>2. \A p \in existing2 : p \in removing \/ \E k \in Holders : hold2[k].pid = p
    <3> SUFFICES ASSUME NEW p \in existing2, p \notin removing, p # pid
                 PROVE  \E k \in Holders : hold2[k].pid = p
      BY <1>5
    <3>1. PICK k \in Holders : hold[k].pid = p
      BY DEF HoldInv, ContainerInv
    <3>2. p # None
      BY <1>2, <2>1
    <3> QED
      BY <1>4, <3>1, <3>2
  <2>3. \A k \in Holders : hold2[k].pid \notin removing
    BY <1>5 DEF HoldInv, ContainerInv
  <2> QED
    BY <2>1, <2>2, <2>3 DEF ContainerInv
<1>9. DOMAIN run2 \subseteq Pids /\ prt2 \subseteq Ports /\ \A p \in DOMAIN run2 : IsProcess(run2[p])
  BY <1>0, <1>1 DEF HoldInv
<1> QED
  BY <1>0, <1>7, <1>8, <1>9 DEF HoldInv

\* Who stops a process takes it over from the slot, and its port is given back.
LEMMA HandedOver ==
  ASSUME NEW hold, NEW run, NEW prt, NEW existing, NEW removing,
         HoldInv(hold, run, prt, existing, removing),
         NEW h \in Holders, NEW k \in Holders, h # k, hold[h].pid # None, hold[h].stage = "ready", hold[k] = Nothing,
         NEW hold2, \A i \in Holders : i # h /\ i # k => hold2[i] = hold[i], hold2[h] = Nothing,
         hold2[k] = [pid |-> hold[h].pid, port |-> None, service |-> hold[h].service, stage |-> "ready"]
  PROVE  HoldInv(hold2, run, prt \ {hold[h].port}, existing, removing)
<1> DEFINE prt2 == prt \ {hold[h].port}
<1>1. /\ hold2[h].pid = None /\ hold2[h].port = None
      /\ hold2[k].pid = hold[h].pid /\ hold2[k].port = None /\ hold2[k].service = hold[h].service
      /\ hold[k].pid = None /\ hold[k].port = None
  BY DEF Nothing
<1>2. None \notin Pids
  BY ConstantsAssumption
<1>3. ProcessInv(hold2, run, prt2)
  <2>1. \A i \in Holders : IsHeld(hold2[i])
    <3>1. hold[h].pid \in Pids
      BY <1>2 DEF HoldInv, ProcessInv, IsHeld, Nothing
    <3> QED
      BY <1>1, <3>1 DEF HoldInv, ProcessInv, IsHeld
  <2>2. \A i, j \in Holders : hold2[i].pid = hold2[j].pid /\ hold2[i].pid # None => i = j
    BY <1>1 DEF HoldInv, ProcessInv
  <2>3. \A i, j \in Holders : hold2[i].port = hold2[j].port /\ hold2[i].port # None => i = j
    BY <1>1 DEF HoldInv, ProcessInv
  <2>4. \A i \in Holders : hold2[i].port # None =>
          hold2[i].port \in prt2 /\ \A p \in DOMAIN run : run[p].port = hold2[i].port => p = hold2[i].pid
    BY <1>1 DEF HoldInv, ProcessInv
  <2>5. \A p \in DOMAIN run : \E i \in Holders : hold2[i].pid = p
    <3> SUFFICES ASSUME NEW p \in DOMAIN run PROVE \E i \in Holders : hold2[i].pid = p
      OBVIOUS
    <3>1. PICK i \in Holders : hold[i].pid = p
      BY DEF HoldInv, ProcessInv
    <3>2. p # None
      BY <1>2 DEF HoldInv
    <3> QED
      BY <1>1, <3>1, <3>2
  <2>6. \A i \in Holders : hold2[i].pid \in DOMAIN run =>
          /\ run[hold2[i].pid].service = hold2[i].service
          /\ hold2[i].port # None => run[hold2[i].pid].port = hold2[i].port
          /\ hold2[i].stage = "ready" => run[hold2[i].pid].listening = TRUE
    <3> SUFFICES ASSUME NEW i \in Holders, hold2[i].pid \in DOMAIN run
                 PROVE  /\ run[hold2[i].pid].service = hold2[i].service
                        /\ hold2[i].port # None => run[hold2[i].pid].port = hold2[i].port
                        /\ hold2[i].stage = "ready" => run[hold2[i].pid].listening = TRUE
      OBVIOUS
    <3>1. i # h
      BY <1>1, <1>2 DEF HoldInv
    <3>2. CASE i = k
      BY <1>1, <3>2 DEF HoldInv, ProcessInv
    <3>3. CASE i # k
      BY <3>1, <3>3 DEF HoldInv, ProcessInv
    <3> QED
      BY <3>2, <3>3
  <2> HIDE DEF prt2
  <2> QED
    BY <2>1, <2>2, <2>3, <2>4, <2>5, <2>6 DEF HoldInv, ProcessInv
<1>4. ContainerInv(hold2, existing, removing)
  <2>1. \A p \in existing : p \in removing \/ \E i \in Holders : hold2[i].pid = p
    <3> SUFFICES ASSUME NEW p \in existing, p \notin removing PROVE \E i \in Holders : hold2[i].pid = p
      OBVIOUS
    <3>1. PICK i \in Holders : hold[i].pid = p
      BY DEF HoldInv, ContainerInv
    <3>2. p # None
      BY <1>2 DEF HoldInv, ContainerInv
    <3> QED
      BY <1>1, <3>1, <3>2
  <2>2. \A i \in Holders : hold2[i].pid \notin removing
    BY <1>1 DEF HoldInv, ContainerInv
  <2> QED
    BY <2>1, <2>2 DEF HoldInv, ContainerInv
<1> QED
  BY <1>3, <1>4 DEF HoldInv

\* A start that succeeded leaves its process and port to the slot.
LEMMA PutIn ==
  ASSUME NEW hold, NEW run, NEW prt, NEW existing, NEW removing,
         HoldInv(hold, run, prt, existing, removing),
         NEW h \in Holders, NEW k \in Holders, h # k, hold[h].pid \in DOMAIN run, hold[k] = Nothing,
         hold[h].port # None,
         NEW hold2, \A i \in Holders : i # h /\ i # k => hold2[i] = hold[i], hold2[h] = Nothing,
         hold2[k] = [pid |-> hold[h].pid, port |-> hold[h].port, service |-> hold[h].service, stage |-> "ready"],
         NEW run2, run2 = [run EXCEPT ![hold[h].pid].listening = TRUE]
  PROVE  HoldInv(hold2, run2, prt, existing, removing)
<1> DEFINE pid == hold[h].pid
<1>1. /\ hold2[h].pid = None /\ hold2[h].port = None
      /\ hold2[k].pid = hold[h].pid /\ hold2[k].port = hold[h].port /\ hold2[k].service = hold[h].service
      /\ hold[k].pid = None /\ hold[k].port = None
  BY DEF Nothing
<1>2. None \notin Pids
  BY ConstantsAssumption
<1>3. /\ DOMAIN run2 = DOMAIN run
      /\ run2 = [p \in DOMAIN run2 |-> run2[p]]
      /\ \A p \in DOMAIN run : p # pid => run2[p] = run[p]
      /\ run2[pid] = [run[pid] EXCEPT !.listening = TRUE]
  <2> HIDE DEF pid
  <2>1. run2 = [run EXCEPT ![pid].listening = TRUE] /\ pid \in DOMAIN run /\ run = [p \in DOMAIN run |-> run[p]]
    BY DEF pid, HoldInv
  <2> QED
    BY <2>1
<1>4. /\ run2[pid].listening = TRUE /\ run2[pid].service = run[pid].service /\ run2[pid].port = run[pid].port
      /\ IsProcess(run2[pid])
  <2>1. IsProcess(run[pid])
    BY DEF HoldInv
  <2> DEFINE x == run[pid]
  <2> HIDE DEF pid, x
  <2>2. run2[pid] = [x EXCEPT !.listening = TRUE] /\ IsProcess(x)
    BY <1>3, <2>1 DEF x
  <2> DEFINE y == [x EXCEPT !.listening = TRUE]
  <2>3. /\ y.listening = TRUE /\ y.service = x.service /\ y.port = x.port
        /\ y = [f \in {"service", "uid", "port", "listening"} |-> y[f]]
    BY <2>2 DEF IsProcess
  <2>4. run2[pid] = y
    BY <2>2
  <2> HIDE DEF y
  <2>5. IsProcess(y)
    BY <2>3 DEF IsProcess
  <2> QED
    BY <2>3, <2>4, <2>5 DEF x
<1>5. \A p \in DOMAIN run : run2[p].port = run[p].port /\ run2[p].service = run[p].service
  BY <1>3, <1>4
<1>6. ProcessInv(hold2, run2, prt)
  <2>1. \A i \in Holders : IsHeld(hold2[i])
    <3>1. hold[h].pid \in Pids /\ hold[h].port \in Ports
      BY <1>2 DEF HoldInv, ProcessInv, IsHeld, Nothing
    <3> QED
      BY <1>1, <3>1 DEF HoldInv, ProcessInv, IsHeld
  <2>2. \A i, j \in Holders : hold2[i].pid = hold2[j].pid /\ hold2[i].pid # None => i = j
    BY <1>1 DEF HoldInv, ProcessInv
  <2>3. \A i, j \in Holders : hold2[i].port = hold2[j].port /\ hold2[i].port # None => i = j
    BY <1>1 DEF HoldInv, ProcessInv
  <2>4. \A i \in Holders : hold2[i].port # None =>
          hold2[i].port \in prt /\ \A p \in DOMAIN run2 : run2[p].port = hold2[i].port => p = hold2[i].pid
    BY <1>1, <1>3, <1>5 DEF HoldInv, ProcessInv
  <2>5. \A p \in DOMAIN run2 : \E i \in Holders : hold2[i].pid = p
    <3> SUFFICES ASSUME NEW p \in DOMAIN run PROVE \E i \in Holders : hold2[i].pid = p
      BY <1>3
    <3>1. PICK i \in Holders : hold[i].pid = p
      BY DEF HoldInv, ProcessInv
    <3>2. p # None
      BY <1>2 DEF HoldInv
    <3> QED
      BY <1>1, <3>1, <3>2
  <2>6. \A i \in Holders : hold2[i].pid \in DOMAIN run2 =>
          /\ run2[hold2[i].pid].service = hold2[i].service
          /\ hold2[i].port # None => run2[hold2[i].pid].port = hold2[i].port
          /\ hold2[i].stage = "ready" => run2[hold2[i].pid].listening = TRUE
    <3> SUFFICES ASSUME NEW i \in Holders, hold2[i].pid \in DOMAIN run
                 PROVE  /\ run2[hold2[i].pid].service = hold2[i].service
                        /\ hold2[i].port # None => run2[hold2[i].pid].port = hold2[i].port
                        /\ hold2[i].stage = "ready" => run2[hold2[i].pid].listening = TRUE
      BY <1>3
    <3>1. i # h
      BY <1>1, <1>2 DEF HoldInv
    <3>2. CASE i = k
      BY <1>1, <1>4, <3>2 DEF HoldInv, ProcessInv
    <3>3. CASE i # k
      <4>1. hold2[i] = hold[i] /\ hold[i].pid # pid
        BY <3>1, <3>3, <1>2 DEF HoldInv, ProcessInv
      <4> QED
        BY <1>3, <4>1 DEF HoldInv, ProcessInv
    <3> QED
      BY <3>2, <3>3
  <2>7. \A p, q \in DOMAIN run2 : run2[p].port = run2[q].port => p = q
    BY <1>3, <1>5 DEF HoldInv, ProcessInv
  <2> QED
    BY <2>1, <2>2, <2>3, <2>4, <2>5, <2>6, <2>7 DEF ProcessInv
<1>7. ContainerInv(hold2, existing, removing)
  <2>1. \A p \in existing : p \in removing \/ \E i \in Holders : hold2[i].pid = p
    <3> SUFFICES ASSUME NEW p \in existing, p \notin removing PROVE \E i \in Holders : hold2[i].pid = p
      OBVIOUS
    <3>1. PICK i \in Holders : hold[i].pid = p
      BY DEF HoldInv, ContainerInv
    <3>2. p # None
      BY <1>2 DEF HoldInv, ContainerInv
    <3> QED
      BY <1>1, <3>1, <3>2
  <2>2. \A i \in Holders : hold2[i].pid \notin removing
    BY <1>1 DEF HoldInv, ContainerInv
  <2> QED
    BY <2>1, <2>2 DEF HoldInv, ContainerInv
<1>8. \A p \in DOMAIN run2 : IsProcess(run2[p])
  BY <1>3, <1>4 DEF HoldInv
<1> QED
  BY <1>3, <1>6, <1>7, <1>8 DEF HoldInv

-----------------------------------------------------------------------------
(***************************************************************************)
(* Dropping slots.                                                         *)
(***************************************************************************)

InSlot(i) == <<"slot", i>>
ByConn(c) == <<"conn", c>>

LEMMA HoldersAre ==
  /\ \A i \in SlotIds : InSlot(i) \in Holders
  /\ \A c \in Conns : ByConn(c) \in Holders
  /\ \A h \in Holders : (\E i \in SlotIds : h = InSlot(i)) \/ (\E c \in Conns : h = ByConn(c))
  /\ \A i, c : InSlot(i) # ByConn(c)
  /\ \A i, j : InSlot(i) = InSlot(j) => i = j
  /\ \A c, d : ByConn(c) = ByConn(d) => c = d
  BY DEF Holders, InSlot, ByConn

LEMMA HeldIs ==
  ASSUME NEW s, NEW cs
  PROVE  /\ \A i \in SlotIds : Held(s, cs)[InSlot(i)] = SlotHolds(s[i])
         /\ \A c \in Conns : Held(s, cs)[ByConn(c)] = ConnHolds(cs[c])
<1>1. \A i \in SlotIds : Held(s, cs)[InSlot(i)] = SlotHolds(s[i])
  BY HoldersAre DEF Held, InSlot
<1>2. \A c \in Conns : Held(s, cs)[ByConn(c)] = ConnHolds(cs[c])
  BY HoldersAre DEF Held, ByConn
<1> QED
  BY <1>1, <1>2

\* What a slot or a connection holds depends on its process only.
LEMMA SlotHoldsIs ==
  ASSUME NEW slot
  PROVE  /\ slot.instance = NoInstance => SlotHolds(slot) = Nothing /\ SlotHolds(slot).pid = None
         /\ slot.instance # NoInstance => SlotHolds(slot).pid = slot.instance.pid
<1>1. CASE slot.instance = NoInstance
  BY <1>1 DEF SlotHolds, Nothing
<1>2. CASE slot.instance # NoInstance
  BY <1>2 DEF SlotHolds
<1> QED
  BY <1>1, <1>2

LEMMA EmptySlotIs ==
  /\ EmptySlot.instance = NoInstance /\ EmptySlot.queue = <<>> /\ EmptySlot.retired = FALSE
  /\ IsSlot(EmptySlot)
  BY DEF EmptySlot, IsSlot

Swept(m, s, cs) == [i \in SlotIds |-> IF Referenced(i, m, cs) THEN s[i] ELSE EmptySlot]

DroppedPids(m, s, cs) == {x.pid : x \in Dropped(m, s, cs)}

\* The guards of dropped instances kill their processes and hand their containers over.
LEMMA DroppedExactly ==
  ASSUME NEW m, NEW s, NEW cs, NEW p
  PROVE  p \in DroppedPids(m, s, cs) <=>
           \E i \in SlotIds : ~Referenced(i, m, cs) /\ s[i].instance # NoInstance /\ s[i].instance.pid = p
  BY DEF DroppedPids, Dropped

LEMMA Settling ==
  ASSUME NEW m, NEW s, NEW cs, NEW run, NEW prt, NEW existing, NEW removing,
         ManagerInv(m, s, cs, run, prt, existing, removing)
  PROVE  ManagerInv(m, Swept(m, s, cs), cs, Without(run, DroppedPids(m, s, cs)), prt, existing,
                    removing \cup (DroppedPids(m, s, cs) \cap existing))
<1> DEFINE s2 == Swept(m, s, cs)
           dropped == DroppedPids(m, s, cs)
           removing2 == removing \cup (dropped \cap existing)
<1>1. /\ s2 = [i \in SlotIds |-> s2[i]]
      /\ \A i \in SlotIds : Referenced(i, m, cs) => s2[i] = s[i]
      /\ \A i \in SlotIds : ~Referenced(i, m, cs) => s2[i] = EmptySlot
  BY DEF Swept
<1>2. \A i \in SlotIds : s2[i].instance # NoInstance => Referenced(i, m, cs) /\ s2[i].instance = s[i].instance
  BY <1>1, EmptySlotIs
<1>3. \A p : p \in dropped <=>
        \E i \in SlotIds : ~Referenced(i, m, cs) /\ s[i].instance # NoInstance /\ s[i].instance.pid = p
  BY DroppedExactly
<1>4. \A c \in Conns : cs[c].slot \in SlotIds => Referenced(cs[c].slot, m, cs)
  BY DEF Referenced
<1>5. /\ ConnInv(cs) /\ SlotInv(s) /\ LockInv(s, cs) /\ AffinityInv(m, s, cs)
      /\ HoldInv(Held(s, cs), run, prt, existing, removing)
  BY DEF ManagerInv
<1> HIDE DEF s2, dropped
<1>6. SlotInv(s2)
  BY <1>1, <1>5, EmptySlotIs DEF SlotInv
<1>7. LockInv(s2, cs)
  <2>1. \A i \in SlotIds : \A j \in DOMAIN s2[i].queue : Referenced(i, m, cs)
    BY <1>1, EmptySlotIs
  <2>2. \A c \in Conns : cs[c].pc \in Queued => cs[c].slot \in SlotIds
    BY <1>5 DEF ConnInv, IsConn, Slotted
  <2>3. \A c \in Conns : cs[c].pc \in Queued => s2[cs[c].slot] = s[cs[c].slot]
    BY <1>1, <1>4, <2>2
  <2>4. \A i \in SlotIds : \A j \in DOMAIN s2[i].queue : s2[i] = s[i]
    BY <1>1, <2>1
  <2>6. \A i \in SlotIds : \A j, k \in DOMAIN s2[i].queue : s2[i].queue[j] = s2[i].queue[k] => j = k
    BY <1>5, <2>4 DEF LockInv
  <2>7. \A i \in SlotIds : \A j \in DOMAIN s2[i].queue :
          cs[s2[i].queue[j]].slot = i /\ cs[s2[i].queue[j]].pc \in Queued
    BY <1>5, <2>4 DEF LockInv
  <2>8. \A c \in Conns : cs[c].pc \in Queued =>
          \E j \in DOMAIN s2[cs[c].slot].queue : s2[cs[c].slot].queue[j] = c
    BY <1>5, <2>3 DEF LockInv
  <2>9. \A c \in Conns : cs[c].pc \in WithLock =>
          Head(s2[cs[c].slot].queue) = c /\ s2[cs[c].slot].instance = NoInstance
    BY <1>5, <2>3 DEF LockInv, Queued
  <2> QED
    BY <2>6, <2>7, <2>8, <2>9 DEF LockInv
<1>8. AffinityInv(m, s2, cs)
  BY <1>2, <1>5 DEF AffinityInv, Belongs
<1>9. HoldInv(Held(s2, cs), Without(run, dropped), prt, existing, removing2)
  <2> DEFINE hold == Held(s, cs)
             hold2 == Held(s2, cs)
             G == {InSlot(i) : i \in {j \in SlotIds : ~Referenced(j, m, cs)}}
  <2>1. /\ \A i \in SlotIds : hold[InSlot(i)] = SlotHolds(s[i]) /\ hold2[InSlot(i)] = SlotHolds(s2[i])
        /\ \A c \in Conns : hold[ByConn(c)] = ConnHolds(cs[c]) /\ hold2[ByConn(c)] = ConnHolds(cs[c])
    BY HeldIs
  <2>2. /\ G \in SUBSET Holders
        /\ \A i \in SlotIds : InSlot(i) \in G <=> ~Referenced(i, m, cs)
        /\ \A c \in Conns : ByConn(c) \notin G
    BY HoldersAre
  <2>3. SlotHolds(EmptySlot) = Nothing
    BY EmptySlotIs DEF SlotHolds
  <2> HIDE DEF hold, hold2, G
  <2>4. \A h \in Holders : hold2[h] = IF h \in G THEN Nothing ELSE hold[h]
    <3>1. \A i \in SlotIds : hold2[InSlot(i)] = IF InSlot(i) \in G THEN Nothing ELSE hold[InSlot(i)]
      BY <1>1, <2>1, <2>2, <2>3
    <3>2. \A c \in Conns : hold2[ByConn(c)] = IF ByConn(c) \in G THEN Nothing ELSE hold[ByConn(c)]
      BY <2>1, <2>2
    <3> QED
      BY <3>1, <3>2, HoldersAre
  <2>5. \A p : p \in dropped <=> p # None /\ \E h \in G : hold[h].pid = p
    <3>1. ASSUME NEW p \in dropped PROVE p # None /\ \E h \in G : hold[h].pid = p
      <4>1. PICK i \in SlotIds : ~Referenced(i, m, cs) /\ s[i].instance # NoInstance /\ s[i].instance.pid = p
        BY <1>3, <3>1
      <4>2. InSlot(i) \in G /\ hold[InSlot(i)].pid = p
        BY <1>5, <2>1, <2>2, <4>1, SlotHoldsIs
      <4>3. p # None
        BY <1>5, <4>1, ConstantsAssumption DEF SlotInv, IsSlot
      <4> QED
        BY <4>2, <4>3
    <3>2. ASSUME NEW p, p # None, NEW h \in G, hold[h].pid = p PROVE p \in dropped
      <4>1. PICK i \in SlotIds : h = InSlot(i) /\ ~Referenced(i, m, cs)
        BY <2>2, HoldersAre
      <4>2. s[i].instance # NoInstance /\ s[i].instance.pid = p
        BY <1>5, <2>1, <3>2, <4>1, SlotHoldsIs
      <4> QED
        BY <1>3, <4>1, <4>2
    <3> QED
      BY <3>1, <3>2
  <2>6. \A h \in Holders \ G : hold[h].port # None => hold[h].port \in prt
    BY <1>5 DEF HoldInv, ProcessInv, hold
  <2>7. /\ removing2 \subseteq existing /\ removing \subseteq removing2 /\ removing2 \subseteq removing \cup dropped
        /\ dropped \cap existing \subseteq removing2
    BY <1>5 DEF HoldInv, ContainerInv
  <2>8. HoldInv(hold, run, prt, existing, removing)
    BY <1>5 DEF hold
  <2> HIDE DEF removing2
  <2>9. HoldInv(hold2, Without(run, dropped), prt, existing, removing2)
    BY <2>2, <2>4, <2>5, <2>6, <2>7, <2>8, LettingGo
  <2> QED
    BY <2>9 DEF hold2
<1> QED
  BY <1>5, <1>6, <1>7, <1>8, <1>9 DEF ManagerInv, s2, dropped

\* What Settle leaves.
SettledWell(m, s, cs) ==
  /\ ManagerInv(map', slots', conns', live', ports', containers', removals')
  /\ Unused(map', slots', conns')
  /\ map' = m /\ conns' = cs
  /\ \A i \in SlotIds : slots'[i].instance # NoInstance => slots'[i].instance = s[i].instance

LEMMA Settled ==
  ASSUME NEW m, NEW s, NEW cs, NEW run, NEW prt, NEW existing, NEW removing,
         ManagerInv(m, s, cs, run, prt, existing, removing),
         Settle(m, s, cs, run, existing, removing), ports' = prt
  PROVE  SettledWell(m, s, cs)
<1>1. /\ map' = m /\ conns' = cs /\ slots' = Swept(m, s, cs)
      /\ live' = Without(run, DroppedPids(m, s, cs))
      /\ containers' = existing
  BY DEF Settle, Swept, DroppedPids
<1>2. removals' = removing \cup (DroppedPids(m, s, cs) \cap existing)
  <2>1. removals' = removing \cup {x.pid : x \in {y \in Dropped(m, s, cs) : y.pid \in existing}}
    BY DEF Settle
  <2>2. \A p : p \in {x.pid : x \in {y \in Dropped(m, s, cs) : y.pid \in existing}} <=>
               p \in DroppedPids(m, s, cs) \cap existing
    BY DEF DroppedPids
  <2> QED
    BY <2>1, <2>2
<1>3. ManagerInv(map', slots', conns', live', ports', containers', removals')
  BY <1>1, <1>2, Settling
<1>4. \A i \in SlotIds : slots'[i] = s[i] \/ (~Referenced(i, m, cs) /\ slots'[i] = EmptySlot)
  BY <1>1 DEF Swept
<1>5. \A i \in SlotIds : ~Referenced(i, map', conns') => slots'[i] = EmptySlot
  BY <1>1 DEF Swept
<1> QED
  BY <1>1, <1>3, <1>4, <1>5, EmptySlotIs DEF SettledWell, Unused

-----------------------------------------------------------------------------
(***************************************************************************)
(* The locks.                                                              *)
(***************************************************************************)

\* Only connection c and slot i differ.
OneConn(cs, cs2, c) ==
  /\ cs2 = [d \in Conns |-> cs2[d]]
  /\ IsConn(cs2[c])
  /\ \A d \in Conns : d # c => cs2[d] = cs[d]

OneSlot(s, s2, i) ==
  /\ s2 = [j \in SlotIds |-> s2[j]]
  /\ IsSlot(s2[i])
  /\ \A j \in SlotIds : j # i => s2[j] = s[j]

LEMMA LockFacts ==
  ASSUME NEW s, NEW cs, SlotInv(s), ConnInv(cs), LockInv(s, cs)
  PROVE  /\ \A i \in SlotIds : \A j \in DOMAIN s[i].queue :
              /\ s[i].queue[j] \in Conns
              /\ cs[s[i].queue[j]].slot = i
              /\ cs[s[i].queue[j]].pc \in Queued
         /\ \A d \in Conns : cs[d].pc \in Queued => cs[d].slot \in SlotIds
         /\ WithLock \subseteq Queued
         /\ \A i \in SlotIds : s[i].queue \in Seq(Conns)
<1>1. \A i \in SlotIds : s[i].queue \in Seq(Conns)
  BY DEF SlotInv, IsSlot
<1>2. \A i \in SlotIds : \A j \in DOMAIN s[i].queue : s[i].queue[j] \in Conns
  BY <1>1
<1>3. \A d \in Conns : cs[d].pc \in Queued => cs[d].slot \in SlotIds
  BY DEF ConnInv, IsConn, Slotted
<1>4. WithLock \subseteq Queued
  BY DEF Queued
<1>5. \A i \in SlotIds : \A j \in DOMAIN s[i].queue :
        cs[s[i].queue[j]].slot = i /\ cs[s[i].queue[j]].pc \in Queued
  BY DEF LockInv
<1> QED
  BY <1>1, <1>2, <1>3, <1>4, <1>5

\* The connection is in no queue, before and after.
LEMMA LockUntouched ==
  ASSUME NEW s, NEW cs, SlotInv(s), ConnInv(cs), LockInv(s, cs), NEW c \in Conns,
         NEW cs2, OneConn(cs, cs2, c), cs[c].pc \notin Queued, cs2[c].pc \notin Queued
  PROVE  LockInv(s, cs2)
<1>1. \A d \in Conns : d # c => cs2[d] = cs[d]
  BY DEF OneConn
<1>2. \A i \in SlotIds : \A j \in DOMAIN s[i].queue : s[i].queue[j] \in Conns /\ s[i].queue[j] # c
  BY LockFacts
<1>3. WithLock \subseteq Queued
  BY DEF Queued
<1>4. \A i \in SlotIds : \A j \in DOMAIN s[i].queue :
        cs2[s[i].queue[j]].slot = i /\ cs2[s[i].queue[j]].pc \in Queued
  BY <1>1, <1>2 DEF LockInv
<1>5. \A d \in Conns : cs2[d].pc \in Queued =>
        \E j \in DOMAIN s[cs2[d].slot].queue : s[cs2[d].slot].queue[j] = d
  BY <1>1 DEF LockInv
<1>6. \A d \in Conns : cs2[d].pc \in WithLock =>
        Head(s[cs2[d].slot].queue) = d /\ s[cs2[d].slot].instance = NoInstance
  BY <1>1, <1>3 DEF LockInv
<1> QED
  BY <1>4, <1>5, <1>6 DEF LockInv

\* The connection joins the queue.
LEMMA LockAwaited ==
  ASSUME NEW s, NEW cs, SlotInv(s), ConnInv(cs), LockInv(s, cs), NEW c \in Conns,
         NEW cs2, OneConn(cs, cs2, c), cs[c].pc \notin Queued, cs2[c].pc \in {"locking", "retiring"},
         NEW i \in SlotIds, i = cs2[c].slot, NEW s2, OneSlot(s, s2, i),
         s2[i].queue = Append(s[i].queue, c), s2[i].instance = s[i].instance
  PROVE  LockInv(s2, cs2)
<1> DEFINE q == s[i].queue
           r == s2[i].queue
<1>1. (\A d \in Conns : d # c => cs2[d] = cs[d]) /\ (\A j \in SlotIds : j # i => s2[j] = s[j])
  BY DEF OneConn, OneSlot
<1>2. \A j \in SlotIds : \A k \in DOMAIN s[j].queue : s[j].queue[k] \in Conns /\ s[j].queue[k] # c
  BY LockFacts
<1>3. q \in Seq(Conns)
  BY LockFacts
<1>4. /\ DOMAIN r = DOMAIN q \cup {Len(q) + 1}
      /\ r[Len(q) + 1] = c
      /\ \A j \in DOMAIN q : r[j] = q[j] /\ j # Len(q) + 1
  <2> HIDE DEF q
  <2>1. r = Append(q, c)
    BY DEF q
  <2> QED
    BY <1>3, <2>1
<1>5. \A j \in DOMAIN q : Head(r) = Head(q)
  <2> HIDE DEF q
  <2>1. r = Append(q, c)
    BY DEF q
  <2> QED
    BY <1>3, <2>1
<1>6. \A j \in DOMAIN q : q[j] # c
  BY <1>2
<1>7. cs2[c].pc \in Queued /\ cs2[c].pc \notin WithLock
  BY DEF Queued, WithLock
<1> HIDE DEF q, r
<1>8. \A j \in SlotIds : \A k, l \in DOMAIN s2[j].queue : s2[j].queue[k] = s2[j].queue[l] => k = l
  <2>1. \A k, l \in DOMAIN q : q[k] = q[l] => k = l
    BY DEF q, LockInv
  <2>2. \A k, l \in DOMAIN r : r[k] = r[l] => k = l
    BY <1>4, <1>6, <2>1
  <2>3. \A j \in SlotIds : j # i => \A k, l \in DOMAIN s2[j].queue : s2[j].queue[k] = s2[j].queue[l] => k = l
    BY <1>1 DEF LockInv
  <2> QED
    BY <2>2, <2>3 DEF r
<1>9. \A j \in SlotIds : \A k \in DOMAIN s2[j].queue :
        cs2[s2[j].queue[k]].slot = j /\ cs2[s2[j].queue[k]].pc \in Queued
  <2>1. \A j \in SlotIds : j # i => \A k \in DOMAIN s2[j].queue :
          cs2[s2[j].queue[k]].slot = j /\ cs2[s2[j].queue[k]].pc \in Queued
    BY <1>1, <1>2 DEF LockInv
  <2>2. \A k \in DOMAIN q : cs2[q[k]].slot = i /\ cs2[q[k]].pc \in Queued
    BY <1>1, <1>2 DEF LockInv, q
  <2>3. \A k \in DOMAIN r : cs2[r[k]].slot = i /\ cs2[r[k]].pc \in Queued
    BY <1>4, <1>7, <2>2
  <2> QED
    BY <2>1, <2>3 DEF r
<1>10. \A d \in Conns : cs2[d].pc \in Queued =>
         \E k \in DOMAIN s2[cs2[d].slot].queue : s2[cs2[d].slot].queue[k] = d
  <2> SUFFICES ASSUME NEW d \in Conns, cs2[d].pc \in Queued
               PROVE  \E k \in DOMAIN s2[cs2[d].slot].queue : s2[cs2[d].slot].queue[k] = d
    OBVIOUS
  <2>1. CASE d = c
    BY <1>4, <2>1 DEF r
  <2>2. CASE d # c
    <3>1. cs2[d] = cs[d] /\ cs[d].slot \in SlotIds
      BY <1>1, <2>2, LockFacts
    <3>2. PICK k \in DOMAIN s[cs[d].slot].queue : s[cs[d].slot].queue[k] = d
      BY <3>1 DEF LockInv
    <3>3. CASE cs[d].slot = i
      BY <1>4, <3>1, <3>2, <3>3 DEF q, r
    <3>4. CASE cs[d].slot # i
      BY <1>1, <3>1, <3>2, <3>4
    <3> QED
      BY <3>3, <3>4
  <2> QED
    BY <2>1, <2>2
<1>11. \A d \in Conns : cs2[d].pc \in WithLock =>
         Head(s2[cs2[d].slot].queue) = d /\ s2[cs2[d].slot].instance = NoInstance
  <2> SUFFICES ASSUME NEW d \in Conns, cs2[d].pc \in WithLock
               PROVE  Head(s2[cs2[d].slot].queue) = d /\ s2[cs2[d].slot].instance = NoInstance
    OBVIOUS
  <2>1. d # c
    BY <1>7
  <2>2. cs2[d] = cs[d] /\ cs[d].slot \in SlotIds /\ cs[d].pc \in Queued
    BY <1>1, <2>1, LockFacts
  <2>3. \E k \in DOMAIN s[cs[d].slot].queue : s[cs[d].slot].queue[k] = d
    BY <2>2 DEF LockInv
  <2>4. Head(s[cs[d].slot].queue) = d /\ s[cs[d].slot].instance = NoInstance
    BY <2>2 DEF LockInv
  <2>5. CASE cs[d].slot = i
    BY <1>5, <2>2, <2>3, <2>4, <2>5 DEF q, r
  <2>6. CASE cs[d].slot # i
    BY <1>1, <2>2, <2>4, <2>6
  <2> QED
    BY <2>5, <2>6
<1> QED
  BY <1>8, <1>9, <1>10, <1>11 DEF LockInv

\* The head of the queue leaves, whatever it does with the slot.
LEMMA LockLeft ==
  ASSUME NEW s, NEW cs, SlotInv(s), ConnInv(cs), LockInv(s, cs), NEW c \in Conns,
         NEW cs2, OneConn(cs, cs2, c), cs[c].pc \in Queued, cs2[c].pc \notin Queued,
         NEW i \in SlotIds, i = cs[c].slot, Head(s[i].queue) = c,
         NEW s2, OneSlot(s, s2, i), s2[i].queue = Tail(s[i].queue)
  PROVE  LockInv(s2, cs2)
<1> DEFINE q == s[i].queue
           r == s2[i].queue
<1>1. (\A d \in Conns : d # c => cs2[d] = cs[d]) /\ (\A j \in SlotIds : j # i => s2[j] = s[j])
  BY DEF OneConn, OneSlot
<1>2. q \in Seq(Conns) /\ \E j \in DOMAIN q : q[j] = c
  BY LockFacts DEF LockInv
<1>3. \A k, l \in DOMAIN q : q[k] = q[l] => k = l
  BY DEF LockInv
<1>4. /\ 1 \in DOMAIN q /\ q[1] = c
      /\ \A j \in DOMAIN r : j + 1 \in DOMAIN q /\ r[j] = q[j + 1] /\ j \in Int /\ j # 0
      /\ \A j \in DOMAIN q : j # 1 => j - 1 \in DOMAIN r /\ r[j - 1] = q[j]
  <2> HIDE DEF q
  <2>1. r = Tail(q) /\ Head(q) = c
    BY DEF q
  <2>2. q # <<>> /\ Len(q) \in Nat /\ DOMAIN q = 1..Len(q) /\ Len(q) > 0
    BY <1>2
  <2>3. /\ Tail(q) \in Seq(Conns) /\ Len(Tail(q)) = Len(q) - 1
        /\ \A j \in 1..Len(Tail(q)) : Tail(q)[j] = q[j + 1]
    BY <1>2, <2>2
  <2>4. DOMAIN r = 1..(Len(q) - 1) /\ \A j \in 1..(Len(q) - 1) : r[j] = q[j + 1]
    <3>1. DOMAIN Tail(q) = 1..Len(Tail(q))
      BY <2>3
    <3> HIDE DEF r
    <3> QED
      BY <2>1, <2>3, <3>1
  <2>5. 1 \in DOMAIN q /\ q[1] = c
    BY <1>2, <2>1, <2>2
  <2> HIDE DEF r
  <2>6. \A j \in DOMAIN r : j + 1 \in DOMAIN q /\ r[j] = q[j + 1] /\ j \in Int /\ j # 0
    BY <2>2, <2>4
  <2>7. \A j \in DOMAIN q : j # 1 => j - 1 \in DOMAIN r /\ r[j - 1] = q[j]
    <3> SUFFICES ASSUME NEW j \in DOMAIN q, j # 1 PROVE j - 1 \in DOMAIN r /\ r[j - 1] = q[j]
      OBVIOUS
    <3>1. j - 1 \in 1..(Len(q) - 1) /\ (j - 1) + 1 = j
      BY <2>2
    <3>2. r[j - 1] = q[(j - 1) + 1]
      BY <2>4, <3>1
    <3> QED
      BY <2>4, <3>1, <3>2
  <2> QED
    BY <2>5, <2>6, <2>7
<1> HIDE DEF q, r
<1>5. \A j \in DOMAIN r : r[j] # c
  <2> SUFFICES ASSUME NEW j \in DOMAIN r, r[j] = c PROVE FALSE
    OBVIOUS
  <2>1. j + 1 \in DOMAIN q /\ q[j + 1] = q[1] /\ j \in Int /\ j # 0
    BY <1>4
  <2>2. j + 1 = 1
    BY <1>3, <1>4, <2>1
  <2> QED
    BY <2>1, <2>2
<1>6. \A j \in SlotIds : j # i => \A k \in DOMAIN s[j].queue : s[j].queue[k] # c
  BY LockFacts
<1>7. \A j \in SlotIds : \A k, l \in DOMAIN s2[j].queue : s2[j].queue[k] = s2[j].queue[l] => k = l
  <2>1. \A k, l \in DOMAIN r : r[k] = r[l] => k = l
    BY <1>3, <1>4
  <2>2. \A j \in SlotIds : j # i => \A k, l \in DOMAIN s2[j].queue : s2[j].queue[k] = s2[j].queue[l] => k = l
    BY <1>1 DEF LockInv
  <2> QED
    BY <2>1, <2>2 DEF r
<1>8. \A j \in SlotIds : \A k \in DOMAIN s2[j].queue :
        cs2[s2[j].queue[k]].slot = j /\ cs2[s2[j].queue[k]].pc \in Queued
  <2>1. \A j \in SlotIds : j # i => \A k \in DOMAIN s2[j].queue :
          cs2[s2[j].queue[k]].slot = j /\ cs2[s2[j].queue[k]].pc \in Queued
    BY <1>1, <1>6, LockFacts
  <2>2. \A k \in DOMAIN q : q[k] \in Conns /\ cs[q[k]].slot = i /\ cs[q[k]].pc \in Queued
    BY LockFacts DEF q
  <2>3. \A k \in DOMAIN r : cs2[r[k]].slot = i /\ cs2[r[k]].pc \in Queued
    BY <1>1, <1>4, <1>5, <2>2
  <2> QED
    BY <2>1, <2>3 DEF r
<1>9. \A d \in Conns : cs2[d].pc \in Queued =>
         \E k \in DOMAIN s2[cs2[d].slot].queue : s2[cs2[d].slot].queue[k] = d
  <2> SUFFICES ASSUME NEW d \in Conns, cs2[d].pc \in Queued
               PROVE  \E k \in DOMAIN s2[cs2[d].slot].queue : s2[cs2[d].slot].queue[k] = d
    OBVIOUS
  <2>1. d # c
    OBVIOUS
  <2>2. cs2[d] = cs[d] /\ cs[d].slot \in SlotIds
    BY <1>1, <2>1, LockFacts
  <2>3. PICK k \in DOMAIN s[cs[d].slot].queue : s[cs[d].slot].queue[k] = d
    BY <2>2 DEF LockInv
  <2>4. CASE cs[d].slot = i
    <3>1. k \in DOMAIN q /\ q[k] = d
      BY <2>3, <2>4 DEF q
    <3>2. k - 1 \in DOMAIN r /\ r[k - 1] = d
      BY <1>4, <2>1, <3>1
    <3> QED
      BY <2>2, <2>4, <3>2 DEF r
  <2>5. CASE cs[d].slot # i
    BY <1>1, <2>2, <2>3, <2>5
  <2> QED
    BY <2>4, <2>5
<1>10. \A d \in Conns : cs2[d].pc \in WithLock =>
         Head(s2[cs2[d].slot].queue) = d /\ s2[cs2[d].slot].instance = NoInstance
  <2> SUFFICES ASSUME NEW d \in Conns, cs2[d].pc \in WithLock
               PROVE  Head(s2[cs2[d].slot].queue) = d /\ s2[cs2[d].slot].instance = NoInstance
    OBVIOUS
  <2>1. d # c
    BY LockFacts
  <2>2. cs2[d] = cs[d] /\ cs[d].slot \in SlotIds
    BY <1>1, <2>1, LockFacts
  <2>3. Head(s[cs[d].slot].queue) = d /\ s[cs[d].slot].instance = NoInstance
    BY <2>2 DEF LockInv
  <2> QED
    BY <1>1, <2>1, <2>2, <2>3
<1> QED
  BY <1>7, <1>8, <1>9, <1>10 DEF LockInv

\* The head of the queue goes on with the lock, having taken the instance out.
LEMMA LockKept ==
  ASSUME NEW s, NEW cs, SlotInv(s), ConnInv(cs), LockInv(s, cs), NEW c \in Conns,
         NEW cs2, OneConn(cs, cs2, c), cs[c].pc \in Queued, cs2[c].pc \in WithLock,
         NEW i \in SlotIds, i = cs[c].slot, i = cs2[c].slot, Head(s[i].queue) = c,
         NEW s2, OneSlot(s, s2, i), s2[i].queue = s[i].queue, s2[i].instance = NoInstance
  PROVE  LockInv(s2, cs2)
<1>1. (\A d \in Conns : d # c => cs2[d] = cs[d]) /\ (\A j \in SlotIds : j # i => s2[j] = s[j])
  BY DEF OneConn, OneSlot
<1>2. \A j \in SlotIds : s2[j].queue = s[j].queue
  BY <1>1
<1>3. cs2[c].pc \in Queued
  BY LockFacts
<1>4. \A d \in Conns : cs2[d].slot = cs[d].slot \/ (d # c /\ cs2[d] = cs[d])
  BY <1>1
<1>5. \A d \in Conns : (cs2[d].pc \in Queued <=> cs[d].pc \in Queued) /\ cs2[d].slot = cs[d].slot
  BY <1>1, <1>3
<1>6. \A j \in SlotIds : \A k, l \in DOMAIN s2[j].queue : s2[j].queue[k] = s2[j].queue[l] => k = l
  BY <1>2 DEF LockInv
<1>7. \A j \in SlotIds : \A k \in DOMAIN s2[j].queue :
        cs2[s2[j].queue[k]].slot = j /\ cs2[s2[j].queue[k]].pc \in Queued
  BY <1>2, <1>5, LockFacts
<1>8. \A d \in Conns : cs2[d].pc \in Queued =>
         \E k \in DOMAIN s2[cs2[d].slot].queue : s2[cs2[d].slot].queue[k] = d
  <2> SUFFICES ASSUME NEW d \in Conns, cs2[d].pc \in Queued
               PROVE  \E k \in DOMAIN s2[cs2[d].slot].queue : s2[cs2[d].slot].queue[k] = d
    OBVIOUS
  <2>1. cs[d].pc \in Queued /\ cs2[d].slot = cs[d].slot /\ cs[d].slot \in SlotIds
    BY <1>5, LockFacts
  <2> QED
    BY <1>2, <2>1 DEF LockInv
<1>9. \A d \in Conns : cs2[d].pc \in WithLock =>
         Head(s2[cs2[d].slot].queue) = d /\ s2[cs2[d].slot].instance = NoInstance
  <2> SUFFICES ASSUME NEW d \in Conns, cs2[d].pc \in WithLock
               PROVE  Head(s2[cs2[d].slot].queue) = d /\ s2[cs2[d].slot].instance = NoInstance
    OBVIOUS
  <2>1. CASE d = c
    BY <2>1
  <2>2. CASE d # c
    <3>1. cs2[d] = cs[d] /\ cs[d].slot \in SlotIds
      BY <1>1, <2>2, LockFacts
    <3>2. Head(s[cs[d].slot].queue) = d /\ s[cs[d].slot].instance = NoInstance
      BY <3>1 DEF LockInv
    <3> QED
      BY <1>1, <2>2, <3>1, <3>2
  <2> QED
    BY <2>1, <2>2
<1> QED
  BY <1>6, <1>7, <1>8, <1>9 DEF LockInv

-----------------------------------------------------------------------------
(***************************************************************************)
(* A step of one connection.                                               *)
(***************************************************************************)

\* Nobody gets a slot of another service.
LEMMA AffinityKept ==
  ASSUME NEW m, NEW s, NEW cs, AffinityInv(m, s, cs), NEW c \in Conns, NEW cs2, OneConn(cs, cs2, c),
         NEW m2 \in [Services -> SlotIds \cup {None}], \A n \in Services : m2[n] = m[n] \/ m2[n] = None,
         cs2[c].slot = None \/ (cs2[c].slot = cs[c].slot /\ cs2[c].service = cs[c].service),
         NEW s2, \A i \in SlotIds : s2[i].instance # NoInstance => s2[i].instance = s[i].instance
  PROVE  AffinityInv(m2, s2, cs2)
<1>1. PICK owner \in [SlotIds -> Services \cup {None}] : Belongs(owner, m, s, cs)
  BY DEF AffinityInv
<1>2. \A d \in Conns : cs2[d].slot # None => cs2[d].slot = cs[d].slot /\ cs2[d].service = cs[d].service
  BY DEF OneConn
<1>3. Belongs(owner, m2, s2, cs2)
  BY <1>1, <1>2 DEF Belongs
<1> QED
  BY <1>1, <1>3 DEF AffinityInv

LEMMA SameHeld ==
  ASSUME NEW s, NEW cs, NEW c \in Conns, NEW cs2, OneConn(cs, cs2, c), cs[c].pid = None, cs2[c].pid = None,
         NEW s2, \A i \in SlotIds : s2[i].instance = s[i].instance
  PROVE  Held(s2, cs2) = Held(s, cs)
<1>1. \A i \in SlotIds : SlotHolds(s2[i]) = SlotHolds(s[i])
  BY DEF SlotHolds
<1>2. \A d \in Conns : ConnHolds(cs2[d]) = ConnHolds(cs[d])
  <2>1. \A d \in Conns : d # c => cs2[d] = cs[d]
    BY DEF OneConn
  <2>2. ConnHolds(cs2[c]) = ConnHolds(cs[c])
    BY DEF ConnHolds
  <2> QED
    BY <2>1, <2>2
<1> DEFINE a == Held(s, cs)
           b == Held(s2, cs2)
<1>3. \A h \in Holders : b[h] = a[h]
  <2>1. \A i \in SlotIds : b[InSlot(i)] = a[InSlot(i)]
    BY <1>1, HeldIs
  <2>2. \A d \in Conns : b[ByConn(d)] = a[ByConn(d)]
    BY <1>2, HeldIs
  <2> HIDE DEF a, b
  <2> QED
    BY <2>1, <2>2, HoldersAre
<1>4. a = [h \in Holders |-> a[h]] /\ b = [h \in Holders |-> b[h]]
  BY DEF Held
<1> HIDE DEF a, b
<1>5. a = b
  BY <1>3, <1>4
<1> QED
  BY <1>5 DEF a, b

\* A step that touches no process.
LEMMA LightStep ==
  ASSUME NEW m, NEW s, NEW cs, NEW run, NEW prt, NEW existing, NEW removing,
         ManagerInv(m, s, cs, run, prt, existing, removing),
         NEW c \in Conns, NEW cs2, OneConn(cs, cs2, c), cs[c].pid = None, cs2[c].pid = None,
         NEW s2, SlotInv(s2), \A i \in SlotIds : s2[i].instance = s[i].instance, LockInv(s2, cs2),
         NEW m2, AffinityInv(m2, s2, cs2)
  PROVE  ManagerInv(m2, s2, cs2, run, prt, existing, removing)
<1>1. Held(s2, cs2) = Held(s, cs)
  BY SameHeld
<1>2. ConnInv(cs2)
  BY DEF ManagerInv, ConnInv, OneConn
<1> QED
  BY <1>1, <1>2 DEF ManagerInv

\* The slots and connections that are left after a step of c keep InstancesInv, provided that
\* c starts nothing for a service that is gone and that a deleter unmaps its slot.
LEMMA OneStep ==
  ASSUME InstancesInv, NEW c \in Conns, phase = "up", UNCHANGED <<phase, uids, state>>,
         NEW m2, NEW s2, NEW cs2, NEW run2, NEW prt2, NEW existing2, NEW removing2,
         ManagerInv(m2, s2, cs2, run2, prt2, existing2, removing2),
         Settle(m2, s2, cs2, run2, existing2, removing2), ports' = prt2,
         OneConn(conns, cs2, c),
         \A n \in Services :
           \/ m2[n] = map[n] \/ m2[n] = None
           \/ /\ s2[m2[n]].instance = NoInstance
              /\ \A d \in Conns : cs2[d].slot = m2[n] => d = c
              /\ cs2[c].pc \notin Launching,
         cs2[c].pc \in Launching =>
           /\ cs2[c].slot = conns[c].slot
           /\ conns[c].pc \in Launching \/ conns[c].service \in DOMAIN state.services,
         \A i \in SlotIds : s2[i].instance # NoInstance =>
           slots[i].instance # NoInstance \/ (conns[c].pc \in Launching /\ conns[c].slot = i),
         conns[c].pc = "deleted" => m2[conns[c].service] = None
  PROVE  InstancesInv'
<1>1. SettledWell(m2, s2, cs2)
  BY Settled
<1>2. /\ ManagerInv(map', slots', conns', live', ports', containers', removals')
      /\ Unused(map', slots', conns')
      /\ map' = m2 /\ conns' = cs2
      /\ \A i \in SlotIds : slots'[i].instance # NoInstance => s2[i].instance # NoInstance
  BY <1>1 DEF SettledWell
<1>3. \A d \in Conns : d # c => cs2[d] = conns[d]
  BY DEF OneConn
<1>4. map \in [Services -> SlotIds \cup {None}] /\ m2 \in [Services -> SlotIds \cup {None}]
  BY DEF InstancesInv, ManagerInv, AffinityInv
<1>5. GoneInv(map', slots', conns', DOMAIN state'.services)
  <2> SUFFICES ASSUME NEW n \in Services, n \notin DOMAIN state.services, InUse(m2, slots', cs2, n)
               PROVE  \E d \in Conns : cs2[d].pc = "deleted" /\ cs2[d].service = n
    BY <1>2 DEF GoneInv
  <2>1. m2[n] # None /\ m2[n] \in SlotIds
    BY <1>4 DEF InUse
  <2>2. s2[m2[n]].instance # NoInstance \/ \E d \in Conns : cs2[d].slot = m2[n] /\ cs2[d].pc \in Launching
    BY <1>2, <2>1 DEF InUse
  <2>3. m2[n] = map[n]
    BY <2>1, <2>2
  <2>4. conns[c].slot = map[n] => conns[c].service = n
    <3>1. PICK owner : Belongs(owner, map, slots, conns)
      BY DEF InstancesInv, ManagerInv, AffinityInv
    <3> QED
      BY <2>1, <2>3, <3>1 DEF Belongs
  <2>5. InUse(map, slots, conns, n)
    <3>1. CASE s2[m2[n]].instance # NoInstance
      BY <2>1, <2>3, <3>1 DEF InUse
    <3>2. CASE \E d \in Conns : cs2[d].slot = m2[n] /\ cs2[d].pc \in Launching
      <4>1. PICK d \in Conns : cs2[d].slot = m2[n] /\ cs2[d].pc \in Launching
        BY <3>2
      <4>2. CASE d = c
        BY <2>1, <2>3, <2>4, <4>1, <4>2 DEF InUse
      <4>3. CASE d # c
        BY <1>3, <2>1, <2>3, <4>1, <4>3 DEF InUse
      <4> QED
        BY <4>2, <4>3
    <3> QED
      BY <2>2, <3>1, <3>2
  <2>6. PICK d \in Conns : conns[d].pc = "deleted" /\ conns[d].service = n
    BY <2>5 DEF InstancesInv, GoneInv
  <2>7. d # c
    BY <2>1, <2>6
  <2> QED
    BY <1>3, <2>6, <2>7
<1> QED
  BY <1>2, <1>5 DEF InstancesInv

LEMMA Parts ==
  ASSUME InstancesInv
  PROVE  /\ ConnInv(conns) /\ SlotInv(slots) /\ LockInv(slots, conns) /\ AffinityInv(map, slots, conns)
         /\ HoldInv(Held(slots, conns), live, ports, containers, removals)
         /\ map \in [Services -> SlotIds \cup {None}]
         /\ \A c \in Conns : IsConn(conns[c])
         /\ \A i \in SlotIds : IsSlot(slots[i])
  BY DEF InstancesInv, ManagerInv, AffinityInv, ConnInv, SlotInv

LEMMA AtWork ==
  ASSUME InstancesInv, NEW c \in Conns, conns[c].pc # "idle"
  PROVE  phase = "up"
<1>1. Idle.pc = "idle"
  BY DEF Idle
<1> QED
  BY <1>1 DEF InstancesInv

LEMMA IdleIs == IsConn(Idle) /\ Idle.pc = "idle" /\ Idle.slot = None /\ Idle.pid = None
  BY DEF IsConn, Idle, ConnFields, Working, Slotted, Queued, WithLock, Owning, Launching

LEMMA OneConnChanged ==
  ASSUME InstancesInv, NEW c \in Conns, NEW conn, IsConn(conn)
  PROVE  /\ OneConn(conns, [conns EXCEPT ![c] = conn], c)
         /\ [conns EXCEPT ![c] = conn][c] = conn
  BY Parts DEF OneConn, ConnInv

\* The lock passes on.
LEMMA UnlockedIs ==
  ASSUME InstancesInv, NEW i \in SlotIds, NEW c \in Conns, conns[c].pc \in Queued, conns[c].slot = i
  PROVE  /\ OneSlot(slots, Unlocked(i), i) /\ SlotInv(Unlocked(i))
         /\ Unlocked(i)[i].queue = Tail(slots[i].queue)
         /\ \A j \in SlotIds : Unlocked(i)[j].instance = slots[j].instance
<1> DEFINE s2 == Unlocked(i)
           x == slots[i]
<1>1. IsSlot(x) /\ slots = [j \in SlotIds |-> slots[j]]
  BY Parts DEF SlotInv
<1>2. \E j \in DOMAIN x.queue : x.queue[j] = c
  BY Parts DEF LockInv
<1>3. /\ s2 = [j \in SlotIds |-> s2[j]]
      /\ s2[i] = [x EXCEPT !.queue = Tail(@)]
      /\ \A j \in SlotIds : j # i => s2[j] = slots[j]
  BY <1>1 DEF Unlocked
<1> HIDE DEF s2, x
<1>4. LET y == [x EXCEPT !.queue = Tail(@)] IN
      /\ y.queue = Tail(x.queue) /\ y.instance = x.instance
      /\ y = [f \in {"instance", "retired", "queue"} |-> y[f]]
  BY <1>1 DEF IsSlot
<1>5. Tail(x.queue) \in Seq(Conns)
  <2>1. x.queue \in Seq(Conns) /\ x.queue # <<>>
    BY <1>1, <1>2 DEF IsSlot
  <2> QED
    BY <2>1
<1> DEFINE y == s2[i]
<1>6. y.queue = Tail(x.queue) /\ y.instance = x.instance /\ y = [f \in {"instance", "retired", "queue"} |-> y[f]]
  BY <1>3, <1>4
<1> HIDE DEF y
<1>7. IsSlot(y)
  BY <1>1, <1>5, <1>6 DEF IsSlot
<1>8. IsSlot(s2[i]) /\ s2[i].queue = Tail(x.queue) /\ s2[i].instance = x.instance
  BY <1>6, <1>7 DEF y
<1>9. SlotInv(s2)
  BY <1>3, <1>8, Parts DEF SlotInv
<1> QED
  BY <1>3, <1>8, <1>9 DEF OneSlot, s2, x

\* A step without processes that gives no slot to a new service.
LEMMA StepSound ==
  ASSUME InstancesInv, NEW c \in Conns, phase = "up",
         NEW conn, IsConn(conn), conns[c].pid = None, conn.pid = None,
         conn.slot = None \/ (conn.slot = conns[c].slot /\ conn.service = conns[c].service),
         NEW s2, SlotInv(s2), \A i \in SlotIds : s2[i].instance = slots[i].instance,
         LockInv(s2, [conns EXCEPT ![c] = conn]),
         NEW m2 \in [Services -> SlotIds \cup {None}], \A n \in Services : m2[n] = map[n] \/ m2[n] = None,
         Step(c, conn, m2, s2),
         conn.pc \in Launching =>
           conn.slot = conns[c].slot /\ (conns[c].pc \in Launching \/ conns[c].service \in DOMAIN state.services),
         conns[c].pc = "deleted" => m2[conns[c].service] = None
  PROVE  InstancesInv'
<1> DEFINE cs2 == [conns EXCEPT ![c] = conn]
<1>1. OneConn(conns, cs2, c) /\ cs2[c] = conn
  BY OneConnChanged
<1>2. /\ Settle(m2, s2, cs2, live, containers, removals)
      /\ ports' = ports /\ UNCHANGED <<phase, uids, state>>
  BY DEF Step, controlVars
<1>3. LockInv(s2, cs2)
  OBVIOUS
<1> HIDE DEF cs2
<1>4. AffinityInv(m2, s2, cs2)
  BY <1>1, Parts, AffinityKept
<1>5. ManagerInv(m2, s2, cs2, live, ports, containers, removals)
  BY <1>1, <1>3, <1>4, LightStep DEF InstancesInv
<1> QED
  BY <1>1, <1>2, <1>5, OneStep

-----------------------------------------------------------------------------
(***************************************************************************)
(* Steps without processes.                                                *)
(***************************************************************************)

\* What IsConn says of a connection at each point of its request.
LEMMA ConnAt ==
  ASSUME NEW conn, IsConn(conn)
  PROVE  /\ conn.pc \in {"admitted", "answered", "deleted"} =>
              conn.service \in Services /\ conn.slot = None /\ conn.pid = None
         /\ conn.pc \in {"holding", "unmapped", "discarding", "locking", "retiring", "starting"} =>
              conn.service \in Services /\ conn.slot \in SlotIds /\ conn.pid = None
         /\ conn.pc \in {"replacing", "waiting", "stopping"} =>
              conn.service \in Services /\ conn.slot \in SlotIds /\ conn.pid \in Pids
         /\ conn.pc = "waiting" => conn.port \in Ports
         /\ conn.pc # "waiting" => conn.port = None
         /\ conn.pid # None => conn.pc \in Owning
         /\ conn.slot # None => conn.pc \in Slotted
         /\ conn = [f \in ConnFields |-> conn[f]]
         /\ conn.pc \in Launching => conn.got.spec.service = conn.service
  BY DEF IsConn, Working, Slotted, Queued, WithLock, Owning, Launching

LEMMA AdmitInv ==
  ASSUME InstancesInv, NEW c \in Conns, NEW n \in Services, NEW token, Admit(c, n, token)
  PROVE  InstancesInv'
<1> DEFINE conn == [Idle EXCEPT !.pc = "admitted", !.service = n, !.token = token, !.seen = Launch(n)]
<1>1. phase = "up" /\ conns[c].pc = "idle" /\ Step(c, conn, map, slots)
  BY DEF Admit
<1>2. conns[c] = Idle
  BY <1>1, Parts DEF IsConn
<1>3. /\ conn = [f \in ConnFields |-> conn[f]] /\ conn.pc = "admitted" /\ conn.service = n
      /\ conn.slot = None /\ conn.pid = None /\ conn.port = None
  BY DEF Idle, ConnFields
<1> HIDE DEF conn
<1>4. IsConn(conn)
  BY <1>3 DEF IsConn, Working, Slotted, Queued, WithLock, Owning, Launching
<1>5. conn.pc \notin Queued /\ conn.pc \notin Launching /\ conns[c].pc \notin Queued
  BY <1>1, <1>3 DEF Queued, WithLock, Launching
<1>6. LockInv(slots, [conns EXCEPT ![c] = conn])
  BY <1>4, <1>5, Parts, OneConnChanged, LockUntouched
<1> QED
  BY <1>1, <1>2, <1>3, <1>4, <1>5, <1>6, IdleIs, Parts, StepSound

\* A connection that is in no queue ends its request.
LEMMA EndQuietly ==
  ASSUME InstancesInv, NEW c \in Conns, phase = "up", conns[c].pc \notin Queued, conns[c].pid = None,
         NEW m2 \in [Services -> SlotIds \cup {None}], \A n \in Services : m2[n] = map[n] \/ m2[n] = None,
         Step(c, Idle, m2, slots), conns[c].pc = "deleted" => m2[conns[c].service] = None
  PROVE  InstancesInv'
<1>1. Idle.pc \notin Queued /\ Idle.pc \notin Launching
  BY IdleIs DEF Queued, WithLock, Launching
<1>2. LockInv(slots, [conns EXCEPT ![c] = Idle])
  BY <1>1, IdleIs, Parts, OneConnChanged, LockUntouched
<1> QED
  BY <1>1, <1>2, IdleIs, Parts, StepSound

LEMMA AnswerInv ==
  ASSUME InstancesInv, NEW c \in Conns, Answer(c)
  PROVE  InstancesInv'
<1>1. conns[c].pc = "answered" /\ Step(c, Idle, map, slots)
  BY DEF Answer
<1>2. conns[c].pc \notin Queued /\ conns[c].pid = None /\ phase = "up"
  BY <1>1, Parts, ConnAt, AtWork DEF Queued, WithLock
<1> QED
  BY <1>1, <1>2, Parts, EndQuietly

LEMMA DiscardInv ==
  ASSUME InstancesInv, NEW c \in Conns, Discard(c)
  PROVE  InstancesInv'
<1> DEFINE n == conns[c].service
<1>1. conns[c].pc = "discarding"
  BY DEF Discard
<1>2. conns[c].pc \notin Queued /\ conns[c].pid = None /\ phase = "up" /\ n \in Services
  BY <1>1, Parts, ConnAt, AtWork DEF Queued, WithLock
<1>3. PICK m2 : (m2 = map \/ m2 = [map EXCEPT ![n] = None]) /\ Step(c, Idle, m2, slots)
  BY DEF Discard
<1>4. m2 \in [Services -> SlotIds \cup {None}] /\ \A k \in Services : m2[k] = map[k] \/ m2[k] = None
  BY <1>2, <1>3, Parts
<1> QED
  BY <1>1, <1>2, <1>3, <1>4, EndQuietly

\* The head of a queue leaves it, with or without its slot.
LEMMA LeaveQueue ==
  ASSUME InstancesInv, NEW c \in Conns, conns[c].pc \in {"locking", "starting"},
         NEW conn, IsConn(conn), conn.pc \notin Queued, conn.pid = None, conn.pc \notin Launching,
         conn.slot = None \/ (conn.slot = conns[c].slot /\ conn.service = conns[c].service),
         Head(slots[conns[c].slot].queue) = c,
         Step(c, conn, map, Unlocked(conns[c].slot))
  PROVE  InstancesInv'
<1> DEFINE i == conns[c].slot
           s2 == Unlocked(i)
           cs2 == [conns EXCEPT ![c] = conn]
<1>1. i \in SlotIds /\ conns[c].pid = None /\ conns[c].pc \in Queued /\ phase = "up"
  BY Parts, ConnAt, AtWork DEF Queued, WithLock
<1>2. /\ OneSlot(slots, s2, i) /\ SlotInv(s2) /\ s2[i].queue = Tail(slots[i].queue)
      /\ \A j \in SlotIds : s2[j].instance = slots[j].instance
  BY <1>1, UnlockedIs
<1>3. OneConn(conns, cs2, c) /\ cs2[c] = conn
  BY OneConnChanged
<1> HIDE DEF s2
<1>4. LockInv(s2, cs2)
  <2> HIDE DEF cs2, i
  <2>1. i = conns[c].slot /\ Head(slots[i].queue) = c
    BY DEF i
  <2> QED
    BY <1>1, <1>2, <1>3, <2>1, Parts, LockLeft
<1>5. Step(c, conn, map, s2)
  BY DEF s2
<1>6. conns[c].pc # "deleted"
  OBVIOUS
<1> QED
  BY <1>1, <1>2, <1>4, <1>5, <1>6, Parts, StepSound

LEMMA FindRetiredInv ==
  ASSUME InstancesInv, NEW c \in Conns, FindRetired(c)
  PROVE  InstancesInv'
<1>1. /\ conns[c].pc = "locking" /\ Head(slots[conns[c].slot].queue) = c
      /\ Step(c, Idle, map, Unlocked(conns[c].slot))
  BY DEF FindRetired, HoldsLock
<1>2. Idle.pc \notin Queued /\ Idle.pc \notin Launching
  BY IdleIs DEF Queued, WithLock, Launching
<1> QED
  BY <1>1, <1>2, IdleIs, LeaveQueue

LEMMA CannotSpawnInv ==
  ASSUME InstancesInv, NEW c \in Conns, CannotSpawn(c)
  PROVE  InstancesInv'
<1>1. conns[c].pc = "starting" /\ Step(c, Idle, map, Unlocked(conns[c].slot))
  BY DEF CannotSpawn
<1>2. Idle.pc \notin Queued /\ Idle.pc \notin Launching
  BY IdleIs DEF Queued, WithLock, Launching
<1>3. Head(slots[conns[c].slot].queue) = c
  BY <1>1, Parts DEF LockInv, WithLock
<1> QED
  BY <1>1, <1>2, <1>3, IdleIs, LeaveQueue

LEMMA FindRefusedInv ==
  ASSUME InstancesInv, NEW c \in Conns, FindRefused(c)
  PROVE  InstancesInv'
<1> DEFINE conn == [conns[c] EXCEPT !.pc = "discarding"]
<1>1. /\ conns[c].pc = "locking" /\ Head(slots[conns[c].slot].queue) = c
      /\ Step(c, conn, map, Unlocked(conns[c].slot))
  BY DEF FindRefused, HoldsLock
<1>2. IsConn(conns[c]) /\ conns[c] = [f \in ConnFields |-> conns[c][f]]
  BY Parts, ConnAt
<1>3. /\ conn = [f \in ConnFields |-> conn[f]] /\ conn.pc = "discarding" /\ conn.service = conns[c].service
      /\ conn.slot = conns[c].slot /\ conn.pid = conns[c].pid /\ conn.port = conns[c].port
  BY <1>2 DEF ConnFields
<1>4. /\ conns[c].service \in Services /\ conns[c].slot \in SlotIds /\ conns[c].pid = None /\ conns[c].port = None
  BY <1>1, <1>2, ConnAt
<1> HIDE DEF conn
<1>5. IsConn(conn) /\ conn.pc \notin Queued /\ conn.pc \notin Launching
  BY <1>3, <1>4 DEF IsConn, Working, Slotted, Queued, WithLock, Owning, Launching
<1> QED
  BY <1>1, <1>3, <1>4, <1>5, LeaveQueue

LEMMA FindUsableInv ==
  ASSUME InstancesInv, NEW c \in Conns, FindUsable(c)
  PROVE  InstancesInv'
<1> DEFINE got == Given(InstanceFor(c), conns[c].service)
           conn == [conns[c] EXCEPT !.pc = "answered", !.slot = None, !.got = got]
<1>1. /\ conns[c].pc = "locking" /\ Head(slots[conns[c].slot].queue) = c
      /\ Step(c, conn, map, Unlocked(conns[c].slot))
  BY DEF FindUsable, MayUse, HoldsLock
<1>2. IsConn(conns[c]) /\ conns[c] = [f \in ConnFields |-> conns[c][f]]
  BY Parts, ConnAt
<1> HIDE DEF got
<1>3. /\ conn = [f \in ConnFields |-> conn[f]] /\ conn.pc = "answered" /\ conn.service = conns[c].service
      /\ conn.slot = None /\ conn.pid = conns[c].pid /\ conn.port = conns[c].port
  BY <1>2 DEF ConnFields
<1>4. /\ conns[c].service \in Services /\ conns[c].slot \in SlotIds /\ conns[c].pid = None /\ conns[c].port = None
  BY <1>1, <1>2, ConnAt
<1> HIDE DEF conn
<1>5. IsConn(conn) /\ conn.pc \notin Queued /\ conn.pc \notin Launching
  BY <1>3, <1>4 DEF IsConn, Working, Slotted, Queued, WithLock, Owning, Launching
<1> QED
  BY <1>1, <1>3, <1>4, <1>5, LeaveQueue

LEMMA FindNoneInv ==
  ASSUME InstancesInv, NEW c \in Conns, FindNone(c)
  PROVE  InstancesInv'
<1> DEFINE n == conns[c].service
           i == conns[c].slot
           conn == [conns[c] EXCEPT !.pc = "starting", !.got = Launch(n)]
<1>1. /\ conns[c].pc = "locking" /\ Head(slots[i].queue) = c /\ slots[i].instance = NoInstance
      /\ Step(c, conn, map, slots)
  BY DEF FindNone, MayUse, HoldsLock, InstanceFor
<1>2. n \in DOMAIN state.services
  BY DEF FindNone, MayUse, Current
<1>3. IsConn(conns[c]) /\ conns[c] = [f \in ConnFields |-> conns[c][f]]
  BY Parts, ConnAt
<1>4. /\ n \in Services /\ i \in SlotIds /\ conns[c].pid = None /\ conns[c].port = None /\ phase = "up"
      /\ conns[c].pc \in Queued
  BY <1>1, <1>3, ConnAt, AtWork DEF Queued
<1>5. Launch(n).spec.service = n
  BY DEF Launch, LaunchSpec
<1>6. /\ conn = [f \in ConnFields |-> conn[f]] /\ conn.pc = "starting" /\ conn.service = n
      /\ conn.slot = i /\ conn.pid = None /\ conn.port = None /\ conn.got.spec.service = n
  BY <1>3, <1>4, <1>5 DEF ConnFields
<1> HIDE DEF conn
<1>7. IsConn(conn) /\ conn.pc \in WithLock
  BY <1>4, <1>6 DEF IsConn, Working, Slotted, Queued, WithLock, Owning, Launching
<1> DEFINE cs2 == [conns EXCEPT ![c] = conn]
<1>8. OneConn(conns, cs2, c) /\ cs2[c] = conn
  BY <1>7, OneConnChanged
<1> HIDE DEF cs2
<1>9. OneSlot(slots, slots, i)
  BY <1>4, Parts DEF OneSlot, SlotInv
<1>10. LockInv(slots, cs2)
  BY <1>1, <1>4, <1>6, <1>7, <1>8, <1>9, Parts, LockKept
<1>11. LockInv(slots, [conns EXCEPT ![c] = conn])
  BY <1>10 DEF cs2
<1> QED
  BY <1>1, <1>2, <1>4, <1>6, <1>7, <1>11, Parts, StepSound

LEMMA AwaitLockInv ==
  ASSUME InstancesInv, NEW c \in Conns, AwaitLock(c)
  PROVE  InstancesInv'
<1> DEFINE i == conns[c].slot
           conn == [conns[c] EXCEPT !.pc = IF @ = "holding" THEN "locking" ELSE "retiring"]
           s2 == [slots EXCEPT ![i].queue = Append(@, c)]
           cs2 == [conns EXCEPT ![c] = conn]
           x == slots[i]
<1>1. conns[c].pc \in {"holding", "unmapped"} /\ Step(c, conn, map, s2)
  BY DEF AwaitLock
<1>2. IsConn(conns[c]) /\ conns[c] = [f \in ConnFields |-> conns[c][f]]
  BY Parts, ConnAt
<1>3. /\ conn = [f \in ConnFields |-> conn[f]] /\ conn.pc \in {"locking", "retiring"} /\ conn.service = conns[c].service
      /\ conn.slot = i /\ conn.pid = conns[c].pid /\ conn.port = conns[c].port
  BY <1>1, <1>2 DEF ConnFields
<1>4. /\ conns[c].service \in Services /\ i \in SlotIds /\ conns[c].pid = None /\ conns[c].port = None
      /\ conns[c].pc \notin Queued /\ phase = "up" /\ conns[c].pc # "deleted"
  BY <1>1, <1>2, ConnAt, AtWork DEF Queued, WithLock
<1> HIDE DEF conn
<1>5. IsConn(conn) /\ conn.pc \notin Launching
  BY <1>3, <1>4 DEF IsConn, Working, Slotted, Queued, WithLock, Owning, Launching
<1>6. OneConn(conns, cs2, c) /\ cs2[c] = conn
  BY <1>5, OneConnChanged
<1>7. /\ s2 = [j \in SlotIds |-> s2[j]]
      /\ s2[i] = [x EXCEPT !.queue = Append(@, c)]
      /\ \A j \in SlotIds : j # i => s2[j] = slots[j]
  BY <1>4, Parts DEF SlotInv
<1>8. IsSlot(x)
  BY <1>4, Parts
<1> HIDE DEF x
<1> DEFINE y == [x EXCEPT !.queue = Append(@, c)]
<1>9. /\ y.queue = Append(x.queue, c) /\ y.instance = x.instance
      /\ y = [f \in {"instance", "retired", "queue"} |-> y[f]]
  BY <1>8 DEF IsSlot
<1>10. s2[i] = y
  BY <1>7
<1> HIDE DEF y, s2
<1>11. IsSlot(y)
  <2>1. Append(x.queue, c) \in Seq(Conns)
    BY <1>8 DEF IsSlot
  <2> QED
    BY <1>8, <1>9, <2>1 DEF IsSlot
<1>12. OneSlot(slots, s2, i)
  BY <1>7, <1>10, <1>11 DEF OneSlot
<1>13. s2[i].queue = Append(slots[i].queue, c) /\ \A j \in SlotIds : s2[j].instance = slots[j].instance
  BY <1>7, <1>9, <1>10 DEF x
<1>14. SlotInv(s2)
  BY <1>7, <1>10, <1>11, Parts DEF SlotInv
<1> HIDE DEF cs2
<1>15. LockInv(s2, cs2)
  <2> HIDE DEF i
  <2>1. i \in SlotIds /\ i = cs2[c].slot
    BY <1>3, <1>4, <1>6
  <2>2. cs2[c].pc \in {"locking", "retiring"} /\ s2[i].instance = slots[i].instance
    BY <1>3, <1>6, <1>13, <2>1
  <2> QED
    BY <1>4, <1>6, <1>12, <1>13, <2>1, <2>2, Parts, LockAwaited
<1>16. LockInv(s2, [conns EXCEPT ![c] = conn])
  BY <1>15 DEF cs2
<1> QED
  BY <1>1, <1>3, <1>4, <1>5, <1>13, <1>14, <1>16, Parts, StepSound

LEMMA FiniteRange ==
  ASSUME NEW S, IsFiniteSet(S), NEW f, f = [x \in S |-> f[x]]
  PROVE  /\ IsFiniteSet({f[x] : x \in S})
         /\ Cardinality({f[x] : x \in S}) \in Nat
         /\ Cardinality({f[x] : x \in S}) =< Cardinality(S)
<1> DEFINE T == {f[x] : x \in S}
<1>1. f \in Surjection(S, T)
  BY DEF Surjection
<1> HIDE DEF T
<1>2. IsFiniteSet(T) /\ Cardinality(T) =< Cardinality(S)
  BY <1>1, FS_Surjection
<1>3. Cardinality(T) \in Nat
  BY <1>2, FS_CardinalityType
<1> QED
  BY <1>2, <1>3 DEF T

\* There is a slot to create whenever one is needed: there are more slots than services with
\* a slot and connections with one.
LEMMA SlotAvailable ==
  ASSUME InstancesInv, NEW n \in Services, map[n] = None, NEW c \in Conns, conns[c].slot = None
  PROVE  NewSlot \in SlotIds /\ ~Referenced(NewSlot, map, conns)
<1> DEFINE f == [d \in Conns |-> conns[d].slot]
           A == {map[k] : k \in Services}
           B == {f[d] : d \in Conns}
           total == Cardinality(Conns) + Cardinality(Services)
<1>1. \E i \in SlotIds : ~Referenced(i, map, conns)
  <2> SUFFICES ASSUME \A i \in SlotIds : Referenced(i, map, conns) PROVE FALSE
    OBVIOUS
  <2>1. map = [k \in Services |-> map[k]]
    BY Parts
  <2>2. IsFiniteSet(A) /\ Cardinality(A) \in Nat /\ Cardinality(A) =< Cardinality(Services)
    BY <2>1, ConstantsAssumption, FiniteRange
  <2>3. f = [d \in Conns |-> f[d]]
    OBVIOUS
  <2>4. IsFiniteSet(B) /\ Cardinality(B) \in Nat /\ Cardinality(B) =< Cardinality(Conns)
    <3> HIDE DEF f
    <3> QED
      BY <2>3, ConstantsAssumption, FiniteRange
  <2>5. None \in A /\ None \in B
    OBVIOUS
  <2>6. SlotIds \subseteq A \cup B
    BY DEF Referenced
  <2>7. Cardinality(Conns) \in Nat /\ Cardinality(Services) \in Nat
    BY ConstantsAssumption, FS_CardinalityType
  <2>8. IsFiniteSet(SlotIds) /\ Cardinality(SlotIds) = total
    <3> HIDE DEF A, B
    <3>1. total \in Nat /\ SlotIds = 1..total
      BY <2>7 DEF SlotIds
    <3> HIDE DEF total
    <3>2. 1 \in Int /\ total \in Int
      BY <3>1
    <3>3. IsFiniteSet(1..total) /\ Cardinality(1..total) = IF 1 > total THEN 0 ELSE total - 1 + 1
      BY <3>2, FS_Interval
    <3> QED
      BY <3>1, <3>3
  <2>9. IsFiniteSet(SlotIds \cup {None}) /\ Cardinality(SlotIds \cup {None}) = total + 1
    <3>1. None \notin SlotIds
      BY SlotsAssumption
    <3> HIDE DEF A, B, total
    <3> QED
      BY <2>8, <3>1, FS_AddElement
  <2> HIDE DEF A, B
  <2>10. /\ IsFiniteSet(A \cup B)
         /\ Cardinality(A \cup B) = Cardinality(A) + Cardinality(B) - Cardinality(A \cap B)
    BY <2>2, <2>4, FS_Union
  <2>11. A \cap B \in SUBSET A /\ SlotIds \cup {None} \in SUBSET (A \cup B)
    BY <2>5, <2>6
  <2>12. Cardinality(A \cap B) \in Nat
    BY <2>2, <2>11, FS_Subset, FS_CardinalityType
  <2>13. Cardinality(SlotIds \cup {None}) =< Cardinality(A \cup B)
    BY <2>10, <2>11, FS_Subset
  <2>14. \A a, b, ab, s, k \in Nat : a =< s /\ b =< k => ~(k + s + 1 =< a + b - ab)
    OBVIOUS
  <2> QED
    BY <2>2, <2>4, <2>7, <2>9, <2>10, <2>12, <2>13, <2>14
<1> QED
  BY <1>1 DEF NewSlot

\* A connection gets the slot of its service.
LEMMA GivenSlot ==
  ASSUME InstancesInv, NEW c \in Conns, conns[c].pc \in {"admitted", "deleted"},
         NEW pc \in {"holding", "unmapped"}, NEW i \in SlotIds,
         LET n == conns[c].service IN map[n] = i \/ (map[n] = None /\ ~Referenced(i, map, conns)),
         NEW m2 \in [Services -> SlotIds \cup {None}],
         \A k \in Services : \/ m2[k] = map[k] \/ m2[k] = None
                             \/ (k = conns[c].service /\ m2[k] = i),
         conns[c].pc = "deleted" => m2[conns[c].service] = None,
         Step(c, [conns[c] EXCEPT !.pc = pc, !.slot = i], m2, slots)
  PROVE  InstancesInv'
<1> DEFINE n == conns[c].service
           conn == [conns[c] EXCEPT !.pc = pc, !.slot = i]
           cs2 == [conns EXCEPT ![c] = conn]
<1>1. IsConn(conns[c]) /\ conns[c] = [f \in ConnFields |-> conns[c][f]]
  BY Parts, ConnAt
<1>2. /\ n \in Services /\ conns[c].slot = None /\ conns[c].pid = None /\ conns[c].port = None
      /\ conns[c].pc \notin Queued /\ phase = "up"
  BY <1>1, ConnAt, AtWork DEF Queued, WithLock
<1>3. /\ conn = [f \in ConnFields |-> conn[f]] /\ conn.pc = pc /\ conn.service = n
      /\ conn.slot = i /\ conn.pid = None /\ conn.port = None
  BY <1>1, <1>2 DEF ConnFields
<1>4. /\ Settle(m2, slots, cs2, live, containers, removals)
      /\ ports' = ports /\ UNCHANGED <<phase, uids, state>>
  BY DEF Step, controlVars
<1> HIDE DEF conn
<1>5. IsConn(conn) /\ conn.pc \notin Launching /\ conn.pc \notin Queued
  BY <1>2, <1>3 DEF IsConn, Working, Slotted, Queued, WithLock, Owning, Launching
<1>6. OneConn(conns, cs2, c) /\ cs2[c] = conn
  BY <1>5, OneConnChanged
<1> HIDE DEF cs2
<1>7. \A d \in Conns : d # c => cs2[d] = conns[d]
  BY <1>6 DEF OneConn
<1>8. map[n] = None /\ ~Referenced(i, map, conns) =>
        /\ slots[i].instance = NoInstance
        /\ \A k \in Services : map[k] # i
        /\ \A d \in Conns : conns[d].slot # i
  BY EmptySlotIs DEF Referenced, InstancesInv, Unused
<1>9. AffinityInv(m2, slots, cs2)
  <2>1. PICK owner \in [SlotIds -> Services \cup {None}] : Belongs(owner, map, slots, conns)
    BY Parts DEF AffinityInv
  <2>2. None \notin SlotIds /\ None \notin Services
    BY SlotsAssumption, ConstantsAssumption
  <2>3. CASE map[n] = i
    <3>1. owner[i] = n
      BY <1>2, <2>1, <2>2, <2>3 DEF Belongs
    <3>2. Belongs(owner, m2, slots, cs2)
      BY <1>2, <1>3, <1>6, <1>7, <2>1, <2>2, <2>3, <3>1 DEF Belongs
    <3> QED
      BY <2>1, <3>2 DEF AffinityInv
  <2>4. CASE map[n] = None /\ ~Referenced(i, map, conns)
    <3> DEFINE owner2 == [owner EXCEPT ![i] = n]
    <3>1. /\ owner2 \in [SlotIds -> Services \cup {None}]
          /\ owner2[i] = n /\ \A j \in SlotIds : j # i => owner2[j] = owner[j]
      BY <1>2, <2>1
    <3> HIDE DEF owner2
    <3>2. \A k \in Services : m2[k] # None => owner2[m2[k]] = k
      <4> SUFFICES ASSUME NEW k \in Services, m2[k] # None PROVE owner2[m2[k]] = k
        OBVIOUS
      <4>1. CASE k = n /\ m2[k] = i
        BY <3>1, <4>1
      <4>2. CASE m2[k] = map[k]
        <5>1. map[k] \in SlotIds /\ map[k] # i /\ owner[map[k]] = k
          BY <1>8, <2>1, <2>4, <4>2, Parts DEF Belongs
        <5> QED
          BY <3>1, <4>2, <5>1
      <4> QED
        BY <4>1, <4>2
    <3>3. \A d \in Conns : cs2[d].slot # None => owner2[cs2[d].slot] = cs2[d].service
      <4> SUFFICES ASSUME NEW d \in Conns, cs2[d].slot # None PROVE owner2[cs2[d].slot] = cs2[d].service
        OBVIOUS
      <4>1. CASE d = c
        BY <1>3, <1>6, <3>1, <4>1
      <4>2. CASE d # c
        <5>1. cs2[d] = conns[d] /\ conns[d].slot # i /\ owner[conns[d].slot] = conns[d].service
          BY <1>7, <1>8, <2>1, <2>4, <4>2 DEF Belongs
        <5>2. conns[d].slot \in SlotIds
          BY <5>1, Parts DEF IsConn
        <5> QED
          BY <3>1, <5>1, <5>2
      <4> QED
        BY <4>1, <4>2
    <3>4. \A j \in SlotIds : slots[j].instance # NoInstance => owner2[j] = slots[j].instance.got.spec.service
      BY <1>8, <2>1, <2>4, <3>1 DEF Belongs
    <3>5. Belongs(owner2, m2, slots, cs2)
      BY <3>2, <3>3, <3>4 DEF Belongs
    <3> QED
      BY <3>1, <3>5 DEF AffinityInv
  <2> QED
    BY <2>3, <2>4
<1>10. LockInv(slots, cs2)
  BY <1>2, <1>5, <1>6, Parts, LockUntouched
<1>11. ManagerInv(m2, slots, cs2, live, ports, containers, removals)
  BY <1>2, <1>3, <1>6, <1>9, <1>10, Parts, LightStep DEF InstancesInv
<1>12. \A k \in Services :
         \/ m2[k] = map[k] \/ m2[k] = None
         \/ /\ slots[m2[k]].instance = NoInstance
            /\ \A d \in Conns : cs2[d].slot = m2[k] => d = c
            /\ cs2[c].pc \notin Launching
  BY <1>5, <1>6, <1>7, <1>8
<1> QED
  BY <1>2, <1>4, <1>5, <1>6, <1>11, <1>12, OneStep

LEMMA TakeSlotInv ==
  ASSUME InstancesInv, NEW c \in Conns, TakeSlot(c)
  PROVE  InstancesInv'
<1> DEFINE n == conns[c].service
           i == IF map[n] = None THEN NewSlot ELSE map[n]
<1>1. conns[c].pc = "admitted"
  BY DEF TakeSlot
<1>2. /\ conns[c].pc \notin Queued /\ conns[c].pid = None /\ phase = "up" /\ n \in Services
      /\ conns[c].slot = None
  BY <1>1, Parts, ConnAt, AtWork DEF Queued, WithLock
<1>3. CASE closed
  <2>1. Step(c, Idle, map, slots)
    BY <1>3 DEF TakeSlot
  <2> QED
    BY <1>1, <1>2, <2>1, Parts, EndQuietly
<1>4. CASE ~closed
  <2> DEFINE m2 == [map EXCEPT ![n] = i]
  <2>1. Step(c, [conns[c] EXCEPT !.pc = "holding", !.slot = i], m2, slots)
    BY <1>4 DEF TakeSlot
  <2>2. i \in SlotIds /\ (map[n] = i \/ (map[n] = None /\ ~Referenced(i, map, conns)))
    BY <1>2, Parts, SlotAvailable
  <2> HIDE DEF i
  <2>3. /\ m2 \in [Services -> SlotIds \cup {None}]
        /\ \A k \in Services : m2[k] = map[k] \/ m2[k] = None \/ (k = n /\ m2[k] = i)
    BY <1>2, <2>2, Parts
  <2> HIDE DEF m2
  <2> QED
    BY <1>1, <2>1, <2>2, <2>3, GivenSlot
<1> QED
  BY <1>3, <1>4

LEMMA UnmapInv ==
  ASSUME InstancesInv, NEW c \in Conns, Unmap(c)
  PROVE  InstancesInv'
<1> DEFINE n == conns[c].service
<1>1. conns[c].pc = "deleted"
  BY DEF Unmap
<1>2. conns[c].pc \notin Queued /\ conns[c].pid = None /\ phase = "up" /\ n \in Services
  BY <1>1, Parts, ConnAt, AtWork DEF Queued, WithLock
<1>3. CASE map[n] = None
  <2>1. Step(c, Idle, map, slots)
    BY <1>3 DEF Unmap
  <2> QED
    BY <1>1, <1>2, <1>3, <2>1, Parts, EndQuietly
<1>4. CASE map[n] # None
  <2> DEFINE i == map[n]
             m2 == [map EXCEPT ![n] = None]
  <2>1. Step(c, [conns[c] EXCEPT !.pc = "unmapped", !.slot = i], m2, slots)
    BY <1>4 DEF Unmap
  <2>2. i \in SlotIds
    BY <1>2, <1>4, Parts
  <2>3. /\ m2 \in [Services -> SlotIds \cup {None}]
        /\ \A k \in Services : m2[k] = map[k] \/ m2[k] = None \/ (k = n /\ m2[k] = i)
        /\ conns[c].pc = "deleted" => m2[conns[c].service] = None
    BY <1>2, Parts
  <2>4. map[n] = i \/ (map[n] = None /\ ~Referenced(i, map, conns))
    OBVIOUS
  <2> HIDE DEF i, m2
  <2> QED
    BY <1>1, <2>1, <2>2, <2>3, <2>4, GivenSlot
<1> QED
  BY <1>3, <1>4

-----------------------------------------------------------------------------
(***************************************************************************)
(* Steps that start and stop processes.                                    *)
(***************************************************************************)

LEMMA ConnHoldsIs ==
  ASSUME NEW conn
  PROVE  /\ conn.pid = None => ConnHolds(conn) = Nothing
         /\ conn.pid # None =>
              /\ ConnHolds(conn).pid = conn.pid /\ ConnHolds(conn).port = conn.port
              /\ ConnHolds(conn) = [pid |-> conn.pid, port |-> conn.port, service |-> conn.service,
                                    stage |-> IF conn.pc = "waiting" THEN "starting" ELSE "ready"]
<1>1. CASE conn.pid = None
  BY <1>1 DEF ConnHolds
<1>2. CASE conn.pid # None
  BY <1>2 DEF ConnHolds
<1> QED
  BY <1>1, <1>2

\* A step of c that may change the instance of slot i.
LEMMA HeldElsewhere ==
  ASSUME NEW s, NEW cs, NEW c \in Conns, NEW cs2, OneConn(cs, cs2, c),
         NEW s2, NEW i, \A j \in SlotIds : j # i => s2[j].instance = s[j].instance
  PROVE  /\ \A h \in Holders : h # ByConn(c) /\ h # InSlot(i) => Held(s2, cs2)[h] = Held(s, cs)[h]
         /\ s2[i].instance = s[i].instance =>
              \A h \in Holders : h # ByConn(c) => Held(s2, cs2)[h] = Held(s, cs)[h]
<1> DEFINE a == Held(s, cs)
           b == Held(s2, cs2)
<1>1. \A j \in SlotIds : s2[j].instance = s[j].instance => b[InSlot(j)] = a[InSlot(j)]
  <2>1. \A j \in SlotIds : s2[j].instance = s[j].instance => SlotHolds(s2[j]) = SlotHolds(s[j])
    BY DEF SlotHolds
  <2> QED
    BY <2>1, HeldIs
<1>2. \A d \in Conns : d # c => b[ByConn(d)] = a[ByConn(d)]
  <2>1. \A d \in Conns : d # c => cs2[d] = cs[d]
    BY DEF OneConn
  <2> QED
    BY <2>1, HeldIs
<1> HIDE DEF a, b
<1>3. \A h \in Holders : h # ByConn(c) /\ h # InSlot(i) => b[h] = a[h]
  BY <1>1, <1>2, HoldersAre
<1>4. s2[i].instance = s[i].instance => \A h \in Holders : h # ByConn(c) => b[h] = a[h]
  BY <1>1, <1>2, HoldersAre
<1> QED
  BY <1>3, <1>4 DEF a, b

\* terminate, or the failure of a start: nothing of the process survives.
LEMMA ConnLetsGo ==
  ASSUME InstancesInv, NEW c \in Conns, conns[c].pid # None,
         NEW cs2, OneConn(conns, cs2, c), cs2[c].pid = None,
         NEW s2, \A j \in SlotIds : s2[j].instance = slots[j].instance,
         NEW prt2, prt2 = ports \/ prt2 = ports \ {conns[c].port}
  PROVE  HoldInv(Held(s2, cs2), Without(live, {conns[c].pid}), prt2, containers \ {conns[c].pid}, removals)
<1> DEFINE hold == Held(slots, conns)
           hold2 == Held(s2, cs2)
           pid == conns[c].pid
           G == {ByConn(c)}
           existing2 == containers \ {pid}
           P == {pid}
           run2 == Without(live, P)
<1>1. HoldInv(hold, live, ports, containers, removals)
  BY Parts
<1>2. hold[ByConn(c)].pid = pid /\ hold[ByConn(c)].port = conns[c].port /\ ByConn(c) \in Holders
  BY HeldIs, HoldersAre, ConnHoldsIs
<1>3. hold2[ByConn(c)] = Nothing
  BY HeldIs, ConnHoldsIs
<1>4. \A h \in Holders : h # ByConn(c) => hold2[h] = hold[h]
  <2>1. PICK i \in SlotIds : i = conns[c].slot
    BY Parts, ConnAt DEF Owning
  <2>2. s2[i].instance = slots[i].instance /\ \A j \in SlotIds : j # i => s2[j].instance = slots[j].instance
    OBVIOUS
  <2> QED
    BY <2>2, HeldElsewhere
<1> HIDE DEF hold, hold2, pid
<1>5. /\ G \in SUBSET Holders
      /\ \A h \in Holders : hold2[h] = IF h \in G THEN Nothing ELSE hold[h]
  BY <1>2, <1>3, <1>4
<1>6. \A p : p \in P <=> p # None /\ \E h \in G : hold[h].pid = p
  BY <1>2 DEF pid
<1>7. prt2 \in SUBSET ports /\ \A h \in Holders \ G : hold[h].port # None => hold[h].port \in prt2
  BY <1>1, <1>2 DEF HoldInv, ProcessInv
<1>8. pid \notin removals
  BY <1>1, <1>2 DEF HoldInv, ContainerInv
<1>9. /\ existing2 \in SUBSET containers /\ containers \ existing2 \subseteq P
      /\ removals \subseteq existing2 /\ removals \subseteq removals /\ removals \subseteq removals \cup P
      /\ P \cap existing2 \subseteq removals
  BY <1>1, <1>8 DEF HoldInv, ContainerInv
<1>10. run2 = Without(live, P)
  OBVIOUS
<1> HIDE DEF G, P, existing2, run2
<1>11. HoldInv(hold2, run2, prt2, existing2, removals)
  BY <1>1, <1>5, <1>6, <1>7, <1>9, <1>10, LettingGo
<1> QED
  BY <1>11 DEF hold2, pid, P, existing2, run2

\* A connection with the lock stops its process, and goes on or leaves.
LEMMA StopSound ==
  ASSUME InstancesInv, NEW c \in Conns, conns[c].pc \in {"replacing", "waiting", "stopping"},
         NEW conn, IsConn(conn), conn.pid = None,
         NEW s2, \/ conn = Idle /\ s2 = Unlocked(conns[c].slot)
                 \/ /\ conns[c].pc = "replacing" /\ conn.pc = "starting"
                    /\ conn.slot = conns[c].slot /\ conn.service = conns[c].service /\ s2 = slots,
         NEW prt2, prt2 = ports \/ prt2 = ports \ {conns[c].port}, ports' = prt2,
         Settle(map, s2, [conns EXCEPT ![c] = conn], Without(live, {conns[c].pid}),
                containers \ {conns[c].pid}, removals),
         UNCHANGED <<phase, uids, state>>
  PROVE  InstancesInv'
<1> DEFINE i == conns[c].slot
           cs2 == [conns EXCEPT ![c] = conn]
<1>1. /\ i \in SlotIds /\ conns[c].pid # None /\ conns[c].pc \in Queued /\ phase = "up" /\ conns[c].pc \in WithLock
      /\ conns[c].pc # "deleted"
  BY Parts, ConnAt, AtWork, ConstantsAssumption DEF Queued, WithLock
<1>2. Head(slots[i].queue) = c /\ slots[i].instance = NoInstance
  BY <1>1, Parts DEF LockInv
<1>3. OneConn(conns, cs2, c) /\ cs2[c] = conn
  BY OneConnChanged
<1>4. Idle.pc \notin Queued /\ Idle.pc \notin Launching
  BY IdleIs DEF Queued, WithLock, Launching
<1> HIDE DEF cs2
<1>5. /\ SlotInv(s2) /\ LockInv(s2, cs2)
      /\ \A j \in SlotIds : s2[j].instance = slots[j].instance
  <2>1. CASE conn = Idle /\ s2 = Unlocked(i)
    <3>1. /\ OneSlot(slots, s2, i) /\ SlotInv(s2) /\ s2[i].queue = Tail(slots[i].queue)
          /\ \A j \in SlotIds : s2[j].instance = slots[j].instance
      BY <1>1, <2>1, UnlockedIs
    <3>2. cs2[c].pc \notin Queued
      BY <1>3, <1>4, <2>1
    <3>3. LockInv(s2, cs2)
      BY <1>1, <1>2, <1>3, <3>1, <3>2, Parts, LockLeft
    <3> QED
      BY <3>1, <3>3
  <2>2. CASE conn.pc = "starting" /\ conn.slot = i /\ s2 = slots
    <3>1. OneSlot(slots, slots, i)
      BY <1>1, Parts DEF OneSlot, SlotInv
    <3>2. cs2[c].pc \in WithLock /\ cs2[c].slot = i
      BY <1>3, <2>2 DEF WithLock
    <3>3. LockInv(slots, cs2)
      BY <1>1, <1>2, <1>3, <3>1, <3>2, Parts, LockKept
    <3> QED
      BY <2>2, <3>3, Parts
  <2> QED
    BY <2>1, <2>2
<1>6. cs2[c].slot = None \/ (cs2[c].slot = conns[c].slot /\ cs2[c].service = conns[c].service)
  BY <1>3, IdleIs
<1>7. AffinityInv(map, s2, cs2)
  BY <1>3, <1>5, <1>6, Parts, AffinityKept
<1>8. HoldInv(Held(s2, cs2), Without(live, {conns[c].pid}), prt2, containers \ {conns[c].pid}, removals)
  BY <1>1, <1>3, <1>5, ConnLetsGo
<1>9. ConnInv(cs2)
  BY <1>3, Parts DEF ConnInv, OneConn
<1>10. ManagerInv(map, s2, cs2, Without(live, {conns[c].pid}), prt2, containers \ {conns[c].pid}, removals)
  BY <1>5, <1>7, <1>8, <1>9 DEF ManagerInv
<1>11. cs2[c].pc \in Launching => cs2[c].slot = conns[c].slot /\ conns[c].pc \in Launching
  BY <1>3, <1>4 DEF Launching
<1>12. Settle(map, s2, cs2, Without(live, {conns[c].pid}), containers \ {conns[c].pid}, removals)
  BY DEF cs2
<1> QED
  BY <1>1, <1>3, <1>5, <1>10, <1>11, <1>12, OneStep

LEMMA EndTerminateInv ==
  ASSUME InstancesInv, NEW c \in Conns, EndTerminate(c)
  PROVE  InstancesInv'
<1> DEFINE conn == conns[c]
           next == IF conn.pc = "replacing" THEN [conn EXCEPT !.pc = "starting", !.pid = None] ELSE Idle
           s2 == IF conn.pc = "replacing" THEN slots ELSE Unlocked(conn.slot)
<1>1. /\ conn.pc \in {"replacing", "stopping"}
      /\ Settle(map, s2, [conns EXCEPT ![c] = next], Without(live, {conn.pid}), containers \ {conn.pid}, removals)
      /\ ports' = ports /\ UNCHANGED <<phase, uids, state>>
  BY DEF EndTerminate, controlVars
<1>2. IsConn(conn) /\ conn = [f \in ConnFields |-> conn[f]]
  BY Parts, ConnAt
<1>3. CASE conn.pc = "replacing"
  <2> DEFINE x == [conn EXCEPT !.pc = "starting", !.pid = None]
  <2>1. /\ x = [f \in ConnFields |-> x[f]] /\ x.pc = "starting" /\ x.service = conn.service
        /\ x.slot = conn.slot /\ x.pid = None /\ x.port = conn.port /\ x.got = conn.got
    BY <1>2 DEF ConnFields
  <2>2. /\ conn.service \in Services /\ conn.slot \in SlotIds /\ conn.port = None
        /\ conn.got.spec.service = conn.service
    BY <1>2, <1>3, ConnAt DEF Launching
  <2>3. next = x /\ s2 = slots
    BY <1>3
  <2> HIDE DEF x, next, s2
  <2>4. IsConn(x)
    BY <2>1, <2>2 DEF IsConn, Working, Slotted, Queued, WithLock, Owning, Launching
  <2> QED
    BY <1>1, <1>3, <2>1, <2>3, <2>4, StopSound
<1>4. CASE conn.pc = "stopping"
  <2>1. next = Idle /\ s2 = Unlocked(conn.slot)
    BY <1>4
  <2> HIDE DEF next, s2
  <2> QED
    BY <1>1, <1>4, <2>1, IdleIs, StopSound
<1> QED
  BY <1>1, <1>3, <1>4

LEMMA UnhealthyInv ==
  ASSUME InstancesInv, NEW c \in Conns, Unhealthy(c)
  PROVE  InstancesInv'
<1>1. /\ conns[c].pc = "waiting"
      /\ Settle(map, Unlocked(conns[c].slot), [conns EXCEPT ![c] = Idle], Without(live, {conns[c].pid}),
                containers \ {conns[c].pid}, removals)
      /\ ports' = ports \ {conns[c].port} /\ UNCHANGED <<phase, uids, state>>
  BY DEF Unhealthy, controlVars
<1> QED
  BY <1>1, IdleIs, StopSound

\* Who has the lock takes the instance out to stop it, and gives its port back.
LEMMA TakesOut ==
  ASSUME InstancesInv, NEW c \in Conns, conns[c].pc \in {"locking", "retiring"},
         NEW i \in SlotIds, i = conns[c].slot, Head(slots[i].queue) = c, slots[i].instance # NoInstance,
         NEW cs2, OneConn(conns, cs2, c), cs2[c].pc \in {"replacing", "stopping"}, cs2[c].slot = i,
         cs2[c].service = conns[c].service, cs2[c].pid = slots[i].instance.pid,
         cs2[c].pc = "replacing" => conns[c].service \in DOMAIN state.services,
         NEW s2, OneSlot(slots, s2, i), s2[i].queue = slots[i].queue, s2[i].instance = NoInstance,
         Settle(map, s2, cs2, live, containers, removals), ports' = ports \ {slots[i].instance.port},
         UNCHANGED <<phase, uids, state>>
  PROVE  InstancesInv'
<1> DEFINE hold == Held(slots, conns)
           hold2 == Held(s2, cs2)
           prt2 == ports \ {slots[i].instance.port}
<1>1. /\ phase = "up" /\ conns[c].pc \in Queued /\ cs2[c].pc \in WithLock /\ conns[c].pid = None
      /\ conns[c].pc # "deleted" /\ cs2[c].pc # "waiting"
  BY Parts, ConnAt, AtWork DEF Queued, WithLock
<1>2. LockInv(s2, cs2)
  BY <1>1, Parts, LockKept
<1>3. \A j \in SlotIds : s2[j].instance # NoInstance => s2[j].instance = slots[j].instance /\ j # i
  BY DEF OneSlot
<1>4. AffinityInv(map, s2, cs2)
  BY <1>3, Parts, AffinityKept
<1>5. ConnInv(cs2) /\ SlotInv(s2)
  BY Parts DEF ConnInv, SlotInv, OneConn, OneSlot
<1>6. HoldInv(hold, live, ports, containers, removals)
  BY Parts
<1>7. slots[i].instance.pid \in Pids /\ slots[i].instance.pid # None /\ cs2[c].port = None
  BY <1>1, ConstantsAssumption, Parts, ConnAt DEF IsSlot, OneConn
<1>8. slots[i].instance.got.spec.service = conns[c].service
  BY Parts, SlotsAssumption DEF AffinityInv, Belongs
<1>9. /\ InSlot(i) \in Holders /\ ByConn(c) \in Holders /\ InSlot(i) # ByConn(c)
      /\ hold[InSlot(i)].pid = slots[i].instance.pid /\ hold[InSlot(i)].stage = "ready"
      /\ hold[InSlot(i)].port = slots[i].instance.port /\ hold[InSlot(i)].service = conns[c].service
  <2>1. hold[InSlot(i)] = SlotHolds(slots[i])
    BY HeldIs
  <2>2. SlotHolds(slots[i]) = [pid |-> slots[i].instance.pid, port |-> slots[i].instance.port,
                               service |-> slots[i].instance.got.spec.service, stage |-> "ready"]
    BY DEF SlotHolds
  <2> QED
    BY <1>8, <2>1, <2>2, HoldersAre
<1>10. hold[ByConn(c)] = Nothing /\ hold2[InSlot(i)] = Nothing
  BY <1>1, HeldIs, ConnHoldsIs, SlotHoldsIs
<1>11. hold2[ByConn(c)] = [pid |-> slots[i].instance.pid, port |-> None, service |-> conns[c].service, stage |-> "ready"]
  BY <1>1, <1>7, HeldIs, ConnHoldsIs
<1>12. \A h \in Holders : h # InSlot(i) /\ h # ByConn(c) => hold2[h] = hold[h]
  <2>1. \A j \in SlotIds : j # i => s2[j].instance = slots[j].instance
    BY DEF OneSlot
  <2> QED
    BY <2>1, HeldElsewhere
<1> HIDE DEF hold, hold2
<1>13. HoldInv(hold2, live, prt2, containers, removals)
  BY <1>6, <1>7, <1>9, <1>10, <1>11, <1>12, HandedOver
<1>14. ManagerInv(map, s2, cs2, live, prt2, containers, removals)
  BY <1>2, <1>4, <1>5, <1>13 DEF ManagerInv, hold2
<1>15. cs2[c].pc \in Launching => cs2[c].pc = "replacing"
  BY DEF Launching
<1> HIDE DEF prt2
<1>16. ports' = prt2
  BY DEF prt2
<1> QED
  BY <1>1, <1>3, <1>14, <1>15, <1>16, OneStep

LEMMA FindOutdatedInv ==
  ASSUME InstancesInv, NEW c \in Conns, FindOutdated(c)
  PROVE  InstancesInv'
<1> DEFINE i == conns[c].slot
           conn == conns[c]
           conn2 == [conn EXCEPT !.pc = "replacing", !.got = Launch(conn.service), !.pid = slots[i].instance.pid]
           cs2 == [conns EXCEPT ![c] = conn2]
           s2 == [slots EXCEPT ![i].instance = NoInstance]
           cs3 == [conns EXCEPT ![c].pc = "replacing", ![c].got = Launch(conns[c].service),
                                ![c].pid = InstanceFor(c).pid]
<1>1. /\ conn.pc = "locking" /\ HoldsLock(c) /\ Current(conn.service, conn.token) = "ok"
      /\ slots[i].instance # NoInstance
      /\ Settle(map, s2, cs3, live, containers, removals)
      /\ ports' = ports \ {slots[i].instance.port} /\ UNCHANGED <<phase, uids, state>>
  BY DEF FindOutdated, MayUse, InstanceFor, controlVars
<1>2. /\ IsConn(conn) /\ conn = [f \in ConnFields |-> conn[f]] /\ conn.service \in Services /\ i \in SlotIds
      /\ conn.port = None /\ Head(slots[i].queue) = c
  BY <1>1, Parts, ConnAt DEF HoldsLock
<1>3. conn.service \in DOMAIN state.services
  BY <1>1 DEF Current
<1>4. Launch(conn.service).spec.service = conn.service
  BY DEF Launch, LaunchSpec
<1>5. /\ conn2 = [f \in ConnFields |-> conn2[f]] /\ conn2.pc = "replacing" /\ conn2.service = conn.service
      /\ conn2.slot = i /\ conn2.pid = slots[i].instance.pid /\ conn2.port = None
      /\ conn2.got = Launch(conn.service)
  BY <1>2 DEF ConnFields
<1>6. slots[i].instance.pid \in Pids
  BY <1>1, <1>2, Parts DEF IsSlot
<1>7. cs3 = cs2
  <2>1. conns = [d \in Conns |-> conns[d]]
    BY Parts DEF ConnInv
  <2>2. InstanceFor(c) = slots[i].instance
    BY DEF InstanceFor
  <2> QED
    BY <2>1, <2>2
<1>8. OneSlot(slots, s2, i) /\ s2[i].queue = slots[i].queue /\ s2[i].instance = NoInstance
  <2>1. slots = [j \in SlotIds |-> slots[j]] /\ IsSlot(slots[i])
    BY <1>2, Parts DEF SlotInv
  <2> DEFINE x == [slots[i] EXCEPT !.instance = NoInstance]
  <2>2. s2 = [slots EXCEPT ![i] = x]
    BY <1>2, <2>1
  <2>3. x = [f \in {"instance", "retired", "queue"} |-> x[f]] /\ x.queue = slots[i].queue /\ x.instance = NoInstance
    BY <2>1 DEF IsSlot
  <2> HIDE DEF x
  <2>4. IsSlot(x)
    BY <2>1, <2>3 DEF IsSlot
  <2> QED
    BY <1>2, <2>1, <2>2, <2>3, <2>4 DEF OneSlot
<1> HIDE DEF conn2, s2, cs3
<1>9. IsConn(conn2)
  BY <1>2, <1>4, <1>5, <1>6 DEF IsConn, Working, Slotted, Queued, WithLock, Owning, Launching
<1>10. OneConn(conns, cs2, c) /\ cs2[c] = conn2
  BY <1>9, OneConnChanged
<1>11. Settle(map, s2, cs2, live, containers, removals)
  BY <1>1, <1>7
<1> HIDE DEF cs2
<1> QED
  BY <1>1, <1>2, <1>3, <1>5, <1>8, <1>10, <1>11, TakesOut

LEMMA RetireInv ==
  ASSUME InstancesInv, NEW c \in Conns, Retire(c)
  PROVE  InstancesInv'
<1> DEFINE conn == conns[c]
           i == conns[c].slot
<1>1. conn.pc = "retiring" /\ HoldsLock(c) /\ UNCHANGED <<phase, uids, state>>
  BY DEF Retire, controlVars
<1>2. /\ IsConn(conn) /\ conn = [f \in ConnFields |-> conn[f]] /\ conn.service \in Services /\ i \in SlotIds
      /\ conn.port = None /\ conn.pid = None /\ Head(slots[i].queue) = c /\ phase = "up"
      /\ conn.pc \in Queued
  BY <1>1, Parts, ConnAt, AtWork DEF HoldsLock, Queued
<1>3. slots = [j \in SlotIds |-> slots[j]] /\ IsSlot(slots[i])
  BY <1>2, Parts DEF SlotInv
<1>4. \A s : s = [f \in {"instance", "retired", "queue"} |-> s[f]] =>
        /\ RetiredSlot(s).instance = NoInstance /\ RetiredSlot(s).queue = s.queue
        /\ RetiredSlot(s) = [f \in {"instance", "retired", "queue"} |-> RetiredSlot(s)[f]]
  BY DEF RetiredSlot
<1>5. \A s : IsSlot(s) =>
        RetiredSlot(s).instance = NoInstance /\ RetiredSlot(s).queue = s.queue /\ IsSlot(RetiredSlot(s))
  <2> SUFFICES ASSUME NEW s, IsSlot(s)
               PROVE  /\ RetiredSlot(s).instance = NoInstance /\ RetiredSlot(s).queue = s.queue
                      /\ IsSlot(RetiredSlot(s))
    OBVIOUS
  <2>1. /\ RetiredSlot(s).instance = NoInstance /\ RetiredSlot(s).queue = s.queue
        /\ RetiredSlot(s) = [f \in {"instance", "retired", "queue"} |-> RetiredSlot(s)[f]]
    BY <1>4 DEF IsSlot
  <2> DEFINE x == RetiredSlot(s)
  <2> HIDE DEF x
  <2>2. /\ x.instance = NoInstance /\ x.queue \in Seq(Conns)
        /\ x = [f \in {"instance", "retired", "queue"} |-> x[f]]
    BY <2>1 DEF IsSlot, x
  <2>3. IsSlot(x)
    BY <2>2 DEF IsSlot
  <2> QED
    BY <2>1, <2>3 DEF x
<1>6. CASE slots[i].instance = NoInstance
  <2> DEFINE u == Unlocked(i)
             s2 == [u EXCEPT ![i] = RetiredSlot(@)]
  <2>1. /\ OneSlot(slots, u, i) /\ SlotInv(u) /\ u[i].queue = Tail(slots[i].queue)
        /\ \A j \in SlotIds : u[j].instance = slots[j].instance
    BY <1>2, UnlockedIs
  <2>2. Step(c, Idle, map, s2)
    BY <1>6 DEF Retire, Step, controlVars
  <2> HIDE DEF u
  <2>3. /\ s2 = [j \in SlotIds |-> s2[j]] /\ s2[i] = RetiredSlot(u[i])
        /\ \A j \in SlotIds : j # i => s2[j] = u[j]
    BY <1>2, <2>1 DEF SlotInv
  <2> HIDE DEF s2
  <2>4. /\ OneSlot(slots, s2, i) /\ s2[i].queue = Tail(slots[i].queue)
        /\ \A j \in SlotIds : s2[j].instance = slots[j].instance
    BY <1>2, <1>5, <1>6, <2>1, <2>3 DEF OneSlot, SlotInv
  <2>5. SlotInv(s2)
    BY <2>4, Parts DEF OneSlot, SlotInv
  <2>6. LockInv(s2, [conns EXCEPT ![c] = Idle])
    <3> DEFINE cs2 == [conns EXCEPT ![c] = Idle]
    <3>1. OneConn(conns, cs2, c) /\ cs2[c] = Idle
      BY IdleIs, OneConnChanged
    <3>2. Idle.pc \notin Queued
      BY IdleIs DEF Queued, WithLock
    <3> HIDE DEF cs2
    <3>3. LockInv(s2, cs2)
      BY <1>2, <2>4, <3>1, <3>2, Parts, LockLeft
    <3> QED
      BY <3>3 DEF cs2
  <2>7. Idle.pc \notin Launching /\ conn.pc # "deleted"
    BY <1>1, IdleIs DEF Launching
  <2> QED
    BY <1>2, <2>2, <2>4, <2>5, <2>6, <2>7, IdleIs, Parts, StepSound
<1>7. CASE slots[i].instance # NoInstance
  <2> DEFINE pid == slots[i].instance.pid
             conn2 == [conn EXCEPT !.pc = "stopping", !.pid = pid]
             cs2 == [conns EXCEPT ![c] = conn2]
             s2 == [slots EXCEPT ![i] = RetiredSlot(@)]
             cs3 == [conns EXCEPT ![c].pc = "stopping", ![c].pid = pid]
  <2>1. Settle(map, s2, cs3, live, containers, removals) /\ ports' = ports \ {slots[i].instance.port}
    BY <1>7 DEF Retire
  <2>2. cs3 = cs2
    BY Parts DEF ConnInv
  <2>3. /\ conn2 = [f \in ConnFields |-> conn2[f]] /\ conn2.pc = "stopping" /\ conn2.service = conn.service
        /\ conn2.slot = i /\ conn2.pid = pid /\ conn2.port = None
    BY <1>2 DEF ConnFields
  <2>4. pid \in Pids
    BY <1>3, <1>7 DEF IsSlot
  <2>5. /\ s2 = [j \in SlotIds |-> s2[j]] /\ s2[i] = RetiredSlot(slots[i])
        /\ \A j \in SlotIds : j # i => s2[j] = slots[j]
    BY <1>2, <1>3
  <2> HIDE DEF conn2, s2, cs3
  <2>6. OneSlot(slots, s2, i) /\ s2[i].queue = slots[i].queue /\ s2[i].instance = NoInstance
    BY <1>3, <1>5, <2>5 DEF OneSlot
  <2>7. IsConn(conn2)
    BY <1>2, <2>3, <2>4 DEF IsConn, Working, Slotted, Queued, WithLock, Owning, Launching
  <2>8. OneConn(conns, cs2, c) /\ cs2[c] = conn2
    BY <2>7, OneConnChanged
  <2>9. Settle(map, s2, cs2, live, containers, removals)
    BY <2>1, <2>2
  <2> HIDE DEF cs2
  <2> QED
    BY <1>1, <1>2, <1>7, <2>1, <2>3, <2>6, <2>8, <2>9, TakesOut
<1> QED
  BY <1>6, <1>7

\* A start with the lock gets a port and a process.
LEMMA SpawnInv ==
  ASSUME InstancesInv, NEW c \in Conns, Spawn(c)
  PROVE  InstancesInv'
<1> DEFINE conn == conns[c]
           i == conns[c].slot
           spec == conn.got.spec
           uid == conn.got.born[1]
           hold == Held(slots, conns)
<1>1. PICK port \in FreePorts, pid \in FreshPids :
        /\ ports' = ports \cup {port}
        /\ Settle(map, slots, [conns EXCEPT ![c].pc = "waiting", ![c].pid = pid, ![c].port = port],
                  With(live, pid, [service |-> spec.service, uid |-> uid, port |-> port, listening |-> FALSE]),
                  IF InContainer(spec) THEN containers \cup {pid} ELSE containers, removals)
  BY DEF Spawn
<1> DEFINE conn2 == [conn EXCEPT !.pc = "waiting", !.pid = pid, !.port = port]
           cs2 == [conns EXCEPT ![c] = conn2]
           cs3 == [conns EXCEPT ![c].pc = "waiting", ![c].pid = pid, ![c].port = port]
           run2 == With(live, pid, [service |-> spec.service, uid |-> uid, port |-> port, listening |-> FALSE])
           existing2 == IF InContainer(spec) THEN containers \cup {pid} ELSE containers
           prt2 == ports \cup {port}
           hold2 == Held(slots, cs2)
<1>2. conn.pc = "starting" /\ UNCHANGED <<phase, uids, state>>
  BY DEF Spawn, controlVars
<1>3. /\ IsConn(conn) /\ conn = [f \in ConnFields |-> conn[f]] /\ conn.service \in Services /\ i \in SlotIds
      /\ conn.pid = None /\ phase = "up" /\ conn.pc \in Queued /\ conn.pc \in WithLock
      /\ conn.pc \in Launching /\ conn.pc # "deleted" /\ spec.service = conn.service
  BY <1>2, Parts, ConnAt, AtWork DEF Queued, WithLock, Launching
<1>4. Head(slots[i].queue) = c /\ slots[i].instance = NoInstance
  BY <1>3, Parts DEF LockInv
<1>5. /\ pid \in Pids /\ pid \notin DOMAIN live /\ pid \notin containers
      /\ \A d \in Conns : conns[d].pid # pid
      /\ \A j \in SlotIds : slots[j].instance # NoInstance => slots[j].instance.pid # pid
  BY DEF FreshPids
<1>6. port \in Ports /\ port \notin ports /\ \A p \in DOMAIN live : live[p].listening = TRUE => live[p].port # port
  BY DEF FreePorts, Unbound
<1>7. pid # None /\ port # None
  BY <1>5, <1>6, ConstantsAssumption
<1>8. cs3 = cs2
  BY Parts DEF ConnInv
<1>9. /\ conn2 = [f \in ConnFields |-> conn2[f]] /\ conn2.pc = "waiting" /\ conn2.service = conn.service
      /\ conn2.slot = i /\ conn2.pid = pid /\ conn2.port = port /\ conn2.got = conn.got
  BY <1>3 DEF ConnFields
<1> HIDE DEF conn2, cs3
<1>10. IsConn(conn2)
  BY <1>3, <1>5, <1>6, <1>9 DEF IsConn, Working, Slotted, Queued, WithLock, Owning, Launching
<1>11. OneConn(conns, cs2, c) /\ cs2[c] = conn2
  BY <1>10, OneConnChanged
<1>12. Settle(map, slots, cs2, run2, existing2, removals)
  BY <1>1, <1>8 DEF cs3
<1>13. ports' = prt2
  BY <1>1
<1> HIDE DEF cs2
<1>14. OneSlot(slots, slots, i)
  BY <1>3, Parts DEF OneSlot, SlotInv
<1>15. cs2[c].pc \in WithLock /\ cs2[c].slot = i /\ cs2[c].service = conn.service /\ cs2[c].pc \in Launching
  BY <1>9, <1>11 DEF WithLock, Launching
<1>16. LockInv(slots, cs2)
  BY <1>3, <1>4, <1>11, <1>14, <1>15, Parts, LockKept
<1>17. AffinityInv(map, slots, cs2)
  BY <1>11, <1>15, Parts, AffinityKept
<1>18. ConnInv(cs2)
  BY <1>11, Parts DEF ConnInv, OneConn
<1>19. HoldInv(hold, live, ports, containers, removals)
  BY Parts
<1>20. ByConn(c) \in Holders /\ hold[ByConn(c)] = Nothing
  BY <1>3, HeldIs, HoldersAre, ConnHoldsIs
<1>21. hold2[ByConn(c)] = [pid |-> pid, port |-> port, service |-> spec.service, stage |-> "starting"]
  BY <1>3, <1>7, <1>9, <1>11, HeldIs, ConnHoldsIs
<1>22. \A h \in Holders : h # ByConn(c) => hold2[h] = hold[h]
  BY <1>3, <1>11, HeldElsewhere
<1>23. \A h \in Holders : hold[h].pid # pid
  <2> SUFFICES ASSUME NEW h \in Holders PROVE hold[h].pid # pid
    OBVIOUS
  <2>1. CASE \E j \in SlotIds : h = InSlot(j)
    <3>1. PICK j \in SlotIds : h = InSlot(j)
      BY <2>1
    <3>2. hold[h] = SlotHolds(slots[j])
      BY <3>1, HeldIs
    <3> QED
      BY <1>5, <1>7, <3>2, SlotHoldsIs
  <2>2. CASE \E d \in Conns : h = ByConn(d)
    <3>1. PICK d \in Conns : h = ByConn(d)
      BY <2>2
    <3>2. hold[h] = ConnHolds(conns[d])
      BY <3>1, HeldIs
    <3>3. Nothing.pid = None
      BY DEF Nothing
    <3> QED
      BY <1>5, <1>7, <3>2, <3>3, ConnHoldsIs
  <2> QED
    BY <2>1, <2>2, HoldersAre
<1>24. /\ run2 = With(live, pid, [service |-> spec.service, uid |-> uid, port |-> port, listening |-> FALSE])
       /\ (existing2 = containers \/ existing2 = containers \cup {pid})
  OBVIOUS
<1> HIDE DEF hold, hold2, run2, existing2, spec, uid
<1>25. HoldInv(hold2, run2, prt2, existing2, removals)
  <2>1. pid \in Pids /\ pid \notin DOMAIN live /\ pid \notin containers
    BY <1>5
  <2>2. existing2 = containers \/ existing2 = containers \cup {pid}
    BY <1>24
  <2>3. run2 = With(live, pid, [service |-> spec.service, uid |-> uid, port |-> port, listening |-> FALSE])
    BY <1>24
  <2> DEFINE process == [service |-> spec.service, uid |-> uid, port |-> port, listening |-> FALSE]
             x == hold2[ByConn(c)]
  <2>4. IsProcess(process) /\ process.port = port
    BY DEF IsProcess
  <2>5. x.pid = pid /\ x.port = port /\ x.service = process.service /\ x.stage = "starting"
    BY <1>21
  <2>6. run2 = With(live, pid, process) /\ prt2 = ports \cup {port}
    BY <2>3
  <2>8. IsNew(pid, port, hold, live, ports, containers)
    BY <1>6, <1>23, <2>1 DEF IsNew
  <2>9. TakesUp(ByConn(c), hold, hold2, pid, process)
    BY <1>20, <1>22, <2>4, <2>5 DEF TakesUp
  <2> HIDE DEF process, prt2
  <2>10. IsNew(pid, process.port, hold, live, ports, containers) /\ prt2 = ports \cup {process.port}
    BY <2>4, <2>6, <2>8
  <2> QED
    BY <1>19, <2>2, <2>6, <2>9, <2>10, TakenUp
<1>26. ManagerInv(map, slots, cs2, run2, prt2, existing2, removals)
  BY <1>16, <1>17, <1>18, <1>25, Parts DEF ManagerInv, hold2
<1> HIDE DEF prt2
<1> QED
  BY <1>2, <1>3, <1>11, <1>12, <1>13, <1>15, <1>26, OneStep

\* A start that succeeded: the slot gets the instance and the next in the queue the lock.
LEMMA ReadyInv ==
  ASSUME InstancesInv, NEW c \in Conns, Ready(c)
  PROVE  InstancesInv'
<1> DEFINE conn == conns[c]
           i == conns[c].slot
           instance == [got |-> conn.got, port |-> conn.port, pid |-> conn.pid]
           conn2 == [conn EXCEPT !.pc = "answered", !.slot = None, !.pid = None, !.port = None]
           cs2 == [conns EXCEPT ![c] = conn2]
           cs3 == [conns EXCEPT ![c].pc = "answered", ![c].slot = None, ![c].pid = None, ![c].port = None]
           u == Unlocked(i)
           s2 == [u EXCEPT ![i].instance = instance]
           run2 == [live EXCEPT ![conn.pid].listening = TRUE]
           hold == Held(slots, conns)
           hold2 == Held(s2, cs2)
<1>1. /\ conn.pc = "waiting" /\ conn.pid \in DOMAIN live
      /\ Settle(map, s2, cs3, run2, containers, removals)
      /\ ports' = ports /\ UNCHANGED <<phase, uids, state>>
  BY DEF Ready, controlVars
<1>2. /\ IsConn(conn) /\ conn = [f \in ConnFields |-> conn[f]] /\ conn.service \in Services /\ i \in SlotIds
      /\ conn.pid \in Pids /\ conn.port \in Ports /\ phase = "up" /\ conn.pc \in Queued /\ conn.pc \in WithLock
      /\ conn.pc \in Launching /\ conn.pc # "deleted" /\ conn.got.spec.service = conn.service
  BY <1>1, Parts, ConnAt, AtWork DEF Queued, WithLock, Launching
<1>3. Head(slots[i].queue) = c /\ slots[i].instance = NoInstance
  BY <1>2, Parts DEF LockInv
<1>4. /\ instance.got = conn.got /\ instance.port = conn.port /\ instance.pid = conn.pid
      /\ instance # NoInstance /\ conn.pid # None /\ conn.port # None
  BY <1>2, ConstantsAssumption DEF NoInstance
<1>5. cs3 = cs2
  BY Parts DEF ConnInv
<1>6. /\ conn2 = [f \in ConnFields |-> conn2[f]] /\ conn2.pc = "answered" /\ conn2.service = conn.service
      /\ conn2.slot = None /\ conn2.pid = None /\ conn2.port = None
  BY <1>2 DEF ConnFields
<1> HIDE DEF conn2, cs3, instance, u
<1>7. IsConn(conn2) /\ conn2.pc \notin Queued /\ conn2.pc \notin Launching
  BY <1>2, <1>6 DEF IsConn, Working, Slotted, Queued, WithLock, Owning, Launching
<1>8. OneConn(conns, cs2, c) /\ cs2[c] = conn2
  BY <1>7, OneConnChanged
<1>9. Settle(map, s2, cs2, run2, containers, removals)
  BY <1>1, <1>5
<1>10. /\ OneSlot(slots, u, i) /\ SlotInv(u) /\ u[i].queue = Tail(slots[i].queue)
       /\ \A j \in SlotIds : u[j].instance = slots[j].instance
  BY <1>2, UnlockedIs DEF u
<1>11. /\ OneSlot(slots, s2, i) /\ SlotInv(s2) /\ s2[i].queue = Tail(slots[i].queue) /\ s2[i].instance = instance
       /\ \A j \in SlotIds : j # i => s2[j].instance = slots[j].instance
  <2>1. u = [j \in SlotIds |-> u[j]] /\ IsSlot(u[i])
    BY <1>2, <1>10 DEF SlotInv
  <2> DEFINE x == [u[i] EXCEPT !.instance = instance]
  <2>2. /\ s2 = [j \in SlotIds |-> s2[j]] /\ s2[i] = x
        /\ \A j \in SlotIds : j # i => s2[j] = u[j]
    BY <1>2, <2>1
  <2>3. x = [f \in {"instance", "retired", "queue"} |-> x[f]] /\ x.queue = u[i].queue /\ x.instance = instance
    BY <2>1 DEF IsSlot
  <2> HIDE DEF x, s2
  <2>4. IsSlot(x)
    BY <1>2, <1>4, <2>1, <2>3 DEF IsSlot
  <2>5. OneSlot(slots, s2, i)
    BY <1>10, <2>2, <2>4 DEF OneSlot
  <2>6. SlotInv(s2)
    BY <2>5, Parts DEF OneSlot, SlotInv
  <2> QED
    BY <1>10, <2>2, <2>3, <2>5, <2>6
<1> HIDE DEF cs2, s2
<1>12. LockInv(s2, cs2)
  BY <1>2, <1>3, <1>7, <1>8, <1>11, Parts, LockLeft
<1>13. AffinityInv(map, s2, cs2)
  <2>1. PICK owner \in [SlotIds -> Services \cup {None}] : Belongs(owner, map, slots, conns)
    BY Parts DEF AffinityInv
  <2>2. owner[i] = conn.service
    BY <1>2, <2>1, SlotsAssumption DEF Belongs
  <2>3. \A d \in Conns : cs2[d].slot # None => owner[cs2[d].slot] = cs2[d].service
    BY <1>6, <1>8, <2>1 DEF Belongs, OneConn
  <2>4. \A j \in SlotIds : s2[j].instance # NoInstance => owner[j] = s2[j].instance.got.spec.service
    BY <1>2, <1>4, <1>11, <2>1, <2>2 DEF Belongs
  <2>5. Belongs(owner, map, s2, cs2)
    BY <2>1, <2>3, <2>4 DEF Belongs
  <2> QED
    BY <2>1, <2>5, Parts DEF AffinityInv
<1>14. ConnInv(cs2)
  BY <1>8, Parts DEF ConnInv, OneConn
<1>15. HoldInv(hold, live, ports, containers, removals)
  BY Parts
<1>16. /\ InSlot(i) \in Holders /\ ByConn(c) \in Holders /\ InSlot(i) # ByConn(c)
       /\ hold[InSlot(i)] = Nothing /\ hold2[ByConn(c)] = Nothing
  BY <1>2, <1>3, <1>6, <1>8, HeldIs, HoldersAre, ConnHoldsIs, SlotHoldsIs
<1>17. hold[ByConn(c)].pid = conn.pid /\ hold[ByConn(c)].port = conn.port /\ hold[ByConn(c)].service = conn.service
  <2>1. hold[ByConn(c)] = ConnHolds(conn)
    BY HeldIs
  <2> QED
    BY <1>4, <2>1, ConnHoldsIs
<1>18. hold2[InSlot(i)] = [pid |-> conn.pid, port |-> conn.port, service |-> conn.service, stage |-> "ready"]
  <2>1. hold2[InSlot(i)] = SlotHolds(s2[i])
    BY <1>2, HeldIs
  <2>2. SlotHolds(s2[i]) = [pid |-> instance.pid, port |-> instance.port,
                            service |-> instance.got.spec.service, stage |-> "ready"]
    BY <1>4, <1>11 DEF SlotHolds
  <2> QED
    BY <1>2, <1>4, <2>1, <2>2
<1>19. \A h \in Holders : h # ByConn(c) /\ h # InSlot(i) => hold2[h] = hold[h]
  BY <1>8, <1>11, HeldElsewhere
<1>20. run2 = [live EXCEPT ![hold[ByConn(c)].pid].listening = TRUE]
  BY <1>17
<1> HIDE DEF hold, hold2, run2
<1>21. HoldInv(hold2, run2, ports, containers, removals)
  <2>1. hold[ByConn(c)].pid \in DOMAIN live /\ hold[ByConn(c)].port # None
    BY <1>1, <1>4, <1>17
  <2>2. hold2[InSlot(i)] = [pid |-> hold[ByConn(c)].pid, port |-> hold[ByConn(c)].port,
                            service |-> hold[ByConn(c)].service, stage |-> "ready"]
    BY <1>17, <1>18
  <2> QED
    BY <1>15, <1>16, <1>19, <1>20, <2>1, <2>2, PutIn
<1>22. ManagerInv(map, s2, cs2, run2, ports, containers, removals)
  BY <1>11, <1>12, <1>13, <1>14, <1>21 DEF ManagerInv, hold2
<1>23. \A j \in SlotIds : s2[j].instance # NoInstance =>
         slots[j].instance # NoInstance \/ (conns[c].pc \in Launching /\ conns[c].slot = j)
  BY <1>2, <1>11
<1>24. cs2[c].pc \notin Launching
  BY <1>7, <1>8
<1> QED
  BY <1>1, <1>2, <1>8, <1>9, <1>22, <1>23, <1>24, OneStep

LEMMA ProceedInv ==
  ASSUME InstancesInv, NEW c \in Conns, Proceed(c)
  PROVE  InstancesInv'
  BY TakeSlotInv, AwaitLockInv, FindRetiredInv, FindRefusedInv, FindUsableInv, FindOutdatedInv, FindNoneInv,
     EndTerminateInv, AnswerInv, DiscardInv, SpawnInv, CannotSpawnInv, ReadyInv, UnhealthyInv, UnmapInv,
     RetireInv
  DEF Proceed

-----------------------------------------------------------------------------
(***************************************************************************)
(* Steps that nobody asked for: exits, removals, shutdown and crashes.     *)
(***************************************************************************)

LEMMA ExitInv ==
  ASSUME InstancesInv, NEW pid, ProcessExits(pid)
  PROVE  InstancesInv'
<1> DEFINE hold == Held(slots, conns)
           run2 == Without(live, {pid})
<1>1. /\ phase # "down" /\ live' = run2
      /\ UNCHANGED <<phase, uids, state, map, slots, ports, containers, removals, conns>>
  BY DEF ProcessExits, controlVars, dockerVars
<1>2. HoldInv(hold, live, ports, containers, removals)
  BY Parts
<1>3. /\ DOMAIN run2 = DOMAIN live \ {pid}
      /\ run2 = [p \in DOMAIN run2 |-> run2[p]]
      /\ \A p \in DOMAIN run2 : run2[p] = live[p]
  BY DEF Without, Restrict
<1> HIDE DEF hold, run2
<1>4. ProcessInv(hold, run2, ports)
  <2>1. \A h \in Holders : hold[h].port # None =>
          hold[h].port \in ports /\ \A p \in DOMAIN run2 : run2[p].port = hold[h].port => p = hold[h].pid
    BY <1>2, <1>3 DEF HoldInv, ProcessInv
  <2>2. \A p \in DOMAIN run2 : \E h \in Holders : hold[h].pid = p
    BY <1>2, <1>3 DEF HoldInv, ProcessInv
  <2>3. \A h \in Holders : hold[h].pid \in DOMAIN run2 =>
          /\ run2[hold[h].pid].service = hold[h].service
          /\ hold[h].port # None => run2[hold[h].pid].port = hold[h].port
          /\ hold[h].stage = "ready" => run2[hold[h].pid].listening = TRUE
    BY <1>2, <1>3 DEF HoldInv, ProcessInv
  <2>4. \A p, q \in DOMAIN run2 : run2[p].port = run2[q].port => p = q
    BY <1>2, <1>3 DEF HoldInv, ProcessInv
  <2> QED
    BY <1>2, <2>1, <2>2, <2>3, <2>4 DEF HoldInv, ProcessInv
<1>5. HoldInv(hold, run2, ports, containers, removals)
  BY <1>2, <1>3, <1>4 DEF HoldInv
<1>6. ManagerInv(map', slots', conns', live', ports', containers', removals')
  BY <1>1, <1>5 DEF InstancesInv, ManagerInv, hold
<1> QED
  BY <1>1, <1>6 DEF InstancesInv

LEMMA RemovalInv ==
  ASSUME InstancesInv, NEW pid, EndRemoval(pid)
  PROVE  InstancesInv'
<1> DEFINE hold == Held(slots, conns)
           existing2 == containers \ {pid}
           removing2 == removals \ {pid}
<1>1. /\ pid \in removals /\ containers' = existing2 /\ removals' = removing2
      /\ UNCHANGED <<phase, uids, state, map, slots, ports, live, conns>>
  BY DEF EndRemoval, controlVars
<1>2. HoldInv(hold, live, ports, containers, removals)
  BY Parts
<1> HIDE DEF hold
<1>3. ContainerInv(hold, existing2, removing2)
  <2>1. removing2 \subseteq existing2 /\ existing2 \subseteq Pids
    BY <1>2 DEF HoldInv, ContainerInv
  <2>2. \A p \in existing2 : p \in removing2 \/ \E h \in Holders : hold[h].pid = p
    BY <1>2 DEF HoldInv, ContainerInv
  <2>3. \A h \in Holders : hold[h].pid \notin removing2
    BY <1>2 DEF HoldInv, ContainerInv
  <2> QED
    BY <2>1, <2>2, <2>3 DEF ContainerInv
<1>4. phase = "down" => existing2 = {}
  BY DEF InstancesInv
<1> HIDE DEF existing2, removing2
<1>5. HoldInv(hold, live, ports, existing2, removing2)
  BY <1>2, <1>3 DEF HoldInv
<1>6. ManagerInv(map', slots', conns', live', ports', containers', removals')
  BY <1>1, <1>5 DEF InstancesInv, ManagerInv, hold
<1> QED
  BY <1>1, <1>4, <1>6 DEF InstancesInv

\* A manager that has nothing.
LEMMA NothingManaged ==
  ASSUME NEW m, m = [n \in Services |-> None], NEW s, s = [i \in SlotIds |-> EmptySlot],
         NEW cs, cs = [c \in Conns |-> Idle], NEW prt \in SUBSET Ports
  PROVE  /\ ManagerInv(m, s, cs, Empty, prt, {}, {}) /\ Unused(m, s, cs)
         /\ \A services : GoneInv(m, s, cs, services)
<1>1. ConnInv(cs) /\ \A c \in Conns : cs[c] = Idle
  BY IdleIs DEF ConnInv
<1>2. SlotInv(s) /\ \A i \in SlotIds : s[i] = EmptySlot /\ s[i].instance = NoInstance /\ s[i].queue = <<>>
  BY EmptySlotIs DEF SlotInv
<1>3. LockInv(s, cs)
  <2>1. \A c \in Conns : cs[c].pc \notin Queued /\ cs[c].pc \notin WithLock
    BY <1>1, IdleIs DEF Queued, WithLock
  <2>2. \A i \in SlotIds : DOMAIN s[i].queue = {}
    BY <1>2
  <2> QED
    BY <2>1, <2>2 DEF LockInv
<1>4. AffinityInv(m, s, cs)
  <2> DEFINE owner == [i \in SlotIds |-> None]
  <2>1. Belongs(owner, m, s, cs)
    BY <1>1, <1>2, IdleIs DEF Belongs
  <2>2. owner \in [SlotIds -> Services \cup {None}] /\ m \in [Services -> SlotIds \cup {None}]
    OBVIOUS
  <2> HIDE DEF owner
  <2> QED
    BY <2>1, <2>2 DEF AffinityInv
<1>5. \A h \in Holders : Held(s, cs)[h] = Nothing
  <2>1. \A i \in SlotIds : Held(s, cs)[InSlot(i)] = Nothing
    BY <1>2, HeldIs, SlotHoldsIs
  <2>2. \A c \in Conns : Held(s, cs)[ByConn(c)] = Nothing
    BY <1>1, IdleIs, HeldIs, ConnHoldsIs
  <2> QED
    BY <2>1, <2>2, HoldersAre
<1>6. HoldInv(Held(s, cs), Empty, prt, {}, {})
  <2> DEFINE hold == Held(s, cs)
  <2>1. DOMAIN Empty = {} /\ Empty = [p \in DOMAIN Empty |-> Empty[p]]
    BY DEF Empty
  <2>2. \A h \in Holders : hold[h] = Nothing /\ hold[h].pid = None /\ hold[h].port = None
    BY <1>5 DEF Nothing
  <2> HIDE DEF hold
  <2>3. ProcessInv(hold, Empty, prt)
    BY <2>1, <2>2 DEF ProcessInv, IsHeld
  <2>4. ContainerInv(hold, {}, {})
    BY DEF ContainerInv
  <2>5. HoldInv(hold, Empty, prt, {}, {})
    BY <2>1, <2>3, <2>4 DEF HoldInv
  <2> QED
    BY <2>5 DEF hold
<1>7. Unused(m, s, cs)
  BY <1>2 DEF Unused
<1>8. \A services : GoneInv(m, s, cs, services)
  BY DEF GoneInv, InUse
<1> QED
  BY <1>1, <1>2, <1>3, <1>4, <1>6, <1>7, <1>8 DEF ManagerInv

LEMMA LostInv ==
  ASSUME LoseMemory, phase' \in {"up", "aborted", "down"}, uids' =< MaxUids
  PROVE  InstancesInv'
<1>1. /\ map' = [n \in Services |-> None] /\ slots' = [i \in SlotIds |-> EmptySlot]
      /\ conns' = [c \in Conns |-> Idle] /\ live' = Empty /\ ports' = {} /\ containers' = {} /\ removals' = {}
  BY DEF LoseMemory
<1>2. /\ ManagerInv(map', slots', conns', live', ports', containers', removals') /\ Unused(map', slots', conns')
      /\ \A services : GoneInv(map', slots', conns', services)
  BY <1>1, NothingManaged
<1> QED
  BY <1>1, <1>2 DEF InstancesInv

LEMMA InstancesInit == Init => InstancesInv
<1> SUFFICES ASSUME Init PROVE InstancesInv
  OBVIOUS
<1>1. /\ map = [n \in Services |-> None] /\ slots = [i \in SlotIds |-> EmptySlot]
      /\ conns = [c \in Conns |-> Idle] /\ live = Empty /\ ports = {} /\ containers = {} /\ removals = {}
      /\ phase = "up" /\ uids = 0
  BY DEF Init
<1>2. /\ ManagerInv(map, slots, conns, live, ports, containers, removals) /\ Unused(map, slots, conns)
      /\ \A services : GoneInv(map, slots, conns, services)
  BY <1>1, NothingManaged
<1>3. uids =< MaxUids
  BY <1>1, ConstantsAssumption
<1> QED
  BY <1>1, <1>2, <1>3 DEF InstancesInv

\* Shutdown cancels every connection where it stands.
LEMMA AbortInv ==
  ASSUME InstancesInv, Abort
  PROVE  InstancesInv'
<1> DEFINE s2 == [i \in SlotIds |-> [slots[i] EXCEPT !.queue = <<>>]]
           cs2 == [c \in Conns |-> Idle]
           P == HeldPids
           run2 == Without(live, P)
           removing2 == removals \cup (P \cap containers)
           prt2 == ports \ {conns[c].port : c \in Conns}
           hold == Held(slots, conns)
           hold2 == Held(s2, cs2)
           G == {ByConn(c) : c \in Conns}
<1>1. /\ phase' = "aborted" /\ Settle(map, s2, cs2, run2, containers, removing2) /\ ports' = prt2
      /\ UNCHANGED <<uids, state>>
  BY DEF Abort, controlVars
<1>2. ConnInv(cs2) /\ \A c \in Conns : cs2[c] = Idle
  BY IdleIs DEF ConnInv
<1>3. SlotInv(s2) /\ \A i \in SlotIds : s2[i].instance = slots[i].instance /\ s2[i].queue = <<>>
  <2>1. \A slot : slot = [f \in {"instance", "retired", "queue"} |-> slot[f]] =>
          LET x == [slot EXCEPT !.queue = <<>>] IN
          /\ x = [f \in {"instance", "retired", "queue"} |-> x[f]]
          /\ x.instance = slot.instance /\ x.queue = <<>>
    OBVIOUS
  <2> SUFFICES ASSUME NEW i \in SlotIds
               PROVE  IsSlot(s2[i]) /\ s2[i].instance = slots[i].instance /\ s2[i].queue = <<>>
    BY DEF SlotInv
  <2>2. IsSlot(slots[i])
    BY Parts
  <2> DEFINE x == s2[i]
  <2>3. x = [f \in {"instance", "retired", "queue"} |-> x[f]] /\ x.instance = slots[i].instance /\ x.queue = <<>>
    BY <2>1, <2>2 DEF IsSlot
  <2> HIDE DEF x, s2
  <2>4. /\ x.queue \in Seq(Conns)
        /\ x.instance # NoInstance => x.instance.pid \in Pids /\ x.instance.port \in Ports
    <3>1. <<>> \in Seq(Conns)
      OBVIOUS
    <3>2. x.queue = <<>> /\ x.instance = slots[i].instance
      BY <2>3
    <3>3. slots[i].instance # NoInstance => slots[i].instance.pid \in Pids /\ slots[i].instance.port \in Ports
      BY <2>2 DEF IsSlot
    <3> QED
      BY <3>1, <3>2, <3>3
  <2>5. IsSlot(x)
    BY <2>3, <2>4 DEF IsSlot
  <2> QED
    BY <2>3, <2>5 DEF x
<1> HIDE DEF s2, cs2
<1>4. LockInv(s2, cs2)
  <2>1. \A c \in Conns : cs2[c].pc \notin Queued /\ cs2[c].pc \notin WithLock
    BY <1>2, IdleIs DEF Queued, WithLock
  <2>2. \A i \in SlotIds : DOMAIN s2[i].queue = {}
    BY <1>3
  <2> QED
    BY <2>1, <2>2 DEF LockInv
<1>5. AffinityInv(map, s2, cs2)
  <2>1. PICK owner \in [SlotIds -> Services \cup {None}] : Belongs(owner, map, slots, conns)
    BY Parts DEF AffinityInv
  <2>2. Belongs(owner, map, s2, cs2)
    BY <1>2, <1>3, <2>1, IdleIs DEF Belongs
  <2> QED
    BY <2>1, <2>2, Parts DEF AffinityInv
<1>6. HoldInv(hold, live, ports, containers, removals)
  BY Parts
<1>7. \A c \in Conns : /\ hold[ByConn(c)].pid = conns[c].pid /\ hold[ByConn(c)].port = conns[c].port
                       /\ hold2[ByConn(c)] = Nothing
  <2> SUFFICES ASSUME NEW c \in Conns
               PROVE  /\ hold[ByConn(c)].pid = conns[c].pid /\ hold[ByConn(c)].port = conns[c].port
                      /\ hold2[ByConn(c)] = Nothing
    OBVIOUS
  <2>1. hold[ByConn(c)] = ConnHolds(conns[c]) /\ hold2[ByConn(c)] = ConnHolds(Idle)
    BY <1>2, HeldIs
  <2>2. conns[c].pid = None => conns[c].port = None
    BY Parts, ConnAt, ConstantsAssumption
  <2>3. Nothing.pid = None /\ Nothing.port = None
    BY DEF Nothing
  <2> QED
    BY <2>1, <2>2, <2>3, IdleIs, ConnHoldsIs
<1>8. \A i \in SlotIds : hold2[InSlot(i)] = hold[InSlot(i)]
  <2>1. \A i \in SlotIds : SlotHolds(s2[i]) = SlotHolds(slots[i])
    BY <1>3 DEF SlotHolds
  <2> QED
    BY <2>1, HeldIs
<1> HIDE DEF hold, hold2
<1>9. /\ G \in SUBSET Holders
      /\ \A i \in SlotIds : InSlot(i) \notin G
      /\ \A h \in Holders : hold2[h] = IF h \in G THEN Nothing ELSE hold[h]
  BY <1>7, <1>8, HoldersAre
<1>10. \A p : p \in P <=> p # None /\ \E h \in G : hold[h].pid = p
  BY <1>7 DEF HeldPids
<1>11. prt2 \in SUBSET ports /\ \A h \in Holders \ G : hold[h].port # None => hold[h].port \in prt2
  <2>1. \A c \in Conns : ByConn(c) \in Holders /\ ByConn(c) \in G
    BY HoldersAre
  <2> SUFFICES ASSUME NEW h \in Holders, h \notin G, hold[h].port # None PROVE hold[h].port \in prt2
    OBVIOUS
  <2>2. hold[h].port \in ports /\ \A k \in Holders : hold[h].port = hold[k].port => h = k
    BY <1>6 DEF HoldInv, ProcessInv
  <2> HIDE DEF G
  <2>3. \A c \in Conns : conns[c].port # hold[h].port
    BY <1>7, <2>1, <2>2
  <2> QED
    BY <2>2, <2>3
<1>12. removals \subseteq containers
  BY <1>6 DEF HoldInv, ContainerInv
<1>13. /\ containers \in SUBSET containers /\ containers \ containers \subseteq P
       /\ removing2 \subseteq containers /\ removals \subseteq removing2 /\ removing2 \subseteq removals \cup P
       /\ P \cap containers \subseteq removing2
  BY <1>12
<1>14. run2 = Without(live, P)
  OBVIOUS
<1> HIDE DEF G, P, run2, removing2, prt2
<1>15. HoldInv(hold2, run2, prt2, containers, removing2)
  BY <1>6, <1>9, <1>10, <1>11, <1>13, <1>14, LettingGo
<1>16. ManagerInv(map, s2, cs2, run2, prt2, containers, removing2)
  BY <1>2, <1>3, <1>4, <1>5, <1>15 DEF ManagerInv, hold2
<1>17. SettledWell(map, s2, cs2)
  BY <1>1, <1>16, Settled
<1>18. conns' = [c \in Conns |-> Idle]
  BY <1>17 DEF SettledWell, cs2
<1> QED
  BY <1>1, <1>17, <1>18 DEF InstancesInv, SettledWell

\* stop_all stops everything that is left: no connection holds a process any more.
LEMMA StopAllInv ==
  ASSUME InstancesInv, StopAll
  PROVE  InstancesInv'
<1> DEFINE m2 == [n \in Services |-> None]
           P == {x.pid : x \in Instances}
           hold == Held(slots, conns)
<1>1. /\ phase = "aborted" /\ removals = {} /\ phase' = "down" /\ UNCHANGED <<uids, state>>
      /\ Settle(m2, slots, conns, Without(live, P), containers \ P, {})
      /\ ports' = ports \ {x.port : x \in Instances}
  BY DEF StopAll, RemovalsDone, controlVars
<1>2. conns = [c \in Conns |-> Idle]
  BY <1>1 DEF InstancesInv
<1>3. HoldInv(hold, live, ports, containers, {})
  BY <1>1, Parts
<1>4. \A h \in Holders : hold[h].pid # None => hold[h].pid \in P
  <2>1. \A c \in Conns : hold[ByConn(c)].pid = None
    <3>1. \A c \in Conns : hold[ByConn(c)] = Nothing
      BY <1>2, HeldIs, IdleIs, ConnHoldsIs
    <3> QED
      BY <3>1 DEF Nothing
  <2>2. \A i \in SlotIds : hold[InSlot(i)].pid # None => hold[InSlot(i)].pid \in P
    <3> SUFFICES ASSUME NEW i \in SlotIds, hold[InSlot(i)].pid # None PROVE hold[InSlot(i)].pid \in P
      OBVIOUS
    <3>1. hold[InSlot(i)] = SlotHolds(slots[i])
      BY HeldIs
    <3>2. slots[i].instance # NoInstance /\ hold[InSlot(i)].pid = slots[i].instance.pid
      BY <3>1, SlotHoldsIs
    <3> QED
      BY <3>2 DEF Instances
  <2> QED
    BY <2>1, <2>2, HoldersAre
<1> HIDE DEF hold, P
<1>5. None \notin Pids
  BY ConstantsAssumption
<1>6. DOMAIN live \subseteq P
  BY <1>3, <1>4, <1>5 DEF HoldInv, ProcessInv
<1>7. containers \ P = {}
  <2>1. \A p \in containers : p \in P
    BY <1>3, <1>4, <1>5 DEF HoldInv, ContainerInv
  <2> QED
    BY <2>1
<1>8. Without(live, P) = Empty /\ \A S : Without(Empty, S) = Empty
  BY <1>6 DEF Without, Restrict, Empty
<1>9. \A i \in SlotIds : ~Referenced(i, m2, conns)
  BY <1>2, IdleIs, SlotsAssumption DEF Referenced
<1>10. /\ map' = m2 /\ conns' = [c \in Conns |-> Idle] /\ slots' = [i \in SlotIds |-> EmptySlot]
       /\ live' = Empty /\ containers' = {} /\ removals' = {}
  BY <1>1, <1>2, <1>7, <1>8, <1>9 DEF Settle
<1>11. ports' \in SUBSET Ports
  BY <1>1, <1>3 DEF HoldInv
<1>12. /\ ManagerInv(map', slots', conns', live', ports', containers', removals')
       /\ Unused(map', slots', conns')
  BY <1>10, <1>11, NothingManaged
<1> QED
  BY <1>1, <1>10, <1>12 DEF InstancesInv

-----------------------------------------------------------------------------
(***************************************************************************)
(* Control-plane calls, and the theorems.                                  *)
(***************************************************************************)

\* A call that leaves the instances alone and deletes nothing.
LEMMA KeepsInstances ==
  ASSUME InstancesInv, AnswersInv, phase = "up", NEW outcome \in Outcomes, NEW next, Commit(outcome, next),
         Finish(outcome), DOMAIN state.services \subseteq DOMAIN next.services, uids' =< MaxUids
  PROVE  InstancesInv'
<1>1. CASE outcome = "killed"
  BY <1>1, LostInv DEF Finish, Commit
<1>2. CASE outcome # "killed"
  <2>1. /\ UNCHANGED <<phase, map, slots, ports, live, containers, removals, conns>>
        /\ DOMAIN state.services \subseteq DOMAIN state'.services
    BY <1>2 DEF Finish, Commit, managerVars, dockerVars, Outcomes
  <2>2. GoneInv(map, slots, conns, DOMAIN state.services)
    BY DEF InstancesInv
  <2>3. GoneInv(map', slots', conns', DOMAIN state'.services)
    BY <2>1, <2>2 DEF GoneInv
  <2> QED
    BY <2>1, <2>3 DEF InstancesInv
<1> QED
  BY <1>1, <1>2

LEMMA RollOutKeeps ==
  ASSUME NEW st, NEW top, StateInv(st, top), NEW n, NEW service
  PROVE  DOMAIN st.services \subseteq DOMAIN RolledOut(st, n, service).services
<1>1. PICK kept, made : RolledOut(st, n, service) = [st EXCEPT !.services = With(@, n, kept), !.revisions = made]
  BY DEF RolledOut
<1>2. st = [services |-> st.services, revisions |-> st.revisions, policies |-> st.policies]
  BY DEF StateInv
<1>3. RolledOut(st, n, service).services = With(st.services, n, kept)
  BY <1>1, <1>2
<1> QED
  BY <1>3 DEF With

\* DeleteService leaves the slot to the connection that called it.
LEMMA DeleteInv ==
  ASSUME InstancesInv, AnswersInv, NEW c \in Conns, NEW n \in Services, NEW etag, NEW outcome \in Outcomes,
         DeleteService(c, n, etag, outcome)
  PROVE  InstancesInv'
<1>1. /\ phase = "up" /\ conns[c].pc = "idle" /\ uids' = uids /\ Commit(outcome, Removed(state, n))
      /\ uids =< MaxUids
  BY DEF DeleteService, InstancesInv
<1>2. CASE outcome = "killed"
  BY <1>1, <1>2, LostInv DEF DeleteService, Commit
<1>3. CASE outcome = "failed"
  <2>1. UNCHANGED <<phase, state, uids, map, slots, ports, live, containers, removals, conns>>
    BY <1>1, <1>3 DEF DeleteService, Commit, managerVars, dockerVars
  <2> QED
    BY <2>1 DEF InstancesInv
<1>4. CASE outcome = "saved"
  <2> DEFINE conn == [Idle EXCEPT !.pc = "deleted", !.service = n]
             cs2 == [conns EXCEPT ![c] = conn]
  <2>1. /\ UNCHANGED <<phase, uids, map, slots, ports, live, containers, removals>>
        /\ conns' = cs2 /\ state' = Removed(state, n)
    BY <1>1, <1>4 DEF DeleteService, Commit, managerVars, dockerVars
  <2>2. conns[c] = Idle
    BY <1>1, Parts DEF IsConn
  <2>3. /\ conn = [f \in ConnFields |-> conn[f]] /\ conn.pc = "deleted" /\ conn.service = n
        /\ conn.slot = None /\ conn.pid = None /\ conn.port = None
    BY DEF Idle, ConnFields
  <2> HIDE DEF conn
  <2>4. IsConn(conn) /\ conn.pc \notin Queued /\ conn.pc \notin Launching
    BY <2>3 DEF IsConn, Working, Slotted, Queued, WithLock, Owning, Launching
  <2>5. OneConn(conns, cs2, c) /\ cs2[c] = conn
    BY <2>4, OneConnChanged
  <2> HIDE DEF cs2
  <2>6. conns[c].pc \notin Queued /\ conns[c].pid = None /\ conns[c].slot = None
    BY <1>1, <2>2, IdleIs DEF Queued, WithLock
  <2>7. LockInv(slots, cs2)
    BY <2>4, <2>5, <2>6, Parts, LockUntouched
  <2>8. AffinityInv(map, slots, cs2)
    BY <2>3, <2>5, Parts, AffinityKept
  <2>9. ManagerInv(map, slots, cs2, live, ports, containers, removals)
    BY <2>3, <2>5, <2>6, <2>7, <2>8, Parts, LightStep DEF InstancesInv
  <2>10. \A d \in Conns : d # c => cs2[d] = conns[d]
    BY <2>5 DEF OneConn
  <2>11. Unused(map, slots, cs2)
    <3>1. \A i \in SlotIds : Referenced(i, map, conns) => Referenced(i, map, cs2)
      BY <2>6, <2>10, SlotsAssumption DEF Referenced
    <3> QED
      BY <3>1 DEF InstancesInv, Unused
  <2>12. \A k : k \in DOMAIN state.services /\ k # n => k \in DOMAIN Removed(state, n).services
    BY DEF Removed, Without, Restrict
  <2>13. GoneInv(map, slots, cs2, DOMAIN Removed(state, n).services)
    <3> SUFFICES ASSUME NEW k \in Services, k \notin DOMAIN Removed(state, n).services, InUse(map, slots, cs2, k)
                 PROVE  \E d \in Conns : cs2[d].pc = "deleted" /\ cs2[d].service = k
      BY DEF GoneInv
    <3>1. CASE k = n
      BY <2>3, <2>5, <3>1
    <3>2. CASE k # n
      <4>1. k \notin DOMAIN state.services
        BY <2>12, <3>2
      <4>2. InUse(map, slots, conns, k)
        BY <2>4, <2>5, <2>10 DEF InUse
      <4>3. PICK d \in Conns : conns[d].pc = "deleted" /\ conns[d].service = k
        BY <1>1, <4>1, <4>2 DEF InstancesInv, GoneInv
      <4>4. d # c
        BY <1>1, <4>3
      <4> QED
        BY <2>10, <4>3, <4>4
    <3> QED
      BY <3>1, <3>2
  <2> QED
    BY <1>1, <2>1, <2>9, <2>11, <2>13 DEF InstancesInv
<1> QED
  BY <1>2, <1>3, <1>4 DEF Outcomes

LEMMA ManageInv ==
  ASSUME InstancesInv, AnswersInv, NEW n \in Services, NEW outcome \in Outcomes, Manage(n, outcome)
  PROVE  InstancesInv'
<1>1. StateInv(state, uids) /\ uids \in Nat /\ MaxUids \in Nat /\ uids =< MaxUids
  BY ConstantsAssumption DEF AnswersInv, InstancesInv
<1>2. CASE \E input \in Inputs : CreateService(n, input, outcome)
  <2>1. PICK input \in Inputs : CreateService(n, input, outcome)
    BY <1>2
  <2> DEFINE next == RolledOut(state, n, NewService(input, uids + 1))
  <2>2. /\ phase = "up" /\ uids' = uids + 1 /\ uids < MaxUids /\ Commit(outcome, next) /\ Finish(outcome)
    BY <2>1 DEF CreateService
  <2>3. DOMAIN state.services \subseteq DOMAIN next.services
    BY <1>1, RollOutKeeps
  <2>4. uids' =< MaxUids
    BY <1>1, <2>2
  <2> HIDE DEF next
  <2> QED
    BY <2>2, <2>3, <2>4, KeepsInstances
<1>3. CASE \E input \in Inputs, mask \in Masks, etag \in Etags : UpdateService(n, input, mask, etag, outcome)
  <2>1. PICK input \in Inputs, mask \in Masks, etag \in Etags : UpdateService(n, input, mask, etag, outcome)
    BY <1>3
  <2> DEFINE next == RolledOut(state, n, Masked(state.services[n], input, mask))
  <2>2. phase = "up" /\ uids' = uids /\ Commit(outcome, next) /\ Finish(outcome)
    BY <2>1 DEF UpdateService
  <2>3. DOMAIN state.services \subseteq DOMAIN next.services
    BY <1>1, RollOutKeeps
  <2> HIDE DEF next
  <2> QED
    BY <1>1, <2>2, <2>3, KeepsInstances
<1>4. CASE \E c \in Conns, etag \in Etags : DeleteService(c, n, etag, outcome)
  BY <1>4, DeleteInv
<1>5. CASE \E r \in state.revisions : DeleteRevision(n, r, outcome)
  <2>1. PICK r \in state.revisions : DeleteRevision(n, r, outcome)
    BY <1>5
  <2> DEFINE next == [state EXCEPT !.revisions = @ \ {r}]
  <2>2. /\ phase = "up" /\ uids' = uids /\ Commit(outcome, next) /\ Finish(outcome)
        /\ n \in DOMAIN state.services /\ r.service = n /\ Deletable(state.services[n], r.id)
    BY <2>1 DEF DeleteRevision
  <2>3. next.services = state.services
    BY <1>1, <2>2, RemoveRevision
  <2> HIDE DEF next
  <2> QED
    BY <1>1, <2>2, <2>3, KeepsInstances
<1>6. CASE \E members \in Members : SetIamPolicy(n, members, outcome)
  <2>1. PICK members \in Members : SetIamPolicy(n, members, outcome)
    BY <1>6
  <2> DEFINE next == [state EXCEPT !.policies = With(@, n, members)]
  <2>2. /\ phase = "up" /\ uids' = uids /\ Commit(outcome, next) /\ Finish(outcome) /\ n \in DOMAIN state.services
    BY <2>1 DEF SetIamPolicy
  <2>3. next.services = state.services
    BY <1>1, <2>2, StorePolicy
  <2> HIDE DEF next
  <2> QED
    BY <1>1, <2>2, <2>3, KeepsInstances
<1> QED
  BY <1>2, <1>3, <1>4, <1>5, <1>6 DEF Manage

LEMMA InstancesStep ==
  ASSUME InstancesInv, AnswersInv, [Next]_vars
  PROVE  InstancesInv'
<1>1. CASE \E c \in Conns : Proceed(c)
  BY <1>1, ProceedInv
<1>2. CASE \E c \in Conns, n \in Services, token \in Tokens : Admit(c, n, token)
  BY <1>2, AdmitInv
<1>3. CASE \E n \in Services, outcome \in Outcomes : Manage(n, outcome)
  BY <1>3, ManageInv
<1>4. CASE \E pid \in Pids : ProcessExits(pid) \/ EndRemoval(pid)
  BY <1>4, ExitInv, RemovalInv
<1>5. CASE Abort
  BY <1>5, AbortInv
<1>6. CASE StopAll
  BY <1>6, StopAllInv
<1>7. CASE Crash \/ Restart
  <2>1. LoseMemory /\ phase' \in {"up", "aborted", "down"} /\ uids' = uids /\ uids =< MaxUids
    BY <1>7 DEF Crash, Restart, InstancesInv
  <2> QED
    BY <2>1, LostInv
<1>8. CASE UNCHANGED vars
  BY <1>8 DEF vars, controlVars, managerVars, dockerVars, InstancesInv
<1> QED
  BY <1>1, <1>2, <1>3, <1>4, <1>5, <1>6, <1>7, <1>8 DEF Next

\* Slots, locks, connections, processes, ports and containers are in step at every moment,
\* whatever requests, deletions, exits, removals, crashes and a shutdown do in between
\* (instances.rs: the slots, ensure, start, terminate, retire, the guards and stop_all).
THEOREM InstancesInvariant == Spec => []InstancesInv
  BY InstancesInit, InstancesStep, AnswersInvariant, PTL DEF Spec

LEMMA InstancesImplied == InstancesInv /\ AnswersInv => InstancesAccounted
<1> SUFFICES ASSUME InstancesInv, AnswersInv PROVE InstancesAccounted
  OBVIOUS
<1> DEFINE hold == Held(slots, conns)
<1>1. HoldInv(hold, live, ports, containers, removals)
  BY Parts
<1>2. TypeOK
  <2>1. /\ DOMAIN state.services \subseteq Services
        /\ \A n \in DOMAIN state.services : state.services[n].generation \in 1..MaxGeneration
    BY DEF AnswersInv, StateInv, IsService
  <2>2. uids \in 0..MaxUids
    BY ConstantsAssumption DEF AnswersInv, InstancesInv
  <2>3. ports \subseteq Ports /\ DOMAIN live \subseteq Pids /\ removals \subseteq containers
    BY <1>1 DEF HoldInv, ContainerInv
  <2>4. \A c \in Conns : conns[c].slot \in SlotIds \cup {None}
    BY Parts DEF IsConn
  <2>5. phase \in {"up", "aborted", "down"}
    BY DEF InstancesInv
  <2> QED
    BY <2>1, <2>2, <2>3, <2>4, <2>5, Parts DEF TypeOK
<1>3. PortsApart
  BY <1>1 DEF HoldInv, ProcessInv, PortsApart
<1>4. NothingLeftRunning
  <2> SUFFICES ASSUME phase = "up", NEW p \in DOMAIN live, ~Busy(live[p].service)
               PROVE  LET n == live[p].service IN
                      /\ n \in DOMAIN state.services
                      /\ map[n] # None
                      /\ slots[map[n]].instance # NoInstance
                      /\ slots[map[n]].instance.pid = p
    BY DEF NothingLeftRunning
  <2> DEFINE n == live[p].service
  <2>1. PICK h \in Holders : hold[h].pid = p
    BY <1>1 DEF HoldInv, ProcessInv
  <2>2. p # None /\ p \in Pids
    BY <1>1, ConstantsAssumption DEF HoldInv
  <2>3. hold[h].service = n
    BY <1>1, <2>1 DEF HoldInv, ProcessInv
  <2>4. \A c \in Conns : conns[c].service = n => conns[c].pc = "idle"
    BY DEF Busy
  <2>5. \A c \in Conns : conns[c].service = n => conns[c] = Idle
    BY <2>4, Parts DEF IsConn
  <2> HIDE DEF n
  <2>6. \A c \in Conns : h # ByConn(c)
    <3> SUFFICES ASSUME NEW c \in Conns, h = ByConn(c) PROVE FALSE
      OBVIOUS
    <3>1. hold[h] = ConnHolds(conns[c])
      BY HeldIs
    <3>2. conns[c].pid # None
      <4>1. Nothing.pid = None
        BY DEF Nothing
      <4> QED
        BY <2>1, <2>2, <3>1, <4>1, ConnHoldsIs
    <3>3. conns[c].service = n
      BY <2>3, <3>1, <3>2, ConnHoldsIs
    <3> QED
      BY <2>5, <3>2, <3>3, IdleIs
  <2>7. PICK i \in SlotIds : h = InSlot(i)
    BY <2>6, HoldersAre
  <2>8. hold[h] = SlotHolds(slots[i])
    BY <2>7, HeldIs
  <2>9. slots[i].instance # NoInstance /\ slots[i].instance.pid = p
    BY <2>1, <2>2, <2>8, SlotHoldsIs
  <2>10. slots[i].instance.got.spec.service = n
    <3>1. SlotHolds(slots[i]) = [pid |-> slots[i].instance.pid, port |-> slots[i].instance.port,
                                 service |-> slots[i].instance.got.spec.service, stage |-> "ready"]
      BY <2>9 DEF SlotHolds
    <3> QED
      BY <2>3, <2>8, <3>1
  <2>11. PICK owner \in [SlotIds -> Services \cup {None}] : Belongs(owner, map, slots, conns)
    BY Parts DEF AffinityInv
  <2>12. owner[i] = n
    BY <2>9, <2>10, <2>11 DEF Belongs
  <2>13. Referenced(i, map, conns)
    BY <2>9, EmptySlotIs DEF InstancesInv, Unused
  <2>14. \A c \in Conns : conns[c].slot # i
    <3> SUFFICES ASSUME NEW c \in Conns, conns[c].slot = i PROVE FALSE
      OBVIOUS
    <3>1. i # None
      BY SlotsAssumption
    <3>2. conns[c].service = n
      BY <2>11, <2>12, <3>1 DEF Belongs
    <3> QED
      BY <2>5, <3>1, <3>2, IdleIs
  <2>15. PICK k \in Services : map[k] = i
    BY <2>13, <2>14 DEF Referenced
  <2>16. k = n /\ map[n] = i /\ i # None
    BY <2>11, <2>12, <2>15, SlotsAssumption DEF Belongs
  <2>17. n \in DOMAIN state.services
    <3> SUFFICES ASSUME n \notin DOMAIN state.services PROVE FALSE
      OBVIOUS
    <3>1. InUse(map, slots, conns, n)
      BY <2>9, <2>16 DEF InUse
    <3>2. PICK d \in Conns : conns[d].pc = "deleted" /\ conns[d].service = n
      BY <2>15, <2>16, <3>1 DEF InstancesInv, GoneInv
    <3> QED
      BY <2>4, <3>2
  <2> QED
    BY <2>9, <2>16, <2>17 DEF n
<1>5. ShutdownLeavesNothing
  BY DEF InstancesInv, ShutdownLeavesNothing
<1> QED
  BY <1>2, <1>3, <1>4, <1>5 DEF InstancesAccounted

\* Ports stay apart, neither two starts nor a start and an instance that is being stopped
\* share one; a service nobody works on runs the instance of its slot and nothing else, and
\* nothing once it is deleted; a shutdown leaves no process and no container, whatever it
\* interrupted (instances.rs: reserve_port, ensure, retire, TeardownGuard, stop_all).
THEOREM InstancesAreAccounted == Spec => []InstancesAccounted
  BY InstancesInvariant, AnswersInvariant, InstancesImplied, PTL

=============================================================================
