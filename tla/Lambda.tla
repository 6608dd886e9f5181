------------------------------- MODULE Lambda -------------------------------
(***************************************************************************)
(* The Lambda emulator (services/lambda): the function registry and its    *)
(* deployment packages, the pool of warm execution environments, the       *)
(* runtime API custom runtimes poll, function URLs and shutdown.           *)
(*                                                                         *)
(* What runs side by side: package jobs (create, update code, delete) that *)
(* hold their function's lock over several steps; configuration updates,   *)
(* which do not take it; invocations, each of which leases the code it     *)
(* looked up and then runs in a warm environment or a new one; the         *)
(* bootstrap processes; and the timers of idle environments.  Every step   *)
(* here is one critical section of the code, or one call a bootstrap makes.*)
(*                                                                         *)
(* Names are one per function, packages are their hashes; runtimes differ  *)
(* in how they are driven (over a control pipe, through the runtime API,   *)
(* or as a container).  Payload limits, logs and memory figures are left   *)
(* out, and so is the configuration a revision stands for.                 *)
(***************************************************************************)
EXTENDS Integers, FiniteSets, Functions, SequencesExt

CONSTANTS
  Workloads,   \* what clients do together: operations and faults, package kinds, hashes, authorisation and invocation types
  Names,       \* function names
  Invocations, \* invocations, each of which happens once
  None,        \* an absent option
  MaxRevisions,\* bound on the revision ids ever made
  MaxEnvironments, \* bound on the environments ever started
  MaxJobs      \* bound on the package jobs ever begun

VARIABLES
  workload,   \* what the clients do in this behaviour
  phase,      \* of the process: "up", the stages of shutdown, "closed", or "down"
  functions,  \* PersistedState, in memory and, at each commit first, in state.json
  code,       \* CodeStore: zips and trees on disk, trees doomed while leased
  jobs,       \* the package job that holds each function's lock
  waiting,    \* code updates that looked their function up and want its lock
  unretired,  \* configuration updates that committed and have yet to retire the old revision
  inv,        \* the invocations
  envs,       \* environments that exist
  pool,       \* Pool: idle lists, retired revisions, closed, idle timers, container removals
  containers, \* what the Docker daemon runs for this instance
  counts,     \* revisions, environments and jobs made
  crashed     \* whether the process was ever killed

registry == <<functions, code, jobs, waiting, unretired>>
running == <<inv, envs, pool, containers>>
vars == <<workload, phase, registry, running, counts, crashed>>

ConstantsAssumption ==
  /\ \A w \in Workloads : w.kinds \subseteq {"interpreter", "provided", "image"}
  /\ MaxRevisions \in Nat /\ MaxEnvironments \in Nat /\ MaxJobs \in Nat

With(f, x, y) == [z \in DOMAIN f \cup {x} |-> IF z = x THEN y ELSE f[z]]

Without(f, x) == [z \in DOMAIN f \ {x} |-> f[z]]

Empty == [x \in {} |-> x]

Called(op) == phase = "up" /\ op \in workload.ops

\* Whether saves, starts and bootstraps fail in this behaviour.
Faulty == "Fault" \in workload.ops

-----------------------------------------------------------------------------
(***************************************************************************)
(* Packages and their leases.                                              *)
(***************************************************************************)

Tree(f, sha) == <<f, sha>>

\* The trees somebody holds a Lease on: an invocation that has not ended, or an environment.
Leased(invs, es) == {invs[i].tree : i \in {j \in DOMAIN invs : invs[j].leased}} \cup {es[e].tree : e \in DOMAIN es}

\* Lease::drop, for the leases that invs and es no longer hold.
Released(c, invs, es) ==
  LET gone == c.doomed \ Leased(invs, es)
  IN [c EXCEPT !.doomed = @ \ gone, !.trees = @ \ gone]

\* CodeStore::stage
Staged(c, tree) == [zips |-> c.zips \cup {tree}, trees |-> c.trees \cup {tree}, doomed |-> c.doomed \ {tree}]

\* Mutant: a retired tree is removed although an invocation runs from it.
RetiredAtOnce(c, tree) == [c EXCEPT !.zips = @ \ {tree}, !.trees = @ \ {tree}]

\* CodeStore::retire: the zip now, the tree when nobody leases it.
Retired(c, tree) ==
  IF tree \in Leased(inv, envs)
  THEN [c EXCEPT !.zips = @ \ {tree}, !.doomed = @ \cup {tree}]
  ELSE [c EXCEPT !.zips = @ \ {tree}, !.trees = @ \ {tree}]

-----------------------------------------------------------------------------
(***************************************************************************)
(* Environments.                                                           *)
(***************************************************************************)

NewEnvironment(f, key, tree, kind) ==
  [f |-> f, key |-> key, tree |-> tree, kind |-> kind, alive |-> TRUE, events |-> <<>>,
   request |-> None, results |-> Empty, idles |-> 0,
   \* RuntimeApi: its queue, what it handed out, polls waiting, whether it said "ready"
   queue |-> <<>>, inFlight |-> {}, polls |-> 0, ready |-> FALSE]

\* Environment::healthy
Healthy(env) == env.alive /\ env.events = <<>>

\* Drop for Environment: the process group is killed; a container is removed by a thread.
Dropped(es, gone) == Restrict(es, DOMAIN es \ gone)

WithContainer(es, gone) == {e \in gone : es[e].kind = "image"}

\* Writing the request to the control pipe, queueing it at the runtime API, or posting it
\* to the container.
Submitted(env, i) ==
  IF env.kind = "provided" THEN [env EXCEPT !.queue = Append(@, i)] ELSE [env EXCEPT !.request = i]

\* The state an invocation leaves when it ends, with its environment dropped unless kept.
End(i, outcome, kept) ==
  LET e    == inv[i].env
      gone == IF e = None \/ kept THEN {} ELSE {e}
      invs == [inv EXCEPT ![i] = [@ EXCEPT !.pc = "ended", !.leased = FALSE, !.env = None, !.outcome = outcome]]
      es   == Dropped(envs, gone)
  IN
  /\ inv' = invs
  /\ envs' = es
  /\ code' = Released(code, invs, es)
  /\ pool' = [pool EXCEPT !.removals = @ \cup WithContainer(envs, gone)]
  /\ UNCHANGED containers

-----------------------------------------------------------------------------
(***************************************************************************)
(* The registry.                                                           *)
(***************************************************************************)

NoUrl == [auth |-> None]

Revision == counts.revisions + 1

\* commit: a copy is changed, saved, and only then put in place; a save fails or not, and the
\* process may be killed right after it.
Outcomes == {"saved"} \cup (IF Faulty THEN {"failed"} ELSE {})

Begin(f, job) ==
  /\ f \notin DOMAIN jobs
  /\ counts.jobs < MaxJobs
  /\ jobs' = With(jobs, f, job)
  /\ counts' = [counts EXCEPT !.jobs = @ + 1]

\* create_function, once it holds the lock of a name that is free.
CreateFunction(f, kind, sha) ==
  /\ Called("CreateFunction")
  /\ f \notin DOMAIN functions
  /\ Begin(f, [op |-> "create", pc |-> IF kind = "image" THEN "commit" ELSE "stage",
               kind |-> kind, image |-> kind = "image", sha |-> sha, old |-> None, revision |-> None])
  /\ UNCHANGED <<workload, phase, functions, code, waiting, unretired, running, crashed>>

\* update_function_code reads the package type before it waits for the lock.
UpdateFunctionCode(f, sha, revision) ==
  /\ Called("UpdateFunctionCode")
  /\ f \in DOMAIN functions
  /\ counts.jobs + Cardinality(waiting) < MaxJobs
  /\ revision \in {None, functions[f].revision}
  /\ waiting' = waiting \cup {[f |-> f, image |-> functions[f].kind = "image", sha |-> sha, revision |-> revision]}
  /\ UNCHANGED <<workload, phase, functions, code, jobs, unretired, running, counts, crashed>>

\* It has the lock and looks the function up again; a stale revision refuses the update.
LockForUpdate(w) ==
  LET there == w.f \in DOMAIN functions
      fits  == there /\ w.revision \in {None, functions[w.f].revision}
  IN
  /\ w \in waiting
  /\ w.f \notin DOMAIN jobs
  /\ waiting' = waiting \ {w}
  /\ IF fits
     THEN Begin(w.f, [op |-> "update", pc |-> IF w.image THEN "commit" ELSE "stage",
                      kind |-> functions[w.f].kind, image |-> w.image, sha |-> w.sha,
                      old |-> functions[w.f], revision |-> w.revision])
     ELSE UNCHANGED <<jobs, counts>>
  /\ UNCHANGED <<workload, phase, functions, code, unretired, running, crashed>>

DeleteFunction(f) ==
  /\ Called("DeleteFunction")
  /\ f \in DOMAIN functions
  /\ Begin(f, [op |-> "delete", pc |-> "commit", kind |-> functions[f].kind, image |-> FALSE, sha |-> None,
               old |-> functions[f], revision |-> None])
  /\ UNCHANGED <<workload, phase, functions, code, waiting, unretired, running, crashed>>

\* Whether a job that fails may take back the package it stored: not one already in use.
JobOwnsFiles(job) == job.op = "create" \/ job.sha # job.old.sha

\* stage_package; a package that cannot be stored is taken back, unless it is the one in use.
Stage(f, outcome) ==
  LET job == jobs[f]
      tree == Tree(f, job.sha)
  IN
  /\ job.pc = "stage"
  /\ IF outcome = "saved"
     THEN /\ code' = Staged(code, tree)
          /\ jobs' = [jobs EXCEPT ![f].pc = "commit"]
     ELSE /\ code' = IF JobOwnsFiles(job)
                     THEN Retired([code EXCEPT !.doomed = @ \ {tree}], tree)
                     ELSE [code EXCEPT !.doomed = @ \ {tree}]
          /\ jobs' = Without(jobs, f)
  /\ UNCHANGED <<workload, phase, functions, waiting, unretired, running, counts, crashed>>

\* The record a job commits.
Committed(f, job) ==
  IF job.op = "create"
  THEN [kind |-> job.kind, sha |-> job.sha, revision |-> Revision, url |-> NoUrl, tags |-> {}]
  ELSE [functions[f] EXCEPT !.sha = job.sha, !.revision = Revision]

\* The commit of a create or an update, which checks the revision once more.
CommitCode(f, outcome) ==
  LET job == jobs[f]
      fits == job.op = "create" \/ job.revision \in {None, functions[f].revision}
  IN
  /\ job.pc = "commit" /\ job.op \in {"create", "update"}
  /\ counts.revisions < MaxRevisions
  /\ IF fits /\ outcome = "saved"
     THEN /\ functions' = With(functions, f, Committed(f, job))
          /\ counts' = [counts EXCEPT !.revisions = @ + 1]
          /\ jobs' = IF job.op = "create" THEN Without(jobs, f)
                     ELSE [jobs EXCEPT ![f] = [@ EXCEPT !.pc = "retire code", !.old = functions[f]]]
          /\ UNCHANGED code
     ELSE /\ code' = IF JobOwnsFiles(job) THEN Retired(code, Tree(f, job.sha)) ELSE code
          /\ jobs' = Without(jobs, f)
          /\ UNCHANGED <<functions, counts>>
  /\ UNCHANGED <<workload, phase, waiting, unretired, running, crashed>>

CommitDelete(f, outcome) ==
  /\ jobs[f].pc = "commit" /\ jobs[f].op = "delete"
  /\ IF outcome = "saved" /\ f \in DOMAIN functions
     THEN /\ functions' = Without(functions, f)
          /\ jobs' = [jobs EXCEPT ![f] = [@ EXCEPT !.pc = "retire pool", !.old = functions[f]]]
     ELSE jobs' = Without(jobs, f) /\ UNCHANGED functions
  /\ UNCHANGED <<workload, phase, code, waiting, unretired, running, counts, crashed>>

\* The package that was replaced or deleted.
RetireCode(f) ==
  LET job == jobs[f] IN
  /\ job.pc = "retire code"
  /\ code' = IF job.op = "delete" \/ job.old.sha # job.sha THEN Retired(code, Tree(f, job.old.sha)) ELSE code
  /\ jobs' = IF job.op = "delete" THEN Without(jobs, f) ELSE [jobs EXCEPT ![f].pc = "retire pool"]
  /\ UNCHANGED <<workload, phase, functions, waiting, unretired, running, counts, crashed>>

\* Pool::retire: the idle environments of the function stop, whatever their revision.
PoolRetired(f, revision) ==
  LET gone == IF f \in DOMAIN pool.idle THEN Range(pool.idle[f]) ELSE {} IN
  /\ pool' = [pool EXCEPT !.retired = @ \cup {revision}, !.idle = Without(@, f),
                          !.removals = @ \cup WithContainer(envs, gone)]
  /\ envs' = Dropped(envs, gone)
  /\ code' = Released(code, inv, envs')

RetirePool(f) ==
  LET job == jobs[f] IN
  /\ job.pc = "retire pool"
  /\ PoolRetired(f, job.old.revision)
  /\ jobs' = IF job.op = "delete" THEN [jobs EXCEPT ![f].pc = "retire code"] ELSE Without(jobs, f)
  /\ UNCHANGED <<workload, phase, functions, waiting, unretired, inv, containers, counts, crashed>>

\* update_function_configuration commits without the function's lock ...
UpdateFunctionConfiguration(f, revision, outcome) ==
  /\ Called("UpdateFunctionConfiguration")
  /\ f \in DOMAIN functions
  /\ revision \in {None, functions[f].revision}
  /\ counts.revisions < MaxRevisions
  /\ outcome = "saved"
  /\ functions' = [functions EXCEPT ![f].revision = Revision]
  /\ counts' = [counts EXCEPT !.revisions = @ + 1]
  /\ unretired' = unretired \cup {<<f, functions[f].revision>>}
  /\ UNCHANGED <<workload, phase, code, jobs, waiting, running, crashed>>

\* ... and then retires the revision it replaced.
RetireConfiguration(f, revision) ==
  /\ <<f, revision>> \in unretired
  /\ PoolRetired(f, revision)
  /\ unretired' = unretired \ {<<f, revision>>}
  /\ UNCHANGED <<workload, phase, functions, jobs, waiting, inv, containers, counts, crashed>>

-----------------------------------------------------------------------------
\* create_function_url_config, update_function_url_config and delete_function_url_config
\* keep the revision.
SetUrl(f, url) ==
  /\ functions' = [functions EXCEPT ![f].url = url]
  /\ UNCHANGED <<workload, phase, code, jobs, waiting, unretired, running, counts, crashed>>

CreateFunctionUrlConfig(f, auth) ==
  /\ Called("FunctionUrl")
  /\ f \in DOMAIN functions /\ functions[f].url = NoUrl
  /\ SetUrl(f, [auth |-> auth])

UpdateFunctionUrlConfig(f, auth) ==
  /\ Called("FunctionUrl")
  /\ f \in DOMAIN functions /\ functions[f].url # NoUrl
  /\ SetUrl(f, [functions[f].url EXCEPT !.auth = auth])

DeleteFunctionUrlConfig(f) ==
  /\ Called("FunctionUrl")
  /\ f \in DOMAIN functions /\ functions[f].url # NoUrl
  /\ SetUrl(f, NoUrl)

TagResource(f, tag) ==
  /\ Called("TagResource")
  /\ f \in DOMAIN functions
  /\ functions' = [functions EXCEPT ![f].tags = @ \cup {tag}]
  /\ UNCHANGED <<workload, phase, code, jobs, waiting, unretired, running, counts, crashed>>

UntagResource(f, tag) ==
  /\ Called("TagResource")
  /\ f \in DOMAIN functions
  /\ functions' = [functions EXCEPT ![f].tags = @ \ {tag}]
  /\ UNCHANGED <<workload, phase, code, jobs, waiting, unretired, running, counts, crashed>>

-----------------------------------------------------------------------------
(***************************************************************************)
(* Invocations.                                                            *)
(***************************************************************************)

Unborn == [pc |-> "unborn", f |-> None, revision |-> None, tree |-> None, kind |-> None, leased |-> FALSE,
           type |-> None, url |-> None, ran |-> None, env |-> None, outcome |-> <<>>]

\* serve_function_url: the URL a request is for, as it is now; verify_iam lets a signed
\* request to an AWS_IAM URL pass.
FindUrl(i, f, signed) ==
  LET url == functions[f].url IN
  /\ Called("InvokeUrl")
  /\ inv[i].pc = "unborn"
  /\ f \in DOMAIN functions /\ url # NoUrl
  /\ url.auth = "AWS_IAM" => signed
  /\ inv' = [inv EXCEPT ![i] = [@ EXCEPT !.pc = "authorised", !.f = f, !.url = url, !.type = "RequestResponse"]]
  /\ UNCHANGED <<workload, phase, registry, envs, pool, containers, counts, crashed>>

\* invoke_pinned refuses a function that no longer has the URL.
SameUrl(i, f) == inv[i].url = None \/ functions[f].url = inv[i].url

\* What an image runs from is not in the code store; the others need their tree.
Runnable(f) == functions[f].kind = "image" \/ Tree(f, functions[f].sha) \in code.trees

\* lookup_leased: the record and the lease on its tree, under the lock of the registry.
LookUp(i, f, type) ==
  LET rec == functions[f] IN
  /\ phase = "up"
  /\ \/ Called("Invoke") /\ inv[i].pc = "unborn"
     \/ inv[i].pc = "authorised" /\ inv[i].f = f /\ type = "RequestResponse"
  /\ f \in DOMAIN functions
  /\ SameUrl(i, f)
  /\ Runnable(f)
  /\ inv' = [inv EXCEPT ![i] = [@ EXCEPT !.pc = "leased", !.f = f, !.revision = rec.revision, !.kind = rec.kind,
                                         !.tree = Tree(f, rec.sha), !.leased = TRUE, !.type = type,
                                         !.ran = rec.url]]
  /\ UNCHANGED <<workload, phase, registry, envs, pool, containers, counts, crashed>>

\* The function is gone, its URL has changed, or its package is missing.
Refuse(i) ==
  /\ inv[i].pc = "authorised"
  /\ inv[i].f \in DOMAIN functions => ~SameUrl(i, inv[i].f) \/ ~Runnable(inv[i].f)
  /\ End(i, <<"refused">>, FALSE)
  /\ UNCHANGED <<workload, phase, functions, jobs, waiting, unretired, counts, crashed>>

\* Mutant: an environment taken from the pool is also left there.
TakenAndLeft(f, last) == pool.idle

\* What Pool::take leaves of the idle lists: the environments below the one it found.
Taken(f, last) ==
  IF last <= 1 THEN Without(pool.idle, f) ELSE [pool.idle EXCEPT ![f] = SubSeq(@, 1, last - 1)]

\* Pool::take: from the end of the list; what does not fit is stopped.
Take(i) ==
  LET f     == inv[i].f
      list  == IF f \in DOMAIN pool.idle THEN pool.idle[f] ELSE <<>>
      fits  == {n \in DOMAIN list : envs[list[n]].key = inv[i].revision /\ Healthy(envs[list[n]])}
      found == fits # {}
      last  == IF found THEN Max(fits) ELSE 0
      gone  == {list[n] : n \in (last + 1)..Len(list)}
      es    == Dropped(envs, gone)
      warm  == list[last]
  IN
  /\ inv[i].pc = "leased"
  /\ inv' = [inv EXCEPT ![i] = IF found THEN [@ EXCEPT !.pc = "running", !.env = warm]
                               ELSE [@ EXCEPT !.pc = "starting"]]
  /\ envs' = IF found THEN [es EXCEPT ![warm] = Submitted(@, i)] ELSE es
  /\ pool' = [pool EXCEPT !.idle = Taken(f, last), !.removals = @ \cup WithContainer(envs, gone)]
  /\ code' = Released(code, inv', envs')
  /\ UNCHANGED <<workload, phase, functions, jobs, waiting, unretired, containers, counts, crashed>>

\* start_container
Started(e, kind) == IF kind = "image" THEN containers \cup {e} ELSE containers

\* spawn, spawn_provided and start_container: the environment takes over the lease.
Spawn(i) ==
  LET e   == counts.envs + 1
      env == NewEnvironment(inv[i].f, inv[i].revision, inv[i].tree, inv[i].kind)
  IN
  /\ inv[i].pc = "starting" /\ inv[i].env = None
  /\ counts.envs < MaxEnvironments
  /\ counts' = [counts EXCEPT !.envs = e]
  /\ inv' = [inv EXCEPT ![i] = [@ EXCEPT !.env = e, !.leased = FALSE]]
  /\ envs' = With(envs, e, env)
  /\ containers' = Started(e, inv[i].kind)
  /\ UNCHANGED <<workload, phase, registry, pool, crashed>>

\* No interpreter, no bootstrap, no Docker.
SpawnFails(i) ==
  /\ Faulty
  /\ inv[i].pc = "starting" /\ inv[i].env = None
  /\ End(i, <<"spawn failed">>, FALSE)
  /\ UNCHANGED <<workload, phase, functions, jobs, waiting, unretired, counts, crashed>>

\* The first marker of a new environment: it is ready, or its init failed.
Initialised(i) ==
  LET env == envs[inv[i].env] IN
  /\ inv[i].pc = "starting" /\ inv[i].env # None
  /\ env.events # <<>>
  /\ IF Head(env.events) = "ready"
     THEN /\ inv' = [inv EXCEPT ![i].pc = "running"]
          /\ envs' = [envs EXCEPT ![inv[i].env] = Submitted([@ EXCEPT !.events = Tail(@)], i)]
          /\ UNCHANGED <<code, pool, containers>>
     ELSE End(i, <<"init failed">>, FALSE)
  /\ UNCHANGED <<workload, phase, functions, jobs, waiting, unretired, counts, crashed>>

\* Mutant: an environment goes back to the pool although its revision was retired meanwhile.
KeptAnyway(env) == ~pool.closed

\* give_back keeps an environment unless the pool is closed or its revision retired.
Kept(env) == ~pool.closed /\ env.key \notin pool.retired

\* read_result: what was written for this invocation, if anything.
ResultOf(env, i) == IF i \in DOMAIN env.results THEN env.results[i] ELSE "no result"

\* The marker that ends an invocation: read_result, then give_back if it was "done".
Answered(i) ==
  LET e       == inv[i].env
      env     == envs[e]
      tag     == Head(env.events)
      outcome == ResultOf(env, i)
      back    == [env EXCEPT !.events = Tail(@), !.results = Empty, !.idles = @ + 1]
      list    == IF env.f \in DOMAIN pool.idle THEN pool.idle[env.f] ELSE <<>>
      invs    == [inv EXCEPT ![i] = [@ EXCEPT !.pc = "ended", !.leased = FALSE, !.env = None,
                                              !.outcome = <<tag, outcome>>]]
  IN
  /\ inv[i].pc = "running"
  /\ env.events # <<>>
  /\ IF tag = "done" /\ Kept(env)
     THEN /\ inv' = invs
          /\ envs' = [envs EXCEPT ![e] = back]
          /\ pool' = [pool EXCEPT !.idle = With(@, env.f, Append(list, e)),
                                  !.timers = @ \cup {[env |-> e, f |-> env.f, idles |-> back.idles]}]
          /\ code' = Released(code, invs, envs')
          /\ UNCHANGED containers
     ELSE End(i, <<tag, outcome>>, FALSE)
  /\ UNCHANGED <<workload, phase, functions, jobs, waiting, unretired, counts, crashed>>

\* The process ended, cleanly or not, or the deadline passed and it was killed; a clean exit
\* may have left a result, which read_result takes.
Fails(i, how) ==
  LET env == envs[inv[i].env] IN
  /\ inv[i].pc \in {"starting", "running"} /\ inv[i].env # None
  /\ how \in {"exited", "crashed"} => ~env.alive
  /\ how = "timed out" => Faulty
  /\ End(i, IF how = "exited" THEN <<how, ResultOf(env, i)>> ELSE <<how>>, FALSE)
  /\ UNCHANGED <<workload, phase, functions, jobs, waiting, unretired, counts, crashed>>

\* expire: the timer armed when the environment became idle.  If it has served since, it is
\* stopped only if this idle time, too, has reached the timeout, which a late timer may see.
Expire(timer, again) ==
  LET list == IF timer.f \in DOMAIN pool.idle THEN pool.idle[timer.f] ELSE <<>>
      at   == {n \in DOMAIN list : list[n] = timer.env /\ (envs[list[n]].idles = timer.idles \/ again)}
      left == [pool EXCEPT !.timers = @ \ {timer}]
      rest == SelectSeq(list, LAMBDA e : e # timer.env)
  IN
  /\ timer \in pool.timers
  /\ IF at = {} THEN pool' = left /\ UNCHANGED <<envs, code>>
     ELSE /\ envs' = Dropped(envs, {timer.env})
          /\ pool' = [left EXCEPT !.idle = IF rest = <<>> THEN Without(@, timer.f) ELSE [@ EXCEPT ![timer.f] = rest],
                                  !.removals = @ \cup WithContainer(envs, {timer.env})]
          /\ code' = Released(code, inv, envs')
  /\ UNCHANGED <<workload, phase, functions, jobs, waiting, unretired, inv, containers, counts, crashed>>

-----------------------------------------------------------------------------
(***************************************************************************)
(* Bootstraps, and the runtime API custom ones use.                        *)
(***************************************************************************)

EnvStep(e, env) ==
  /\ envs' = [envs EXCEPT ![e] = env]
  /\ UNCHANGED <<workload, phase, registry, inv, pool, containers, counts, crashed>>

Emit(env, tag) == [env EXCEPT !.events = Append(@, tag)]

\* The embedded bootstraps, and the emulator inside a container: ready, then one result and
\* one marker for each request.
BootReady(e) ==
  /\ envs[e].alive /\ envs[e].kind # "provided" /\ ~envs[e].ready
  /\ EnvStep(e, Emit([envs[e] EXCEPT !.ready = TRUE], "ready"))

BootServe(e, result) ==
  LET i == envs[e].request IN
  /\ envs[e].alive /\ envs[e].kind # "provided" /\ i # None
  /\ EnvStep(e, Emit([envs[e] EXCEPT !.request = None, !.results = With(@, i, result)], "done"))

\* next_invocation up to its wait for the queue: the first poll says "ready".
Poll(e) ==
  LET env == envs[e] IN
  /\ env.alive /\ env.kind = "provided" /\ env.polls = 0
  /\ EnvStep(e, [(IF env.ready THEN env ELSE Emit(env, "ready")) EXCEPT !.polls = @ + 1, !.ready = TRUE])

\* The poll gets an invocation, which is in flight from then on; the client that polled may
\* be gone.
HandOut(e, received) ==
  LET env == envs[e] IN
  /\ env.polls > 0 /\ env.queue # <<>>
  /\ EnvStep(e, [env EXCEPT !.polls = @ - 1, !.queue = Tail(@), !.inFlight = @ \cup {Head(env.queue)},
                            !.request = IF received THEN Head(env.queue) ELSE @])

NotInFlight(env, i) == env.inFlight \ {i}

\* POST .../{id}/response or /error, which a client may repeat: an id that is not in flight
\* is refused.
Post(e, i, result) ==
  LET env == envs[e] IN
  /\ env.alive /\ env.kind = "provided" /\ env.request = i
  /\ i \in env.inFlight
  /\ EnvStep(e, Emit([env EXCEPT !.inFlight = NotInFlight(env, i), !.results = With(@, i, result)], "done"))

\* POST /runtime/init/error
InitError(e) ==
  /\ Faulty
  /\ envs[e].alive /\ envs[e].kind = "provided" /\ envs[e].events = <<>>
  /\ EnvStep(e, Emit(envs[e], "initerror"))

Die(e) ==
  /\ Faulty
  /\ envs[e].alive
  /\ EnvStep(e, [envs[e] EXCEPT !.alive = FALSE])

\* The end of a thread that ran docker rm -f.
Removal(e) ==
  /\ e \in pool.removals
  /\ pool' = [pool EXCEPT !.removals = @ \ {e}]
  /\ containers' = containers \ {e}
  /\ UNCHANGED <<workload, phase, registry, inv, envs, counts, crashed>>

-----------------------------------------------------------------------------
(***************************************************************************)
(* Shutdown and restart.                                                   *)
(***************************************************************************)

\* The state when the invocations of a type are aborted where they wait.
Aborted(type) ==
  LET cut  == {i \in Invocations : inv[i].pc \notin {"unborn", "ended"} /\ inv[i].type = type}
      gone == {inv[i].env : i \in cut} \ {None}
      invs == [i \in Invocations |->
                 IF i \in cut THEN [inv[i] EXCEPT !.pc = "ended", !.leased = FALSE, !.env = None, !.outcome = <<"aborted">>]
                 ELSE inv[i]]
  IN
  /\ inv' = invs
  /\ envs' = Dropped(envs, gone)
  /\ code' = Released(code, invs, envs')
  /\ pool' = [pool EXCEPT !.removals = @ \cup WithContainer(envs, gone)]
  /\ UNCHANGED <<containers, functions, jobs, waiting, unretired>>

\* serve ends: the connections are aborted; a package job that already runs goes on.
StopServing ==
  /\ Called("Shutdown")
  /\ unretired = {}
  /\ Aborted("RequestResponse")
  /\ phase' = "draining"
  /\ UNCHANGED <<workload, counts, crashed>>

\* shutdown waits for the package jobs, then aborts the asynchronous invocations ...
AbortBackground ==
  /\ phase = "draining"
  /\ jobs = Empty /\ waiting = {}
  /\ Aborted("Event")
  /\ phase' = "aborted"
  /\ UNCHANGED <<workload, counts, crashed>>

RemovalsDone == pool.removals = {}

\* ... closes the pool, which stops the idle environments ...
ClosePool ==
  LET gone == UNION {Range(pool.idle[f]) : f \in DOMAIN pool.idle} IN
  /\ phase = "aborted"
  /\ phase' = "closing"
  /\ envs' = Dropped(envs, gone)
  /\ pool' = [pool EXCEPT !.closed = TRUE, !.idle = Empty, !.removals = @ \cup WithContainer(envs, gone)]
  /\ code' = Released(code, inv, envs')
  /\ UNCHANGED <<workload, functions, jobs, waiting, unretired, inv, containers, counts, crashed>>

\* ... and waits until the removals that were started have ended.
Closed ==
  /\ phase = "closing"
  /\ RemovalsDone
  /\ phase' = "closed"
  /\ UNCHANGED <<workload, registry, running, counts, crashed>>

Crash ==
  /\ "Crash" \in workload.ops /\ ~crashed
  /\ phase \notin {"down", "closed"}
  /\ phase' = "down"
  /\ crashed' = TRUE
  /\ jobs' = Empty /\ waiting' = {} /\ unretired' = {}
  /\ code' = [code EXCEPT !.doomed = {}]
  /\ inv' = [i \in Invocations |-> IF inv[i].pc \in {"unborn", "ended"} THEN inv[i]
                                   ELSE [inv[i] EXCEPT !.pc = "ended", !.leased = FALSE, !.env = None, !.outcome = <<"aborted">>]]
  /\ envs' = Empty
  /\ pool' = [idle |-> Empty, retired |-> {}, closed |-> FALSE, timers |-> {}, removals |-> {}]
  /\ UNCHANGED <<workload, functions, containers, counts>>

\* Server::new: load extracts a tree that is missing; remove_orphaned_containers removes what
\* the previous process left, if Docker answers.
Restart(docker) ==
  /\ phase = "down"
  /\ phase' = "up"
  /\ code' = [code EXCEPT !.trees = @ \cup {t \in code.zips : t[1] \in DOMAIN functions /\ functions[t[1]].sha = t[2]}]
  /\ containers' = IF docker THEN {} ELSE containers
  /\ UNCHANGED <<workload, functions, jobs, waiting, unretired, inv, envs, pool, counts, crashed>>

Init ==
  /\ workload \in Workloads
  /\ phase = "up"
  /\ functions = Empty
  /\ code = [zips |-> {}, trees |-> {}, doomed |-> {}]
  /\ jobs = Empty /\ waiting = {} /\ unretired = {}
  /\ inv = [i \in Invocations |-> Unborn]
  /\ envs = Empty
  /\ pool = [idle |-> Empty, retired |-> {}, closed |-> FALSE, timers |-> {}, removals |-> {}]
  /\ containers = {}
  /\ counts = [revisions |-> 0, envs |-> 0, jobs |-> 0]
  /\ crashed = FALSE

Registry ==
  \/ \E f \in Names, kind \in workload.kinds, sha \in workload.shas : CreateFunction(f, kind, sha)
  \/ \E f \in Names, sha \in workload.shas, pinned \in BOOLEAN :
       f \in DOMAIN functions /\ UpdateFunctionCode(f, sha, IF pinned THEN functions[f].revision ELSE None)
  \/ \E w \in waiting : LockForUpdate(w)
  \/ \E f \in Names : DeleteFunction(f)
  \/ \E f \in DOMAIN jobs, outcome \in Outcomes : Stage(f, outcome) \/ CommitCode(f, outcome) \/ CommitDelete(f, outcome)
  \/ \E f \in DOMAIN jobs : RetireCode(f) \/ RetirePool(f)
  \/ \E f \in Names : UpdateFunctionConfiguration(f, None, "saved")
  \/ \E p \in unretired : RetireConfiguration(p[1], p[2])
  \/ \E f \in Names, auth \in workload.auths : CreateFunctionUrlConfig(f, auth) \/ UpdateFunctionUrlConfig(f, auth)
  \/ \E f \in Names : DeleteFunctionUrlConfig(f)
  \/ \E f \in Names : TagResource(f, "t") \/ UntagResource(f, "t")

InvocationStep(i) ==
  \/ \E f \in Names, signed \in BOOLEAN : FindUrl(i, f, signed)
  \/ \E f \in Names, type \in workload.types : LookUp(i, f, type)
  \/ Refuse(i)
  \/ Take(i)
  \/ Spawn(i)
  \/ SpawnFails(i)
  \/ Initialised(i)
  \/ Answered(i)
  \/ \E how \in {"exited", "crashed", "timed out"} : Fails(i, how)

Bootstrap(e) ==
  \/ BootReady(e)
  \/ \E result \in {"success", "error"} : BootServe(e, result)
  \/ Poll(e)
  \/ \E received \in BOOLEAN : HandOut(e, received)
  \/ \E i \in Invocations, result \in {"success", "error"} : Post(e, i, result)
  \/ InitError(e)
  \/ Die(e)

Stop ==
  \/ StopServing
  \/ AbortBackground
  \/ ClosePool
  \/ Closed
  \/ Crash
  \/ \E docker \in BOOLEAN : Restart(docker)

Next ==
  \/ Registry
  \/ \E i \in Invocations : InvocationStep(i)
  \/ \E e \in DOMAIN envs : Bootstrap(e)
  \/ \E timer \in pool.timers, again \in BOOLEAN : Expire(timer, again)
  \/ \E e \in pool.removals : Removal(e)
  \/ Stop

Spec == Init /\ [][Next]_vars

-----------------------------------------------------------------------------
(***************************************************************************)
(* Properties.                                                             *)
(***************************************************************************)

\* Every variable has its type.
TypeOK ==
  /\ DOMAIN functions \subseteq Names
  /\ DOMAIN envs \subseteq 1..counts.envs /\ containers \subseteq 1..counts.envs
  /\ \A i \in Invocations : inv[i].env # None => inv[i].env \in DOMAIN envs
  /\ \A f \in DOMAIN pool.idle : pool.idle[f] # <<>> /\ Range(pool.idle[f]) \subseteq DOMAIN envs

\* The package the saved configuration of a function points at is there, the zip and the
\* tree, whatever other versions are being stored, replaced or deleted.
PackagePresent ==
  \A f \in DOMAIN functions : functions[f].kind # "image" =>
    /\ Tree(f, functions[f].sha) \in code.zips
    /\ phase # "down" => Tree(f, functions[f].sha) \in code.trees

\* An invocation, and an environment for as long as it lives, runs from a tree that stays in
\* place, through updates, deletions and re-creations of the function.
RunningTreeStays ==
  /\ \A i \in Invocations : inv[i].leased /\ inv[i].kind # "image" => inv[i].tree \in code.trees
  /\ \A e \in DOMAIN envs : envs[e].kind # "image" => envs[e].tree \in code.trees

\* No package is left on disk: each belongs to a function, is used, or is in the hands of a
\* job; only a crash between a commit and the removal may leave one behind.
NothingLeftBehind ==
  ~crashed =>
    \A t \in code.trees \cup code.zips :
      \/ t[1] \in DOMAIN functions /\ functions[t[1]].sha = t[2]
      \/ t \in code.doomed \cap Leased(inv, envs)
      \/ t[1] \in DOMAIN jobs

\* An idle environment is of the current revision of its function, so that the next
\* invocation may use it, unless whoever replaced the revision is about to retire it.
IdleIsCurrent ==
  \A f \in DOMAIN pool.idle : \A e \in Range(pool.idle[f]) :
    \/ f \in DOMAIN functions /\ functions[f].revision = envs[e].key
    \/ <<f, envs[e].key>> \in unretired
    \/ f \in DOMAIN jobs /\ jobs[f].pc \in {"retire code", "retire pool"} /\ jobs[f].old.revision = envs[e].key

\* An environment serves one invocation at a time, of the revision it was started from, and
\* is not idle meanwhile; a timer never stops one that serves.
OneAtATime ==
  \A i \in Invocations : inv[i].env # None =>
    /\ \A j \in Invocations : inv[j].env = inv[i].env => j = i
    /\ \A f \in DOMAIN pool.idle : inv[i].env \notin Range(pool.idle[f])
    /\ envs[inv[i].env].key = inv[i].revision

\* An invocation that was told it is done has a result, and it is its own: no marker or
\* answer of an earlier request, or one repeated, ends a later one.
DoneMeansAnswered == \A i \in Invocations : inv[i].outcome # <<"done", "no result">>

\* A request to a function URL runs only a function whose URL asks for the authorisation
\* the request was checked for, although the function may have been deleted and created
\* again, or its URL changed, since the check.
UrlAuthorised ==
  \A i \in Invocations : inv[i].url # None /\ inv[i].ran # None => inv[i].ran.auth = inv[i].url.auth

\* When shutdown is over nothing is left of what it started: no environment, no container
\* (of this run, if it was not the daemon that failed to remove what a crash left), no job.
ShutdownLeavesNothing ==
  phase = "closed" => /\ envs = Empty /\ jobs = Empty
                      /\ ~crashed => containers = {}
                      /\ \A i \in Invocations : inv[i].pc \in {"unborn", "ended"}

\* The files of a version outlive everything that points at or runs from them, and nothing
\* else is kept (code_store.rs, the package jobs of server.rs, the leases of runtime.rs).
FilesOutliveUse == PackagePresent /\ RunningTreeStays /\ NothingLeftBehind

\* Environments are reused only for what they were started for, one invocation at a time,
\* answers belong to their invocation, and shutdown leaves none (runtime.rs, runtime_api.rs).
EnvironmentsSafe ==
  TypeOK /\ IdleIsCurrent /\ OneAtATime /\ DoneMeansAnswered /\ UrlAuthorised /\ ShutdownLeavesNothing

=============================================================================
