----------------------------- MODULE Supervisor -----------------------------
(***************************************************************************)
(* "devcloud up" (orchestrator: supervisor.rs and services/): every        *)
(* enabled service is a task of one process, some with two listeners, two  *)
(* with a child process (redis-server, and the PostgreSQL behind           *)
(* Redshift).  The first error, or a signal, sets one shutdown flag; the   *)
(* daemon returns when every task has ended, and what is left of its       *)
(* listeners goes with the runtime.                                        *)
(*                                                                         *)
(* The one-listener services are alike and stand as "plain"; "relay" is    *)
(* the event relay, whose broken listener is not an error.                 *)
(***************************************************************************)
EXTENDS Integers, FiniteSets

CONSTANT Configurations   \* the tasks enabled, and the Redis settings with them

AllTasks == {"plain", "relay", "mail", "pubsub", "redshift", "redis"}

\* The relay always runs; connection_target finds a managed or an external
\* Redis, or settings it refuses.
SupervisorAssumption ==
    Configurations \subseteq [enabled : {tasks \in SUBSET AllTasks : "relay" \in tasks},
                              redis : {"managed", "external", "invalid"}]

VARIABLES cfg,        \* the configuration
          sup,        \* the supervisor: launching, looping, returned, gone
          phase,      \* each task's place in its run function
          result,     \* what each ended task returned
          joined,     \* the tasks whose end the supervisor has seen
          firstErr,   \* the task whose error is reported
          shutdown,   \* the watch channel's value
          signal,     \* the signal: none, sent, received
          listeners,  \* the sockets that accept connections
          child,      \* the child processes
          early       \* history: the tasks that failed before shutdown began

vars == <<cfg, sup, phase, result, joined, firstErr, shutdown, signal, listeners, child, early>>

NoTask == "no task"
Enabled == cfg.enabled
RedisTarget == cfg.redis
Children == {"redis-server", "postgres"}

\* Listeners that end by themselves when the flag is set; the others have to
\* be aborted by their service.
HeedFlag == {"mail-http", "pubsub-rest", "pubsub-grpc", "redshift-api"}

Init ==
    /\ cfg \in Configurations
    /\ sup = "launching"
    /\ phase = [t \in Enabled |-> "none"]
    /\ result = [t \in Enabled |-> "none"]
    /\ joined = {} /\ firstErr = NoTask
    /\ shutdown = FALSE /\ signal = "none"
    /\ listeners = {}
    /\ child = [c \in Children |-> "none"]
    /\ early = {}

\* External Redis settings are checked before anything is started.
Launch ==
    /\ sup = "launching"
    /\ IF "redis" \in Enabled /\ RedisTarget = "invalid"
       THEN /\ sup' = "returned" /\ firstErr' = "redis"
            /\ UNCHANGED phase
       ELSE /\ sup' = "looping"
            /\ phase' = [t \in Enabled |-> "starting"]
            /\ UNCHANGED firstErr
    /\ UNCHANGED <<cfg, result, joined, shutdown, signal, listeners, child, early>>

Ends(t, outcome) ==
    /\ phase' = [phase EXCEPT ![t] = "ended"]
    /\ result' = [result EXCEPT ![t] = outcome]
    /\ early' = IF outcome = "error" /\ ~shutdown THEN early \cup {t} ELSE early

Moves(t, to) == phase' = [phase EXCEPT ![t] = to] /\ UNCHANGED <<result, early>>

TheRest == UNCHANGED <<cfg, sup, joined, firstErr, shutdown, signal>>
-----------------------------------------------------------------------------
(* Services with one listener: state loaded, socket bound, served. *)

PlainStart(t) ==
    /\ t \in {"plain", "relay"} \cap Enabled /\ phase[t] = "starting"
    /\ \/ Moves(t, "serving") /\ listeners' = listeners \cup {t}
       \/ Ends(t, "error") /\ UNCHANGED listeners
    /\ UNCHANGED child /\ TheRest

PlainBreaks(t) ==
    /\ t \in {"plain", "relay"} \cap Enabled /\ phase[t] = "serving"
    /\ Ends(t, IF t = "relay" THEN "ok" ELSE "error")
    /\ listeners' = listeners \ {t}
    /\ UNCHANGED child /\ TheRest

PlainStops(t) ==
    /\ t \in {"plain", "relay"} \cap Enabled /\ phase[t] = "serving" /\ shutdown
    /\ Ends(t, "ok")
    /\ listeners' = listeners \ {t}
    /\ UNCHANGED child /\ TheRest
-----------------------------------------------------------------------------
(* Mail: the SMTP loop is a task of its own, started before the page's      *)
(* socket is bound; when that fails its handle is dropped, not aborted.     *)

MailStart ==
    /\ "mail" \in Enabled /\ phase["mail"] = "starting"
    /\ Moves("mail", "binding")
    /\ listeners' = listeners \cup {"smtp"}
    /\ UNCHANGED child /\ TheRest

MailBind ==
    /\ "mail" \in Enabled /\ phase["mail"] = "binding"
    /\ \/ Moves("mail", "serving") /\ listeners' = listeners \cup {"mail-http"}
       \/ Ends("mail", "error") /\ UNCHANGED listeners
    /\ UNCHANGED child /\ TheRest

\* One of the two loops ends; the other is left behind.
MailBreaks ==
    /\ "mail" \in Enabled /\ phase["mail"] = "serving"
    /\ Ends("mail", "error")
    /\ \E l \in {"smtp", "mail-http"} : listeners' = listeners \ {l}
    /\ UNCHANGED child /\ TheRest

MailStops ==
    /\ "mail" \in Enabled /\ phase["mail"] = "serving" /\ shutdown
    /\ Ends("mail", "ok")
    /\ listeners' = listeners \ {"smtp"}
    /\ UNCHANGED child /\ TheRest
-----------------------------------------------------------------------------
(* Pub/Sub: both listeners heed the flag. *)

PubsubStart ==
    /\ "pubsub" \in Enabled /\ phase["pubsub"] = "starting"
    /\ \/ Moves("pubsub", "serving") /\ listeners' = listeners \cup {"pubsub-rest", "pubsub-grpc"}
       \/ Ends("pubsub", "error") /\ UNCHANGED listeners
    /\ UNCHANGED child /\ TheRest

PubsubEnds ==
    /\ "pubsub" \in Enabled /\ phase["pubsub"] = "serving"
    /\ \E l \in {"pubsub-rest", "pubsub-grpc"} : listeners' = listeners \ {l}
    /\ Ends("pubsub", IF shutdown THEN "ok" ELSE "error")
    /\ UNCHANGED child /\ TheRest
-----------------------------------------------------------------------------
(* Redshift with a PostgreSQL of its own. *)

\* The data directory is prepared (initdb), the server started.
PostgresSpawn ==
    /\ "redshift" \in Enabled /\ phase["redshift"] = "starting"
    /\ \/ Ends("redshift", "error") /\ UNCHANGED child
       \/ Moves("redshift", "bootstrapping") /\ child' = [child EXCEPT !["postgres"] = "running"]
    /\ UNCHANGED listeners /\ TheRest

\* The port answers, the role and the database exist; or the owner is closed.
PostgresReady ==
    /\ "redshift" \in Enabled /\ phase["redshift"] = "bootstrapping"
    /\ Moves("redshift", "binding") \/ Moves("redshift", "closing failed")
    /\ UNCHANGED <<child, listeners>> /\ TheRest

\* The backend is opened, certificates are read and both sockets bound; on an
\* error the owner of the process is dropped, which closes it.
RedshiftBind ==
    /\ "redshift" \in Enabled /\ phase["redshift"] = "binding"
    /\ \/ Moves("redshift", "serving") /\ listeners' = listeners \cup {"redshift-sql", "redshift-api"}
       \/ Moves("redshift", "closing failed") /\ UNCHANGED listeners
    /\ UNCHANGED child /\ TheRest

RedshiftBreaks ==
    /\ "redshift" \in Enabled /\ phase["redshift"] = "serving"
    /\ \E l \in {"redshift-sql", "redshift-api"} : listeners' = listeners \ {l}
    /\ Moves("redshift", "closing failed")
    /\ UNCHANGED child /\ TheRest

RedshiftStops ==
    /\ "redshift" \in Enabled /\ phase["redshift"] = "serving" /\ shutdown
    /\ listeners' = listeners \ {"redshift-sql"}
    /\ Moves("redshift", "closing")
    /\ UNCHANGED child /\ TheRest

ClosedIfClean == [child EXCEPT !["postgres"] = IF phase["redshift"] = "closing" THEN "exited" ELSE @]

\* ManagedPostgres::close: an interrupt, five seconds, then a kill; it waits
\* for the process either way.
Closed == [child EXCEPT !["postgres"] = "exited"]

PostgresClose ==
    /\ "redshift" \in Enabled /\ phase["redshift"] \in {"closing", "closing failed"}
    /\ child' = Closed
    /\ Ends("redshift", IF phase["redshift"] = "closing" THEN "ok" ELSE "error")
    /\ UNCHANGED listeners /\ TheRest
-----------------------------------------------------------------------------
(* Redis: a child process, an external server, or nothing at all. *)

RedisStart ==
    /\ "redis" \in Enabled /\ phase["redis"] = "starting"
    /\ \/ RedisTarget = "managed" /\ Moves("redis", "serving")
          /\ child' = [child EXCEPT !["redis-server"] = "running"]
       \/ RedisTarget = "managed" /\ Moves("redis", "idle") /\ UNCHANGED child   \* no redis-server
       \/ RedisTarget = "external" /\ Moves("redis", "idle") /\ UNCHANGED child
       \/ Ends("redis", "error") /\ UNCHANGED child
    /\ UNCHANGED listeners /\ TheRest

RedisExited ==
    /\ "redis" \in Enabled /\ phase["redis"] = "serving" /\ child["redis-server"] # "running"
    /\ Ends("redis", IF child["redis-server"] = "exited" THEN "ok" ELSE "error")
    /\ UNCHANGED <<child, listeners>> /\ TheRest

RedisIdleStops ==
    /\ "redis" \in Enabled /\ phase["redis"] = "idle" /\ shutdown
    /\ Ends("redis", "ok")
    /\ UNCHANGED <<child, listeners>> /\ TheRest

Stopped(c) == [child EXCEPT ![c] = IF @ = "running" THEN "exited" ELSE @]

\* stop_child: terminated, or killed after five seconds.
RedisStops ==
    /\ "redis" \in Enabled /\ phase["redis"] = "serving" /\ shutdown
    /\ child' = Stopped("redis-server")
    /\ \E outcome \in {"ok", "error"} : Ends("redis", outcome)
    /\ UNCHANGED listeners /\ TheRest
-----------------------------------------------------------------------------
(* The environment and the supervisor. *)

\* A child process ends by itself, cleanly or not.  Nobody watches PostgreSQL.
ChildExits(c, status) ==
    /\ child[c] = "running"
    /\ child' = [child EXCEPT ![c] = status]
    /\ UNCHANGED <<phase, result, listeners, early>> /\ TheRest

\* A listener left behind ends when the flag is set, if it heeds it.
ListenerStops(l) ==
    /\ l \in listeners \cap HeedFlag /\ shutdown
    /\ listeners' = listeners \ {l}
    /\ UNCHANGED <<phase, result, child, early>> /\ TheRest

SignalArrives ==
    /\ signal = "none" /\ sup = "looping"
    /\ signal' = "sent"
    /\ UNCHANGED <<cfg, sup, phase, result, joined, firstErr, shutdown, listeners, child, early>>

ReceiveSignal ==
    /\ sup = "looping" /\ signal = "sent"
    /\ signal' = "received" /\ shutdown' = TRUE
    /\ UNCHANGED <<cfg, sup, phase, result, joined, firstErr, listeners, child, early>>

OnlyRecorded(t) == shutdown

\* An error is broadcast; a service that ends without one leaves the others.
FlagAfter(t) == shutdown \/ result[t] = "error"

ErrorAfter(t) == IF firstErr = NoTask /\ result[t] = "error" THEN t ELSE firstErr

JoinNext(t) ==
    /\ sup = "looping" /\ phase[t] = "ended" /\ t \notin joined
    /\ joined' = joined \cup {t}
    /\ shutdown' = FlagAfter(t)
    /\ firstErr' = ErrorAfter(t)
    /\ UNCHANGED <<cfg, sup, phase, result, signal, listeners, child, early>>

Return ==
    /\ sup = "looping" /\ joined = Enabled
    /\ sup' = "returned"
    /\ UNCHANGED <<cfg, phase, result, joined, firstErr, shutdown, signal, listeners, child, early>>

\* main drops the runtime, and with it every task that is left.
RuntimeDrop ==
    /\ sup = "returned"
    /\ sup' = "gone"
    /\ listeners' = {}
    /\ UNCHANGED <<cfg, phase, result, joined, firstErr, shutdown, signal, child, early>>

TaskStep ==
    \/ \E t \in {"plain", "relay"} : PlainStart(t) \/ PlainStops(t)
    \/ MailStart \/ MailBind \/ MailStops \/ PubsubStart \/ (shutdown /\ PubsubEnds)
    \/ PostgresSpawn \/ PostgresReady \/ RedshiftBind \/ RedshiftStops
    \/ PostgresClose
    \/ RedisStart \/ RedisExited \/ RedisIdleStops \/ RedisStops

SupervisorStep == Launch \/ ReceiveSignal \/ (\E t \in Enabled : JoinNext(t)) \/ Return \/ RuntimeDrop

Environment ==
    \/ \E t \in {"plain", "relay"} : PlainBreaks(t)
    \/ MailBreaks \/ (~shutdown /\ PubsubEnds) \/ RedshiftBreaks
    \/ \E c \in Children, status \in {"exited", "failed"} : ChildExits(c, status)
    \/ \E l \in HeedFlag : ListenerStops(l)
    \/ SignalArrives

Next == TaskStep \/ SupervisorStep \/ Environment

Spec == Init /\ [][Next]_vars

\* Start-up steps and the ends of services are bounded by the code's timeouts
\* (fifteen seconds for PostgreSQL's port, five for a child to stop), and the
\* supervisor's loop takes what is ready; nothing else is taken for granted.
Fairness == WF_vars(TaskStep) /\ WF_vars(SupervisorStep)

LiveSpec == Spec /\ Fairness
-----------------------------------------------------------------------------
(* Properties. *)

\* When the daemon has returned, none of its child processes runs and no
\* service is still in the middle of its work.
NothingLeftRunning ==
    sup \in {"returned", "gone"} =>
       /\ \A c \in Children : child[c] # "running"
       /\ \A t \in Enabled : phase[t] \in {"none", "ended"}

\* The error reported is one that began the shutdown (or came before the
\* signal's did): never a consequence of it, never lost.
OriginalError ==
    (sup \in {"returned", "gone"} /\ phase["relay"] # "none") =>
       /\ firstErr # NoTask <=> \E t \in Enabled : result[t] = "error"
       /\ (firstErr # NoTask /\ signal # "received") => firstErr \in early

\* What a shutdown leaves behind and what it reports.
ShutdownClean == NothingLeftRunning /\ OriginalError

\* A service that fails, or a signal, takes the whole daemon down, whatever the
\* others are doing: starting a child process, serving, ending by themselves.
EndsAll == ((\E t \in Enabled : result[t] = "error") \/ signal = "sent") ~> sup = "gone"
=============================================================================
