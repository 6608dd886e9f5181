-------------------------- MODULE SupervisorProofs --------------------------
(***************************************************************************)
(* What Supervisor guarantees for every set of configurations: a daemon    *)
(* that has returned left no child process and no unfinished service, and  *)
(* reports the error that began its shutdown.                              *)
(*                                                                         *)
(* A child process runs only while the task that owns it is between        *)
(* spawning and closing it; the shutdown flag is never set without a cause *)
(* that is on record; and until it is set every error is an early one.     *)
(***************************************************************************)
EXTENDS Supervisor, TLAPS

-----------------------------------------------------------------------------
(***************************************************************************)
(* The invariant.                                                          *)
(***************************************************************************)

\* Where a task that was launched and has not ended can be.
Working ==
    {"starting", "binding", "serving", "bootstrapping", "closing", "closing failed", "idle"}

\* The places of the Redshift task at which it owns a PostgreSQL process.
Owning == {"bootstrapping", "binding", "serving", "closing", "closing failed"}

Launched == phase["relay"] # "none"

Types ==
    /\ "relay" \in Enabled
    /\ sup \in {"launching", "looping", "returned", "gone"}
    /\ phase \in [Enabled -> Working \cup {"none", "ended"}]
    /\ result \in [Enabled -> {"none", "ok", "error"}]
    /\ joined \subseteq Enabled
    /\ NoTask \notin Enabled
    /\ shutdown \in BOOLEAN
    /\ child \in [Children -> {"none", "running", "exited", "failed"}]

\* The supervisor's loop runs from the launch until every task was joined, and a task has a
\* result exactly when it has ended.
Places ==
    /\ sup = "launching" => ~Launched
    /\ sup = "looping" => Launched
    /\ Launched /\ sup \in {"returned", "gone"} => joined = Enabled
    /\ \A t \in Enabled : phase[t] = "none" <=> ~Launched
    /\ \A t \in Enabled : result[t] = "none" <=> phase[t] # "ended"
    /\ \A t \in joined : phase[t] = "ended"

\* The flag has a cause, the error reported is that of a joined task, and as long as the flag
\* is not set every error counts as early.
Causes ==
    /\ sup = "launching" => firstErr = NoTask
    /\ ~Launched => joined = {} /\ shutdown = FALSE /\ signal # "received"
    /\ Launched =>
         /\ firstErr # NoTask <=> \E t \in joined : result[t] = "error"
         /\ firstErr # NoTask => firstErr \in joined
         /\ shutdown = TRUE => signal = "received" \/ firstErr # NoTask
         /\ firstErr # NoTask /\ signal # "received" => firstErr \in early
    /\ signal = "received" => shutdown = TRUE
    /\ shutdown = FALSE => \A t \in Enabled : result[t] = "error" => t \in early

\* A child process runs only while its task owns it.
Owned ==
    /\ child["redis-server"] = "running" => "redis" \in Enabled /\ phase["redis"] = "serving"
    /\ child["postgres"] = "running" => "redshift" \in Enabled /\ phase["redshift"] \in Owning

ShutdownInv == Types /\ Places /\ Causes /\ Owned

-----------------------------------------------------------------------------
(***************************************************************************)
(* Steps of one task.                                                      *)
(***************************************************************************)

ChildStates == [Children -> {"none", "running", "exited", "failed"}]

LEMMA MovesKeeps ==
  ASSUME Types, Places, Causes, NEW t \in Enabled, phase[t] \in Working, NEW to \in Working,
         Moves(t, to), TheRest, child' \in ChildStates
  PROVE  Types' /\ Places' /\ Causes'
<1>1. /\ cfg' = cfg /\ sup' = sup /\ joined' = joined /\ firstErr' = firstErr
      /\ shutdown' = shutdown /\ signal' = signal
      /\ phase' = [phase EXCEPT ![t] = to] /\ result' = result /\ early' = early
  BY DEF Moves, TheRest
<1>2. \A u \in Enabled : phase'[u] = IF u = t THEN to ELSE phase[u]
  BY <1>1 DEF Types
<1>3. to # "none" /\ to # "ended" /\ phase[t] # "none" /\ phase[t] # "ended"
  BY DEF Working
<1>4. Enabled' = Enabled
  BY <1>1 DEF Enabled
<1>5. Launched /\ Launched'
  BY <1>2, <1>3 DEF Places, Launched, Types
<1>6. Types'
  BY <1>1, <1>4 DEF Types, ChildStates
<1>7. Places'
  BY <1>1, <1>2, <1>3, <1>4, <1>5 DEF Places, Types
<1>8. Causes'
  BY <1>1, <1>4, <1>5 DEF Causes
<1> QED
  BY <1>6, <1>7, <1>8

LEMMA EndsKeeps ==
  ASSUME Types, Places, Causes, NEW t \in Enabled, phase[t] \in Working,
         NEW outcome \in {"ok", "error"}, Ends(t, outcome), TheRest, child' \in ChildStates
  PROVE  Types' /\ Places' /\ Causes' /\ phase'[t] = "ended"
<1>1. /\ cfg' = cfg /\ sup' = sup /\ joined' = joined /\ firstErr' = firstErr
      /\ shutdown' = shutdown /\ signal' = signal
      /\ phase' = [phase EXCEPT ![t] = "ended"] /\ result' = [result EXCEPT ![t] = outcome]
  BY DEF Ends, TheRest
<1>2. /\ \A u \in Enabled : phase'[u] = IF u = t THEN "ended" ELSE phase[u]
      /\ \A u \in Enabled : result'[u] = IF u = t THEN outcome ELSE result[u]
  BY <1>1 DEF Types
<1>3. phase[t] # "none" /\ phase[t] # "ended" /\ t \notin joined
  BY DEF Working, Places
<1>4. Enabled' = Enabled
  BY <1>1 DEF Enabled
<1>5. Launched /\ Launched'
  BY <1>2, <1>3 DEF Places, Launched, Types
<1>6. Types'
  BY <1>1, <1>4 DEF Types, ChildStates
<1>7. Places'
  BY <1>1, <1>2, <1>3, <1>4, <1>5 DEF Places, Types
<1>8. /\ early \subseteq early'
      /\ shutdown = FALSE /\ outcome = "error" => t \in early'
  BY DEF Ends, Types
<1>9. \A u \in joined : result'[u] = result[u]
  BY <1>2, <1>3 DEF Types
<1>10. shutdown' = FALSE => \A u \in Enabled : result'[u] = "error" => u \in early'
  BY <1>1, <1>2, <1>8 DEF Causes
<1>11. Causes'
  BY <1>1, <1>4, <1>5, <1>8, <1>9, <1>10 DEF Causes
<1> QED
  BY <1>2, <1>6, <1>7, <1>11

\* A task that owns no process.
LEMMA OthersOwn ==
  ASSUME Types, Owned, NEW t \in Enabled, t \notin {"redis", "redshift"},
         \/ \E to \in Working : Moves(t, to)
         \/ \E outcome \in {"ok", "error"} : Ends(t, outcome),
         TheRest, child' = child
  PROVE  Owned'
<1>1. /\ \A u \in Enabled : u # t => phase'[u] = phase[u]
      /\ Enabled' = Enabled
  BY DEF Moves, Ends, TheRest, Enabled, Types
<1> QED
  BY <1>1 DEF Owned

LEMMA OtherSteps ==
  ASSUME ShutdownInv, NEW t \in Enabled, t \notin {"redis", "redshift"}, phase[t] \in Working,
         \/ \E to \in Working : Moves(t, to)
         \/ \E outcome \in {"ok", "error"} : Ends(t, outcome),
         TheRest, child' = child
  PROVE  ShutdownInv'
<1>1. child' \in ChildStates
  BY DEF ShutdownInv, Types, ChildStates
<1>2. Types' /\ Places' /\ Causes'
  BY <1>1, MovesKeeps, EndsKeeps DEF ShutdownInv
<1>3. Owned'
  BY OthersOwn DEF ShutdownInv
<1> QED
  BY <1>2, <1>3 DEF ShutdownInv

LEMMA PlainSteps ==
  ASSUME ShutdownInv, NEW t \in {"plain", "relay"}, PlainStart(t) \/ PlainBreaks(t) \/ PlainStops(t)
  PROVE  ShutdownInv'
<1>1. /\ t \in Enabled /\ phase[t] \in Working /\ TheRest /\ child' = child
      /\ \/ \E to \in Working : Moves(t, to)
         \/ \E outcome \in {"ok", "error"} : Ends(t, outcome)
  BY DEF PlainStart, PlainBreaks, PlainStops, Working
<1> QED
  BY <1>1, OtherSteps

LEMMA MailSteps ==
  ASSUME ShutdownInv, MailStart \/ MailBind \/ MailBreaks \/ MailStops
  PROVE  ShutdownInv'
<1>1. /\ "mail" \in Enabled /\ phase["mail"] \in Working /\ TheRest /\ child' = child
      /\ \/ \E to \in Working : Moves("mail", to)
         \/ \E outcome \in {"ok", "error"} : Ends("mail", outcome)
  BY DEF MailStart, MailBind, MailBreaks, MailStops, Working
<1> QED
  BY <1>1, OtherSteps

LEMMA PubsubSteps ==
  ASSUME ShutdownInv, PubsubStart \/ PubsubEnds
  PROVE  ShutdownInv'
<1>1. /\ "pubsub" \in Enabled /\ phase["pubsub"] \in Working /\ TheRest /\ child' = child
      /\ \/ \E to \in Working : Moves("pubsub", to)
         \/ \E outcome \in {"ok", "error"} : Ends("pubsub", outcome)
  BY DEF PubsubStart, PubsubEnds, Working
<1> QED
  BY <1>1, OtherSteps

\* The Redshift task: its process runs from the spawn until the task has closed it.
LEMMA RedshiftSteps ==
  ASSUME ShutdownInv,
         \/ PostgresSpawn \/ PostgresReady \/ RedshiftBind \/ RedshiftBreaks \/ RedshiftStops
         \/ PostgresClose
  PROVE  ShutdownInv'
<1> DEFINE r == "redshift"
<1>1. r \in Enabled /\ phase[r] \in Working /\ TheRest
  BY DEF PostgresSpawn, PostgresReady, RedshiftBind, RedshiftBreaks, RedshiftStops, PostgresClose,
         Working
<1>2. \/ \E to \in Working : Moves(r, to)
      \/ \E outcome \in {"ok", "error"} : Ends(r, outcome)
  BY DEF PostgresSpawn, PostgresReady, RedshiftBind, RedshiftBreaks, RedshiftStops, PostgresClose,
         Working
<1>3. child' \in ChildStates /\ child'["redis-server"] = child["redis-server"]
  BY DEF ShutdownInv, Types, ChildStates, Children, Closed, PostgresSpawn, PostgresReady,
         RedshiftBind, RedshiftBreaks, RedshiftStops, PostgresClose
<1>4. Types' /\ Places' /\ Causes'
  BY <1>1, <1>2, <1>3, MovesKeeps, EndsKeeps DEF ShutdownInv
<1>5. /\ \A u \in Enabled : u # r => phase'[u] = phase[u]
      /\ Enabled' = Enabled
  BY <1>1, <1>2 DEF Moves, Ends, TheRest, Enabled, ShutdownInv, Types
<1>6. child'["postgres"] = "running" => phase'[r] \in Owning
  <2>1. CASE PostgresSpawn \/ PostgresClose
    <3>1. phase \in [Enabled -> Working \cup {"none", "ended"}] /\ child \in ChildStates
      BY DEF ShutdownInv, Types, ChildStates
    <3>2. ASSUME PostgresSpawn PROVE child'["postgres"] = "running" => phase'[r] \in Owning
      BY <3>1, <3>2, <1>1 DEF PostgresSpawn, Moves, Owning, ShutdownInv, Owned
    <3>3. ASSUME PostgresClose PROVE child'["postgres"] # "running"
      BY <3>1, <3>3 DEF PostgresClose, Closed, ChildStates, Children
    <3> QED
      BY <2>1, <3>2, <3>3
  <2>2. CASE PostgresReady \/ RedshiftBind \/ RedshiftBreaks \/ RedshiftStops
    BY <1>1, <2>2 DEF PostgresReady, RedshiftBind, RedshiftBreaks, RedshiftStops, Moves, Owning,
       ShutdownInv, Types
  <2> QED
    BY <2>1, <2>2
<1>7. Owned'
  BY <1>1, <1>3, <1>5, <1>6 DEF Owned, ShutdownInv
<1> QED
  BY <1>4, <1>7 DEF ShutdownInv

\* The Redis task: while its process runs the task serves.
LEMMA RedisSteps ==
  ASSUME ShutdownInv, RedisStart \/ RedisExited \/ RedisIdleStops \/ RedisStops
  PROVE  ShutdownInv'
<1> DEFINE r == "redis"
<1>1. r \in Enabled /\ phase[r] \in Working /\ TheRest
  BY DEF RedisStart, RedisExited, RedisIdleStops, RedisStops, Working
<1>2. \/ \E to \in Working : Moves(r, to)
      \/ \E outcome \in {"ok", "error"} : Ends(r, outcome)
  BY DEF RedisStart, RedisExited, RedisIdleStops, RedisStops, Working
<1>3. child' \in ChildStates /\ child'["postgres"] = child["postgres"]
  BY DEF ShutdownInv, Types, ChildStates, Children, Stopped, RedisStart, RedisExited,
         RedisIdleStops, RedisStops
<1>4. Types' /\ Places' /\ Causes'
  BY <1>1, <1>2, <1>3, MovesKeeps, EndsKeeps DEF ShutdownInv
<1>5. /\ \A u \in Enabled : u # r => phase'[u] = phase[u]
      /\ Enabled' = Enabled
  BY <1>1, <1>2 DEF Moves, Ends, TheRest, Enabled, ShutdownInv, Types
<1>6. child'["redis-server"] = "running" => phase'[r] = "serving"
  <2>1. phase \in [Enabled -> Working \cup {"none", "ended"}] /\ child \in ChildStates
    BY DEF ShutdownInv, Types, ChildStates
  <2>2. child["redis-server"] = "running" => phase[r] = "serving"
    BY DEF ShutdownInv, Owned
  <2>3. CASE RedisStart
    BY <1>1, <2>1, <2>2, <2>3 DEF RedisStart, Moves
  <2>4. CASE RedisExited \/ RedisIdleStops
    BY <2>2, <2>4 DEF RedisExited, RedisIdleStops
  <2>5. CASE RedisStops
    BY <2>1, <2>5 DEF RedisStops, Stopped, ChildStates, Children
  <2> QED
    BY <2>3, <2>4, <2>5
<1>7. Owned'
  BY <1>1, <1>3, <1>5, <1>6 DEF Owned, ShutdownInv
<1> QED
  BY <1>4, <1>7 DEF ShutdownInv

-----------------------------------------------------------------------------
(***************************************************************************)
(* Steps of the environment and of the supervisor.                         *)
(***************************************************************************)

LEMMA ChildExitsKeeps ==
  ASSUME ShutdownInv, NEW c \in Children, NEW status \in {"exited", "failed"}, ChildExits(c, status)
  PROVE  ShutdownInv'
<1>1. /\ UNCHANGED <<cfg, sup, phase, result, joined, firstErr, shutdown, signal, early>>
      /\ child' = [child EXCEPT ![c] = status]
  BY DEF ChildExits, TheRest
<1>2. child' \in ChildStates /\ \A d \in Children : child'[d] = "running" => child[d] = "running"
  BY <1>1 DEF ShutdownInv, Types, ChildStates
<1>3. Types' /\ Places' /\ Causes'
  BY <1>1, <1>2 DEF ShutdownInv, Types, Places, Causes, Launched, Enabled, ChildStates
<1>4. Owned'
  BY <1>1, <1>2 DEF ShutdownInv, Owned, Enabled, Children
<1> QED
  BY <1>3, <1>4 DEF ShutdownInv

\* Steps that concern nothing but the listeners, or send the signal.
LEMMA QuietSteps ==
  ASSUME ShutdownInv,
         \/ \E l \in HeedFlag : ListenerStops(l)
         \/ SignalArrives
         \/ UNCHANGED vars
  PROVE  ShutdownInv'
<1>1. /\ UNCHANGED <<cfg, sup, phase, result, joined, firstErr, shutdown, child, early>>
      /\ signal' = "received" <=> signal = "received"
  BY DEF ListenerStops, SignalArrives, TheRest, vars
<1> QED
  BY <1>1 DEF ShutdownInv, Types, Places, Causes, Owned, Launched, Enabled

LEMMA LaunchKeeps ==
  ASSUME ShutdownInv, Launch
  PROVE  ShutdownInv'
<1>1. /\ UNCHANGED <<cfg, result, joined, shutdown, signal, child, early>>
      /\ ~Launched
      /\ Enabled' = Enabled
  BY DEF Launch, ShutdownInv, Places, Enabled
<1>2. \A t \in Enabled : phase[t] = "none" /\ result[t] = "none"
  BY <1>1 DEF ShutdownInv, Places
<1>3. child["redis-server"] # "running" /\ child["postgres"] # "running"
  BY <1>2 DEF ShutdownInv, Owned, Owning
<1>4. CASE UNCHANGED phase /\ sup' = "returned"
  BY <1>1, <1>4 DEF ShutdownInv, Types, Places, Causes, Owned, Launched
<1>5. CASE phase' = [t \in Enabled |-> "starting"] /\ UNCHANGED firstErr /\ sup' = "looping"
  <2>1. Launched'
    BY <1>5 DEF Launched, ShutdownInv, Types
  <2>2. Types'
    BY <1>1, <1>5 DEF ShutdownInv, Types, Working
  <2>3. Places'
    BY <1>1, <1>2, <1>5, <2>1 DEF ShutdownInv, Types, Places, Causes
  <2>4. firstErr = NoTask
    BY DEF Launch, ShutdownInv, Causes
  <2>5. Causes'
    BY <1>1, <1>2, <1>5, <2>1, <2>4 DEF ShutdownInv, Causes
  <2> QED
    BY <1>1, <1>3, <2>2, <2>3, <2>5 DEF ShutdownInv, Owned
<1> QED
  BY <1>4, <1>5 DEF Launch

LEMMA ReceiveSignalKeeps ==
  ASSUME ShutdownInv, ReceiveSignal
  PROVE  ShutdownInv'
<1>1. /\ UNCHANGED <<cfg, sup, phase, result, joined, firstErr, child, early>>
      /\ signal' = "received" /\ shutdown' = TRUE /\ sup = "looping"
  BY DEF ReceiveSignal
<1> QED
  BY <1>1 DEF ShutdownInv, Types, Places, Causes, Owned, Launched, Enabled

\* The supervisor sees a task's end.  Without the flag the error it reports is an early one.
LEMMA JoinKeeps ==
  ASSUME ShutdownInv, NEW t \in Enabled, JoinNext(t)
  PROVE  ShutdownInv'
<1>1. /\ UNCHANGED <<cfg, sup, phase, result, signal, child, early>>
      /\ joined' = joined \cup {t} /\ firstErr' = ErrorAfter(t)
      /\ sup = "looping" /\ phase[t] = "ended"
  BY DEF JoinNext
<1>2. Launched /\ Launched' /\ Enabled' = Enabled
  BY <1>1 DEF ShutdownInv, Places, Launched, Enabled
<1>3. /\ shutdown' \in BOOLEAN
      /\ shutdown' = TRUE <=> shutdown = TRUE \/ result[t] = "error"
  BY DEF JoinNext, FlagAfter, ShutdownInv, Types
<1>4. Types' /\ Places' /\ Owned'
  BY <1>1, <1>2, <1>3 DEF ShutdownInv, Types, Places, Owned
<1>5. t # NoTask
  BY DEF ShutdownInv, Types
<1>6. shutdown \in BOOLEAN
  BY DEF ShutdownInv, Types
<1>7. firstErr' # NoTask <=> \E u \in joined' : result'[u] = "error"
  BY <1>1, <1>2, <1>5 DEF ShutdownInv, Causes, ErrorAfter
<1>8. firstErr' # NoTask => firstErr' \in joined'
  BY <1>1, <1>2 DEF ShutdownInv, Causes, ErrorAfter
<1>9. shutdown' = TRUE => signal' = "received" \/ firstErr' # NoTask
  BY <1>1, <1>2, <1>3, <1>5 DEF ShutdownInv, Causes, ErrorAfter
<1>10. firstErr' # NoTask /\ signal' # "received" => firstErr' \in early'
  BY <1>1, <1>2, <1>6 DEF ShutdownInv, Causes, ErrorAfter
<1>11. Causes'
  BY <1>1, <1>2, <1>3, <1>6, <1>7, <1>8, <1>9, <1>10 DEF ShutdownInv, Causes
<1> QED
  BY <1>4, <1>11 DEF ShutdownInv

LEMMA EndSteps ==
  ASSUME ShutdownInv, Return \/ RuntimeDrop
  PROVE  ShutdownInv'
<1>1. /\ UNCHANGED <<cfg, phase, result, joined, firstErr, shutdown, signal, child, early>>
      /\ \/ sup = "looping" /\ joined = Enabled /\ sup' = "returned"
         \/ sup = "returned" /\ sup' = "gone"
  BY DEF Return, RuntimeDrop
<1> QED
  BY <1>1 DEF ShutdownInv, Types, Places, Causes, Owned, Launched, Enabled

-----------------------------------------------------------------------------
(***************************************************************************)
(* The theorems.                                                           *)
(***************************************************************************)

LEMMA ShutdownInit == SupervisorAssumption /\ Init => ShutdownInv
<1> SUFFICES ASSUME SupervisorAssumption, Init PROVE ShutdownInv
  OBVIOUS
<1>1. "relay" \in Enabled /\ Enabled \subseteq AllTasks
  BY DEF SupervisorAssumption, Init, Enabled
<1>2. NoTask \notin Enabled
  BY <1>1 DEF NoTask, AllTasks
<1> QED
  BY <1>1, <1>2 DEF Init, ShutdownInv, Types, Places, Causes, Owned, Launched, Children

LEMMA ShutdownStep == ShutdownInv /\ [Next]_vars => ShutdownInv'
<1> SUFFICES ASSUME ShutdownInv, [Next]_vars PROVE ShutdownInv'
  OBVIOUS
<1>1. CASE TaskStep
  BY <1>1, PlainSteps, MailSteps, PubsubSteps, RedshiftSteps, RedisSteps DEF TaskStep
<1>2. CASE SupervisorStep
  BY <1>2, LaunchKeeps, ReceiveSignalKeeps, JoinKeeps, EndSteps DEF SupervisorStep
<1>3. CASE Environment
  BY <1>3, PlainSteps, MailSteps, PubsubSteps, RedshiftSteps, ChildExitsKeeps, QuietSteps
     DEF Environment
<1>4. CASE UNCHANGED vars
  BY <1>4, QuietSteps
<1> QED
  BY <1>1, <1>2, <1>3, <1>4 DEF Next

\* A child process runs only while the task that owns it has not closed it, the shutdown flag
\* always has a cause on record, and the supervisor has joined every task before it returns
\* (supervisor.rs: run; services/redis.rs, services/managed_postgres.rs).
THEOREM ShutdownInvariant == SupervisorAssumption => (Spec => []ShutdownInv)
<1> SUFFICES ASSUME SupervisorAssumption PROVE Spec => []ShutdownInv
  OBVIOUS
<1>1. Init => ShutdownInv
  BY ShutdownInit
<1> QED
  BY <1>1, ShutdownStep, PTL DEF Spec

LEMMA CleanImplied == ShutdownInv => ShutdownClean
<1> SUFFICES ASSUME ShutdownInv PROVE ShutdownClean
  OBVIOUS
<1>1. ASSUME sup \in {"returned", "gone"}
      PROVE  \A t \in Enabled : phase[t] \in {"none", "ended"}
  BY <1>1 DEF ShutdownInv, Places
<1>2. NothingLeftRunning
  BY <1>1 DEF ShutdownInv, Owned, Owning, NothingLeftRunning, Children
<1>3. OriginalError
  BY DEF ShutdownInv, Places, Causes, Types, Launched, OriginalError
<1> QED
  BY <1>2, <1>3 DEF ShutdownClean

\* Whatever is enabled, wherever the first error or the signal falls, while child processes
\* are spawned, ready or end by themselves: a daemon that has returned left no child process
\* and no unfinished task, and reports an error that came before its shutdown began, if any
\* task failed (supervisor.rs: run; services/redis.rs; services/managed_postgres.rs: close).
THEOREM ShutdownIsClean == SupervisorAssumption => (Spec => []ShutdownClean)
<1> SUFFICES ASSUME SupervisorAssumption PROVE Spec => []ShutdownClean
  OBVIOUS
<1>1. Spec => []ShutdownInv
  BY ShutdownInvariant
<1> QED
  BY <1>1, CleanImplied, PTL

=============================================================================
