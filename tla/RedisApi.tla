------------------------------ MODULE RedisApi ------------------------------
(***************************************************************************)
(* The control and introspection surface in front of a Redis server        *)
(* (services/redis-control): HTTP requests, each a task of its own, run    *)
(* commands over connections that are cached per database.  A connection   *)
(* is taken out of the cache for the time of a call, so two requests for   *)
(* one database may hold two connections, and the last one given back is   *)
(* the one kept.                                                           *)
(*                                                                         *)
(* A reply read too late is given up after a timeout while Redis still     *)
(* executes the command: the answer then waits on the connection, and the  *)
(* next command sent there reads it.  A connection therefore carries the   *)
(* replies not read yet.  Redis itself (external) holds, per database, the *)
(* type of every key.                                                      *)
(***************************************************************************)
EXTENDS Integers, Sequences, FiniteSets

CONSTANTS Requests,      \* the HTTP requests
          Calls,         \* what a request may ask, see Asked
          Keys,
          Databases,     \* how many databases Redis has
          Counted,       \* does CONFIG GET databases answer (it may be refused)
          DefaultCount,  \* DEFAULT_DATABASE_COUNT
          InitialDb,     \* the database of the external URL, 0 when managed
          MaxFaults      \* bound on late replies and broken connections

RedisApiAssumption ==
    /\ Databases \in Nat \ {0} /\ DefaultCount \in Nat \ {0}
    /\ InitialDb \in Nat /\ MaxFaults \in Nat /\ Counted \in BOOLEAN

VARIABLES strict,          \* control_auth_mode
          redis,           \* what Redis holds: [db -> [key -> type]]
          clients,         \* the cached connection of each database
          current_db, database_count,
          phase,           \* "starting", "serving" or "failed"
          tasks,           \* the request tasks
          events,          \* the requests that emitted a mutation event
          changed,         \* history: the requests whose command changed Redis
          faults

vars == <<strict, redis, clients, current_db, database_count, phase, tasks,
          events, changed, faults>>

Dbs == 0 .. Databases - 1
Types == {"string", "list"}
None == [none |-> TRUE]
-----------------------------------------------------------------------------
(* Who may ask (browser_guard.rs, verify_http). *)

\* The name of a Host or Origin after its port is taken off, by what the
\* guard tells apart; "bad" is an authority that does not parse.
TrustedHost(host) ==
    host \in {"absent", "address", "bare", "reserved", "listed"}

\* Reads pass on the host alone; anything else must not come from a foreign
\* page.
Allowed(method, from) ==
    /\ TrustedHost(from.host)
    /\ \/ method = "GET"
       \/ from.origin = "absent" /\ ~from.crossSite
       \/ from.origin \in {"own", "localhost"}

\* In strict mode the request must carry the configured password.
VerifyHttp(from) == strict => from.password

\* The two classes of allowlisted commands.
CommandAllowed(name) ==
    CASE name \in {"GET", "TYPE", "TTL", "SCAN", "INFO"} -> "read"
      [] name \in {"SET", "DEL", "EXPIRE"} -> "mutation"
      [] OTHER -> "none"
-----------------------------------------------------------------------------
(* Redis (external): what a command answers and does in a database. *)

Reply(data, cmd) ==
    CASE cmd.name \in {"PING", "FLUSHDB", "SET", "SELECT"} -> <<"text", "OK">>
      [] cmd.name = "INFO" -> <<"text", Cardinality({k \in Keys : data[k] # "none"})>>
      [] cmd.name = "SCAN" -> <<"array", {k \in Keys : data[k] # "none"}>>
      [] cmd.name = "TYPE" -> <<"text", data[cmd.key]>>
      [] cmd.name = "TTL" -> <<"integer", IF data[cmd.key] = "none" THEN -2 ELSE -1>>
      [] cmd.name \in {"DEL", "EXPIRE"} ->
             <<"integer", IF data[cmd.key] = "none" THEN 0 ELSE 1>>
      [] cmd.name = "GET" ->
             IF data[cmd.key] \in {"none", "string"} THEN <<"text", data[cmd.key]>>
                                                     ELSE <<"error", "WRONGTYPE">>
      [] cmd.name = "LRANGE" ->
             IF data[cmd.key] \in {"none", "list"} THEN <<"array", {cmd.key}>>
                                                   ELSE <<"error", "WRONGTYPE">>

Executed(data, cmd) ==
    CASE cmd.name = "FLUSHDB" -> [k \in Keys |-> "none"]
      [] cmd.name = "DEL" -> [data EXCEPT ![cmd.key] = "none"]
      [] cmd.name = "SET" -> [data EXCEPT ![cmd.key] = "string"]
      [] OTHER -> data
-----------------------------------------------------------------------------
(* What an operation sends. *)

Cmd(name, key) == [name |-> name, key |-> key]

\* The commands the operation starts with, on its first connection.
Opening(call) ==
    CASE call.op = "status" -> <<Cmd("INFO", call.key)>>
      [] call.op = "keys" -> <<Cmd("SCAN", call.key)>>
      [] call.op = "key" -> <<Cmd("TYPE", call.key), Cmd("TTL", call.key)>>
      [] call.op = "select-db" -> <<Cmd("PING", call.key)>>
      [] call.op = "delete" -> <<Cmd("DEL", call.key)>>
      [] call.op = "expire" -> <<Cmd("EXPIRE", call.key)>>
      [] call.op = "flush" -> <<Cmd("FLUSHDB", call.key)>>
      [] call.op = "exec" -> <<Cmd(call.command, call.key)>>

\* The read that shows a key's value, by the type the reply named.
ReadKeyDetail(type, key) ==
    CASE type = "string" -> <<Cmd("GET", key)>>
      [] type = "list" -> <<Cmd("LRANGE", key)>>
      [] OTHER -> <<>>

\* The listing reads type and time to live of every key of the page, each
\* key with a connection of its own.
PerKey(names) ==
    {<<Cmd("TYPE", k), Cmd("TTL", k)>> : k \in names}

Mutates(call) ==
    \/ call.op \in {"delete", "expire", "flush"}
    \/ call.op = "exec" /\ CommandAllowed(call.command) = "mutation"
-----------------------------------------------------------------------------
Asked ==
    [op : {"status", "keys", "key", "select-db", "delete", "expire", "flush", "exec"},
     method : {"GET", "POST", "DELETE"}, key : Keys, db : Int,
     command : STRING, wellFormed : BOOLEAN,
     from : [host : STRING, origin : STRING, crossSite : BOOLEAN, password : BOOLEAN]]

Idle == [pc |-> "idle"]

Init ==
    /\ strict \in BOOLEAN
    /\ redis \in [Dbs -> [Keys -> Types]]
    /\ clients = [db \in Dbs |-> None]
    /\ current_db = 0 /\ database_count = DefaultCount
    /\ phase = "starting"
    /\ tasks = [r \in Requests |-> Idle]
    /\ events = {} /\ changed = {} /\ faults = 0

\* A connection fresh from RespConn::connect: AUTH, then SELECT or PING.
Fresh(db) == [db |-> db, open |-> TRUE, pending |-> <<>>, swallowed |-> FALSE]

\* The count after a successful SELECT: the selection proves the database.
CountAfter(count, db) == IF count > db + 1 THEN count ELSE db + 1

\* run: the count is asked for and the connection of database 0 kept; then
\* the configured database is selected, and a failure there ends the service.
StartUp(reached, selected) ==
    /\ phase = "starting"
    /\ faults' = faults + (IF reached THEN 0 ELSE 1) + (IF selected \/ InitialDb \notin Dbs THEN 0 ELSE 1)
    /\ faults' <= MaxFaults
    /\ selected => InitialDb \in Dbs
    /\ LET counted == IF reached /\ Counted THEN Databases ELSE database_count
           warmed == IF reached THEN [clients EXCEPT ![0] = Fresh(0)] ELSE clients
           moved == InitialDb # 0 /\ selected
       IN /\ phase' = IF InitialDb = 0 \/ selected THEN "serving" ELSE "failed"
          /\ clients' = IF moved THEN [warmed EXCEPT ![InitialDb] = Fresh(InitialDb)] ELSE warmed
          /\ current_db' = IF moved THEN InitialDb ELSE current_db
          /\ database_count' = IF moved THEN CountAfter(counted, InitialDb) ELSE counted
    /\ UNCHANGED <<strict, redis, tasks, events, changed>>
-----------------------------------------------------------------------------
(* A request. *)

\* The method each route takes.
Method(op) ==
    CASE op \in {"status", "keys", "key"} -> "GET"
      [] op \in {"select-db", "expire", "exec"} -> "POST"
      [] OTHER -> "DELETE"

Routed(call) == call.method = Method(call.op)

\* Why a request is answered before any command is sent: the guard, the
\* password, the route's method, its parameters (confirm, ttlSeconds, cursor,
\* the body), the allowlist, the range of the database.
Refused(call) ==
    CASE ~Allowed(call.method, call.from) -> 403
      [] ~VerifyHttp(call.from) -> 401
      [] ~Routed(call) -> 405
      [] ~call.wellFormed -> 400
      [] call.op = "exec" /\ CommandAllowed(call.command) = "none" -> 403
      [] call.op = "select-db" /\ (call.db < 0 \/ call.db >= database_count) -> 400
      [] OTHER -> 0

Arrive(r, call) ==
    /\ phase = "serving" /\ tasks[r].pc = "idle"
    /\ tasks' = [tasks EXCEPT ![r] =
          IF Refused(call) # 0
          THEN [pc |-> "answered", call |-> call, status |-> Refused(call), own |-> TRUE,
                conn |-> None, db |-> current_db]
          ELSE [pc |-> "take", call |-> call, status |-> 0, own |-> TRUE, conn |-> None,
                db |-> IF call.op = "select-db" THEN call.db ELSE current_db,
                cmds |-> Opening(call), later |-> {}, sent |-> 0]]
    /\ UNCHANGED <<strict, redis, clients, current_db, database_count, phase,
                   events, changed, faults>>

\* with_conn: the cached connection leaves the cache, or one is opened.
Take(r) ==
    /\ tasks[r].pc = "take"
    /\ LET db == tasks[r].db
           cached == db \in Dbs /\ clients[db] # None
       IN \/ /\ cached
             /\ tasks' = [tasks EXCEPT ![r].pc = "run", ![r].conn = clients[db]]
             /\ clients' = [clients EXCEPT ![db] = None]
             /\ UNCHANGED faults
          \/ /\ ~cached /\ db \in Dbs
             /\ tasks' = [tasks EXCEPT ![r].pc = "run", ![r].conn = Fresh(db)]
             /\ UNCHANGED <<clients, faults>>
          \/ /\ ~cached
             /\ db \in Dbs => faults < MaxFaults
             /\ faults' = IF db \in Dbs THEN faults + 1 ELSE faults
             /\ tasks' = [tasks EXCEPT ![r].pc = "conclude", ![r].status = 502]
             /\ UNCHANGED clients
    /\ UNCHANGED <<strict, redis, current_db, database_count, phase, events, changed>>

\* An error ends the operation, except while the keys of a listing are
\* described: there it stands for an unknown type or time to live.
Swallows(task) == task.call.op = "keys" /\ Head(task.cmds).name # "SCAN"

\* What the task has left to send after a command was answered.
Following(task, reply) ==
    LET rest == Tail(task.cmds)
    IN IF task.call.op = "key" /\ Head(task.cmds).name = "TYPE" /\ reply[1] = "text"
       THEN rest \o ReadKeyDetail(reply[2], task.call.key) ELSE rest

\* One command: it is sent, Redis executes it, and the first reply on the
\* connection is read.  A timeout leaves the reply behind; a broken
\* connection fails before or after the command was executed.
Command(r, outcome, executed) ==
    /\ tasks[r].pc = "run" /\ tasks[r].cmds # <<>>
    /\ LET task == tasks[r]
           conn == task.conn
           cmd == Head(task.cmds)
           data == redis[conn.db]
           own == [of |-> <<r, task.sent>>, value |-> Reply(data, cmd)]
           queue == Append(conn.pending, own)
           error == outcome # "read" \/ Head(queue).value[1] = "error"
           skipped == [task EXCEPT !.cmds = Tail(@), !.sent = @ + 1]
           selected == IF cmd.name = "SELECT" THEN (conn.db + 1) % Databases ELSE conn.db
       IN /\ outcome = "read" => conn.open /\ executed
          /\ outcome = "late" => conn.open /\ executed
          /\ ~conn.open => ~executed
          /\ redis' = IF executed THEN [redis EXCEPT ![conn.db] = Executed(data, cmd)] ELSE redis
          /\ changed' = IF executed /\ Executed(data, cmd) # data THEN changed \cup {r} ELSE changed
          /\ faults' = IF outcome = "read" \/ ~conn.open THEN faults ELSE faults + 1
          /\ faults' <= MaxFaults
          /\ tasks' = [tasks EXCEPT ![r] =
                CASE ~error ->
                       [skipped EXCEPT !.cmds = Following(task, Head(queue).value),
                          !.conn.pending = Tail(queue), !.conn.db = selected,
                          !.later = IF cmd.name = "SCAN" /\ task.call.op = "keys" /\ Head(queue).value[1] = "array"
                                    THEN PerKey(Head(queue).value[2]) ELSE @,
                          !.own = @ /\ Head(queue).of = own.of]
                  [] error /\ Swallows(task) ->
                       [skipped EXCEPT !.conn = [conn EXCEPT !.swallowed = TRUE,
                          !.open = outcome # "broken" /\ @,
                          !.pending = IF outcome = "read" THEN Tail(queue)
                                      ELSE IF outcome = "late" THEN queue ELSE @]]
                  [] OTHER -> [skipped EXCEPT !.pc = "back", !.status = 502,
                          !.conn.pending = IF outcome = "read" THEN Tail(queue)
                                           ELSE IF outcome = "late" THEN queue ELSE @]]
    /\ UNCHANGED <<strict, clients, current_db, database_count, phase, events>>

RecachedAnyway(task) == [clients EXCEPT ![task.db] = task.conn]

\* A connection goes back to the cache only after a success, over whatever
\* another task put there; after an error it is dropped.
Recached(task) ==
    IF task.status = 502 THEN clients ELSE [clients EXCEPT ![task.db] = task.conn]

GiveBack(r) ==
    /\ \/ tasks[r].pc = "back"
       \/ tasks[r].pc = "run" /\ tasks[r].cmds = <<>>
    /\ clients' = Recached(tasks[r])
    /\ \/ /\ tasks[r].status = 0 /\ tasks[r].later # {}
          /\ \E next \in tasks[r].later :
                tasks' = [tasks EXCEPT ![r].pc = "take", ![r].conn = None,
                             ![r].cmds = next, ![r].later = @ \ {next}]
       \/ /\ tasks[r].status # 0 \/ tasks[r].later = {}
          /\ tasks' = [tasks EXCEPT ![r].pc = "conclude", ![r].conn = None]
    /\ UNCHANGED <<strict, redis, current_db, database_count, phase, events, changed, faults>>

\* What a success does at last: the selection is recorded, a mutation is
\* announced.
Announced(r) ==
    IF tasks[r].status = 0 /\ Mutates(tasks[r].call) THEN events \cup {r} ELSE events

Conclude(r) ==
    /\ tasks[r].pc = "conclude"
    /\ LET selects == tasks[r].status = 0 /\ tasks[r].call.op = "select-db"
       IN /\ current_db' = IF selects THEN tasks[r].db ELSE current_db
          /\ database_count' = IF selects THEN CountAfter(database_count, tasks[r].db) ELSE database_count
    /\ events' = Announced(r)
    /\ tasks' = [tasks EXCEPT ![r].pc = "answered",
          ![r].status = IF @ = 0 THEN 200
                        ELSE IF tasks[r].call.op = "select-db" THEN 400 ELSE 502]
    /\ UNCHANGED <<strict, redis, clients, phase, changed, faults>>

Next ==
    \/ \E reached, selected \in BOOLEAN : StartUp(reached, selected)
    \/ \E r \in Requests :
          \/ \E call \in Calls : Arrive(r, call)
          \/ Take(r)
          \/ \E outcome \in {"read", "late", "broken"}, executed \in BOOLEAN :
                Command(r, outcome, executed)
          \/ GiveBack(r)
          \/ Conclude(r)

Spec == Init /\ [][Next]_vars
-----------------------------------------------------------------------------
(* Properties. *)

Concerned == {r \in Requests : tasks[r].pc # "idle"}

\* The selected database exists and lies within the count the status shows,
\* whether or not Redis told the count (select_db).
SelectionExists ==
    phase = "serving" => current_db \in Dbs /\ current_db < database_count

\* A command reaches the database its request read when it was taken up: a
\* connection in use, or in the cache, has its own database selected,
\* whatever other requests select meanwhile and whatever exec ran on it.
OnItsDatabase ==
    /\ \A db \in Dbs : clients[db] # None => clients[db].db = db
    /\ \A r \in Concerned : tasks[r].conn # None => tasks[r].conn.db = tasks[r].db

\* No request reads an answer meant for another one: a cached connection has
\* nothing left to read (with_conn drops a connection after an error), unless
\* a listing swallowed the error that left it behind.
RepliesInStep ==
    /\ \A db \in Dbs : clients[db] # None /\ ~clients[db].swallowed => clients[db].pending = <<>>
    /\ \A r \in Concerned :
          tasks[r].conn # None /\ ~tasks[r].conn.swallowed /\ tasks[r].status = 0 =>
             tasks[r].conn.pending = <<>>

\* What was changed in Redis through this surface is announced: a request
\* that changed something is still under way, or emitted its event, or was
\* answered with an error; and no request that changed nothing it was not
\* allowed to is announced.
ChangesAnnounced ==
    /\ \A r \in changed :
          tasks[r].pc = "answered" => r \in events \/ tasks[r].status = 502
    /\ \A r \in events : tasks[r].status = 200 /\ Mutates(tasks[r].call)

\* A foreign page, a rebound host name or, in strict mode, a caller without
\* the password changes nothing in Redis, although reads are open to any page
\* (browser_guard.rs, verify_http).
StrangersHarmless ==
    \A r \in changed :
       LET from == tasks[r].call.from
       IN /\ from.origin # "foreign" /\ from.host # "public"
          /\ strict => from.password
=============================================================================
