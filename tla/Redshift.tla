------------------------------ MODULE Redshift ------------------------------
(***************************************************************************)
(* The Redshift service with its in-memory engine                          *)
(* (src/services/redshift/src): the Data API, the SQL wire protocol and    *)
(* the cluster control plane over one catalog, one statement history and   *)
(* one state file.                                                         *)
(*                                                                         *)
(* A mutex guards the state but a request takes it many times: to look its *)
(* client token up, to run each statement (twice when the statement reads  *)
(* before it writes), to draw its number and to store its record.  `call'  *)
(* is where each client's request stands; each lock section is a step.     *)
(*                                                                         *)
(* A statement is a record with an operation, a relation and operands; a   *)
(* relation's rows are a sequence of numbers.  Every section that changes  *)
(* the state saves it, and a save may fail.                                *)
(***************************************************************************)
EXTENDS Integers, Sequences, FiniteSets, SequencesExt

CONSTANTS Clients, Relations, SchemaOf, ClusterNames, SnapshotNames, Shapes, Tags, Tokens,
          Workloads, MaxRows, Nothing

Schemas == {SchemaOf[r] : r \in Relations} \cup {"public"}
NamesAssumption ==
    /\ "devcloud" \in ClusterNames /\ SchemaOf \in [Relations -> STRING]
    /\ MaxRows \in Nat /\ Nothing \notin Tokens /\ Nothing \notin Relations

VARIABLES
    db,         \* the catalog: its schemas and, of each relation there is, kind, rows, width
    tx,         \* the catalog as it was at BEGIN, or Nothing
    clusters,   \* cluster identifier -> shape and tags
    snapshots,  \* snapshot identifier -> shape of the cluster it was taken of
    statements, \* the statement history, number -> record
    tokens,     \* client token -> number
    counter,    \* the last number drawn
    sessions,   \* Data API sessions
    files,      \* what COPY reads and UNLOAD writes
    disk,       \* the state file, or Nothing before the first save
    call,       \* each client's request in progress
    wire,       \* each SQL connection's prepared statements, portals and failure
    workload, failures, restarts,
    answered,   \* the answers given: client token, number and outcome
    asked,      \* token of a request -> the numbers already given for it when it began
    lost        \* a save failed since which memory is ahead of the file
catalog == <<db, tx>>
control == <<clusters, snapshots>>
history == <<statements, tokens, counter, sessions>>
bounds == <<workload, restarts>>
ghosts == <<answered, asked>>
vars == <<db, tx, clusters, snapshots, statements, tokens, counter, sessions, files, disk, call, wire,
          workload, failures, restarts, answered, asked, lost>>

Called(op) == op \in workload.ops
Put(f, k, v) == [x \in DOMAIN f \cup {k} |-> IF x = k THEN v ELSE f[x]]
Without(f, ks) == [x \in DOMAIN f \ ks |-> f[x]]
Empty == [x \in {} |-> x]

(***************************************************************************)
(* The catalog.                                                            *)
(***************************************************************************)
NoCatalog == [schemas |-> {"public"}, rels |-> Empty]
Relation(kind, rows, of, width) == [kind |-> kind, rows |-> rows, of |-> of, width |-> width]
Has(d, r) == r \in DOMAIN d.rels
Is(d, r, kind) == Has(d, r) /\ d.rels[r].kind = kind
Writable(d, r) == Is(d, r, "table")
\* A relation is entered under its schema, which is made if need be.
With(d, r, rel) == [schemas |-> d.schemas \cup {SchemaOf[r]}, rels |-> Put(d.rels, r, rel)]
EnsurePublic(d) == [d EXCEPT !.schemas = @ \cup {"public"}]

Failed(d) == [ok |-> FALSE, db |-> d, rows |-> <<>>, saves |-> FALSE]
Done(d) == [ok |-> TRUE, db |-> d, rows |-> <<>>, saves |-> TRUE]
Rows(d, rows) == [ok |-> TRUE, db |-> d, rows |-> rows, saves |-> FALSE]

CreateSchema(d, s) == Done([d EXCEPT !.schemas = @ \cup {s.schema}])
DropSchema(d, s) ==
    Done(EnsurePublic([schemas |-> d.schemas \ {s.schema},
                       rels |-> Without(d.rels, {r \in DOMAIN d.rels : SchemaOf[r] = s.schema})]))
CreateTable(d, s) == Done(With(d, s.rel, Relation("table", <<>>, Nothing, s.width)))
DropTable(d, s) == Done([d EXCEPT !.rels = Without(@, {s.rel})])
DropView(d, s) == Done(IF Is(d, s.rel, "view") THEN [d EXCEPT !.rels = Without(@, {s.rel})] ELSE d)
DropMaterializedView(d, s) ==
    Done(IF Is(d, s.rel, "materialized") THEN [d EXCEPT !.rels = Without(@, {s.rel})] ELSE d)

\* The tuples of an INSERT: a value, a generated identity, or one that does not fit.
Generated == 0
Unfit == -1
NextIdentity(rows) == 1 + Max({0} \cup ToSet(rows))
BuildInsertRow(rows, v) == IF v = Generated THEN NextIdentity(rows) ELSE v
Inserted(rows, values) == FoldLeft(LAMBDA acc, v : Append(acc, BuildInsertRow(acc, v)), rows, values)
\* The rows before an unfit one stay in memory, though the statement fails and nothing is saved.
InsertInto(d, s) ==
    LET unfit == {i \in DOMAIN s.values : s.values[i] = Unfit}
        fitting == IF unfit = {} THEN s.values ELSE SubSeq(s.values, 1, Min(unfit) - 1)
        after == [d EXCEPT !.rels[s.rel].rows = Inserted(@, fitting)]
    IN IF ~Writable(d, s.rel) THEN Failed(d)
       ELSE IF unfit = {} THEN Done(after) ELSE Failed(after)

\* A predicate compares the column with a literal, and holds of every row when there is none.
Matches(s, v) ==
    CASE s.op2 = "any" -> TRUE
      [] s.op2 = "=" -> v = s.literal
      [] s.op2 = "<>" -> v # s.literal
      [] s.op2 = ">" -> v > s.literal
      [] s.op2 = ">=" -> v >= s.literal
      [] s.op2 = "<" -> v < s.literal
      [] s.op2 = "<=" -> v <= s.literal
UpdateTable(d, s) ==
    IF ~Writable(d, s.rel) THEN Failed(d)
    ELSE Done([d EXCEPT !.rels[s.rel].rows =
                   [i \in DOMAIN @ |-> IF Matches(s, @[i]) THEN s.value ELSE @[i]]])
DeleteFrom(d, s) ==
    IF ~Writable(d, s.rel) THEN Failed(d)
    ELSE Done([d EXCEPT !.rels[s.rel].rows = SelectSeq(@, LAMBDA v : ~Matches(s, v))])

\* What a SELECT gives of a relation's rows.
SelectFromResolvedTable(rows, s) ==
    LET found == SelectSeq(rows, LAMBDA v : Matches(s, v))
        sorted == IF s.order THEN SortSeq(found, <) ELSE found
    IN IF s.count THEN <<Len(found)>>
       ELSE IF s.limit < Len(sorted) THEN SubSeq(sorted, 1, s.limit) ELSE sorted

(***************************************************************************)
(* The catalog as its many readers see it.  Each has its own code.         *)
(***************************************************************************)
Listed(d) == UNION {{<<sc, r>> : r \in {x \in DOMAIN d.rels : SchemaOf[x] = sc}} : sc \in d.schemas}
Named(kind, names) == CASE kind = "materialized" -> names[3] [] kind = "view" -> names[2] [] OTHER -> names[1]
InformationSchemaTables(d) ==
    {<<e[1], e[2], Named(d.rels[e[2]].kind, <<"BASE TABLE", "VIEW", "MATERIALIZED VIEW">>)>> : e \in Listed(d)}
PgClass(d) == {<<e[2], Named(d.rels[e[2]].kind, <<"r", "v", "m">>)>> : e \in Listed(d)}
PgTables(d) == {<<e[1], e[2]>> : e \in {row \in InformationSchemaTables(d) : row[3] = "BASE TABLE"}}
PgNamespace(d) == {<<2200, sc>> : sc \in d.schemas}
Schemata(d) == d.schemas
InformationSchemaColumns(d) == UNION {{<<e[1], e[2], i>> : i \in 1..d.rels[e[2]].width} : e \in Listed(d)}
PgAttribute(d) == UNION {{<<e[2], i>> : i \in 1..d.rels[e[2]].width} : e \in Listed(d)}
SvvTableInfo(d) == {<<e[1], e[2], Len(d.rels[e[2]].rows)>> : e \in {x \in Listed(d) : d.rels[x[2]].kind # "view"}}
SvvMvInfo(d) == {e \in Listed(d) : d.rels[e[2]].kind = "materialized"}
PgTableDef(d) ==
    UNION {{<<e[1], e[2], i>> : i \in 1..d.rels[e[2]].width} : e \in {x \in Listed(d) : d.rels[x[2]].kind # "view"}}
StlQuery(h) == {<<n, h[n].ok>> : n \in DOMAIN h}
ListTables(d) == {<<e[1], e[2], Named(d.rels[e[2]].kind, <<"TABLE", "VIEW", "VIEW">>)>> : e \in Listed(d)}
ListSchemas(d) == d.schemas
DescribeTable(d, r) == IF Has(d, r) THEN 1..d.rels[r].width ELSE {}
CatalogSnapshot(d) ==
    [schemas |-> {<<sc, Cardinality({e \in Listed(d) : e[1] = sc})>> : sc \in d.schemas},
     tables |-> {<<e[1], e[2], Named(d.rels[e[2]].kind, <<"TABLE", "VIEW", "MATERIALIZED_VIEW">>),
                   Len(d.rels[e[2]].rows)>> : e \in Listed(d)}]
SelectCatalog(d, h, view) ==
    CASE view = "information_schema.schemata" -> Schemata(d)
      [] view = "information_schema.tables" -> InformationSchemaTables(d)
      [] view = "information_schema.columns" -> InformationSchemaColumns(d)
      [] view = "pg_catalog.pg_namespace" -> PgNamespace(d)
      [] view = "pg_catalog.pg_class" -> PgClass(d)
      [] view = "pg_catalog.pg_attribute" -> PgAttribute(d)
      [] view = "pg_catalog.pg_tables" -> PgTables(d)
      [] view = "pg_table_def" -> PgTableDef(d)
      [] view = "svv_columns" -> InformationSchemaColumns(d)
      [] view = "svv_mv_info" -> SvvMvInfo(d)
      [] view = "svv_table_info" -> SvvTableInfo(d)
      [] view = "stl_query" -> StlQuery(h)
      [] OTHER -> {view}

\* A statement that one lock section runs.
Simple == {"create schema", "drop schema", "create table", "drop table", "drop view",
           "drop materialized", "insert", "update", "delete"}
ExecuteSqlMemory(d, s) ==
    CASE s.op = "create schema" -> CreateSchema(d, s)
      [] s.op = "drop schema" -> DropSchema(d, s)
      [] s.op = "create table" -> CreateTable(d, s)
      [] s.op = "drop table" -> DropTable(d, s)
      [] s.op = "drop view" -> DropView(d, s)
      [] s.op = "drop materialized" -> DropMaterializedView(d, s)
      [] s.op = "insert" -> InsertInto(d, s)
      [] s.op = "update" -> UpdateTable(d, s)
      [] s.op = "delete" -> DeleteFrom(d, s)

\* The second lock section of a statement that has read `got'.
CreateTableAs(d, s, got) == Done(With(d, s.rel, Relation("table", got, Nothing, 1)))
CreateView(d, s, got) ==
    IF Has(d, s.rel) /\ (~Is(d, s.rel, "view") \/ ~s.replace) THEN Failed(d)
    ELSE Done(With(d, s.rel, Relation("view", <<>>, s.from, 1)))
CreateMaterializedView(d, s, got) ==
    IF Has(d, s.rel) /\ ~Is(d, s.rel, "materialized") THEN Failed(d)
    ELSE Done(With(d, s.rel, Relation("materialized", got, s.from, 1)))
\* The target is looked up again; only the number of its columns is compared.
CopyRecords(d, s, got) ==
    IF ~Writable(d, s.rel) \/ got.width # d.rels[s.rel].width THEN Failed(d)
    ELSE Done([d EXCEPT !.rels[s.rel].rows = @ \o got.rows])

(***************************************************************************)
(* The state file, and saving to it.                                       *)
(***************************************************************************)
\* What a file with nothing in it stands for, and what start-up makes of a file.
DefaultClusters == [n \in {"devcloud"} |-> [shape |-> CHOOSE x \in Shapes : TRUE, tags |-> {}]]
LoadState(f) ==
    IF f = Nothing
    THEN [db |-> NoCatalog, clusters |-> DefaultClusters, snapshots |-> Empty, statements |-> Empty,
          tokens |-> Empty, counter |-> 0]
    ELSE [f EXCEPT !.db = EnsurePublic(@),
                   !.clusters = IF DOMAIN @ = {} THEN DefaultClusters ELSE @]

\* The save of the state as this step leaves it; a failed one leaves the file alone.
PersistOk ==
    /\ disk' = [db |-> db', clusters |-> clusters', snapshots |-> snapshots', statements |-> statements',
                tokens |-> tokens', counter |-> counter']
    /\ lost' = FALSE /\ UNCHANGED failures
PersistFails ==
    failures < workload.failures /\ failures' = failures + 1 /\ UNCHANGED disk
NoPersist == UNCHANGED <<disk, failures, lost>>

(***************************************************************************)
(* Requests that run SQL.                                                  *)
(***************************************************************************)
NoCall == [pc |-> "idle"]
\* A request: how it came, the statements left, and what it carries along.
Request(how, sqls, token) ==
    [pc |-> "run", how |-> how, sqls |-> sqls, token |-> token, prev |-> Nothing, got |-> <<>>,
     ok |-> TRUE, rows |-> <<>>, number |-> 0, portal |-> Nothing, max |-> 0, reading |-> Nothing]
Goes(c, r) == call' = [call EXCEPT ![c] = r]

GivenFor(token) == {a.number : a \in {b \in answered : b.token = token}}
Unseen(token) == FALSE
\* A token seen before is answered with the statement it ran.
Seen(token) == token \in DOMAIN tokens /\ tokens[token] \in DOMAIN statements
AnswerFor(c, token, number, ok) ==
    answered' = answered \cup {[token |-> token, number |-> number, ok |-> ok]}

SessionIdForRequest(keepAlive) ==
    sessions' = IF keepAlive THEN sessions \cup {Cardinality(sessions) + 1} ELSE sessions

IdempotentResponse(c, token) ==
    /\ Called("ExecuteStatement") \/ Called("BatchExecuteStatement")
    /\ call[c] = NoCall /\ token # Nothing /\ Seen(token)
    /\ AnswerFor(c, token, tokens[token], statements[tokens[token]].ok)
    /\ asked' = Put(asked, <<c, token>>, [given |-> GivenFor(token), got |-> tokens[token]])
    /\ UNCHANGED <<catalog, control, history, files, disk, call, wire, bounds, failures, lost>>

ExecuteStatement(c, sql, token, keepAlive) ==
    /\ Called("ExecuteStatement") /\ call[c] = NoCall /\ ~(token # Nothing /\ Seen(token))
    /\ Goes(c, Request("execute", <<sql>>, token))
    /\ SessionIdForRequest(keepAlive)
    /\ asked' = IF token = Nothing THEN asked
                ELSE Put(asked, <<c, token>>, [given |-> GivenFor(token), got |-> 0])
    /\ UNCHANGED <<catalog, control, statements, tokens, counter, files, wire, bounds, answered>>
    /\ NoPersist

\* A batch keeps the catalog as it is before its first statement.
BatchExecuteStatement(c, sqls, token, keepAlive) ==
    /\ Called("BatchExecuteStatement") /\ call[c] = NoCall /\ ~(token # Nothing /\ Seen(token))
    /\ sqls # <<>>
    /\ Goes(c, [Request("batch", sqls, token) EXCEPT !.prev = db])
    /\ SessionIdForRequest(keepAlive)
    /\ asked' = IF token = Nothing THEN asked
                ELSE Put(asked, <<c, token>>, [given |-> GivenFor(token), got |-> 0])
    /\ UNCHANGED <<catalog, control, statements, tokens, counter, files, wire, bounds, answered>>
    /\ NoPersist

\* A simple query, or the dashboard's, is a list of statements that stops at the first to fail.
HandleSimpleQuery(c, sqls) ==
    /\ Called("Query") /\ call[c] = NoCall /\ sqls # <<>>
    /\ Goes(c, Request("query", sqls, Nothing))
    /\ UNCHANGED <<catalog, control, history, files, wire, bounds, ghosts>> /\ NoPersist

\* After a statement: a failed batch is undone, an answer is numbered, a batch goes on.
AfterStatement(r, ok, rows) ==
    LET done == [r EXCEPT !.ok = ok, !.rows = IF ok THEN rows ELSE <<>>, !.reading = Nothing,
                          !.sqls = Tail(@)]
    IN IF r.how # "batch" THEN [done EXCEPT !.pc = "number"]
       ELSE IF ~ok THEN [done EXCEPT !.pc = "undo"]
       ELSE IF Tail(r.sqls) # <<>> THEN [done EXCEPT !.pc = "run"] ELSE [done EXCEPT !.pc = "number"]

Sql(c) == Head(call[c].sqls)
RunVars == <<control, history, wire, bounds, ghosts>>

\* A statement that changes the catalog under one lock: a failed save fails it, but stays.
RunSimple(c) ==
    /\ call[c].pc = "run" /\ Sql(c).op \in Simple
    /\ UNCHANGED <<tx, files, RunVars>>
    /\ LET out == ExecuteSqlMemory(db, Sql(c))
       IN /\ \A r \in DOMAIN out.db.rels : Len(out.db.rels[r].rows) <= MaxRows
          /\ db' = out.db
          /\ IF ~out.saves
             THEN /\ Goes(c, AfterStatement(call[c], out.ok, out.rows))
                  /\ lost' = (lost \/ out.db # db) /\ UNCHANGED <<disk, failures>>
             ELSE \/ PersistOk /\ Goes(c, AfterStatement(call[c], TRUE, out.rows))
                  \/ PersistFails /\ lost' = TRUE /\ Goes(c, AfterStatement(call[c], FALSE, <<>>))

\* Settings, literals, catalog queries and statements the engine does not know touch nothing.
RunStateless(c) ==
    /\ call[c].pc = "run" /\ Sql(c).op \in {"set", "show", "literal", "catalog", "unsupported"}
    /\ Goes(c, AfterStatement(call[c], Sql(c).op # "unsupported",
                              CASE Sql(c).op = "literal" -> <<1>>
                                [] Sql(c).op = "catalog" ->
                                       [i \in 1..Cardinality(SelectCatalog(db, statements, Sql(c).view)) |-> i]
                                [] OTHER -> <<>>))
    /\ UNCHANGED <<catalog, files, RunVars>> /\ NoPersist

BeginTransaction(c) ==
    /\ call[c].pc = "run" /\ Sql(c).op = "begin"
    /\ tx' = IF tx = Nothing THEN db ELSE tx
    /\ Goes(c, AfterStatement(call[c], TRUE, <<>>))
    /\ UNCHANGED <<db, files, RunVars>> /\ NoPersist
CommitTransaction(c) ==
    /\ call[c].pc = "run" /\ Sql(c).op = "commit"
    /\ tx' = Nothing
    /\ Goes(c, AfterStatement(call[c], TRUE, <<>>))
    /\ UNCHANGED <<db, files, RunVars>> /\ NoPersist
RollbackTransaction(c) ==
    /\ call[c].pc = "run" /\ Sql(c).op = "rollback"
    /\ UNCHANGED <<files, RunVars>>
    /\ tx' = Nothing
    /\ IF tx = Nothing
       THEN UNCHANGED db /\ NoPersist /\ Goes(c, AfterStatement(call[c], TRUE, <<>>))
       ELSE /\ db' = tx
            /\ \/ PersistOk /\ Goes(c, AfterStatement(call[c], TRUE, <<>>))
               \/ PersistFails /\ lost' = TRUE /\ Goes(c, AfterStatement(call[c], FALSE, <<>>))

\* A SELECT, alone or inside another statement, looks its relation up; a view's own
\* SELECT is run in its place, after the lock was given up.
Reads == {"select", "create as", "create view", "create materialized", "unload"}
Source(c) == IF call[c].reading # Nothing THEN call[c].reading
             ELSE IF Sql(c).op = "select" THEN Sql(c).rel ELSE Sql(c).from
Resolve(c) ==
    /\ call[c].pc = "run" /\ Sql(c).op \in Reads
    /\ LET r == Source(c) IN
       Goes(c, IF ~Has(db, r) THEN AfterStatement(call[c], FALSE, <<>>)
               ELSE IF Is(db, r, "view") THEN [call[c] EXCEPT !.reading = db.rels[r].of]
               ELSE LET rows == SelectFromResolvedTable(db.rels[r].rows, Sql(c))
                    IN IF Sql(c).op = "select" THEN AfterStatement(call[c], TRUE, rows)
                       ELSE [call[c] EXCEPT !.pc = "write", !.got = rows])
    /\ UNCHANGED <<catalog, files, RunVars>> /\ NoPersist

\* COPY checks its target and then reads its source without the lock.
CopyFromLocalCsv(c) ==
    /\ call[c].pc = "run" /\ Sql(c).op = "copy"
    /\ LET r == Sql(c).rel
           file == Sql(c).file
       IN Goes(c, IF ~Writable(db, r) \/ file \notin DOMAIN files
                  THEN AfterStatement(call[c], FALSE, <<>>)
                  ELSE [call[c] EXCEPT !.pc = "write",
                            !.got = [rows |-> files[file],
                                     width |-> IF Sql(c).json THEN db.rels[r].width ELSE 1]])
    /\ UNCHANGED <<catalog, files, RunVars>> /\ NoPersist

UnloadToLocalCsv(c) ==
    /\ call[c].pc = "write" /\ Sql(c).op = "unload"
    /\ files' = Put(files, Sql(c).file, call[c].got)
    /\ Goes(c, AfterStatement(call[c], TRUE, <<>>))
    /\ UNCHANGED <<catalog, RunVars>> /\ NoPersist

Written(d, s, got) ==
    CASE s.op = "create as" -> CreateTableAs(d, s, got)
      [] s.op = "create view" -> CreateView(d, s, got)
      [] s.op = "create materialized" -> CreateMaterializedView(d, s, got)
      [] s.op = "copy" -> CopyRecords(d, s, got)
RunSecond(c) ==
    /\ call[c].pc = "write" /\ Sql(c).op # "unload"
    /\ UNCHANGED <<tx, files, RunVars>>
    /\ LET out == Written(db, Sql(c), call[c].got)
       IN /\ \A r \in DOMAIN out.db.rels : Len(out.db.rels[r].rows) <= MaxRows
          /\ db' = out.db
          /\ IF ~out.saves THEN NoPersist /\ Goes(c, AfterStatement(call[c], FALSE, <<>>))
             ELSE \/ PersistOk /\ Goes(c, AfterStatement(call[c], TRUE, <<>>))
                  \/ PersistFails /\ lost' = TRUE /\ Goes(c, AfterStatement(call[c], FALSE, <<>>))

\* A failed batch puts the catalog back as it was before the batch.
ExecuteSqlBatch(c) ==
    /\ call[c].pc = "undo"
    /\ UNCHANGED <<tx, files, RunVars>>
    /\ db' = EnsurePublic(call[c].prev)
    /\ Goes(c, [call[c] EXCEPT !.pc = "number"])
    /\ \/ PersistOk
       \/ PersistFails /\ lost' = TRUE

\* The number is drawn in a lock section of its own.
Drawn(n) == n + 1
NextStatementIdValue(c) ==
    /\ call[c].pc = "number" /\ counter < workload.statements
    /\ counter' = Drawn(counter)
    /\ Goes(c, [call[c] EXCEPT !.pc = "store", !.number = counter'])
    /\ UNCHANGED <<catalog, control, statements, tokens, sessions, files, wire, bounds, ghosts>>
    /\ NoPersist

\* The Data API's record, with its token; a save that fails is only logged.
Record(r) == [how |-> r.how, ok |-> r.ok, rows |-> r.rows]
StoreStatement(c) ==
    /\ call[c].pc = "store" /\ call[c].how \in {"execute", "batch"}
    /\ statements' = Put(statements, call[c].number, Record(call[c]))
    /\ tokens' = IF call[c].token = Nothing THEN tokens ELSE Put(tokens, call[c].token, call[c].number)
    /\ AnswerFor(c, call[c].token, call[c].number, call[c].ok)
    /\ asked' = Without(asked, {<<c, call[c].token>>})
    /\ Goes(c, NoCall)
    /\ UNCHANGED <<catalog, control, counter, sessions, files, wire, bounds>>
    /\ \/ PersistOk
       \/ PersistFails /\ lost' = TRUE

\* The rows a portal's Execute sends: from where the last one stopped, at most `max'.
Limit(left, max) == IF max > 0 /\ max < left THEN max ELSE left
Sent(p, max) ==
    LET n == Limit(Len(p.rows) - p.next, max)
    IN [p EXCEPT !.next = @ + n, !.sent = @ \o SubSeq(p.rows, p.next + 1, p.next + n)]

\* The SQL connection's record; then the next statement, or the portal's rows.
RecordSqlHistory(c) ==
    /\ call[c].pc = "store" /\ call[c].how \in {"query", "portal"}
    /\ LET r == call[c]
           p == r.portal
       IN /\ statements' = Put(statements, r.number, Record(r))
          /\ Goes(c, IF r.how = "query" /\ r.ok /\ r.sqls # <<>> THEN [r EXCEPT !.pc = "run"] ELSE NoCall)
          /\ wire' = IF r.how = "query" THEN wire
                     ELSE IF ~r.ok THEN [wire EXCEPT ![c].failed = TRUE]
                     ELSE [wire EXCEPT ![c].portals[p] =
                               Sent([@ EXCEPT !.executed = TRUE, !.rows = r.rows, !.runs = @ + 1], r.max)]
    /\ UNCHANGED <<catalog, control, tokens, counter, sessions, files, bounds, ghosts>>
    /\ \/ PersistOk
       \/ PersistFails /\ lost' = TRUE

(***************************************************************************)
(* The extended query protocol.  A connection that failed skips messages   *)
(* until Sync.                                                             *)
(***************************************************************************)
NewWire == [prepared |-> Empty, portals |-> Empty, failed |-> FALSE]
NewPortal(name, sql) ==
    [of |-> name, sql |-> sql, executed |-> FALSE, rows |-> <<>>, next |-> 0, sent |-> <<>>, runs |-> 0]
Listening(c, op) == Called(op) /\ call[c] = NoCall
WireOnly == UNCHANGED <<catalog, control, history, files, call, bounds, ghosts>> /\ NoPersist

HandleParse(c, name, sql) ==
    /\ Listening(c, "Parse") /\ ~wire[c].failed
    /\ wire' = [wire EXCEPT ![c].prepared = Put(@, name, sql)] /\ WireOnly
HandleBind(c, portal, name) ==
    /\ Listening(c, "Bind") /\ ~wire[c].failed
    /\ wire' = IF name \notin DOMAIN wire[c].prepared THEN [wire EXCEPT ![c].failed = TRUE]
               ELSE [wire EXCEPT ![c].portals = Put(@, portal, NewPortal(name, wire[c].prepared[name]))]
    /\ WireOnly
\* Only the first Execute of a portal runs its statement.
HandleExecute(c, portal, max) ==
    /\ Listening(c, "Execute") /\ ~wire[c].failed
    /\ IF portal \notin DOMAIN wire[c].portals
       THEN wire' = [wire EXCEPT ![c].failed = TRUE] /\ UNCHANGED call
       ELSE IF wire[c].portals[portal].executed
       THEN wire' = [wire EXCEPT ![c].portals[portal] = Sent(@, max)] /\ UNCHANGED call
       ELSE /\ Goes(c, [Request("portal", <<wire[c].portals[portal].sql>>, Nothing)
                            EXCEPT !.portal = portal, !.max = max])
            /\ UNCHANGED wire
    /\ UNCHANGED <<catalog, control, history, files, bounds, ghosts>> /\ NoPersist
HandleClose(c, what, name) ==
    /\ Listening(c, "Close") /\ ~wire[c].failed
    /\ wire' = IF what = "statement" THEN [wire EXCEPT ![c].prepared = Without(@, {name})]
               ELSE [wire EXCEPT ![c].portals = Without(@, {name})]
    /\ WireOnly
HandleSync(c) ==
    /\ Listening(c, "Sync") /\ wire[c].failed
    /\ wire' = [wire EXCEPT ![c].failed = FALSE] /\ WireOnly
Disconnect(c) ==
    /\ Listening(c, "Disconnect") /\ wire[c] # NewWire
    /\ wire' = [wire EXCEPT ![c] = NewWire] /\ WireOnly

(***************************************************************************)
(* The control plane: what cannot be saved is taken back.                  *)
(***************************************************************************)
ControlOnly == UNCHANGED <<catalog, history, files, call, wire, bounds, ghosts>>
KeptAnyway(newClusters, newSnapshots) ==
    /\ clusters' = newClusters /\ snapshots' = newSnapshots
    /\ PersistOk \/ (PersistFails /\ UNCHANGED lost)
Saved(newClusters, newSnapshots) ==
    \/ clusters' = newClusters /\ snapshots' = newSnapshots /\ PersistOk
    \/ PersistFails /\ UNCHANGED <<control, lost>>
CreateCluster(n, shape, tags) ==
    /\ Called("CreateCluster") /\ n \notin DOMAIN clusters
    /\ ControlOnly /\ Saved(Put(clusters, n, [shape |-> shape, tags |-> tags]), snapshots)
DeleteCluster(n) ==
    /\ Called("DeleteCluster") /\ n \in DOMAIN clusters
    /\ ControlOnly /\ Saved(Without(clusters, {n}), snapshots)
CreateClusterSnapshot(i, n) ==
    /\ Called("CreateClusterSnapshot") /\ n \in DOMAIN clusters /\ i \notin DOMAIN snapshots
    /\ ControlOnly /\ Saved(clusters, Put(snapshots, i, clusters[n].shape))
DeleteClusterSnapshot(i) ==
    /\ Called("DeleteClusterSnapshot") /\ i \in DOMAIN snapshots
    /\ ControlOnly /\ Saved(clusters, Without(snapshots, {i}))
RestoreFromClusterSnapshot(i, n) ==
    /\ Called("RestoreFromClusterSnapshot") /\ i \in DOMAIN snapshots /\ n \notin DOMAIN clusters
    /\ ControlOnly /\ Saved(Put(clusters, n, [shape |-> snapshots[i], tags |-> {}]), snapshots)
CreateTags(n, tags) ==
    /\ Called("CreateTags") /\ n \in DOMAIN clusters /\ tags # {}
    /\ ControlOnly /\ Saved([clusters EXCEPT ![n].tags = @ \cup tags], snapshots)
DeleteTags(n, tags) ==
    /\ Called("DeleteTags") /\ n \in DOMAIN clusters /\ tags # {}
    /\ ControlOnly /\ Saved([clusters EXCEPT ![n].tags = @ \ tags], snapshots)

(***************************************************************************)
(* The process stops, at any point, and starts again from the file.        *)
(***************************************************************************)
Restart ==
    /\ restarts < workload.restarts /\ restarts' = restarts + 1
    /\ LET f == LoadState(disk) IN
       /\ db' = f.db /\ clusters' = f.clusters /\ snapshots' = f.snapshots
       /\ statements' = f.statements /\ tokens' = f.tokens /\ counter' = f.counter
    /\ tx' = Nothing /\ sessions' = {}
    /\ call' = [c \in Clients |-> NoCall] /\ wire' = [c \in Clients |-> NewWire]
    \* A lost save takes the numbers it gave with it.
    /\ answered' = IF lost THEN {a \in answered : a.number \in DOMAIN statements'} ELSE answered
    /\ asked' = Empty
    /\ lost' = FALSE
    /\ UNCHANGED <<files, disk, workload, failures>>

Init ==
    /\ workload \in Workloads
    /\ db = workload.db /\ tx = Nothing /\ clusters = DefaultClusters /\ snapshots = Empty
    /\ statements = Empty /\ tokens = Empty /\ counter = 0 /\ sessions = {}
    /\ files = workload.files
    /\ disk = [db |-> db, clusters |-> clusters, snapshots |-> snapshots, statements |-> statements,
               tokens |-> tokens, counter |-> counter]
    /\ call = [c \in Clients |-> NoCall] /\ wire = [c \in Clients |-> NewWire]
    /\ failures = 0 /\ restarts = 0 /\ answered = {} /\ asked = Empty /\ lost = FALSE

Step(c) ==
    \/ RunSimple(c) \/ RunStateless(c) \/ BeginTransaction(c) \/ CommitTransaction(c)
    \/ RollbackTransaction(c) \/ Resolve(c) \/ CopyFromLocalCsv(c) \/ UnloadToLocalCsv(c) \/ RunSecond(c)
    \/ ExecuteSqlBatch(c) \/ NextStatementIdValue(c) \/ StoreStatement(c) \/ RecordSqlHistory(c)
SqlRequest(c) ==
    \/ \E t \in workload.tokens : IdempotentResponse(c, t)
    \/ \E q \in workload.calls, t \in workload.tokens, k \in workload.keepAlive :
          \/ ExecuteStatement(c, Head(q), t, k)
          \/ BatchExecuteStatement(c, q, t, k)
    \/ \E q \in workload.calls : HandleSimpleQuery(c, q)
WireMessage(c) ==
    \/ \E q \in workload.calls, n \in {"s"} : HandleParse(c, n, Head(q))
    \/ \E p \in {"p", "q"} :
          HandleBind(c, p, "s") \/ HandleClose(c, "portal", p) \/ \E m \in 0..2 : HandleExecute(c, p, m)
    \/ HandleClose(c, "statement", "s") \/ HandleSync(c) \/ Disconnect(c)
ControlRequest ==
    \/ \E n \in ClusterNames, i \in SnapshotNames :
          \/ DeleteCluster(n) \/ CreateClusterSnapshot(i, n) \/ DeleteClusterSnapshot(i)
          \/ RestoreFromClusterSnapshot(i, n)
          \/ \E t \in SUBSET Tags : CreateTags(n, t) \/ DeleteTags(n, t)
          \/ \E s \in Shapes, t \in SUBSET Tags : CreateCluster(n, s, t)
Next ==
    \/ \E c \in workload.clients : Step(c) \/ SqlRequest(c) \/ WireMessage(c)
    \/ ControlRequest
    \/ Restart
Spec == Init /\ [][Next]_vars

-----------------------------------------------------------------------------
(***************************************************************************)
(* Properties.                                                             *)
(***************************************************************************)
RelationOK(rel) ==
    /\ rel.kind \in {"table", "view", "materialized"}
    /\ Len(rel.rows) <= MaxRows /\ \A i \in DOMAIN rel.rows : rel.rows[i] > 0
    /\ (rel.kind = "view" => rel.rows = <<>> /\ rel.of \in Relations)
CatalogOK(d) ==
    /\ "public" \in d.schemas /\ d.schemas \subseteq Schemas
    /\ \A r \in DOMAIN d.rels : SchemaOf[r] \in d.schemas /\ RelationOK(d.rels[r])
\* The catalog is well formed, live and as BEGIN and a running batch keep it: every
\* relation is in a schema that exists, rows are stored values only, a view has none
\* (engine.rs and model.rs keep no such check).
TypeOK ==
    /\ CatalogOK(db) /\ (tx # Nothing => CatalogOK(tx))
    /\ \A c \in Clients : call[c] # NoCall => (call[c].prev # Nothing => CatalogOK(call[c].prev))
    /\ \A t \in DOMAIN tokens : tokens[t] \in DOMAIN statements
    /\ \A n \in DOMAIN statements : n <= counter

\* Unless a save has failed, a restart would find the catalog, the history and the
\* tokens as they are (persist_locked in every mutating section); and it would find the
\* clusters and snapshots as they are even then, for what a control-plane call cannot
\* save it takes back.  The last cluster's deletion is the exception: start-up seeds the
\* default cluster when the file has none (server.rs, Server::new).
SavedState ==
    LET f == LoadState(disk) IN
    /\ ~lost => f.db = db /\ f.statements = statements /\ f.tokens = tokens
    /\ f.snapshots = snapshots
    /\ DOMAIN clusters # {} => f.clusters = clusters

\* A statement number given to a client is that statement's for good: restarts and the
\* other clients' numbers, drawn in a lock section of their own, never reuse it.
AnswersStand ==
    \A a \in answered : a.number \in DOMAIN statements /\ statements[a.number].ok = a.ok

\* A request that repeats a client token after an answer to it was given runs nothing
\* and gets one of the numbers given for the token, also across a restart
\* (idempotent_response, store_statement).
RetryAnswered == \A k \in DOMAIN asked : asked[k].given # {} => asked[k].got \in asked[k].given

\* A failed batch, run while no other client writes, leaves the catalog as it found it,
\* whichever statement failed and however (execute_sql_batch).
FailedBatchLeavesNothing ==
    \A c \in Clients :
        /\ workload.clients = {c} /\ call[c] # NoCall
        /\ call[c].how = "batch" /\ call[c].pc \in {"number", "store"} /\ ~call[c].ok
        => db = call[c].prev

\* The readers of the catalog agree, at any moment, on what relations there are, of which
\* kind and with how many rows and columns: the information schema, pg_catalog, the SVV
\* views, the Data API and the dashboard each walk the catalog on their own (catalog.rs,
\* http_api.rs, snapshot.rs).
CatalogsAgree ==
    LET names == {row[2] : row \in InformationSchemaTables(db)} IN
    /\ names = {row[1] : row \in PgClass(db)} /\ names = {row[2] : row \in ListTables(db)}
    /\ names = {row[2] : row \in CatalogSnapshot(db).tables} /\ names = DOMAIN db.rels
    /\ {row[2] : row \in PgTables(db)} = {row[1] : row \in {x \in PgClass(db) : x[2] = "r"}}
    /\ {row[2] : row \in SvvMvInfo(db)} \subseteq {row[2] : row \in SvvTableInfo(db)}
    /\ PgTableDef(db) \subseteq InformationSchemaColumns(db)
    /\ PgAttribute(db) = {<<row[2], row[3]>> : row \in InformationSchemaColumns(db)}
    /\ \A r \in names : DescribeTable(db, r) = {row[2] : row \in {x \in PgAttribute(db) : x[1] = r}}
    /\ {row[1] : row \in CatalogSnapshot(db).schemas} = ListSchemas(db)
    /\ Schemata(db) = {row[2] : row \in PgNamespace(db)}

\* A portal's statement runs at most once, and its Executes send the rows of that run
\* one after the other, none twice and none left out, whatever limits they carry and
\* whatever happens to the table meanwhile (handle_execute).
PortalRows ==
    \A c \in Clients : \A p \in DOMAIN wire[c].portals :
        LET portal == wire[c].portals[p]
        IN portal.runs <= 1 /\ portal.sent = SubSeq(portal.rows, 1, portal.next)

\* What was answered stands: the file has what memory has, numbers and client tokens keep
\* their answers, and a portal its rows.
AnswersKept == SavedState /\ AnswersStand /\ RetryAnswered /\ PortalRows

\* The catalog is whole whatever statements failed, and all its readers agree on it.
CatalogWhole == TypeOK /\ FailedBatchLeavesNothing /\ CatalogsAgree
=============================================================================
