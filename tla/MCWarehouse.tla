----------------------------- MODULE MCWarehouse -----------------------------
(***************************************************************************)
(* BigQuery and Redshift for TLC.  They share nothing, so a behaviour is   *)
(* one of one of them and the other's variables stay as they are.          *)
(***************************************************************************)
EXTENDS BigQuery

CONSTANTS Clients, Relations, SchemaOf, ClusterNames, SnapshotNames, Shapes, Tags, Tokens,
          RedshiftWorkloads, RedshiftMaxRows, Nothing

VARIABLES component,
          db, tx, clusters, snapshots, statements, tokens, counter, sessions, files, disk,
          call, wire, redshiftWorkload, failures, restarts, answered, asked, lost

R == INSTANCE Redshift
       WITH Workloads <- RedshiftWorkloads, MaxRows <- RedshiftMaxRows, workload <- redshiftWorkload

ASSUME RedshiftNames == R!NamesAssumption

redshiftVars ==
    <<db, tx, clusters, snapshots, statements, tokens, counter, sessions, files, disk,
      call, wire, redshiftWorkload, failures, restarts, answered, asked, lost>>
-----------------------------------------------------------------------------
(* BigQuery. *)

MCDatasetOf == [x \in Tables \cup Routines |-> "d1"]

IntField(n) == [name |-> n, type |-> "INTEGER", mode |-> "NULLABLE"]
StrField(n) == [name |-> n, type |-> "STRING", mode |-> "REQUIRED"]
S1 == <<IntField("a")>>
S2 == <<IntField("a"), StrField("b")>>

Num(n) == <<"num", n>>
Row(id, json) == [id |-> id, json |-> json]
A(n) == [a |-> Num(n)]

Select == [from |-> "t1", fields |-> <<"*">>, where |-> {}, agg |-> None, group |-> "", order |-> "",
           desc |-> FALSE, limit |-> -1, offset |-> 0]
Agg(fn, field) == [fn |-> fn, field |-> field, alias |-> "f0_"]

Base == [ops |-> {}, requests |-> 3, faults |-> 1, tables |-> {"t1"}, targets |-> {"t1"}, schema |-> S1, schemas |-> {S1}, views |-> {},
         batches |-> {}, dispositions |-> {}, queries |-> {}, sources |-> {}, loads |-> {}]
Append0 == [create |-> "CREATE_IF_NEEDED", write |-> "WRITE_APPEND"]
Empty == [create |-> "CREATE_IF_NEEDED", write |-> "WRITE_EMPTY"]
Truncating == [create |-> "CREATE_NEVER", write |-> "WRITE_TRUNCATE"]

\* insertAll from several clients, with ids, retries, misfits and a full table, and a reader.
Streaming ==
    [Base EXCEPT !.ops = {"InsertAll", "ListRows"},
                 !.batches = {<<Row("i1", A(1)), Row("i2", A(2))>>, <<Row("i1", A(1)), Row("", [a |-> <<"text", 1>>])>>,
                              <<Row("i3", A(3)), Row("i3", A(3))>>}]
\* Loads and their dispositions, one with a row that does not fit.
Loading ==
    [Base EXCEPT !.ops = {"InsertAll", "LoadJob"}, !.faults = 0,
                 !.batches = {<<Row("i1", A(1))>>}, !.dispositions = {Empty, Truncating},
                 !.loads = {<<A(1), A(2)>>, <<A(1), [c |-> Num(1)]>>}]
LoadingNew ==
    [Base EXCEPT !.ops = {"LoadJob", "DeleteJob"}, !.targets = {"t2"}, !.schemas = {S1, <<>>}, !.faults = 0, !.requests = 2,
                 !.dispositions = {Append0, Truncating}, !.loads = {<<A(1)>>, <<[c |-> Num(1)]>>}]
Copying ==
    [Base EXCEPT !.ops = {"InsertAll", "CopyJob", "ExtractJob", "PatchTable"}, !.tables = {"t1", "t2"},
                 !.targets = {"t1", "t2"},
                 !.requests = 2, !.schemas = {S2}, !.batches = {<<Row("i1", A(1))>>}, !.dispositions = {Append0, Truncating},
                 !.sources = {<<"t1">>, <<"t1", "t2">>}]
\* Queries, their results and pages, through views that may select from themselves.
Querying ==
    [Base EXCEPT !.ops = {"InsertAll", "QueryJob", "GetQueryResults", "CreateTable"}, !.targets = {"t1"},
                 !.batches = {<<Row("", A(2)), Row("", A(1)), Row("", A(2))>>},
                 !.views = {[Select EXCEPT !.from = "t2"], [Select EXCEPT !.from = "t1", !.order = "a"]},
                 !.dispositions = {Empty},
                 !.queries = {[Select EXCEPT !.from = "t2"],
                              [Select EXCEPT !.agg = Agg("SUM", "a"), !.fields = <<>>]}]
Evaluating ==
    [Base EXCEPT !.ops = {"InsertAll", "PatchTable"}, !.schemas = {S2, <<[IntField("a") EXCEPT !.type = "STRING"]>>},
                 !.batches = {<<Row("", A(2)), Row("", A(1))>>, <<Row("", [n \in {} |-> Null])>>,
                              <<Row("", A(2)), Row("", [b |-> <<"text", 1>>])>>},
                 !.queries = {Select,
                              [Select EXCEPT !.fields = <<"a">>, !.where = {{[field |-> "a", op |-> ">", value |-> Num(1), negated |-> FALSE]}}],
                              [Select EXCEPT !.fields = <<"b">>, !.where = {{[field |-> "a", op |-> "=", value |-> Num(1), negated |-> TRUE]}}],
                              [Select EXCEPT !.order = "a", !.desc = TRUE, !.limit = 1, !.offset = 1]}
                     \cup {[Select EXCEPT !.agg = Agg(fn, f), !.fields = <<>>] :
                               fn \in {"COUNT", "SUM", "AVG", "MIN", "MAX"}, f \in {"a", "b", "*"}}
                     \cup {[Select EXCEPT !.agg = Agg(fn, f), !.fields = <<"a">>, !.group = "a"] :
                               fn \in {"COUNT", "MAX"}, f \in {"a", "*"}}
                     \cup {[Select EXCEPT !.agg = Agg("COUNT", "*"), !.fields = <<"a">>, !.group = "a", !.order = "b"]}]
\* Resources created, patched and deleted under requests that use them.
Resources ==
    [Base EXCEPT !.ops = {"CreateDataset", "PatchDataset", "DeleteDataset", "CreateTable", "DeleteTable",
                          "InsertAll", "Routines", "SetIamPolicy"},
                 !.batches = {<<Row("i1", A(1))>>}]

MCWorkloads == {Streaming, Loading, LoadingNew, Copying, Querying, Evaluating, Resources}
-----------------------------------------------------------------------------
(* Redshift. *)

Stmt(op, rel) ==
    [op |-> op, rel |-> rel, from |-> "t", schema |-> "s", width |-> 1, values |-> <<1>>, value |-> 2,
     op2 |-> "any", literal |-> 1, order |-> FALSE, count |-> FALSE, limit |-> 9, replace |-> TRUE,
     file |-> "f", json |-> FALSE, view |-> "stl_query"]
\* 0 stands for a generated identity, -1 for a value that does not fit its column.
Insert(values) == [Stmt("insert", "t") EXCEPT !.values = values]
Where(op, op2) == [Stmt(op, "t") EXCEPT !.op2 = op2]

WithT(values) ==
    [schemas |-> {"public"},
     rels |-> [r \in {"t"} |-> [kind |-> "table", rows |-> values, of |-> Nothing, width |-> 1]]]
Session ==
    [ops |-> {}, clients |-> {"c1", "c2"}, calls |-> {}, tokens |-> {Nothing}, keepAlive |-> {FALSE},
     db |-> WithT(<<>>), files |-> [x \in {} |-> x], statements |-> 2, failures |-> 0, restarts |-> 0]

CatalogViews ==
    {"information_schema.schemata", "information_schema.tables", "information_schema.columns",
     "pg_catalog.pg_namespace", "pg_catalog.pg_class", "pg_catalog.pg_attribute", "pg_catalog.pg_tables",
     "pg_table_def", "svv_columns", "svv_mv_info", "svv_table_info", "stl_query", "stv_recents"}
\* One statement after the other of every kind.
Definitions ==
    [Session EXCEPT !.ops = {"Query"}, !.clients = {"c1"}, !.statements = 3, !.db = WithT(<<2, 1>>),
        !.calls = {<<Stmt("create schema", "u")>>, <<Stmt("drop schema", "u")>>, <<Stmt("create table", "u")>>,
                   <<Stmt("create as", "u")>>, <<Stmt("create view", "v")>>, <<Stmt("create materialized", "u")>>,
                   <<Stmt("drop view", "v")>>, <<Stmt("drop materialized", "u")>>, <<Stmt("drop table", "t")>>,
                   <<Stmt("select", "v")>>, <<Stmt("set", "t"), Stmt("show", "t"), Stmt("literal", "t")>>,
                   <<[Stmt("create view", "v") EXCEPT !.replace = FALSE]>>}
                  \cup {<<[Stmt("catalog", "t") EXCEPT !.view = v]>> : v \in CatalogViews}]
Rewrites ==
    [Session EXCEPT !.ops = {"Query"}, !.clients = {"c1"}, !.statements = 2, !.db = WithT(<<3, 1>>), !.failures = 1,
        !.restarts = 1,
        !.calls = {<<Insert(<<0, 2>>)>>, <<Where("update", ">")>>, <<Where("delete", "<=")>>,
                   <<[Where("select", ">=") EXCEPT !.order = TRUE]>>, <<[Where("select", "<") EXCEPT !.count = TRUE]>>,
                   <<[Where("select", "<>") EXCEPT !.limit = 1]>>, <<Where("delete", "=")>>,
                   <<Insert(<<1, -1>>)>>, <<Stmt("unsupported", "t"), Insert(<<1>>)>>}]
\* Two clients whose statements read before they write.
TwoSteps ==
    [Session EXCEPT !.ops = {"Query"}, !.statements = 3, !.files = [x \in {"f"} |-> <<2>>],
        !.calls = {<<Stmt("create as", "u")>>, <<Stmt("create view", "u")>>, <<Stmt("create materialized", "u")>>,
                   <<Stmt("copy", "t")>>, <<[Stmt("copy", "t") EXCEPT !.json = TRUE]>>, <<Stmt("unload", "t")>>,
                   <<[Stmt("create table", "t") EXCEPT !.width = 2]>>, <<Stmt("drop table", "t")>>,
                   <<Stmt("drop schema", "u")>>}]
Transactions ==
    [Session EXCEPT !.ops = {"Query"}, !.statements = 4, !.failures = 1,
        !.calls = {<<Stmt("begin", "t"), Insert(<<1>>), Stmt("rollback", "t")>>, <<Stmt("commit", "t")>>,
                   <<Insert(<<2>>)>>}]
\* Tokens, their retries, failed saves and restarts.
Idempotency ==
    [Session EXCEPT !.ops = {"ExecuteStatement", "BatchExecuteStatement"}, !.tokens = {"k"},
        !.failures = 1, !.restarts = 1, !.keepAlive = {TRUE},
        !.calls = {<<Stmt("literal", "t")>>, <<Stmt("unsupported", "t")>>}]
Batches ==
    [Session EXCEPT !.ops = {"BatchExecuteStatement"}, !.clients = {"c1"}, !.failures = 1, !.db = WithT(<<1>>),
        !.calls = {<<Insert(<<1>>), Where("update", "any"), Stmt("unsupported", "t")>>,
                   <<Stmt("drop schema", "u"), Insert(<<2, -1>>)>>, <<Insert(<<3>>), Stmt("create as", "u")>>,
                   <<Stmt("drop table", "t"), Stmt("copy", "t")>>}]
BatchesApart ==
    [Session EXCEPT !.ops = {"BatchExecuteStatement", "Query"}, !.restarts = 1,
        !.calls = {<<Insert(<<1>>), Stmt("unsupported", "t")>>}]
Portals ==
    [Session EXCEPT !.ops = {"Parse", "Bind", "Execute", "Close", "Sync", "Disconnect", "Query"}, !.clients = {"c1"},
        !.db = WithT(<<1, 2, 3>>), !.calls = {<<Stmt("select", "t")>>, <<Where("delete", "=")>>}]
Cluster ==
    [Session EXCEPT !.ops = {"CreateCluster", "DeleteCluster", "CreateClusterSnapshot", "DeleteClusterSnapshot",
                          "RestoreFromClusterSnapshot", "CreateTags", "DeleteTags", "Query"}, !.clients = {"c1"},
        !.calls = {<<Insert(<<1>>)>>}, !.statements = 1, !.failures = 2, !.restarts = 1]

MCRedshiftWorkloads == {Definitions, Rewrites, TwoSteps, Transactions, Idempotency, Batches, BatchesApart, Portals, Cluster}
MCSchemaOf == [r \in {"t", "u", "v"} |-> IF r = "u" THEN "s" ELSE "public"]
-----------------------------------------------------------------------------
WarehouseInit ==
    /\ Init /\ R!Init
    /\ \/ component = "bigquery" /\ redshiftWorkload = CHOOSE w \in RedshiftWorkloads : TRUE
       \/ component = "redshift" /\ workload = CHOOSE w \in Workloads : TRUE

WarehouseNext ==
    /\ UNCHANGED component
    /\ \/ component = "bigquery" /\ Next /\ UNCHANGED redshiftVars
       \/ component = "redshift" /\ R!Next /\ UNCHANGED vars

WarehouseSpec == WarehouseInit /\ [][WarehouseNext]_<<component, vars, redshiftVars>>
-----------------------------------------------------------------------------
(* Properties                                                              *)

\* The rows of a BigQuery table are what the answers said: see RowsExact in BigQuery.
BigQueryRows == component = "bigquery" => RowsExact

\* What BigQuery tells of a job or a query holds: see JobsHonest in BigQuery.
BigQueryJobs == component = "bigquery" => JobsHonest

\* What Redshift answered stands across failed saves and restarts, and its catalog is whole
\* whatever statements failed: see the two parts in Redshift.
RedshiftSafe == component = "redshift" => R!AnswersKept /\ R!CatalogWhole
=============================================================================
