------------------------------ MODULE BigQuery ------------------------------
(***************************************************************************)
(* The BigQuery service (src/services/bigquery/src).  It keeps nothing in  *)
(* memory but one lock per table: datasets, tables, routines, policies and *)
(* jobs are files, each replaced by a rename, and the rows of a table are  *)
(* a file that lines are appended to.  A request is a sequence of steps on *)
(* these files; requests run on several threads and only insertAll takes   *)
(* the table's lock, so the steps of the others interleave freely.         *)
(*                                                                         *)
(* Abstractions: a resource is what the requests tell apart in it (a       *)
(* label, a schema, a view's query, the row count); a row's values carry   *)
(* their JSON kind and a number; SQL arrives parsed; removing a directory  *)
(* tree is one step; a line of the row file is written whole.              *)
(***************************************************************************)
EXTENDS Integers, FiniteSets, Sequences, SequencesExt, TLC

CONSTANTS
    Datasets, Tables, Routines, Callers,
    Jobs,           \* job ids a client chooses
    AutoJobs,       \* job ids made from the clock, never twice the same
    DatasetOf,      \* the dataset of each table and routine
    None,
    MaxRows,        \* max_rows_per_table
    MaxDepth,       \* how deep views are followed (8 in the code)
    PageRows,       \* rows of a page (maxResults, at most max_result_rows)
    Workloads       \* what is asked: requests, their inputs, and bounds on requests and faults

ASSUME BigQueryAssumption ==
    /\ {MaxRows, MaxDepth, PageRows} \subseteq Nat
    /\ PageRows > 0
    /\ DatasetOf \in [Tables \cup Routines -> Datasets]

VARIABLES
    file,       \* resource files: None or their content
    rows,       \* row files: None or the sequence of stored rows
    lock,       \* the caller that holds a table's lock, or None
    req,        \* what each caller's request has left to do
    begun,      \* requests begun so far
    faults,     \* faults so far
    acked,      \* history: the rows the answers so far say a table has
    disturbed,  \* history: tables that unserialised requests wrote at once, or a fault hit
    landed,     \* history: how often the rows of a job were stored since its record was deleted
    reclaimed,  \* history: job ids used by two requests at once, or deleted
    removals,   \* history: how often a table's rows were removed
    workload

vars == <<file, rows, lock, req, begun, faults, acked, disturbed, landed, reclaimed, removals, workload>>

(***************************************************************************)
(* Values and rows.                                                        *)
(***************************************************************************)
Null == <<"null", 0>>
IsNumber(v) == v[1] \in {"num", "digits"}       \* raw_float: a number, or a string of digits
Rank(v) == CASE IsNumber(v) -> v[2] [] v[1] = "text" -> 100 + v[2] [] OTHER -> 200 + v[2]

\* compare_raw_values: as numbers when both are, otherwise as text; digits sort first.
Below(v, w) == IF IsNumber(v) /\ IsNumber(w) THEN v[2] < w[2] ELSE Rank(v) < Rank(w)
Same(v, w) == ~Below(v, w) /\ ~Below(w, v)

TypeFits(v, type) ==
    CASE type = "INTEGER" -> IsNumber(v)
      [] type = "STRING" -> v[1] \in {"text", "digits"}
      [] type = "BOOLEAN" -> v[1] = "bool"
      [] type = "JSON" -> TRUE
      [] OTHER -> FALSE

ValidValue(v, field) ==
    IF v = Null THEN field.mode # "REQUIRED"
    ELSE IF field.mode = "REPEATED"
         THEN v[1] = "list" /\ \A x \in Range(v[2]) : x = Null \/ TypeFits(x, field.type)
         ELSE TypeFits(v, field.type)

Names(schema) == {schema[i].name : i \in DOMAIN schema}
ValidSchema(schema) ==
    \A i \in DOMAIN schema : /\ schema[i].type \in {"INTEGER", "STRING", "BOOLEAN", "JSON"}
                             /\ schema[i].mode \in {"NULLABLE", "REQUIRED", "REPEATED"}

\* validate_row_json: a row must use known fields, with values of their types, and
\* give every REQUIRED one; unknown fields are dropped when they are to be ignored.
RowFits(json, schema, ignoreUnknown) ==
    /\ ignoreUnknown \/ DOMAIN json \subseteq Names(schema)
    /\ \A i \in DOMAIN schema :
          IF schema[i].name \in DOMAIN json THEN ValidValue(json[schema[i].name], schema[i])
          ELSE schema[i].mode # "REQUIRED"
KnownFields(json, schema) == [n \in DOMAIN json \cap Names(schema) |-> json[n]]

(***************************************************************************)
(* Queries over the rows of one table or view.                             *)
(***************************************************************************)
Failed == [ok |-> FALSE, schema |-> <<>>, rows |-> <<>>]
Field(schema, n) == LET I == {i \in DOMAIN schema : schema[i].name = n}
                    IN  schema[CHOOSE i \in I : \A j \in I : j <= i]
Value(json, n) == IF n \in DOMAIN json THEN json[n] ELSE Null

Holds(json, c) ==
    LET v == Value(json, c.field)
        is == CASE c.op = "=" -> Same(v, c.value) [] c.op = "<" -> Below(v, c.value)
                [] c.op = "<=" -> ~Below(c.value, v) [] OTHER -> Below(c.value, v)
    IN  v # Null /\ is # c.negated
RowMatches(json, where) == where = {} \/ \E group \in where : \A c \in group : Holds(json, c)

\* A stable sort by the keys of its elements: a field's values or, for groups, themselves.
Sorted(s, keys, desc) ==
    LET Before(i, j) == \/ IF desc THEN Below(keys[j], keys[i]) ELSE Below(keys[i], keys[j])
                        \/ Same(keys[i], keys[j]) /\ i < j
        Position(i) == 1 + Cardinality({j \in DOMAIN s : Before(j, i)})
    IN  [k \in DOMAIN s |-> s[CHOOSE i \in DOMAIN s : Position(i) = k]]
Window(s, offset, limit) ==
    LET rest == SubSeq(s, offset + 1, Len(s))
    IN  IF limit >= 0 /\ limit < Len(rest) THEN SubSeq(rest, 1, limit) ELSE rest

\* A cell as it is answered, and stored again for a view or a destination table:
\* integers become strings of digits.
Rendered(v, field) ==
    IF field.type = "INTEGER" /\ field.mode # "REPEATED" /\ IsNumber(v) THEN <<"digits", v[2]>> ELSE v
RenderedRow(json, fields) ==
    [n \in Names(fields) |-> Rendered(Value(json, n), Field(fields, n))]

\* fields_for_query: all the fields, or the named ones if they exist.
FieldsFor(schema, selected) ==
    IF selected = <<"*">> THEN [ok |-> TRUE, schema |-> schema, rows |-> <<>>]
    ELSE IF Range(selected) \subseteq Names(schema)
         THEN [ok |-> TRUE, schema |-> [i \in DOMAIN selected |-> Field(schema, selected[i])], rows |-> <<>>]
         ELSE Failed

Numeric(schema, n) == Field(schema, n).type = "INTEGER"
AggregateColumn(agg, type) == <<[name |-> agg.alias, type |-> type, mode |-> "NULLABLE"]>>

\* aggregate_dry_run_fields: the columns an aggregate announces without running.
AggregateFields(schema, agg) ==
    LET one(type) == [ok |-> TRUE, schema |-> AggregateColumn(agg, type), rows |-> <<>>]
    IN  CASE agg.field = "*" -> IF agg.fn = "COUNT" THEN one("INTEGER") ELSE Failed
          [] agg.field # "*" /\ agg.field \notin Names(schema) -> Failed
          [] OTHER -> CASE agg.fn = "COUNT" -> one("INTEGER")
                        [] agg.fn \in {"SUM", "AVG"} ->
                              IF Numeric(schema, agg.field)
                              THEN one(IF agg.fn = "SUM" THEN "INTEGER" ELSE "FLOAT") ELSE Failed
                        [] OTHER -> one(Field(schema, agg.field).type)

\* execute_aggregate_query over the rows that matched.
Aggregated(jsons, schema, agg) ==
    LET given == SelectSeq([i \in DOMAIN jsons |-> Value(jsons[i], agg.field)], LAMBDA v : v # Null)
        least == CHOOSE i \in DOMAIN given : \A j \in DOMAIN given : ~Below(given[j], given[i])
        greatest == CHOOSE i \in DOMAIN given : \A j \in DOMAIN given : ~Below(given[i], given[j])
        sum == FoldLeft(LAMBDA n, v : n + v[2], 0, given)
        answer(type, v) == [ok |-> TRUE, schema |-> AggregateColumn(agg, type), rows |-> <<(agg.alias :> v)>>]
        orNull(type, v) == answer(type, IF given = <<>> THEN Null ELSE v)
    IN  CASE agg.field = "*" ->
                IF agg.fn = "COUNT" THEN answer("INTEGER", <<"digits", Len(jsons)>>) ELSE Failed
          [] agg.field # "*" /\ agg.field \notin Names(schema) -> Failed
          [] OTHER ->
                CASE agg.fn = "COUNT" -> answer("INTEGER", <<"digits", Len(given)>>)
                  [] agg.fn \in {"SUM", "AVG"} /\ ~Numeric(schema, agg.field) -> Failed
                  [] agg.fn \in {"SUM", "AVG"} /\ \E v \in Range(given) : ~IsNumber(v) -> Failed
                  [] agg.fn = "SUM" -> orNull("INTEGER", <<"digits", sum>>)
                  [] agg.fn = "AVG" -> orNull("FLOAT", <<"ratio", <<sum, Len(given)>>>>)
                  [] agg.fn = "MIN" -> orNull(Field(schema, agg.field).type, given[least])
                  [] OTHER -> orNull(Field(schema, agg.field).type, given[greatest])

\* execute_grouped_aggregate_query: one row per value of the grouped field, in its order.
Grouped(jsons, schema, q) ==
    LET key(i) == Value(jsons[i], q.group)
        firsts == SelectSeq([i \in DOMAIN jsons |-> i], LAMBDA i : \A j \in 1 .. i - 1 : key(j) # key(i))
        found == [k \in DOMAIN firsts |-> key(firsts[k])]
        keys == Window(Sorted(found, found, q.desc), q.offset, q.limit)
        group(v) == SelectSeq(jsons, LAMBDA json : Value(json, q.group) = v)
        each == [k \in DOMAIN keys |-> Aggregated(group(keys[k]), schema, q.agg)]
        columns == AggregateFields(schema, q.agg)
        named == Field(schema, q.group)
    IN  IF \/ ~columns.ok
           \/ q.order # "" /\ q.order # q.group
           \/ \E k \in DOMAIN each : ~each[k].ok
        THEN Failed
        ELSE [ok |-> TRUE, schema |-> <<named>> \o columns.schema,
              rows |-> [k \in DOMAIN keys |-> (q.group :> Rendered(keys[k], named)) @@ each[k].rows[1]]]

\* execute_parsed_query.
Execute(source, q) ==
    LET fields == FieldsFor(source.schema, q.fields)
        matching == SelectSeq(source.rows, LAMBDA json : RowMatches(json, q.where))
        ordered == IF q.order = "" THEN matching
                   ELSE Sorted(matching, [i \in DOMAIN matching |-> Value(matching[i], q.order)], q.desc)
        window == Window(ordered, q.offset, q.limit)
    IN  CASE ~source.ok \/ ~fields.ok -> Failed
          [] q.agg # None /\ q.group # "" -> Grouped(matching, source.schema, q)
          [] q.agg # None /\ q.group = "" -> Aggregated(matching, source.schema, q.agg)
          [] OTHER -> [ok |-> TRUE, schema |-> fields.schema,
                       rows |-> [i \in DOMAIN window |-> RenderedRow(window[i], fields.schema)]]

\* dry_run_query: the columns alone.
DryRun(source, q) ==
    CASE ~source.ok -> Failed
      [] q.agg # None /\ q.group # "" ->
            LET key == FieldsFor(source.schema, <<q.group>>)
                columns == AggregateFields(source.schema, q.agg)
            IN  IF key.ok /\ columns.ok
                THEN [ok |-> TRUE, schema |-> key.schema \o columns.schema, rows |-> <<>>] ELSE Failed
      [] q.agg # None /\ q.group = "" -> AggregateFields(source.schema, q.agg)
      [] OTHER -> FieldsFor(source.schema, q.fields)

\* A chain of views is evaluated from the table it ends in.
Evaluated(chain, schema, jsons, dry) ==
    FoldLeft(LAMBDA source, q : IF dry THEN DryRun(source, q) ELSE Execute(source, q),
             [ok |-> TRUE, schema |-> schema, rows |-> jsons], Reverse(chain))

(***************************************************************************)
(* Files.                                                                  *)
(***************************************************************************)
DatasetFile(d) == <<"dataset", d>>
TableFile(t) == <<"table", t>>
RoutineFile(r) == <<"routine", r>>
PolicyFile(x) == <<"policy", x>>
JobFile(j) == <<"job", j>>
Files == {DatasetFile(d) : d \in Datasets} \cup {TableFile(t) : t \in Tables}
         \cup {RoutineFile(r) : r \in Routines} \cup {PolicyFile(x) : x \in Datasets \cup Tables}
         \cup {JobFile(j) : j \in Jobs \cup AutoJobs}

Exists(f) == file[f] # None
Stored(t) == IF rows[t] = None THEN <<>> ELSE rows[t]
Jsons(s) == [i \in DOMAIN s |-> s[i].json]

\* What lies under a table's directory, and under a dataset's.
UnderTable(t) == {TableFile(t), PolicyFile(t)}
TablesOf(d) == {t \in Tables : DatasetOf[t] = d}
UnderDataset(d) ==
    {DatasetFile(d), PolicyFile(d)} \cup UNION {UnderTable(t) : t \in TablesOf(d)}
    \cup {RoutineFile(r) : r \in {r \in Routines : DatasetOf[r] = d}}
HasChildren(d) ==
    \/ \E f \in UnderDataset(d) \ {DatasetFile(d), PolicyFile(d)} : Exists(f)
    \/ \E t \in TablesOf(d) : rows[t] # None

NewTable(schema, view, label) == [schema |-> schema, view |-> view, label |-> label, numRows |-> 0]

(***************************************************************************)
(* Requests: the steps a caller's request has still to take.               *)
(***************************************************************************)
Idle == [op |-> "idle", todo |-> <<>>]
Request(op, dest, todo) ==
    [op |-> op, dest |-> dest, todo |-> todo, name |-> None, content |-> None, table |-> None,
     pending |-> <<>>, batch |-> <<>>, counted |-> 0, truncate |-> FALSE, job |-> None, auto |-> FALSE,
     chain |-> <<>>, sources |-> <<>>, result |-> Failed, config |-> None, got |-> <<>>]

Busy(c) == req[c].todo # <<>>
Serialised == {"insertAll"}
Reading == {"pages", "results"}
Writes(r) == CASE r = Idle \/ r.op \in Reading -> {}
               [] r.op = "deleteDataset" -> TablesOf(r.dest)
               [] OTHER -> {r.dest} \cap Tables
Writing(t) == \E c \in Callers : Busy(c) /\ t \in Writes(req[c])

\* Tables that the new request writes while another writes them, outside the lock.
Clashing(c, r) ==
    {t \in Writes(r) : \E o \in Callers \ {c} :
        /\ Busy(o) /\ t \in Writes(req[o])
        /\ ~(r.op \in Serialised /\ req[o].op \in Serialised)}

Called(op) == op \in workload.ops
Begin(c, r) ==
    /\ ~Busy(c) /\ begun < workload.requests
    /\ begun' = begun + 1
    /\ req' = [req EXCEPT ![c] = r]
    /\ disturbed' = disturbed \cup Clashing(c, r)
    /\ reclaimed' = reclaimed \cup {j \in Jobs : j = r.job /\ \E o \in Callers : Busy(o) /\ req[o].job = j}
    /\ UNCHANGED <<file, rows, lock, faults, acked, landed, removals, workload>>

At(c, step) == Busy(c) /\ Head(req[c].todo) = step
Advance(c, r) == [req EXCEPT ![c] = [r EXCEPT !.todo = Tail(r.todo)]]
Refused(c) == [req EXCEPT ![c] = Idle]
Kept == UNCHANGED <<begun, faults, disturbed, reclaimed, workload>>
RemovedFrom(T) == removals' = [t \in Tables |-> IF t \in T THEN removals[t] + 1 ELSE removals[t]]

(***************************************************************************)
(* Datasets, tables, routines and policies: a check, then one file.        *)
(***************************************************************************)
CreateDataset(c, d) == /\ Called("CreateDataset")
                       /\ ~Exists(DatasetFile(d))
                       /\ Begin(c, [Request("createDataset", d, <<"put">>) EXCEPT
                                      !.name = DatasetFile(d), !.content = "created"])
\* PUT creates a dataset that is not there; PATCH does not.
PatchDataset(c, d, replace) == /\ Called("PatchDataset")
                               /\ Exists(DatasetFile(d)) \/ replace
                               /\ Begin(c, [Request("patchDataset", d, <<"put">>) EXCEPT
                                              !.name = DatasetFile(d),
                                              !.content = IF replace THEN "replaced" ELSE "patched"])
DeleteDataset(c, d, contents) == /\ Called("DeleteDataset")
                                 /\ Exists(DatasetFile(d)) /\ (contents \/ ~HasChildren(d))
                                 /\ Begin(c, Request("deleteDataset", d, <<"removeDataset">>))

CreateTable(c, t, schema, view) ==
    /\ Called("CreateTable")
    /\ Exists(DatasetFile(DatasetOf[t])) /\ ~Exists(TableFile(t)) /\ ValidSchema(schema)
    /\ Begin(c, [Request("createTable", t, <<"put">>) EXCEPT
                   !.name = TableFile(t), !.content = NewTable(schema, view, "created")])
\* The whole resource is written back as it was read, the row count included; an
\* empty schema clears the table's only when the resource is replaced.
PatchTable(c, t, schema, replace) ==
    LET table == file[TableFile(t)]
    IN  /\ Called("PatchTable")
        /\ Exists(TableFile(t)) /\ ValidSchema(schema)
        /\ Begin(c, [Request("patchTable", t, <<"put">>) EXCEPT
                       !.name = TableFile(t),
                       !.content = [table EXCEPT !.schema = IF replace \/ schema # <<>> THEN schema ELSE @,
                                                 !.view = IF replace THEN None ELSE @,
                                                 !.label = "patched"]])
DeleteTable(c, t) == /\ Called("DeleteTable") /\ Exists(TableFile(t))
                     /\ Begin(c, Request("deleteTable", t, <<"removeTable">>))

CreateRoutine(c, r, type) ==
    /\ Called("Routines") /\ Exists(DatasetFile(DatasetOf[r])) /\ ~Exists(RoutineFile(r))
    /\ type \in {"SCALAR_FUNCTION", "PROCEDURE", "TABLE_VALUED_FUNCTION"}
    /\ Begin(c, [Request("createRoutine", r, <<"put">>) EXCEPT !.name = RoutineFile(r), !.content = type])
\* An empty type leaves the routine's as it is, unless the resource is replaced.
PatchRoutine(c, r, type, replace) ==
    LET new == IF replace \/ type # "" THEN type ELSE file[RoutineFile(r)]
    IN  /\ Called("Routines") /\ Exists(RoutineFile(r))
        /\ new \in {"SCALAR_FUNCTION", "PROCEDURE", "TABLE_VALUED_FUNCTION"}
        /\ Begin(c, [Request("patchRoutine", r, <<"put">>) EXCEPT !.name = RoutineFile(r), !.content = new])
DeleteRoutine(c, r) == /\ Called("Routines") /\ Exists(RoutineFile(r))
                       /\ Begin(c, [Request("deleteRoutine", r, <<"removeFile">>) EXCEPT !.name = RoutineFile(r)])

SetIamPolicy(c, x) ==
    /\ Called("SetIamPolicy")
    /\ IF x \in Tables THEN Exists(TableFile(x)) ELSE Exists(DatasetFile(x))
    /\ Begin(c, [Request("setIamPolicy", "policy", <<"put">>) EXCEPT !.name = PolicyFile(x), !.content = "set"])

Put(c) == /\ At(c, "put")
          /\ file' = [file EXCEPT ![req[c].name] = req[c].content]
          /\ acked' = IF req[c].op = "createTable" THEN [acked EXCEPT ![req[c].dest] = <<>>] ELSE acked
          /\ req' = Refused(c)
          /\ UNCHANGED <<rows, lock, landed, removals>> /\ Kept
RemoveFile(c) == /\ At(c, "removeFile")
                 /\ file' = [file EXCEPT ![req[c].name] = None]
                 /\ req' = Refused(c)
                 /\ UNCHANGED <<rows, lock, acked, landed, removals>> /\ Kept
RemoveTable(c) == /\ At(c, "removeTable")
                  /\ file' = [f \in Files |-> IF f \in UnderTable(req[c].dest) THEN None ELSE file[f]]
                  /\ rows' = [rows EXCEPT ![req[c].dest] = None]
                  /\ acked' = [acked EXCEPT ![req[c].dest] = <<>>]
                  /\ req' = Refused(c)
                  /\ RemovedFrom({req[c].dest})
                  /\ UNCHANGED <<lock, landed>> /\ Kept
RemoveDataset(c) ==
    LET gone == TablesOf(req[c].dest)
    IN  /\ At(c, "removeDataset")
        /\ file' = [f \in Files |-> IF f \in UnderDataset(req[c].dest) THEN None ELSE file[f]]
        /\ rows' = [t \in Tables |-> IF t \in gone THEN None ELSE rows[t]]
        /\ acked' = [t \in Tables |-> IF t \in gone THEN <<>> ELSE acked[t]]
        /\ req' = Refused(c)
        /\ RemovedFrom(gone)
        /\ UNCHANGED <<lock, landed>> /\ Kept

(***************************************************************************)
(* insertAll: the table is read first, then everything under its lock.     *)
(***************************************************************************)
InsertAll(c, t, batch, skipInvalid) ==
    /\ Called("InsertAll") /\ Exists(TableFile(t))
    /\ Begin(c, [Request("insertAll", t, <<"lock", "append", "stats">>) EXCEPT
                   !.table = file[TableFile(t)], !.batch = batch, !.config = skipInvalid])

\* Rows that fit, less those whose insertId the table or the batch already has.
Accepted(existing, batch, schema, skipInvalid) ==
    LET fits(i) == RowFits(batch[i].json, schema, FALSE)
        seen(i) == \/ \E j \in DOMAIN existing : existing[j].id = batch[i].id
                   \/ \E j \in 1 .. i - 1 : fits(j) /\ batch[j].id = batch[i].id
        taken == SelectSeq([i \in DOMAIN batch |-> i],
                           LAMBDA i : fits(i) /\ (batch[i].id = "" \/ ~seen(i)))
    IN  IF ~skipInvalid /\ \E i \in DOMAIN batch : ~fits(i) THEN <<>>
        ELSE [k \in DOMAIN taken |-> [id |-> batch[taken[k]].id, by |-> "insertAll",
                                      json |-> KnownFields(batch[taken[k]].json, schema)]]

Unlocked(t) == TRUE
LockFree(t) == lock[t] = None
OverLimit(existing, accepted) == Len(existing) + Len(accepted) > MaxRows
Lock(c) ==
    LET r == req[c]
        existing == Stored(r.dest)
        accepted == Accepted(existing, r.batch, r.table.schema, r.config)
    IN  /\ At(c, "lock") /\ LockFree(r.dest)
        /\ IF accepted = <<>> \/ OverLimit(existing, accepted)
           THEN req' = Refused(c) /\ UNCHANGED lock
           ELSE /\ req' = Advance(c, [r EXCEPT !.pending = accepted, !.batch = accepted,
                                               !.counted = Len(existing) + Len(accepted)])
                /\ lock' = [lock EXCEPT ![r.dest] = c]
        /\ UNCHANGED <<file, rows, acked, landed, removals>> /\ Kept

\* One line of the row file; the last one ends the step.
Append1(c) ==
    LET r == req[c]
        left == IF r.pending = <<>> THEN <<>> ELSE Tail(r.pending)
        next == [r EXCEPT !.pending = left, !.todo = IF left = <<>> THEN Tail(r.todo) ELSE @]
    IN  /\ At(c, "append")
        /\ req' = [req EXCEPT ![c] = next]
        /\ rows' = IF r.pending = <<>> THEN rows
                   ELSE [rows EXCEPT ![r.dest] = Append(Stored(r.dest), Head(r.pending))]
        /\ landed' = IF left = <<>> /\ r.job # None THEN [landed EXCEPT ![r.job] = @ + 1] ELSE landed
        /\ UNCHANGED <<file, lock, acked, removals>> /\ Kept

\* A job counts the rows again; insertAll knows them.
Count(c) == /\ At(c, "count")
            /\ req' = Advance(c, [req[c] EXCEPT !.counted = Len(Stored(req[c].dest))])
            /\ UNCHANGED <<file, rows, lock, acked, landed, removals>> /\ Kept

AfterStats(r) == [r.table EXCEPT !.numRows = r.counted]
Stats(c) ==
    LET r == req[c]
        t == r.dest
    IN  /\ At(c, "stats")
        /\ file' = [file EXCEPT ![TableFile(t)] = AfterStats(r)]
        /\ lock' = IF lock[t] = c THEN [lock EXCEPT ![t] = None] ELSE lock
        /\ acked' = [acked EXCEPT ![t] = IF r.truncate THEN r.batch ELSE @ \o r.batch]
        /\ req' = Advance(c, r)
        /\ UNCHANGED <<rows, landed, removals>> /\ Kept

(***************************************************************************)
(* Jobs.  A job id that has a record is refused before anything is done.   *)
(***************************************************************************)
Available(j) == j \in AutoJobs \/ ~Exists(JobFile(j))
FreshAuto == {j \in AutoJobs : ~Exists(JobFile(j)) /\ \A o \in Callers : Busy(o) => req[o].job # j}
JobChoices == Jobs \cup (IF FreshAuto = {} THEN {} ELSE {CHOOSE j \in FreshAuto : TRUE})

RecordFirst == <<"putTable", "record", "truncate", "append", "count", "stats">>
WriteSequence == <<"putTable", "truncate", "append", "count", "stats", "record">>
QueryJob(c, j, q, dest, disposition, dry) ==
    /\ Called("QueryJob") /\ Available(j)
    /\ Begin(c, [Request("query", IF dry THEN None ELSE dest, <<"source">>) EXCEPT
                   !.job = j, !.chain = <<q>>, !.config = disposition, !.content = dry])
CopyJob(c, j, sources, dest, disposition) ==
    /\ Called("CopyJob") /\ Available(j) /\ Exists(DatasetFile(DatasetOf[dest]))
    /\ Begin(c, [Request("copy", dest, <<"copySource">>) EXCEPT
                   !.job = j, !.sources = sources, !.config = disposition])
\* The rows come from the object store, or with the request.
LoadJob(c, j, jsons, schema, dest, disposition) ==
    /\ Called("LoadJob") /\ Available(j)
    /\ Begin(c, [Request("load", dest, <<"loadTable">>) EXCEPT
                   !.job = j, !.batch = jsons, !.content = schema, !.config = disposition])
ExtractJob(c, j, t) ==
    /\ Called("ExtractJob") /\ Available(j) /\ Exists(TableFile(t))
    /\ Begin(c, [Request("extract", None, <<"record">>) EXCEPT !.job = j])

TooDeep(chain) == Len(chain) - 1 >= MaxDepth
\* query_source: a view leads to another query, a table to its rows.
Source(c) ==
    LET r == req[c]
        q == Last(r.chain)
        table == file[TableFile(q.from)]
    IN  /\ At(c, "source")
        /\ req' = CASE table = None -> Refused(c)
                    [] table # None /\ table.view # None ->
                          IF TooDeep(r.chain) THEN Refused(c)
                          ELSE [req EXCEPT ![c].chain = Append(@, table.view)]
                    [] OTHER -> [req EXCEPT ![c].table = table, ![c].todo = <<"evaluate">>]
        /\ UNCHANGED <<file, rows, lock, acked, landed, removals>> /\ Kept
Evaluate(c) ==
    LET r == req[c]
        dry == r.content
        result == Evaluated(r.chain, r.table.schema, Jsons(Stored(Last(r.chain).from)), dry)
        stored == [i \in DOMAIN result.rows |-> [id |-> "", by |-> r.job, json |-> result.rows[i]]]
    IN  /\ At(c, "evaluate")
        /\ req' = IF ~result.ok THEN Refused(c)
                  ELSE [req EXCEPT ![c].result = result, ![c].batch = stored,
                                   ![c].todo = IF r.dest = None THEN <<"record">> ELSE <<"destination">>]
        /\ UNCHANGED <<file, rows, lock, acked, landed, removals>> /\ Kept

\* Each source table is read, then its rows; their schemas must agree.
CopySource(c) ==
    LET r == req[c]
        s == Head(r.sources)
        table == file[TableFile(s)]
        first == r.table = None
    IN  /\ At(c, "copySource")
        /\ req' = IF table = None \/ (~first /\ table.schema # r.table.schema) THEN Refused(c)
                  ELSE [req EXCEPT ![c].table = IF first THEN table ELSE @, ![c].todo = <<"copyRows">>]
        /\ UNCHANGED <<file, rows, lock, acked, landed, removals>> /\ Kept
CopyRows(c) ==
    LET r == req[c]
        more == Tail(r.sources)
        read == [i \in DOMAIN Stored(Head(r.sources)) |->
                    [id |-> Stored(Head(r.sources))[i].id, by |-> r.job, json |-> Stored(Head(r.sources))[i].json]]
    IN  /\ At(c, "copyRows")
        /\ req' = [req EXCEPT ![c].batch = @ \o read, ![c].sources = more,
                              ![c].todo = IF more = <<>> THEN <<"destination">> ELSE <<"copySource">>]
        /\ UNCHANGED <<file, rows, lock, acked, landed, removals>> /\ Kept

\* Where a query or a copy writes, by its dispositions.
Disposed(r, table, stored) ==
    /\ table # None \/ r.config.create # "CREATE_NEVER"
    /\ r.config.write = "WRITE_EMPTY" /\ table # None => stored = <<>>
    /\ r.op = "query" /\ r.config.write = "WRITE_APPEND" /\ table # None => table.schema = r.result.schema
Destination(c) ==
    LET r == req[c]
        table == file[TableFile(r.dest)]
        truncate == r.config.write = "WRITE_TRUNCATE"
        base == IF table # None /\ ~truncate THEN table
                ELSE IF r.op = "copy" THEN r.table ELSE NewTable(r.result.schema, None, "made")
        resource == IF r.op = "query" THEN [base EXCEPT !.schema = r.result.schema] ELSE base
    IN  /\ At(c, "destination")
        /\ req' = IF ~Exists(DatasetFile(DatasetOf[r.dest])) \/ ~Disposed(r, table, Stored(r.dest)) THEN Refused(c)
                  ELSE [req EXCEPT ![c].table = resource, ![c].pending = r.batch, ![c].truncate = truncate,
                                   ![c].todo = WriteSequence]
        /\ UNCHANGED <<file, rows, lock, acked, landed, removals>> /\ Kept

\* A load creates its table before it reads the source.
LoadTable(c) ==
    LET r == req[c]
        table == file[TableFile(r.dest)]
        new == NewTable(r.content, None, "made")
    IN  /\ At(c, "loadTable")
        /\ IF table # None
           THEN /\ req' = [req EXCEPT ![c].table = table, ![c].todo = <<"load">>]
                /\ UNCHANGED <<file, acked>>
           ELSE IF \/ r.config.create = "CREATE_NEVER" \/ r.content = <<>> \/ ~ValidSchema(r.content)
                   \/ ~Exists(DatasetFile(DatasetOf[r.dest]))
           THEN req' = Refused(c) /\ UNCHANGED <<file, acked>>
           ELSE /\ file' = [file EXCEPT ![TableFile(r.dest)] = new]
                /\ acked' = [acked EXCEPT ![r.dest] = <<>>]
                /\ req' = [req EXCEPT ![c].table = new, ![c].todo = <<"load">>]
        /\ UNCHANGED <<rows, lock, landed, removals>> /\ Kept
\* Every row of the source is checked before the table's rows are touched.
LoadOutcome(r, stored) ==
    LET fits == \A i \in DOMAIN r.batch : RowFits(r.batch[i], r.table.schema, FALSE)
        loaded == [i \in DOMAIN r.batch |-> [id |-> "", by |-> r.job, json |-> r.batch[i]]]
    IN  IF ~fits \/ (r.config.write = "WRITE_EMPTY" /\ stored # <<>>) THEN Idle
        ELSE [r EXCEPT !.batch = loaded, !.pending = loaded, !.truncate = r.config.write = "WRITE_TRUNCATE",
                       !.todo = Tail(WriteSequence)]
Load(c) == /\ At(c, "load")
           /\ req' = [req EXCEPT ![c] = LoadOutcome(req[c], Stored(req[c].dest))]
           /\ UNCHANGED <<file, rows, lock, acked, landed, removals>> /\ Kept

PutDestination(c) ==
    /\ At(c, "putTable")
    /\ file' = [file EXCEPT ![TableFile(req[c].dest)] = req[c].table]
    /\ req' = Advance(c, req[c])
    /\ UNCHANGED <<rows, lock, acked, landed, removals>> /\ Kept
Truncate(c) ==
    /\ At(c, "truncate")
    /\ rows' = IF req[c].truncate THEN [rows EXCEPT ![req[c].dest] = None] ELSE rows
    /\ req' = Advance(c, req[c])
    /\ RemovedFrom(IF req[c].truncate THEN {req[c].dest} ELSE {})
    /\ UNCHANGED <<file, lock, acked, landed>> /\ Kept

\* The record is written last.  All but queries look again whether the id is taken.
Recordable(r) == r.op = "query" \/ Available(r.job)
Record(c) ==
    LET r == req[c]
    IN  /\ At(c, "record")
        /\ file' = IF Recordable(r)
                   THEN [file EXCEPT ![JobFile(r.job)] =
                            [op |-> r.op, rows |-> r.result.rows, stored |-> r.dest # None]]
                   ELSE file
        /\ req' = Refused(c)
        /\ UNCHANGED <<rows, lock, acked, landed, removals>> /\ Kept
DeleteJob(j) == /\ Called("DeleteJob") /\ Exists(JobFile(j))
                /\ file' = [file EXCEPT ![JobFile(j)] = None]
                /\ landed' = [landed EXCEPT ![j] = 0]
                /\ reclaimed' = reclaimed \cup {j}
                /\ UNCHANGED <<rows, lock, req, begun, faults, acked, disturbed, removals, workload>>

(***************************************************************************)
(* Paging, by an offset: the rows of a table, or a job's result.           *)
(***************************************************************************)
Page(s, offset) == SubSeq(s, offset + 1, IF offset + PageRows < Len(s) THEN offset + PageRows ELSE Len(s))
StartPages(c, t) == /\ Called("ListRows") /\ Exists(TableFile(t))
                    /\ Begin(c, [Request("pages", t, <<"page">>) EXCEPT !.name = t, !.counted = removals[t]])
StartResults(c, j) == /\ Called("GetQueryResults") /\ Exists(JobFile(j))
                      /\ Begin(c, [Request("results", j, <<"page">>) EXCEPT !.name = JobFile(j)])
Listed(r) == IF r.op = "pages" THEN Stored(r.dest)
             ELSE IF Exists(r.name) THEN file[r.name].rows ELSE <<>>
NextPage(c) ==
    LET r == req[c]
        all == Listed(r)
        got == r.got \o Page(all, Len(r.got))
    IN  /\ At(c, "page")
        /\ req' = [req EXCEPT ![c].got = got, ![c].todo = IF Len(got) < Len(all) THEN @ ELSE <<"listed">>]
        /\ UNCHANGED <<file, rows, lock, acked, landed, removals>> /\ Kept
EndPages(c) == /\ At(c, "listed") /\ req' = Refused(c)
               /\ UNCHANGED <<file, rows, lock, acked, landed, removals>> /\ Kept

(***************************************************************************)
(* Faults: an append or a write that fails, and a crash.                   *)
(***************************************************************************)
WriteSteps == {"put", "putTable", "append", "stats", "record"}
WriteFails(c) ==
    /\ Busy(c) /\ Head(req[c].todo) \in WriteSteps /\ faults < workload.faults
    /\ Head(req[c].todo) = "append" => req[c].pending # <<>>
    /\ faults' = faults + 1
    /\ disturbed' = disturbed \cup Writes(req[c])
    /\ req' = Refused(c)
    /\ lock' = [t \in Tables |-> IF lock[t] = c THEN None ELSE lock[t]]
    /\ reclaimed' = reclaimed \cup ({req[c].job} \cap Jobs)
    /\ UNCHANGED <<file, rows, begun, acked, landed, removals, workload>>
Crash ==
    /\ faults < workload.faults /\ \E c \in Callers : Busy(c)
    /\ faults' = faults + 1
    /\ disturbed' = disturbed \cup UNION {Writes(req[c]) : c \in {c \in Callers : Busy(c)}}
    /\ reclaimed' = reclaimed \cup {j \in Jobs : \E c \in Callers : Busy(c) /\ req[c].job = j}
    /\ req' = [c \in Callers |-> Idle]
    /\ lock' = [t \in Tables |-> None]
    /\ UNCHANGED <<file, rows, begun, acked, landed, removals, workload>>

Init ==
    /\ workload \in Workloads
    /\ file = [f \in Files |-> IF f[1] = "dataset" THEN "created"
                               ELSE IF f[1] = "table" /\ f[2] \in workload.tables
                                    THEN NewTable(workload.schema, None, "created") ELSE None]
    /\ rows = [t \in Tables |-> None]
    /\ lock = [t \in Tables |-> None]
    /\ req = [c \in Callers |-> Idle]
    /\ begun = 0 /\ faults = 0
    /\ acked = [t \in Tables |-> <<>>]
    /\ disturbed = {}
    /\ landed = [j \in Jobs \cup AutoJobs |-> 0]
    /\ reclaimed = {}
    /\ removals = [t \in Tables |-> 0]

ResourceRequest(c) ==
    \/ \E d \in Datasets : \/ CreateDataset(c, d)
                           \/ \E b \in BOOLEAN : PatchDataset(c, d, b) \/ DeleteDataset(c, d, b)
    \/ \E t \in Tables : \/ \E s \in workload.schemas, v \in workload.views \cup {None} : CreateTable(c, t, s, v)
                         \/ \E s \in workload.schemas, b \in BOOLEAN : PatchTable(c, t, s, b)
                         \/ DeleteTable(c, t)
    \/ \E r \in Routines : \/ \E ty \in {"PROCEDURE", ""} : \/ CreateRoutine(c, r, ty)
                                                            \/ \E b \in BOOLEAN : PatchRoutine(c, r, ty, b)
                           \/ DeleteRoutine(c, r)
    \/ \E x \in Datasets \cup Tables : SetIamPolicy(c, x)
DataRequest(c) ==
    \/ \E t \in workload.targets, b \in workload.batches, s \in BOOLEAN : InsertAll(c, t, b, s)
    \/ \E j \in JobChoices, disposition \in workload.dispositions, t \in workload.targets :
          \/ \E q \in workload.queries, dry \in BOOLEAN, dest \in {t, None} : QueryJob(c, j, q, dest, disposition, dry)
          \/ \E s \in workload.sources : CopyJob(c, j, s, t, disposition)
          \/ \E l \in workload.loads, schema \in workload.schemas : LoadJob(c, j, l, schema, t, disposition)
          \/ ExtractJob(c, j, t)
    \/ \E t \in workload.targets : StartPages(c, t)
    \/ \E j \in Jobs \cup AutoJobs : StartResults(c, j)
Step(c) ==
    \/ Put(c) \/ RemoveFile(c) \/ RemoveTable(c) \/ RemoveDataset(c)
    \/ Lock(c) \/ Append1(c) \/ Count(c) \/ Stats(c)
    \/ Source(c) \/ Evaluate(c) \/ CopySource(c) \/ CopyRows(c) \/ Destination(c)
    \/ LoadTable(c) \/ Load(c) \/ PutDestination(c) \/ Truncate(c) \/ Record(c)
    \/ NextPage(c) \/ EndPages(c)
Next ==
    \/ \E c \in Callers : ResourceRequest(c) \/ DataRequest(c) \/ Step(c) \/ WriteFails(c)
    \/ \E j \in Jobs \cup AutoJobs : DeleteJob(j)
    \/ Crash

Spec == Init /\ [][Next]_vars

(***************************************************************************)
(* Properties.                                                             *)
(***************************************************************************)
\* What the files hold, and how far a request may go: a chain of views is never followed
\* past the depth limit, even when views select from each other (query_source).
TypeOK ==
    /\ DOMAIN file = Files
    /\ \A t \in Tables : Exists(TableFile(t)) =>
          /\ ValidSchema(file[TableFile(t)].schema) \/ file[TableFile(t)].label = "made"
          /\ file[TableFile(t)].numRows \in Nat
    /\ \A t \in Tables : lock[t] = None \/ (Busy(lock[t]) /\ req[lock[t]].dest = t)
    /\ \A c \in Callers : Busy(c) => Len(req[c].chain) <= MaxDepth + 1
    /\ begun \in 0 .. workload.requests /\ faults \in 0 .. workload.faults

\* numRows of a table is the number of its rows whenever nobody is writing it, however many
\* insertAll requests ran at once (write_table_row_stats works on a table read before the
\* lock).  Requests outside the lock that wrote the table at once are excepted.
StatsRight ==
    \A t \in Tables \ disturbed :
        Exists(TableFile(t)) /\ ~Writing(t) => file[TableFile(t)].numRows = Len(Stored(t))

\* The rows of a table are those the answers promised: every row of an insertAll or a job that
\* succeeded, in order, and nothing of one that was refused (create_load_job validates the
\* whole source before it truncates).
ContentsAcked ==
    \A t \in Tables \ disturbed : ~Writing(t) => Stored(t) = acked[t]

\* No two rows that insertAll stored in a table carry the same insertId, whatever else ran,
\* failed or crashed: the check and the append are under the table's lock (insert_rows).
InsertIdsOnce ==
    \A t \in Tables : \A i, j \in DOMAIN Stored(t) :
        i # j /\ rows[t][i].by = "insertAll" /\ rows[t][j].by = "insertAll" /\ rows[t][i].id # ""
            => rows[t][i].id # rows[t][j].id

\* insertAll requests never fill a table past max_rows_per_table together, though each counts
\* the rows before it appends (insert_rows).
RowLimit ==
    \A t \in Tables : Cardinality({i \in DOMAIN Stored(t) : rows[t][i].by = "insertAll"}) <= MaxRows

\* A job that has a record has stored its rows: a crash or a failed write between two of its
\* files never leaves the record without the data (create_query_job, create_completed_job).
RecordedMeansStored ==
    \A j \in Jobs \ reclaimed :
        Exists(JobFile(j)) /\ file[JobFile(j)].stored => landed[j] >= 1

\* A client that pages by offset gets every row once: rows are only ever appended, so the pages
\* of a table are the beginning of its rows, and those of a job its whole result (list_rows,
\* page_query_response), unless the rows or the job were removed on the way.
PagesWhole ==
    \A c \in Callers : At(c, "listed") =>
        IF req[c].op = "pages"
        THEN removals[req[c].dest] = req[c].counted => IsPrefix(req[c].got, Stored(req[c].dest))
        ELSE req[c].dest \notin reclaimed => req[c].got = file[req[c].name].rows

\* A query that runs answers with the columns its dry run announced (dry_run_query_with_depth
\* and execute_parsed_query derive them separately).
DryRunAgrees ==
    \A t \in Tables : Exists(TableFile(t)) =>
        LET source == [ok |-> TRUE, schema |-> file[TableFile(t)].schema, rows |-> Jsons(Stored(t))]
        IN  \A q \in workload.queries :
                Execute(source, q).ok => DryRun(source, q).schema = Execute(source, q).schema

\* The rows of a table are what the answers said, counted right, within the limit and each
\* insertId once.
RowsExact == TypeOK /\ StatsRight /\ ContentsAcked /\ InsertIdsOnce /\ RowLimit

\* What a client is told of a job or a query holds of the rows: its record, its pages and its
\* announced columns.
JobsHonest == RecordedMeansStored /\ PagesWhole /\ DryRunAgrees
=============================================================================
