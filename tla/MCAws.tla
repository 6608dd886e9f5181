-------------------------------- MODULE MCAws --------------------------------
(***************************************************************************)
(* DynamoDB and Lambda for TLC.  They share nothing, so a behaviour is one *)
(* of one of them and the other's variables stay as they are.              *)
(***************************************************************************)
EXTENDS DynamoDb, TLC

CONSTANTS none,
          LambdaWorkloads, Names, Invocations, MaxRevisions, MaxEnvironments, MaxJobs

VARIABLES component,
          lambdaWorkload, lambdaPhase, functions, code, jobs, waiting, unretired, inv, envs,
          pool, containers, counts, crashed

L == INSTANCE Lambda
       WITH Workloads <- LambdaWorkloads, workload <- lambdaWorkload, phase <- lambdaPhase

ASSUME LambdaConstants == L!ConstantsAssumption

lambdaVars ==
  <<lambdaWorkload, lambdaPhase, functions, code, jobs, waiting, unretired, inv, envs,
    pool, containers, counts, crashed>>
-----------------------------------------------------------------------------
(* DynamoDB. *)

N(n) == [type |-> "N", val |-> n]
S(n) == [type |-> "S", val |-> n]

MCKeys == {S(1), S(2), N(1)}

Attributes(pk, v) == ("pk" :> pk) @@ ("v" :> v)

\* Two items under one key and one under each of two others, one of them with a time to live.
MCItems ==
  {Attributes(S(1), N(1)), Attributes(S(1), S(1)), ("pk" :> S(2)) @@ ("ttl" :> N(1)), "pk" :> N(1)}

Clause(op, attr, value) == [op |-> op, attr |-> attr, value |-> value]

\* A counter, an assignment followed by a removal, and one that changes the key attribute.
MCUpdates ==
  {<<Clause("ADD", "v", N(1))>>,
   <<Clause("if_not_exists", "v", N(1)), Clause("REMOVE", "ttl", none)>>,
   <<Clause("SET", "pk", S(2))>>}

Predicate(op, attr, value, negated) == [op |-> op, attr |-> attr, value |-> value, negated |-> negated]

\* No condition; put if absent; a disjunction of a range and a list; one whose value is missing.
MCConditions ==
  {<<>>,
   <<<<Predicate("absent", "pk", none, FALSE)>>>>,
   <<<<Predicate("between", "v", <<N(1), N(2)>>, FALSE), Predicate("<", "pk", S(2), FALSE)>>,
     <<Predicate("in", "v", {S(1)}, FALSE), Predicate("type", "v", "N", TRUE)>>>>,
   <<<<Predicate("exists", "v", none, FALSE), Predicate("<=", "v", none, FALSE)>>>>}

Entry(table, op, key, put, update, condition) ==
  [table |-> table, op |-> op, key |-> key, put |-> put, update |-> update, condition |-> condition]

\* The same key written twice in two tables; a conditional transaction over two keys.
MCBatches ==
  {<<Entry("T", "put", S(1), Attributes(S(1), N(1)), <<>>, <<>>),
     Entry("T", "delete", S(1), none, <<>>, <<>>),
     Entry("T", "put", S(2), "pk" :> S(2), <<>>, <<>>)>>,
   <<Entry("T", "put", S(1), "pk" :> S(1), <<>>, <<<<Predicate("absent", "pk", none, FALSE)>>>>),
     Entry("T", "update", S(2), none, <<Clause("ADD", "v", N(1))>>, <<>>)>>,
   <<Entry("T", "check", S(2), none, <<>>, <<<<Predicate("exists", "pk", none, FALSE)>>>>),
     Entry("T", "delete", S(1), none, <<>>, <<>>),
     Entry("U", "put", S(1), "pk" :> S(1), <<>>, <<>>)>>}

MCIndexes == "byV" :> "v"

Basic == [ops |-> {"CreateTable"}, tables |-> {"T"}, items |-> MCItems, updates |-> {}, conditions |-> {<<>>},
          batches |-> {}, indexes |-> {}, views |-> {}, limits |-> {}]

\* What clients do together: conditional writes, transactions, streams, expiry under scans,
\* scans of an index, backups, and settings.
MCWorkloads ==
  {[Basic EXCEPT !.ops = @ \cup {"PutItem", "UpdateItem", "DeleteItem"},
                 !.conditions = MCConditions, !.updates = MCUpdates],
   [Basic EXCEPT !.ops = @ \cup {"BatchWriteItem", "TransactWriteItems"},
                 !.tables = {"T", "U"}, !.batches = MCBatches],
   [Basic EXCEPT !.ops = @ \cup {"DeleteTable", "PutItem", "DeleteItem", "UpdateTable", "GetRecords"},
                 !.items = {Attributes(S(1), N(1))}, !.views = {"KEYS_ONLY", "NEW_AND_OLD_IMAGES"},
                 !.limits = {0, 1}],
   [Basic EXCEPT !.ops = @ \cup {"PutItem", "Scan", "UpdateTimeToLive", "Time"}, !.limits = {0, 1}],
   [Basic EXCEPT !.ops = @ \cup {"DeleteTable", "PutItem", "DeleteItem", "Scan", "UpdateTable"},
                 !.indexes = {"byV"}, !.limits = {1, 2}],
   [Basic EXCEPT !.ops = @ \cup {"DeleteTable", "PutItem", "CreateBackup", "DeleteBackup",
                                 "RestoreTableFromBackup", "Time", "UpdateTimeToLive"},
                 !.tables = {"T", "U"}, !.items = {"pk" :> S(1), ("pk" :> S(2)) @@ ("ttl" :> N(1))}],
   [Basic EXCEPT !.ops = @ \cup {"DeleteTable", "UpdateContinuousBackups", "TagResource", "UntagResource",
                                 "PutResourcePolicy", "DeleteResourcePolicy"}]}
-----------------------------------------------------------------------------
(* Lambda. *)

Function == [ops |-> {"CreateFunction", "Invoke"}, kinds |-> {"interpreter"}, shas |-> {1}, auths |-> {}, types |-> {"RequestResponse"}]

\* Updates and deletions under invocations; the runtime API; containers, shutdown and
\* crashes; function URLs; tags.
MCLambdaWorkloads ==
  {[Function EXCEPT !.ops = @ \cup {"UpdateFunctionCode", "DeleteFunction"}, !.shas = {1, 2}],
   [Function EXCEPT !.ops = {"CreateFunction", "UpdateFunctionCode", "DeleteFunction", "Fault", "Crash"}, !.shas = {1, 2}],
   [Function EXCEPT !.ops = @ \cup {"UpdateFunctionConfiguration", "Fault"}],
   [Function EXCEPT !.ops = @ \cup {"UpdateFunctionConfiguration"}, !.kinds = {"provided"}],
   [Function EXCEPT !.ops = @ \cup {"Fault"}, !.kinds = {"provided"}],
   [Function EXCEPT !.ops = @ \cup {"DeleteFunction", "Shutdown", "Crash"}, !.kinds = {"image"}, !.types = {"RequestResponse", "Event"}],
   [Function EXCEPT !.ops = {"CreateFunction", "DeleteFunction", "FunctionUrl", "InvokeUrl"}, !.auths = {"NONE", "AWS_IAM"}],
   [Function EXCEPT !.ops = {"CreateFunction", "TagResource"}]}

\* A name is used for a function of one package type, then of the other.
MCRetyped ==
  {[Function EXCEPT !.ops = {"CreateFunction", "UpdateFunctionCode", "DeleteFunction"},
                 !.kinds = {"interpreter", "image"}, !.shas = {1, 2}]}
-----------------------------------------------------------------------------
AwsInit ==
  /\ Init /\ L!Init
  /\ \/ component = "dynamodb" /\ lambdaWorkload = CHOOSE w \in LambdaWorkloads : TRUE
     \/ component = "lambda" /\ workload = CHOOSE w \in Workloads : TRUE

AwsNext ==
  /\ UNCHANGED component
  /\ \/ component = "dynamodb" /\ Next /\ UNCHANGED lambdaVars
     \/ component = "lambda" /\ L!Next /\ UNCHANGED vars

AwsSpec == AwsInit /\ [][AwsNext]_<<component, vars, lambdaVars>>

\* No action or invariant tells invocations apart.
Symmetry == Permutations(Invocations)
-----------------------------------------------------------------------------
(* Properties: DynamoDB's own, and of Lambda                               *)

\* The committed version's files stay intact while another is stored (server.rs:853).
PackagePresent == L!PackagePresent

\* The files of a version of a function outlive everything that points at or runs from them,
\* and nothing else is kept (Lambda's code_store.rs and package jobs).
FilesOutliveUse == L!FilesOutliveUse

\* Environments are reused only for what they were started for, one invocation at a time,
\* answers belong to their invocation, and shutdown leaves none (Lambda's runtime.rs).
EnvironmentsSafe == L!EnvironmentsSafe

=============================================================================
