------------------------------ MODULE DynamoDb ------------------------------
(***************************************************************************)
(* The DynamoDB emulator (services/dynamodb): tables, items, indexes,      *)
(* streams, time to live, transactions and backups, saved as a whole in    *)
(* state.json after every write.                                           *)
(*                                                                         *)
(* One mutex serialises the requests, so a request is one step: dispatch   *)
(* expires items whose time has come (with a save of its own), then runs   *)
(* the operation, which changes memory, saves, and undoes its change by    *)
(* hand if the save failed.  What runs side by side is the clients: a scan *)
(* takes a page at a time and a stream is read through an iterator, while  *)
(* others write.                                                           *)
(*                                                                         *)
(* An item is a function from attributes to typed values.  A table's key   *)
(* is one attribute; a range key would be compared and stored the same     *)
(* way.  ARNs, sizes, billing modes and capacity figures are left out.     *)
(***************************************************************************)
EXTENDS Integers, FiniteSets, Functions, SequencesExt

CONSTANTS
  Workloads,    \* what clients do together: records of the operations and inputs they use
  Keys,         \* values of the key attribute
  Indexes,      \* global secondary indexes, each with its key attribute
  None,         \* an absent option
  MaxTables,    \* Config::max_tables
  MaxClock,     \* bound on time
  MaxLabels,    \* bound on the streams ever enabled
  MaxRecords,   \* bound on the records of a stream
  MaxNumber,    \* bound on the numbers ADD makes
  MaxBackups    \* bound on the backups kept

VARIABLES
  workload,  \* what the clients do in this behaviour
  phase,     \* "up" or "down"
  srv,       \* Server: tables, backups, the encoded tables and the dirty ones
  disk,      \* the content of state.json
  clock,     \* now_unix
  labels,    \* stream labels given out; a label is a millisecond, and no two are the same
  reader,    \* a client reading a stream
  pager      \* a client scanning a table page by page

clientVars == <<reader, pager>>
vars == <<workload, phase, srv, disk, clock, labels, clientVars>>

\* A workload names tables, items to put, update expressions (sequences of clauses),
\* condition expressions (sequences (OR) of sequences (AND) of predicates), batches of
\* writes, indexes, stream view types and page sizes (0 is none).
ASSUME ConstantsAssumption ==
  /\ \A w \in Workloads :
       /\ \A b \in w.batches : \A i \in DOMAIN b : b[i].table \in w.tables /\ b[i].key \in Keys
       /\ \A x \in w.items : "pk" \in DOMAIN x => x["pk"] \in Keys
       /\ w.limits \subseteq Nat
       /\ w.indexes \subseteq DOMAIN Indexes
  /\ MaxTables \in Nat /\ MaxClock \in Nat /\ MaxLabels \in Nat
  /\ None \notin Nat /\ None # "off"

With(f, x, y) == [z \in DOMAIN f \cup {x} |-> IF z = x THEN y ELSE f[z]]

Without(f, S) == Restrict(f, DOMAIN f \ S)

Empty == [x \in {} |-> x]

-----------------------------------------------------------------------------
(***************************************************************************)
(* Attribute values and expressions.                                       *)
(***************************************************************************)

\* The type names in the order in which their names compare.
TypeNames == <<"B", "BOOL", "BS", "L", "M", "N", "NS", "NULL", "S", "SS">>

TypeRank(type) == CHOOSE i \in DOMAIN TypeNames : TypeNames[i] = type

\* compare_attribute_values: numbers as numbers, the rest by encoding, types by name.
Before(a, b) ==
  \/ TypeRank(a.type) < TypeRank(b.type)
  \/ a.type = b.type /\ a.val < b.val

\* item_key: the key of an item, if it has one.
HasKey(item) == "pk" \in DOMAIN item

\* A binary function or comparison needs its value to be given.
Missing(p) == p.op \notin {"exists", "absent"} /\ p.value = None

\* match_predicate on an item that has the attribute
Holds(p, x) ==
  CASE p.op = "="       -> x = p.value
    [] p.op = "<>"      -> x # p.value
    [] p.op = "<"       -> Before(x, p.value)
    [] p.op = "<="      -> ~Before(p.value, x)
    [] p.op = "between" -> ~Before(x, p.value[1]) /\ ~Before(p.value[2], x)
    [] p.op = "in"      -> x \in p.value
    [] p.op = "type"    -> x.type = p.value

\* match_predicate: an absent attribute fulfils no comparison, and NOT turns that around.
Verdict(p, item) ==
  LET has == p.attr \in DOMAIN item
      met == CASE p.op = "exists" -> has
               [] p.op = "absent" -> ~has
               [] OTHER           -> has /\ Holds(p, item[p.attr])
  IN IF Missing(p) /\ (p.op = "in" => has) THEN "error"
     ELSE IF met # p.negated THEN "yes" ELSE "no"

\* The verdict a left-to-right evaluation stops at, or the one it ends with.
FirstOf(verdicts, goOn) ==
  LET stops == {i \in DOMAIN verdicts : verdicts[i] # goOn}
  IN IF stops = {} THEN goOn ELSE verdicts[Min(stops)]

\* match_conjunctive_expression and match_key_condition
Conjunction(parts, item) == FirstOf([i \in DOMAIN parts |-> Verdict(parts[i], item)], "yes")

Matches(condition, item) ==
  FirstOf([i \in DOMAIN condition |-> Conjunction(condition[i], item)], "no")

\* check_condition: no expression is fulfilled, and an item that is not there has no attribute.
Passes(condition, item) ==
  condition = <<>> \/ Matches(condition, IF item = None THEN Empty ELSE item) = "yes"

\* add_attribute_value
Added(x, increment) == IF x = None THEN increment ELSE [x EXCEPT !.val = @ + increment.val]

\* apply_update_expression, one clause after the other on the item as the previous left it;
\* a clause that cannot be applied refuses the request.
Applied(clause, item) ==
  LET old == IF clause.attr \in DOMAIN item THEN item[clause.attr] ELSE None IN
  CASE clause.op = "SET"           -> With(item, clause.attr, clause.value)
    [] clause.op = "if_not_exists" -> IF old = None THEN With(item, clause.attr, clause.value) ELSE item
    [] clause.op = "REMOVE"        -> Without(item, {clause.attr})
    [] clause.op = "ADD"           -> With(item, clause.attr, Added(old, clause.value))

\* ADD refuses what is not a number, or not added to one; what follows a SET of the same
\* attribute sees the value set.
Applicable(update, item) ==
  \A i \in DOMAIN update : update[i].op = "ADD" =>
    LET sofar == FoldLeft(LAMBDA acc, c : Applied(c, acc), item, SubSeq(update, 1, i - 1)) IN
    /\ update[i].value.type = "N"
    /\ update[i].attr \in DOMAIN sofar => sofar[update[i].attr].type = "N"

Updated(update, item) == FoldLeft(LAMBDA acc, c : Applied(c, acc), item, update)

Bounded(item) == \A a \in DOMAIN item : item[a].type = "N" => item[a].val <= MaxNumber

-----------------------------------------------------------------------------
(***************************************************************************)
(* Tables.                                                                 *)
(***************************************************************************)

NewDescription == [count |-> 0, indexes |-> Empty, stream |-> None, label |-> None, ttl |-> FALSE]

\* TableState::new
NewTable(description) ==
  [desc |-> description, items |-> Empty, records |-> <<>>, tags |-> {}, pitr |-> FALSE,
   policy |-> None]

\* item_count and update_index_item_counts
Counted(table) ==
  [table EXCEPT
     !.desc.count = Cardinality(DOMAIN table.items),
     !.desc.indexes = [i \in DOMAIN @ |->
        Cardinality({k \in DOMAIN table.items : Indexes[i] \in DOMAIN table.items[k]})]]

StreamEnabled(desc) == desc.stream \notin {None, "off"}

\* enable_stream_description: a label is kept while the stream stays enabled.
StreamOn(desc, view, label) ==
  [desc EXCEPT !.stream = view, !.label = IF @ = None THEN label ELSE @]

StreamOff(desc) == [desc EXCEPT !.stream = "off", !.label = None]

EventName(old) == IF old = None THEN "INSERT" ELSE "MODIFY"

\* build_stream_record: what the view shows of a write; there is none for a delete of nothing,
\* or for an item that has lost its key.
Record(table, event, old, new) ==
  LET source == IF event = "REMOVE" THEN old ELSE new
      view   == table.desc.stream
  IN [event |-> event, key |-> source["pk"], seq |-> Len(table.records) + 1,
      old |-> IF view \in {"OLD_IMAGE", "NEW_AND_OLD_IMAGES"} THEN old ELSE None,
      new |-> IF view \in {"NEW_IMAGE", "NEW_AND_OLD_IMAGES"} THEN new ELSE None]

Recorded(table, event, old, new) ==
  LET source == IF event = "REMOVE" THEN old ELSE new IN
  IF StreamEnabled(table.desc) /\ source # None /\ (source # None => HasKey(source))
  THEN [table EXCEPT !.records = Append(@, Record(table, event, old, new))]
  ELSE table

ItemAt(table, k) == IF k \in DOMAIN table.items THEN table.items[k] ELSE None

\* The items `new' names are set, or removed where it says None.
SetItems(table, new) ==
  [table EXCEPT !.items =
     [k \in {k \in DOMAIN @ \cup DOMAIN new : k \in DOMAIN new => new[k] # None} |->
        IF k \in DOMAIN new THEN new[k] ELSE @[k]]]

SetItem(table, k, item) == SetItems(table, [x \in {k} |-> item])

-----------------------------------------------------------------------------
(***************************************************************************)
(* state.json.                                                             *)
(***************************************************************************)

Blank == [tables |-> Empty, backups |-> Empty, backupTables |-> Empty, backupItems |-> Empty,
          cache |-> Empty, dirty |-> {}]

\* persist: a table that is clean and was encoded before is written as it was encoded.
File(s) ==
  [tables |-> [t \in DOMAIN s.tables |->
                 IF t \in s.dirty \/ t \notin DOMAIN s.cache THEN s.tables[t] ELSE s.cache[t]],
   backups |-> s.backups, backupTables |-> s.backupTables, backupItems |-> s.backupItems]

\* The rest of persist, once the file is in place.
Saved(s) == [s EXCEPT !.cache = File(s).tables, !.dirty = {}]

\* load
Loaded(f) ==
  [tables |-> [t \in DOMAIN f.tables |-> Counted(f.tables[t])],
   backups |-> f.backups, backupTables |-> f.backupTables, backupItems |-> f.backupItems,
   cache |-> Empty, dirty |-> {}]

Dirtied(s, T) == [s EXCEPT !.dirty = @ \cup T]

-----------------------------------------------------------------------------
(***************************************************************************)
(* Time to live.                                                           *)
(***************************************************************************)

\* Mutant: an item expires one second late.
ExpiredLate(item) ==
  "ttl" \in DOMAIN item /\ item["ttl"].type = "N" /\ item["ttl"].val < clock

\* ttl_item_expired
ItemExpired(item) ==
  "ttl" \in DOMAIN item /\ item["ttl"].type = "N" /\ item["ttl"].val <= clock

ExpiredKeys(table) ==
  IF table.desc.ttl THEN {k \in DOMAIN table.items : ItemExpired(table.items[k])} ELSE {}

Expiring(s) == {t \in DOMAIN s.tables : ExpiredKeys(s.tables[t]) # {}}

\* expire_ttl_items, up to its save: no stream record is written.
Unexpired(table) == Counted([table EXCEPT !.items = Without(@, ExpiredKeys(table))])

Swept(s) ==
  Dirtied([s EXCEPT !.tables = [t \in DOMAIN s.tables |->
             IF t \in Expiring(s) THEN Unexpired(s.tables[t]) ELSE s.tables[t]]], Expiring(s))

\* What a failed save of it leaves: the items are put back and counted.
Unswept(s) ==
  Dirtied([s EXCEPT !.tables = [t \in DOMAIN s.tables |->
             IF t \in Expiring(s) THEN Counted(s.tables[t]) ELSE s.tables[t]]], Expiring(s))

\* What an operation finds after dispatch expired what there was to expire.
Current == IF Expiring(srv) = {} THEN srv ELSE Saved(Swept(srv))

CurrentDisk == IF Expiring(srv) = {} THEN disk ELSE File(Swept(srv))

-----------------------------------------------------------------------------
(***************************************************************************)
(* Reading.                                                                *)
(***************************************************************************)

\* compare_items_by_schema: an absent attribute comes first, ties go by key.
ItemBefore(items, attr, k, l) ==
  LET has(x) == attr \in DOMAIN items[x]
      val(x) == items[x][attr]
  IN
  \/ ~has(k) /\ has(l)
  \/ has(k) /\ has(l) /\ Before(val(k), val(l))
  \/ has(k) = has(l) /\ (has(k) => val(k) = val(l)) /\ Before(k, l)

\* query_key_schema
SchemaOf(index) == IF index = None THEN "pk" ELSE Indexes[index]

\* sorted_items_for_query: the keys of the table in the order of the index.
Sorted(items, index) ==
  SetToSortSeq(DOMAIN items, LAMBDA k, l : ItemBefore(items, SchemaOf(index), k, l))

\* sorted_items_for_scan: an index holds the items that have its key.
SortedForScan(items, index) ==
  SelectSeq(Sorted(items, index),
            LAMBDA k : index = None \/ SchemaOf(index) \in DOMAIN items[k])

\* Mutant: the item named by the start key is returned again.
FromStart(source, start) ==
  LET at == {i \in DOMAIN source : source[i] = start}
  IN IF start = None THEN source
     ELSE IF at = {} THEN <<>> ELSE SubSeq(source, Min(at), Len(source))

\* collect_items skips to the item with the start key; if it is gone, nothing is left.
After(source, start) ==
  LET at == {i \in DOMAIN source : source[i] = start}
  IN IF start = None THEN source
     ELSE IF at = {} THEN <<>> ELSE SubSeq(source, Min(at) + 1, Len(source))

\* collect_items: the page after start, and the key to go on from, which is made from the
\* attributes of the last item.  A scan counts what it skips, a query does not.
Page(items, source, limit, start, wanted, counts) ==
  LET counted == SelectSeq(After(source, start), LAMBDA k : counts \/ k \in wanted)
      full    == limit > 0 /\ Len(counted) >= limit
      last    == counted[limit]
      rest    == After(source, last)
      more    == IF counts THEN rest # <<>> ELSE Range(rest) \cap wanted # {}
  IN [keys |-> SelectSeq(IF full THEN SubSeq(counted, 1, limit) ELSE counted, LAMBDA k : k \in wanted),
      last |-> IF full /\ more /\ HasKey(items[last]) THEN items[last]["pk"] ELSE None]

\* scan without and query with a condition on the key
ScanPage(table, index, limit, start, condition) ==
  Page(table.items, SortedForScan(table.items, index), limit, start,
       {k \in DOMAIN table.items : Passes(condition, table.items[k])}, TRUE)

QueryPage(table, index, limit, start, conditions) ==
  Page(table.items, Sorted(table.items, index), limit, start,
       {k \in DOMAIN table.items : Conjunction(conditions, table.items[k]) = "yes"}, FALSE)

\* get_item, batch_get_item and transact_get_items look the key up.
GetItem(table, k) == ItemAt(table, k)

BatchGet(table, keys) ==
  SelectSeq([i \in DOMAIN keys |-> GetItem(table, keys[i])], LAMBDA x : x # None)

\* conditions_match, for equality conditions on attributes
PartiQLMatch(item, conditions) ==
  \A c \in conditions : c.attr \in DOMAIN item /\ item[c.attr] = c.value

CoversKey(conditions) == \E c \in conditions : c.attr = "pk"

\* execute_transaction: the first item, in key order, that fulfils every condition.
Select(table, conditions) ==
  LET found == SelectSeq(Sorted(table.items, None),
                         LAMBDA k : PartiQLMatch(table.items[k], conditions))
  IN IF CoversKey(conditions) /\ found # <<>> THEN table.items[Head(found)] ELSE None

-----------------------------------------------------------------------------
(***************************************************************************)
(* What the clients remember.                                              *)
(***************************************************************************)

NoReader == [on |-> FALSE, table |-> None, label |-> None, from |-> 0, pos |-> 0, got |-> <<>>]

NoPager == [on |-> FALSE, table |-> None, index |-> None, limit |-> 0, start |-> None,
            seen |-> <<>>, stayed |-> {}, lost |-> FALSE]

InIndex(table, index) ==
  {k \in DOMAIN table.items : index = None \/ Indexes[index] \in DOMAIN table.items[k]}

\* Every item is stored under the key its attributes give.
Whole(table) == \A k \in DOMAIN table.items : HasKey(table.items[k]) /\ table.items[k]["pk"] = k

\* A scan goes on: which items have been there all along, unmoved in the order; and whether
\* the item the next page starts after is gone, or an update has changed a key attribute.
Watched(tables) ==
  IF ~pager.on THEN pager
  ELSE IF pager.table \notin DOMAIN tables THEN [pager EXCEPT !.lost = TRUE]
  ELSE LET table == tables[pager.table]
           then  == srv.tables[pager.table]
           still(k) == /\ k \in InIndex(table, pager.index)
                       /\ pager.index # None => k \in DOMAIN then.items
                            /\ table.items[k][SchemaOf(pager.index)] = then.items[k][SchemaOf(pager.index)]
       IN [pager EXCEPT
             !.stayed = {k \in @ : still(k)},
             !.lost = @ \/ ~Whole(table) \/ (pager.start # None /\ ~still(pager.start))]

-----------------------------------------------------------------------------
(***************************************************************************)
(* Requests.                                                               *)
(***************************************************************************)

Outcomes == {"saved", "failed", "killed"}

\* A request that changes the server to `to', saves it, and is left with `back' if the save
\* fails; the process may also be killed with the file already renamed into place.
Write(to, back, outcome) ==
  /\ srv' = CASE outcome = "saved"  -> Saved(to)
              [] outcome = "failed" -> back
              [] outcome = "killed" -> Blank
  /\ disk' = IF outcome = "failed" THEN CurrentDisk ELSE File(to)
  /\ phase' = IF outcome = "killed" THEN "down" ELSE "up"
  /\ pager' = Watched(IF outcome = "failed" THEN back.tables ELSE to.tables)
  /\ UNCHANGED <<workload, clock, reader>>

Called(op) == phase = "up" /\ op \in workload.ops

\* create_table
CreateTable(t, view, index, outcome) ==
  LET plain == [NewDescription EXCEPT !.indexes = IF index = None THEN Empty ELSE With(Empty, index, 0)]
      desc  == IF view = None THEN plain ELSE StreamOn(plain, view, labels + 1)
      to    == Dirtied([Current EXCEPT !.tables = With(@, t, NewTable(desc))], {t})
      back  == [to EXCEPT !.tables = Without(@, {t}), !.dirty = @ \ {t}]
  IN
  /\ Called("CreateTable")
  /\ t \notin DOMAIN Current.tables
  /\ Cardinality(DOMAIN Current.tables) < MaxTables
  /\ view # None => labels < MaxLabels
  /\ Write(to, back, outcome)
  /\ labels' = IF view = None THEN labels ELSE labels + 1

\* delete_table
DeleteTable(t, outcome) ==
  LET to == [Current EXCEPT !.tables = Without(@, {t})] IN
  /\ Called("DeleteTable")
  /\ t \in DOMAIN Current.tables
  /\ Write(to, [to EXCEPT !.tables = With(@, t, Current.tables[t])], outcome)
  /\ UNCHANGED labels

\* A stream specification enables, disables, or is not given.
StreamChanged(desc, view, label) ==
  CASE view = None  -> desc
    [] view = "off" -> StreamOff(desc)
    [] OTHER        -> StreamOn(desc, view, label)

\* apply_global_secondary_index_updates
IndexesChanged(desc, change, index) ==
  CASE change = "create" -> [desc EXCEPT !.indexes = With(@, index, 0)]
    [] change = "delete" -> [desc EXCEPT !.indexes = Without(@, {index})]
    [] change = "none"   -> desc

\* update_table: the stream, then the index, then the counts.
UpdateTable(t, view, change, index, outcome) ==
  LET table  == Current.tables[t]
      stream == StreamChanged(table.desc, view, labels + 1)
      fresh  == view \notin {None, "off"} /\ table.desc.label = None
      desc   == IndexesChanged(stream, change, index)
      to     == Dirtied([Current EXCEPT !.tables[t] = Counted([table EXCEPT !.desc = desc])], {t})
  IN
  /\ Called("UpdateTable")
  /\ t \in DOMAIN Current.tables
  /\ change = "create" => index \notin DOMAIN table.desc.indexes
  /\ change = "delete" => index \in DOMAIN table.desc.indexes
  /\ fresh => labels < MaxLabels
  /\ Write(to, [to EXCEPT !.tables[t].desc = table.desc], outcome)
  /\ labels' = IF fresh THEN labels + 1 ELSE labels

\* What put_item, delete_item and update_item do when the save fails.
Restored(table, k, old, length) ==
  Counted([SetItem(table, k, old) EXCEPT !.records = SubSeq(@, 1, length)])

\* The tail of put_item, update_item and delete_item.
WriteItem(t, k, event, new, outcome) ==
  LET table == Current.tables[t]
      old   == ItemAt(table, k)
      after == Recorded(Counted(SetItem(table, k, new)), event, old, new)
      to    == Dirtied([Current EXCEPT !.tables[t] = after], {t})
  IN
  /\ Len(after.records) <= MaxRecords
  /\ Write(to, [to EXCEPT !.tables[t] = Restored(after, k, old, Len(table.records))], outcome)
  /\ UNCHANGED labels

PutItem(t, item, condition, outcome) ==
  LET old == ItemAt(Current.tables[t], item["pk"]) IN
  /\ Called("PutItem")
  /\ t \in DOMAIN Current.tables
  /\ HasKey(item)
  /\ Passes(condition, old)
  /\ WriteItem(t, item["pk"], EventName(old), item, outcome)

DeleteItem(t, k, condition, outcome) ==
  /\ Called("DeleteItem")
  /\ t \in DOMAIN Current.tables
  /\ Passes(condition, ItemAt(Current.tables[t], k))
  /\ WriteItem(t, k, "REMOVE", None, outcome)

\* The item an update starts from: the one there is, or the key.
Base(table, k) == IF ItemAt(table, k) = None THEN [a \in {"pk"} |-> k] ELSE table.items[k]

UpdateItem(t, k, update, condition, outcome) ==
  LET table == Current.tables[t] IN
  /\ Called("UpdateItem")
  /\ t \in DOMAIN Current.tables
  /\ Passes(condition, ItemAt(table, k))
  /\ Applicable(update, Base(table, k))
  /\ Bounded(Updated(update, Base(table, k)))
  /\ WriteItem(t, k, EventName(ItemAt(table, k)), Updated(update, Base(table, k)), outcome)

-----------------------------------------------------------------------------
\* What a plan writes to a table: of several writes to one key the last stands.
Touched(plan) == {plan[i].table : i \in DOMAIN plan}

WrittenKeys(plan, t) == {plan[i].key : i \in {j \in DOMAIN plan : plan[j].table = t}}

LastWrite(plan, t, k) == plan[Max({i \in DOMAIN plan : plan[i].table = t /\ plan[i].key = k})]

Writes(plan, t) == [k \in WrittenKeys(plan, t) |-> LastWrite(plan, t, k).put]

\* apply_planned_writes: all writes in order, then the counts; no stream records.
Planned(s, plan) ==
  Dirtied([s EXCEPT !.tables = [t \in DOMAIN s.tables |->
             IF t \in Touched(plan) THEN Counted(SetItems(s.tables[t], Writes(plan, t)))
             ELSE s.tables[t]]],
          Touched(plan))

\* Mutant: the items that were replaced come back, those that were not there stay.
PutBackReplaced(s, before, plan) ==
  [s EXCEPT !.tables = [t \in DOMAIN s.tables |->
     IF t \in Touched(plan)
     THEN Counted(SetItems(s.tables[t],
                           [k \in WrittenKeys(plan, t) \cap DOMAIN before.tables[t].items |->
                              before.tables[t].items[k]]))
     ELSE s.tables[t]]]

\* Its rollback: every item as it was before the first write, then the counts.
PutBack(s, before, plan) ==
  [s EXCEPT !.tables = [t \in DOMAIN s.tables |->
     IF t \in Touched(plan)
     THEN Counted(SetItems(s.tables[t], [k \in WrittenKeys(plan, t) |-> ItemAt(before.tables[t], k)]))
     ELSE s.tables[t]]]

ApplyPlan(plan, outcome) ==
  LET to == Planned(Current, plan) IN
  /\ Write(to, PutBack(to, Current, plan), outcome)
  /\ UNCHANGED labels

\* batch_write_item: a batch may write the same key twice.
BatchWriteItem(batch, outcome) ==
  LET plan == [i \in DOMAIN batch |-> [table |-> batch[i].table, key |-> batch[i].key, put |-> batch[i].put]] IN
  /\ Called("BatchWriteItem")
  /\ \A i \in DOMAIN batch : batch[i].table \in DOMAIN Current.tables /\ batch[i].op \in {"put", "delete"}
  /\ ApplyPlan(plan, outcome)

\* validate_transact_put, _update, _delete and _condition_check, all on the state before.
Planable(w) ==
  /\ w.table \in DOMAIN Current.tables
  /\ Passes(w.condition, ItemAt(Current.tables[w.table], w.key))
  /\ w.op = "update" => Applicable(w.update, Base(Current.tables[w.table], w.key))

PlannedPut(w) ==
  IF w.op = "update" THEN Updated(w.update, Base(Current.tables[w.table], w.key)) ELSE w.put

\* transact_write_items: no two operations on one item, every condition, or nothing.
TransactWriteItems(batch, outcome) ==
  LET writes == {i \in DOMAIN batch : batch[i].op # "check"}
      plan   == [i \in writes |-> [table |-> batch[i].table, key |-> batch[i].key,
                                   put |-> PlannedPut(batch[i])]]
  IN
  /\ Called("TransactWriteItems")
  /\ \A i, j \in DOMAIN batch :
       batch[i].table = batch[j].table /\ batch[i].key = batch[j].key => i = j
  /\ \A i \in DOMAIN batch : Planable(batch[i])
  /\ \A i \in DOMAIN plan : plan[i].put # None => Bounded(plan[i].put)
  /\ ApplyPlan(plan, outcome)

-----------------------------------------------------------------------------
\* update_time_to_live, update_continuous_backups, tag_resource, untag_resource,
\* put_resource_policy and delete_resource_policy: one field, put back if the save fails.
WriteField(t, to, back, outcome) ==
  /\ Write(Dirtied([Current EXCEPT !.tables[t] = to], {t}), Dirtied([Current EXCEPT !.tables[t] = back], {t}),
           outcome)
  /\ UNCHANGED labels

UpdateTimeToLive(t, enabled, outcome) ==
  LET table == Current.tables[t] IN
  /\ Called("UpdateTimeToLive")
  /\ t \in DOMAIN Current.tables
  /\ LET to == [table EXCEPT !.desc.ttl = enabled]
     IN WriteField(t, to, [to EXCEPT !.desc.ttl = table.desc.ttl], outcome)

UpdateContinuousBackups(t, enabled, outcome) ==
  LET table == Current.tables[t] IN
  /\ Called("UpdateContinuousBackups")
  /\ t \in DOMAIN Current.tables
  /\ LET to == [table EXCEPT !.pitr = enabled]
     IN WriteField(t, to, [to EXCEPT !.pitr = table.pitr], outcome)

TagKeys == {"k"}

TagResource(t, keys, outcome) ==
  LET table == Current.tables[t] IN
  /\ Called("TagResource")
  /\ t \in DOMAIN Current.tables
  /\ LET to == [table EXCEPT !.tags = @ \cup keys]
     IN WriteField(t, to, [to EXCEPT !.tags = table.tags], outcome)

UntagResource(t, keys, outcome) ==
  LET table == Current.tables[t] IN
  /\ Called("UntagResource")
  /\ t \in DOMAIN Current.tables
  /\ LET to == [table EXCEPT !.tags = @ \ keys]
     IN WriteField(t, to, [to EXCEPT !.tags = table.tags], outcome)

PutResourcePolicy(t, policy, outcome) ==
  LET table == Current.tables[t] IN
  /\ Called("PutResourcePolicy")
  /\ t \in DOMAIN Current.tables
  /\ LET to == [table EXCEPT !.policy = policy]
     IN WriteField(t, to, [to EXCEPT !.policy = table.policy], outcome)

DeleteResourcePolicy(t, outcome) ==
  LET table == Current.tables[t] IN
  /\ Called("DeleteResourcePolicy")
  /\ t \in DOMAIN Current.tables
  /\ LET to == [table EXCEPT !.policy = None]
     IN WriteField(t, to, [to EXCEPT !.policy = table.policy], outcome)

-----------------------------------------------------------------------------
\* create_backup: an ARN is made from the table, the second and the name.
CreateBackup(t, name, outcome) ==
  LET arn == <<t, clock, name>>
      table == Current.tables[t]
      to == [Current EXCEPT !.backups = With(@, arn, [source |-> t, count |-> table.desc.count]),
                            !.backupTables = With(@, arn, table.desc),
                            !.backupItems = With(@, arn, table.items)]
  IN
  /\ Called("CreateBackup")
  /\ t \in DOMAIN Current.tables
  /\ arn \notin DOMAIN Current.backups
  /\ Cardinality(DOMAIN Current.backups) < MaxBackups
  /\ Write(to, [to EXCEPT !.backups = Without(@, {arn}), !.backupTables = Without(@, {arn}),
                          !.backupItems = Without(@, {arn})], outcome)
  /\ UNCHANGED labels

Forgotten(s, arn) ==
  [s EXCEPT !.backups = Without(@, {arn}), !.backupTables = Without(@, {arn}),
            !.backupItems = Without(@, {arn})]

\* delete_backup
DeleteBackup(arn, outcome) ==
  LET to == Forgotten(Current, arn)
      back == [to EXCEPT !.backups = With(@, arn, Current.backups[arn]),
                         !.backupTables = With(@, arn, Current.backupTables[arn]),
                         !.backupItems = With(@, arn, Current.backupItems[arn])]
  IN
  /\ Called("DeleteBackup")
  /\ arn \in DOMAIN Current.backups
  /\ Write(to, back, outcome)
  /\ UNCHANGED labels

\* restored_table_description: the description of the backup, without its stream.
RestoredDescription(s, arn) == [s.backupTables[arn] EXCEPT !.stream = None, !.label = None]

\* restore_table_from_backup
RestoreTableFromBackup(arn, t, outcome) ==
  LET desc  == RestoredDescription(Current, arn)
      table == Counted([NewTable(desc) EXCEPT !.items = Current.backupItems[arn]])
      to    == Dirtied([Current EXCEPT !.tables = With(@, t, table)], {t})
  IN
  /\ Called("RestoreTableFromBackup")
  /\ arn \in DOMAIN Current.backups
  /\ t \notin DOMAIN Current.tables
  /\ Cardinality(DOMAIN Current.tables) < MaxTables
  /\ Write(to, [to EXCEPT !.tables = Without(@, {t}), !.dirty = @ \ {t}], outcome)
  /\ UNCHANGED labels

-----------------------------------------------------------------------------
(***************************************************************************)
(* Requests that read.                                                     *)
(***************************************************************************)

\* dispatch, for a request that changes nothing itself.
Served ==
  /\ srv' = Current
  /\ disk' = CurrentDisk
  /\ UNCHANGED <<workload, phase, clock, labels>>

\* A refused request, or a read no client keeps the answer of.
Refuse ==
  /\ phase = "up"
  /\ Expiring(srv) # {}
  /\ Served
  /\ pager' = Watched(Current.tables)
  /\ UNCHANGED reader

\* The save of the expiry fails, and with it the request.
ExpiryFails(outcome) ==
  /\ phase = "up"
  /\ Expiring(srv) # {}
  /\ outcome \in {"failed", "killed"}
  /\ srv' = IF outcome = "failed" THEN Unswept(srv) ELSE Blank
  /\ disk' = IF outcome = "failed" THEN disk ELSE File(Swept(srv))
  /\ phase' = IF outcome = "failed" THEN "up" ELSE "down"
  /\ pager' = Watched(IF outcome = "failed" THEN srv.tables ELSE Swept(srv).tables)
  /\ UNCHANGED <<workload, clock, labels, reader>>

\* The first page of a scan.
StartScan(t, index, limit) ==
  LET table == Current.tables[t]
      page  == ScanPage(table, index, limit, None, <<>>)
  IN
  /\ Called("Scan")
  /\ ~pager.on
  /\ t \in DOMAIN Current.tables
  /\ index # None => index \in DOMAIN table.desc.indexes
  /\ Served
  /\ pager' = [on |-> page.last # None, table |-> t, index |-> index, limit |-> limit,
               start |-> page.last, seen |-> page.keys, stayed |-> InIndex(table, index),
               lost |-> ~Whole(table)]
  /\ UNCHANGED reader

\* The next page, if the table and the index are still there.
NextPage ==
  LET table == Current.tables[pager.table]
      page  == ScanPage(table, pager.index, pager.limit, pager.start, <<>>)
      now   == Watched(Current.tables)
  IN
  /\ Called("Scan")
  /\ pager.on
  /\ pager.table \in DOMAIN Current.tables
  /\ pager.index # None => pager.index \in DOMAIN table.desc.indexes
  /\ Served
  /\ pager' = [now EXCEPT !.on = page.last # None, !.start = page.last, !.seen = @ \o page.keys]
  /\ UNCHANGED reader

\* The scan is over, and the client forgets it.
EndScan ==
  /\ Called("Scan")
  /\ ~pager.on /\ pager # NoPager
  /\ pager' = NoPager
  /\ UNCHANGED <<workload, phase, srv, disk, clock, labels, reader>>

\* table_for_stream
StreamThere(t, label) ==
  /\ t \in DOMAIN Current.tables
  /\ StreamEnabled(Current.tables[t].desc)
  /\ Current.tables[t].desc.label = label

\* get_shard_iterator: from the beginning, the end, or at or after a record.
GetShardIterator(t, position) ==
  LET table == Current.tables[t] IN
  /\ Called("GetRecords")
  /\ t \in DOMAIN Current.tables
  /\ StreamThere(t, table.desc.label)
  /\ position \in 0..Len(table.records)
  /\ Served
  /\ reader' = [on |-> TRUE, table |-> t, label |-> table.desc.label, from |-> position,
                pos |-> position, got |-> <<>>]
  /\ pager' = Watched(Current.tables)

\* get_records and stream_records: at most a thousand records, or as many as asked for.
GetRecords(limit) ==
  LET records == Current.tables[reader.table].records
      end     == IF limit = 0 THEN Len(records) ELSE Min({Len(records), reader.pos + limit})
      got     == SubSeq(records, reader.pos + 1, end)
  IN
  /\ Called("GetRecords")
  /\ reader.on
  /\ StreamThere(reader.table, reader.label)
  /\ Served
  /\ reader' = [reader EXCEPT !.pos = @ + Len(got), !.got = @ \o got]
  /\ pager' = Watched(Current.tables)

-----------------------------------------------------------------------------
Tick ==
  /\ clock < MaxClock
  /\ "Time" \in workload.ops
  /\ clock' = clock + 1
  /\ UNCHANGED <<workload, phase, srv, disk, labels, clientVars>>

Crash ==
  /\ phase = "up"
  /\ phase' = "down"
  /\ srv' = Blank
  /\ UNCHANGED <<workload, disk, clock, labels, clientVars>>

\* Server::new
Restart ==
  /\ phase = "down"
  /\ phase' = "up"
  /\ srv' = Loaded(disk)
  /\ UNCHANGED <<workload, disk, clock, labels, clientVars>>

Init ==
  /\ workload \in Workloads
  /\ phase = "up"
  /\ srv = Blank
  /\ disk = File(Blank)
  /\ clock = 0
  /\ labels = 0
  /\ reader = NoReader
  /\ pager = NoPager

WriteRequest(t, outcome) ==
  \/ \E view \in workload.views \cup {None}, index \in workload.indexes \cup {None} : CreateTable(t, view, index, outcome)
  \/ DeleteTable(t, outcome)
  \/ \E view \in workload.views \cup {"off"} : UpdateTable(t, view, "none", None, outcome)
  \/ \E change \in {"create", "delete"}, index \in workload.indexes : UpdateTable(t, None, change, index, outcome)
  \/ \E item \in workload.items, condition \in workload.conditions : PutItem(t, item, condition, outcome)
  \/ \E k \in Keys, condition \in workload.conditions : DeleteItem(t, k, condition, outcome)
  \/ \E k \in Keys, update \in workload.updates, condition \in workload.conditions : UpdateItem(t, k, update, condition, outcome)
  \/ \E enabled \in BOOLEAN : UpdateTimeToLive(t, enabled, outcome) \/ UpdateContinuousBackups(t, enabled, outcome)
  \/ \E keys \in (SUBSET TagKeys) \ {{}} : TagResource(t, keys, outcome) \/ UntagResource(t, keys, outcome)
  \/ PutResourcePolicy(t, "p", outcome)
  \/ DeleteResourcePolicy(t, outcome)
  \/ \E name \in {"b"} : CreateBackup(t, name, outcome)
  \/ \E arn \in DOMAIN srv.backups : RestoreTableFromBackup(arn, t, outcome)

Next ==
  \/ \E t \in workload.tables, outcome \in Outcomes : WriteRequest(t, outcome)
  \/ \E batch \in workload.batches, outcome \in Outcomes : BatchWriteItem(batch, outcome) \/ TransactWriteItems(batch, outcome)
  \/ \E arn \in DOMAIN srv.backups, outcome \in Outcomes : DeleteBackup(arn, outcome)
  \/ Refuse
  \/ \E outcome \in Outcomes : ExpiryFails(outcome)
  \/ \E t \in workload.tables, index \in workload.indexes \cup {None}, limit \in workload.limits : StartScan(t, index, limit)
  \/ NextPage
  \/ EndScan
  \/ \E t \in workload.tables, position \in 0..MaxRecords : GetShardIterator(t, position)
  \/ \E limit \in workload.limits : GetRecords(limit)
  \/ Tick
  \/ Crash
  \/ Restart

Spec == Init /\ [][Next]_vars

-----------------------------------------------------------------------------
(***************************************************************************)
(* Properties.                                                             *)
(***************************************************************************)

\* Every variable has its type.
TypeOK ==
  /\ phase \in {"up", "down"}
  /\ DOMAIN srv.tables \subseteq workload.tables
  /\ \A t \in DOMAIN srv.tables : DOMAIN srv.tables[t].items \subseteq Keys
  /\ DOMAIN srv.cache \subseteq DOMAIN srv.tables
  /\ srv.dirty \subseteq workload.tables
  /\ clock \in 0..MaxClock /\ labels \in 0..MaxLabels

\* What the server answers from is what a restart would load: whatever a request changed
\* before its save failed has been undone, item by item, record by record, count by count,
\* and what was not encoded again for a save had not changed.
NothingUnsaved ==
  phase = "up" => /\ Loaded(disk).tables = srv.tables
                  /\ \A f \in {"backups", "backupTables", "backupItems"} : disk[f] = srv[f]

\* The encoding kept of a table that is not marked dirty is the encoding of that table, so
\* that the next save, whatever table it is for, writes it as it is.
CacheFresh ==
  \A t \in DOMAIN srv.tables \ srv.dirty :
    t \in DOMAIN srv.cache => srv.cache[t] = srv.tables[t]

\* A table's item counts, its indexes' too, are those of its items, after failed and
\* expired writes as well.
CountsRight ==
  \A t \in DOMAIN srv.tables :
    LET table == srv.tables[t] IN
    /\ table.desc.count = Cardinality(DOMAIN table.items)
    /\ \A i \in DOMAIN table.desc.indexes :
         table.desc.indexes[i] =
           Cardinality({k \in DOMAIN table.items : Indexes[i] \in DOMAIN table.items[k]})

\* A backup has its description, its table and its items, or none of them.
BackupsWhole ==
  \A s \in {srv, disk} : DOMAIN s.backups = DOMAIN s.backupTables /\ DOMAIN s.backups = DOMAIN s.backupItems

\* What a reader got from a stream is what the stream holds at those positions for as long
\* as it exists: no record that a failed save took back was ever read, none is lost by a
\* restart, and none is read twice.
ReaderSeesStream ==
  phase = "up" /\ reader.on /\ StreamThere(reader.table, reader.label) =>
    LET records == Current.tables[reader.table].records IN
    reader.pos <= Len(records) /\ SubSeq(records, reader.from + 1, reader.pos) = reader.got

\* A scan that ran to its end returned every item that was there all the time, and none
\* twice, unless the item a page started after was deleted between two pages (collect_items
\* then finds nothing to go on from) or an item's key attribute was changed.
ScanComplete ==
  pager # NoPager /\ ~pager.lost =>
    /\ IsInjective(pager.seen)
    /\ ~pager.on => pager.stayed \subseteq Range(pager.seen)

\* A page never contains an item whose time to live had run out when it was asked for.
NoExpiredItem ==
  [][pager'.seen # pager.seen /\ pager'.table \in DOMAIN srv'.tables /\ srv'.tables[pager'.table].desc.ttl =>
       \A k \in Range(pager'.seen) \ Range(pager.seen) :
         LET item == srv'.tables[pager'.table].items[k]
         IN "ttl" \in DOMAIN item /\ item["ttl"].type = "N" => item["ttl"].val > clock]_vars

\* The ways to read one item agree: by key, by a query on the key, by a page of a scan and
\* by a PartiQL statement, as long as no update has changed a key attribute.
ReadsAgree ==
  \A t \in DOMAIN srv.tables : Whole(srv.tables[t]) =>
    \A k \in Keys :
      LET table == srv.tables[t]
          found == GetItem(table, k)
          one   == IF found = None THEN <<>> ELSE <<k>>
          is    == [op |-> "=", attr |-> "pk", value |-> k, negated |-> FALSE]
      IN /\ QueryPage(table, None, 1, None, <<is>>) = [keys |-> one, last |-> None]
         /\ Select(table, {[attr |-> "pk", value |-> k]}) = found
         /\ BatchGet(table, <<k>>) = [i \in DOMAIN one |-> found]
         /\ Range(ScanPage(table, None, 0, None, <<<<is>>>>).keys) = Range(one)

\* A save is all or nothing, also of several tables at once; counts, cached encodings and
\* backups go with it, and no reader of a stream saw what was not saved (server.rs: persist
\* and the undo of each operation; streams.rs).
SavesWhole ==
  TypeOK /\ NothingUnsaved /\ CacheFresh /\ CountsRight /\ BackupsWhole /\ ReaderSeesStream

\* A scan misses nothing and shows nothing twice, and all ways to read an item agree
\* (collect_items, PartiQL).
ReadersComplete == ScanComplete /\ ReadsAgree

=============================================================================
