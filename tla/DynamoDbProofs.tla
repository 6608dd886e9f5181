--------------------------- MODULE DynamoDbProofs ---------------------------
(***************************************************************************)
(* What DynamoDb guarantees for every choice of its constants: whatever    *)
(* requests, failed saves, kills, restarts and expiry do, the server       *)
(* answers from what state.json holds, and a reader of a stream never sees *)
(* a record that was taken back.                                           *)
(*                                                                         *)
(* Every request changes a server that was current to one it saves, and    *)
(* goes back by hand if the save fails.  WriteKeeps says once what such a  *)
(* change has to fulfil; each operation is then a fact about the one or    *)
(* two tables it changes.                                                  *)
(***************************************************************************)
EXTENDS DynamoDb, FiniteSetTheorems, SequenceTheorems, TLAPS

-----------------------------------------------------------------------------
(***************************************************************************)
(* The invariant.                                                          *)
(***************************************************************************)

TableFields == {"desc", "items", "records", "tags", "pitr", "policy"}
DescFields == {"count", "indexes", "stream", "label", "ttl"}
BackupFields == {"backups", "backupTables", "backupItems"}
ServerFields == BackupFields \cup {"tables", "cache", "dirty"}

IsSequence(r) == Len(r) \in Nat /\ r = [i \in 1..Len(r) |-> r[i]]

\* Items are stored under keys, and what is not there is not stored.
AreItems(items) ==
  /\ items = [k \in DOMAIN items |-> items[k]]
  /\ DOMAIN items \subseteq Keys
  /\ \A k \in DOMAIN items : items[k] # None

IsDescription(desc) == desc = [f \in DescFields |-> desc[f]]

\* The counts of a description, given the items.
CountsOf(desc, items) ==
  /\ desc.count = Cardinality(DOMAIN items)
  /\ desc.indexes = [i \in DOMAIN desc.indexes |->
                       Cardinality({k \in DOMAIN items : Indexes[i] \in DOMAIN items[k]})]

\* An enabled stream has one of the labels given out so far.
Labelled(desc, top) ==
  /\ desc.label = None \/ desc.label \in 1..top
  /\ StreamEnabled(desc) => desc.label # None

\* A table as it is kept and saved.
IsTable(table, top) ==
  /\ table = [f \in TableFields |-> table[f]]
  /\ IsDescription(table.desc)
  /\ AreItems(table.items)
  /\ CountsOf(table.desc, table.items)
  /\ IsSequence(table.records)
  /\ Labelled(table.desc, top)

AreTables(tables, names, top) ==
  /\ tables = [t \in DOMAIN tables |-> tables[t]]
  /\ DOMAIN tables \subseteq names
  /\ \A t \in DOMAIN tables : IsTable(tables[t], top)

\* A backup is a description and items to restore them with.
AreBackups(s) ==
  /\ \A f \in BackupFields : s[f] = [a \in DOMAIN s.backups |-> s[f][a]]
  /\ \A a \in DOMAIN s.backups : IsDescription(s.backupTables[a]) /\ AreItems(s.backupItems[a])

IsStore(s, names, top) == AreTables(s.tables, names, top) /\ AreBackups(s)

\* An encoding that the next save would reuse is that of the table.
Fresh(s) ==
  \A t \in DOMAIN s.tables \ s.dirty : t \in DOMAIN s.cache => s.cache[t] = s.tables[t]

IsServer(s) == s = [f \in ServerFields |-> s[f]]

\* What a request finds and leaves.
Kept(s, names, top) ==
  /\ IsServer(s)
  /\ IsStore(s, names, top)
  /\ Fresh(s)
  /\ DOMAIN s.cache \subseteq DOMAIN s.tables
  /\ s.dirty \subseteq names

SameStore(s, d) == s.tables = d.tables /\ \A f \in BackupFields : s[f] = d[f]

\* What the reader got is what the stream has there, as long as it is the same stream.
Reads(r, tables) ==
  r.table \in DOMAIN tables /\ tables[r.table].desc.label = r.label =>
    /\ r.from \in Nat /\ r.pos \in Nat
    /\ r.from <= r.pos /\ r.pos <= Len(tables[r.table].records)
    /\ SubSeq(tables[r.table].records, r.from + 1, r.pos) = r.got

ReaderFields == {"on", "table", "label", "from", "pos", "got"}

IsReader(r) == r = [f \in ReaderFields |-> r[f]]

ReaderKept(r, tables, top) == r.on => r.label \in 1..top /\ Reads(r, tables)

\* The inductive invariant: memory and file are whole, and the same while the server is up.
StoreInv ==
  /\ workload \in Workloads
  /\ phase \in {"up", "down"}
  /\ clock \in 0..MaxClock
  /\ labels \in 0..MaxLabels
  /\ Kept(srv, workload.tables, labels)
  /\ IsStore(disk, workload.tables, labels)
  /\ phase = "up" => SameStore(srv, disk)
  /\ IsReader(reader)
  /\ ReaderKept(reader, disk.tables, labels)

-----------------------------------------------------------------------------
(***************************************************************************)
(* Tables.                                                                 *)
(***************************************************************************)

\* A sequence is one of its elements (no record of a stream is anything but an element).
LEMMA SequenceOf ==
  ASSUME NEW r, IsSequence(r)
  PROVE  r \in Seq({r[i] : i \in 1..Len(r)})
<1> DEFINE n == Len(r)
<1> DEFINE S == {r[i] : i \in 1..n}
<1>1. n \in Nat
  BY DEF IsSequence
<1>2. \A i \in 1..n : r[i] \in S
  OBVIOUS
<1>3. [i \in 1..n |-> r[i]] \in Seq(S)
  BY <1>1, <1>2, IsASeq
<1> QED
  BY <1>3 DEF IsSequence

\* What is in a set of sequences is a sequence.
LEMMA SequenceIs ==
  ASSUME NEW S, NEW r \in Seq(S)
  PROVE  IsSequence(r)
<1>1. Len(r) \in Nat /\ DOMAIN r = 1..Len(r)
  OBVIOUS
<1>2. r = [i \in DOMAIN r |-> r[i]]
  OBVIOUS
<1> QED
  BY <1>1, <1>2 DEF IsSequence

\* A record is added at the end of a stream (build_stream_record).
LEMMA Appended ==
  ASSUME NEW r, IsSequence(r), NEW x
  PROVE  IsSequence(Append(r, x)) /\ Len(Append(r, x)) = Len(r) + 1
<1> DEFINE S == {r[i] : i \in 1..Len(r)} \cup {x}
<1>1. r \in Seq({r[i] : i \in 1..Len(r)})
  BY SequenceOf
<1>2. r \in Seq(S) /\ x \in S
  BY <1>1
<1> HIDE DEF S
<1>3. Append(r, x) \in Seq(S) /\ Len(Append(r, x)) = Len(r) + 1
  BY <1>2
<1> QED
  BY <1>3, SequenceIs

\* The records before it can be read as before (stream_records).
LEMMA AppendedReads ==
  ASSUME NEW r, IsSequence(r), NEW x, NEW a \in Nat, NEW b \in Nat, b <= Len(r)
  PROVE  SubSeq(Append(r, x), a + 1, b) = SubSeq(r, a + 1, b)
<1> DEFINE S == {r[i] : i \in 1..Len(r)} \cup {x}
<1>1. r \in Seq({r[i] : i \in 1..Len(r)})
  BY SequenceOf
<1>2. r \in Seq(S) /\ x \in S
  BY <1>1
<1> HIDE DEF S
<1>3. /\ Append(r, x) \in Seq(S) /\ Len(Append(r, x)) = Len(r) + 1 /\ Len(r) \in Nat
      /\ \A i \in 1..Len(r) : Append(r, x)[i] = r[i]
  BY <1>2
<1> DEFINE u == SubSeq(Append(r, x), a + 1, b)
<1> DEFINE v == SubSeq(r, a + 1, b)
<1>4. /\ u \in Seq(S) /\ Len(u) = IF a + 1 <= b THEN b - a ELSE 0
      /\ \A i \in 1..(b - a) : u[i] = Append(r, x)[a + i]
  BY <1>3
<1>5. /\ v \in Seq(S) /\ Len(v) = IF a + 1 <= b THEN b - a ELSE 0
      /\ \A i \in 1..(b - a) : v[i] = r[a + i]
  BY <1>2, <1>3
<1> HIDE DEF u, v
<1>6. \A i \in 1..(b - a) : Append(r, x)[a + i] = r[a + i]
  BY <1>3
<1>7. u = v
  BY <1>4, <1>5, <1>6, SeqEqual
<1> QED
  BY <1>7 DEF u, v

\* It can be taken off again (the rollback of a failed write).
LEMMA AppendedBack ==
  ASSUME NEW r, IsSequence(r), NEW x
  PROVE  SubSeq(Append(r, x), 1, Len(r)) = r
<1>1. r \in Seq({r[i] : i \in 1..Len(r)})
  BY SequenceOf
<1>2. Len(r) \in Nat
  BY <1>1
<1>3. SubSeq(Append(r, x), 0 + 1, Len(r)) = SubSeq(r, 0 + 1, Len(r))
  BY <1>2, AppendedReads
<1>4. SubSeq(Append(r, x), 1, Len(r)) = SubSeq(r, 1, Len(r))
  BY <1>3
<1> QED
  BY <1>1, <1>4

\* Reading on from a position adds what is there (stream_records).
LEMMA ReadsOn ==
  ASSUME NEW r, IsSequence(r), NEW a \in Nat, NEW b \in Nat, NEW c \in Nat,
         a <= b, b <= c, c <= Len(r)
  PROVE  /\ SubSeq(r, a + 1, b) \o SubSeq(r, b + 1, c) = SubSeq(r, a + 1, c)
         /\ Len(SubSeq(r, b + 1, c)) = c - b
<1> DEFINE S == {r[i] : i \in 1..Len(r)}
<1>1. r \in Seq(S)
  BY SequenceOf
<1> HIDE DEF S
<1>2. /\ SubSeq(r, a + 1, b) \in Seq(S) /\ Len(SubSeq(r, a + 1, b)) = b - a
      /\ \A i \in 1..(b - a) : SubSeq(r, a + 1, b)[i] = r[a + i]
  BY <1>1
<1>3. /\ SubSeq(r, b + 1, c) \in Seq(S) /\ Len(SubSeq(r, b + 1, c)) = c - b
      /\ \A i \in 1..(c - b) : SubSeq(r, b + 1, c)[i] = r[b + i]
  BY <1>1
<1>4. /\ SubSeq(r, a + 1, c) \in Seq(S) /\ Len(SubSeq(r, a + 1, c)) = c - a
      /\ \A i \in 1..(c - a) : SubSeq(r, a + 1, c)[i] = r[a + i]
  BY <1>1
<1> DEFINE w == SubSeq(r, a + 1, b) \o SubSeq(r, b + 1, c)
<1>5. /\ w \in Seq(S) /\ Len(w) = c - a
      /\ \A i \in 1..(c - a) : w[i] = IF i <= b - a THEN SubSeq(r, a + 1, b)[i] ELSE SubSeq(r, b + 1, c)[i - (b - a)]
  BY <1>2, <1>3
<1>6. \A i \in 1..(c - a) : w[i] = r[a + i]
  BY <1>5, <1>2, <1>3
<1> HIDE DEF w
<1>7. w = SubSeq(r, a + 1, c)
  BY <1>4, <1>5, <1>6, SeqEqual
<1> QED
  BY <1>7, <1>3 DEF w

\* A table whose counts need not be right.
IsDraft(table, top) ==
  /\ table = [f \in TableFields |-> table[f]]
  /\ IsDescription(table.desc)
  /\ AreItems(table.items)
  /\ IsSequence(table.records)
  /\ Labelled(table.desc, top)

\* Counting sets the counts and nothing else (item_count, update_index_item_counts).
LEMMA CountedFields ==
  ASSUME NEW table, table = [f \in TableFields |-> table[f]], IsDescription(table.desc)
  PROVE  /\ Counted(table) = [f \in TableFields |-> Counted(table)[f]]
         /\ \A f \in TableFields \ {"desc"} : Counted(table)[f] = table[f]
         /\ IsDescription(Counted(table).desc)
         /\ \A f \in DescFields \ {"count", "indexes"} : Counted(table).desc[f] = table.desc[f]
         /\ DOMAIN Counted(table).desc.indexes = DOMAIN table.desc.indexes
         /\ CountsOf(Counted(table).desc, table.items)
<1> DEFINE d == table.desc
<1>1. d = [f \in DescFields |-> d[f]]
  BY DEF IsDescription
<1>2. /\ Counted(table) = [f \in TableFields |-> Counted(table)[f]]
      /\ \A f \in TableFields \ {"desc"} : Counted(table)[f] = table[f]
  BY DEF Counted, TableFields
<1>3. /\ Counted(table).desc = [f \in DescFields |-> Counted(table).desc[f]]
      /\ \A f \in DescFields \ {"count", "indexes"} : Counted(table).desc[f] = d[f]
      /\ Counted(table).desc.count = Cardinality(DOMAIN table.items)
      /\ Counted(table).desc.indexes = [i \in DOMAIN d.indexes |->
             Cardinality({k \in DOMAIN table.items : Indexes[i] \in DOMAIN table.items[k]})]
  BY <1>1 DEF Counted, TableFields, DescFields
<1>4. DOMAIN Counted(table).desc.indexes = DOMAIN d.indexes
  BY <1>3
<1>5. CountsOf(Counted(table).desc, table.items)
  BY <1>3, <1>4 DEF CountsOf
<1> QED
  BY <1>2, <1>3, <1>4, <1>5 DEF IsDescription

\* Counting makes a table of a draft.
LEMMA CountedIsTable ==
  ASSUME NEW table, NEW top, IsDraft(table, top)
  PROVE  IsTable(Counted(table), top)
<1> DEFINE c == Counted(table)
<1>1. /\ c = [f \in TableFields |-> c[f]]
      /\ \A f \in TableFields \ {"desc"} : c[f] = table[f]
      /\ IsDescription(c.desc)
      /\ \A f \in DescFields \ {"count", "indexes"} : c.desc[f] = table.desc[f]
      /\ CountsOf(c.desc, table.items)
  BY CountedFields DEF IsDraft
<1> HIDE DEF c
<1>2. c.items = table.items /\ c.records = table.records
  BY <1>1 DEF TableFields
<1>3. c.desc.label = table.desc.label /\ c.desc.stream = table.desc.stream
  BY <1>1 DEF DescFields
<1>4. Labelled(c.desc, top)
  BY <1>3 DEF IsDraft, Labelled, StreamEnabled
<1>5. IsTable(c, top)
  BY <1>1, <1>2, <1>4 DEF IsTable, IsDraft
<1> QED
  BY <1>5 DEF c

\* A table with the items, the records and the settings of another one has, once counted,
\* become that one: what undoing a write amounts to.
LEMMA CountedBack ==
  ASSUME NEW table, NEW top, IsTable(table, top),
         NEW u, u = [f \in TableFields |-> u[f]], IsDescription(u.desc),
         \A f \in TableFields \ {"desc"} : u[f] = table[f],
         \A f \in DescFields \ {"count", "indexes"} : u.desc[f] = table.desc[f],
         DOMAIN u.desc.indexes = DOMAIN table.desc.indexes
  PROVE  Counted(u) = table
<1> DEFINE c == Counted(u)
<1>1. /\ c = [f \in TableFields |-> c[f]]
      /\ \A f \in TableFields \ {"desc"} : c[f] = u[f]
      /\ IsDescription(c.desc)
      /\ \A f \in DescFields \ {"count", "indexes"} : c.desc[f] = u.desc[f]
      /\ DOMAIN c.desc.indexes = DOMAIN u.desc.indexes
      /\ CountsOf(c.desc, u.items)
  BY CountedFields
<1> HIDE DEF c
<1>2. u.items = table.items
  BY DEF TableFields
<1>3. /\ CountsOf(table.desc, table.items) /\ IsDescription(table.desc)
      /\ table = [f \in TableFields |-> table[f]]
  BY DEF IsTable
<1>4. c.desc.count = table.desc.count /\ c.desc.indexes = table.desc.indexes
  BY <1>1, <1>2, <1>3 DEF CountsOf
<1>5. \A f \in DescFields : c.desc[f] = table.desc[f]
  BY <1>1, <1>4
<1>6. c.desc = table.desc
  BY <1>1, <1>3, <1>5 DEF IsDescription
<1>7. \A f \in TableFields : c[f] = table[f]
  BY <1>1, <1>6
<1>8. c = table
  BY <1>1, <1>3, <1>7
<1> QED
  BY <1>8 DEF c

\* Counting right counts again changes nothing (load).
LEMMA CountedOnce ==
  ASSUME NEW table, NEW top, IsTable(table, top)
  PROVE  Counted(table) = table
  BY CountedBack DEF IsTable

\* Writing items changes the items alone, under keys only.
LEMMA SetItemsFields ==
  ASSUME NEW table, table = [f \in TableFields |-> table[f]], NEW new
  PROVE  /\ SetItems(table, new) = [f \in TableFields |-> SetItems(table, new)[f]]
         /\ \A f \in TableFields \ {"items"} : SetItems(table, new)[f] = table[f]
         /\ AreItems(table.items) /\ DOMAIN new \subseteq Keys => AreItems(SetItems(table, new).items)
<1>1. /\ SetItems(table, new) = [f \in TableFields |-> SetItems(table, new)[f]]
      /\ \A f \in TableFields \ {"items"} : SetItems(table, new)[f] = table[f]
  BY DEF SetItems, TableFields
<1>2. SetItems(table, new).items =
        [k \in {k \in DOMAIN table.items \cup DOMAIN new : k \in DOMAIN new => new[k] # None} |->
           IF k \in DOMAIN new THEN new[k] ELSE table.items[k]]
  BY DEF SetItems, TableFields
<1>3. AreItems(table.items) /\ DOMAIN new \subseteq Keys => AreItems(SetItems(table, new).items)
  BY <1>2 DEF AreItems
<1> QED
  BY <1>1, <1>3

\* Writing back what there was restores the items (the rollback of put_item, update_item,
\* delete_item and apply_planned_writes), however the table has otherwise changed.
LEMMA ItemsBack ==
  ASSUME NEW table, table = [f \in TableFields |-> table[f]], AreItems(table.items), NEW new,
         NEW u, u = [f \in TableFields |-> u[f]], u.items = SetItems(table, new).items,
         NEW old, old = [k \in DOMAIN new |-> ItemAt(table, k)]
  PROVE  SetItems(u, old).items = table.items
<1>1. SetItems(table, new).items =
        [k \in {k \in DOMAIN table.items \cup DOMAIN new : k \in DOMAIN new => new[k] # None} |->
           IF k \in DOMAIN new THEN new[k] ELSE table.items[k]]
  BY DEF SetItems, TableFields
<1>2. SetItems(u, old).items =
        [k \in {k \in DOMAIN u.items \cup DOMAIN old : k \in DOMAIN old => old[k] # None} |->
           IF k \in DOMAIN old THEN old[k] ELSE u.items[k]]
  BY DEF SetItems, TableFields
<1>3. DOMAIN SetItems(u, old).items = DOMAIN table.items
  BY <1>1, <1>2 DEF ItemAt, AreItems
<1>4. \A k \in DOMAIN table.items : SetItems(u, old).items[k] = table.items[k]
  BY <1>1, <1>2, <1>3 DEF ItemAt, AreItems
<1>5. SetItems(u, old).items = [k \in DOMAIN table.items |-> SetItems(u, old).items[k]]
  BY <1>2, <1>3
<1> QED
  BY <1>4, <1>5 DEF AreItems

\* Some items fewer are items.
LEMMA WithoutItems ==
  ASSUME NEW items, AreItems(items), NEW S
  PROVE  AreItems(Without(items, S))
<1> DEFINE rest == [k \in DOMAIN items \ S |-> items[k]]
<1>1. Without(items, S) = rest
  BY DEF Without, Restrict
<1>2. AreItems(rest)
  BY DEF AreItems
<1> QED
  BY <1>1, <1>2

\* A stream that is the same one has the same records, and perhaps one more.
Extended(r, more) == more = r \/ \E x : more = Append(r, x)

\* A record is added at the end, or none is (build_stream_record).
LEMMA RecordedFields ==
  ASSUME NEW table, table = [f \in TableFields |-> table[f]], IsSequence(table.records),
         NEW event, NEW old, NEW new
  PROVE  LET r == Recorded(table, event, old, new) IN
         /\ r = [f \in TableFields |-> r[f]]
         /\ \A f \in TableFields \ {"records"} : r[f] = table[f]
         /\ Extended(table.records, r.records)
         /\ IsSequence(r.records)
         /\ SubSeq(r.records, 1, Len(table.records)) = table.records
<1> DEFINE r == Recorded(table, event, old, new)
<1>1. r = table \/ \E x : r = [table EXCEPT !.records = Append(@, x)]
  BY DEF Recorded
<1> HIDE DEF r
<1>2. /\ r = [f \in TableFields |-> r[f]]
      /\ \A f \in TableFields \ {"records"} : r[f] = table[f]
      /\ Extended(table.records, r.records)
  BY <1>1 DEF TableFields, Extended
<1>3. IsSequence(r.records) /\ SubSeq(r.records, 1, Len(table.records)) = table.records
  <2>1. CASE r.records = table.records
    <3>1. table.records \in Seq({table.records[i] : i \in 1..Len(table.records)})
      BY SequenceOf
    <3> QED
      BY <2>1, <3>1
  <2>2. CASE \E x : r.records = Append(table.records, x)
    BY <2>2, Appended, AppendedBack
  <2> QED
    BY <1>2, <2>1, <2>2 DEF Extended
<1> QED
  BY <1>2, <1>3 DEF r

-----------------------------------------------------------------------------
(***************************************************************************)
(* The server and its file.                                                *)
(***************************************************************************)

\* Every stream that was there before is the same, perhaps with another record.
Grows(old, new, top) ==
  \A t \in DOMAIN new : new[t].desc.label \in 1..top =>
    /\ t \in DOMAIN old
    /\ old[t].desc.label = new[t].desc.label
    /\ Extended(old[t].records, new[t].records)

\* The file that persist writes holds the tables as they are, also those it does not encode.
LEMMA FileExact ==
  ASSUME NEW s, NEW names, NEW top, IsStore(s, names, top), Fresh(s)
  PROVE  SameStore(s, File(s))
<1>1. s.tables = [t \in DOMAIN s.tables |-> s.tables[t]]
  BY DEF IsStore, AreTables
<1>2. File(s).tables = [t \in DOMAIN s.tables |->
        IF t \in s.dirty \/ t \notin DOMAIN s.cache THEN s.tables[t] ELSE s.cache[t]]
  BY DEF File
<1>3. \A t \in DOMAIN s.tables :
        (IF t \in s.dirty \/ t \notin DOMAIN s.cache THEN s.tables[t] ELSE s.cache[t]) = s.tables[t]
  BY DEF Fresh
<1>4. File(s).tables = s.tables
  BY <1>1, <1>2, <1>3
<1>5. \A f \in BackupFields : s[f] = File(s)[f]
  BY DEF BackupFields, File
<1> QED
  BY <1>4, <1>5 DEF SameStore

\* What equals a store, table by table and backup by backup, is a store.
LEMMA SameIsStore ==
  ASSUME NEW s, NEW d, NEW names, NEW top, IsStore(s, names, top), SameStore(s, d)
  PROVE  IsStore(d, names, top)
<1>1. d.tables = s.tables
  BY DEF SameStore
<1>2. /\ d.backups = s.backups /\ d.backupTables = s.backupTables /\ d.backupItems = s.backupItems
      /\ \A f \in BackupFields : s[f] = d[f]
  BY DEF SameStore, BackupFields
<1>3. AreBackups(d)
  BY <1>2 DEF IsStore, AreBackups
<1> QED
  BY <1>1, <1>3 DEF IsStore

\* A successful save leaves a server with nothing to save.
LEMMA SavedKept ==
  ASSUME NEW s, NEW names, NEW top, IsServer(s), IsStore(s, names, top), Fresh(s)
  PROVE  Kept(Saved(s), names, top) /\ SameStore(Saved(s), s)
<1>1. File(s).tables = s.tables
  BY FileExact DEF SameStore
<1> DEFINE n == Saved(s)
<1>2. /\ n = [f \in ServerFields |-> n[f]]
      /\ n.tables = s.tables
      /\ \A f \in BackupFields : n[f] = s[f]
      /\ n.cache = s.tables
      /\ n.dirty = {}
  BY <1>1 DEF IsServer, Saved, ServerFields, BackupFields
<1> HIDE DEF n
<1>3. SameStore(s, n) /\ SameStore(n, s)
  BY <1>2 DEF SameStore
<1>4. IsStore(n, names, top)
  BY <1>3, SameIsStore
<1>5. Kept(n, names, top)
  BY <1>2, <1>4 DEF Kept, IsServer, Fresh
<1> QED
  BY <1>3, <1>5 DEF n

\* A server that has nothing keeps the invariant's parts.
LEMMA BlankKept ==
  ASSUME NEW names, NEW top
  PROVE  Kept(Blank, names, top) /\ Fresh(Blank)
<1>1. /\ Blank.tables = Empty /\ Blank.backups = Empty /\ Blank.backupTables = Empty
      /\ Blank.backupItems = Empty /\ Blank.cache = Empty /\ Blank.dirty = {}
      /\ Blank = [f \in ServerFields |-> Blank[f]]
  BY DEF Blank, ServerFields, BackupFields
<1>2. DOMAIN Empty = {} /\ \A f : f = Empty => f = [x \in DOMAIN Empty |-> f[x]]
  BY DEF Empty
<1>3. AreTables(Blank.tables, names, top)
  BY <1>1, <1>2 DEF AreTables
<1>4. AreBackups(Blank)
  BY <1>1, <1>2 DEF AreBackups, BackupFields
<1> QED
  BY <1>1, <1>2, <1>3, <1>4 DEF Kept, IsStore, IsServer, Fresh

\* Labels given out later change nothing.
LEMMA LabelsGrow ==
  ASSUME NEW s, NEW names, NEW top \in Nat, NEW more \in Nat, top <= more, IsStore(s, names, top)
  PROVE  IsStore(s, names, more)
<1>1. \A desc : Labelled(desc, top) => Labelled(desc, more)
  BY DEF Labelled
<1>2. \A table : IsTable(table, top) => IsTable(table, more)
  BY <1>1 DEF IsTable
<1> QED
  BY <1>2 DEF IsStore, AreTables

\* A reader keeps what it has read when its stream grows or goes.
LEMMA ReaderGrows ==
  ASSUME NEW rd, NEW old, NEW new, NEW top \in Nat, NEW more \in Nat, top <= more,
         \A t \in DOMAIN old : IsSequence(old[t].records),
         Grows(old, new, top), ReaderKept(rd, old, top)
  PROVE  ReaderKept(rd, new, more)
<1> SUFFICES ASSUME rd.on PROVE rd.label \in 1..more /\ Reads(rd, new)
  BY DEF ReaderKept
<1>1. rd.label \in 1..top /\ Reads(rd, old)
  BY DEF ReaderKept
<1> SUFFICES ASSUME rd.table \in DOMAIN new, new[rd.table].desc.label = rd.label
             PROVE  /\ rd.from \in Nat /\ rd.pos \in Nat
                    /\ rd.from <= rd.pos /\ rd.pos <= Len(new[rd.table].records)
                    /\ SubSeq(new[rd.table].records, rd.from + 1, rd.pos) = rd.got
  BY <1>1 DEF Reads
<1> DEFINE r == old[rd.table].records
<1> DEFINE n == new[rd.table].records
<1>2. rd.table \in DOMAIN old /\ old[rd.table].desc.label = rd.label /\ Extended(r, n)
  BY <1>1 DEF Grows
<1>3. /\ rd.from \in Nat /\ rd.pos \in Nat /\ rd.from <= rd.pos /\ rd.pos <= Len(r)
      /\ SubSeq(r, rd.from + 1, rd.pos) = rd.got /\ IsSequence(r)
  BY <1>1, <1>2 DEF Reads
<1> HIDE DEF r, n
<1>4. CASE n = r
  BY <1>3, <1>4 DEF n
<1>5. CASE \E x : n = Append(r, x)
  <2>1. PICK x : n = Append(r, x)
    BY <1>5
  <2>2. Len(r) \in Nat
    BY <1>3 DEF IsSequence
  <2>3. /\ Len(n) = Len(r) + 1
        /\ SubSeq(n, rd.from + 1, rd.pos) = SubSeq(r, rd.from + 1, rd.pos)
    <3>1. Len(Append(r, x)) = Len(r) + 1
      BY <1>3, Appended
    <3>2. SubSeq(Append(r, x), rd.from + 1, rd.pos) = SubSeq(r, rd.from + 1, rd.pos)
      BY <1>3, AppendedReads, Zenon
    <3> QED
      BY <2>1, <3>1, <3>2
  <2>4. SubSeq(n, rd.from + 1, rd.pos) = rd.got
    BY <1>3, <2>3
  <2>5. rd.pos <= Len(n)
    BY <1>3, <2>2, <2>3
  <2> QED
    BY <1>3, <2>4, <2>5 DEF n
<1> QED
  BY <1>2, <1>4, <1>5 DEF Extended

\* A server with other tables, some of them marked dirty.
Replacing(s, T, D) == Dirtied([s EXCEPT !.tables = T], D)

\* Replacing the tables of a server and marking some of them dirty changes nothing else.
LEMMA Replaced ==
  ASSUME NEW s, IsServer(s), NEW T, NEW D
  PROVE  LET n == Replacing(s, T, D) IN
         /\ IsServer(n)
         /\ n.tables = T /\ n.cache = s.cache /\ n.dirty = s.dirty \cup D
         /\ \A f \in BackupFields : n[f] = s[f]
<1> DEFINE n == Replacing(s, T, D)
<1> DEFINE m == [s EXCEPT !.tables = T]
<1>1. n = [m EXCEPT !.dirty = @ \cup D]
  BY DEF Dirtied, Replacing
<1> HIDE DEF n
<1>2. /\ m = [f \in ServerFields |-> m[f]] /\ m.tables = T
      /\ \A f \in ServerFields \ {"tables"} : m[f] = s[f]
  BY DEF ServerFields, IsServer
<1> HIDE DEF m
<1>3. /\ n = [f \in ServerFields |-> n[f]] /\ n.dirty = m.dirty \cup D
      /\ \A f \in ServerFields \ {"dirty"} : n[f] = m[f]
  BY <1>1, <1>2 DEF ServerFields
<1>4. n.tables = T /\ n.cache = s.cache /\ n.dirty = s.dirty \cup D
  BY <1>2, <1>3 DEF ServerFields
<1>5. \A f \in BackupFields : n[f] = s[f]
  BY <1>2, <1>3 DEF ServerFields, BackupFields
<1> QED
  BY <1>3, <1>4, <1>5 DEF IsServer, n

\* The backups go with the fields they are in.
LEMMA SameBackups ==
  ASSUME NEW s, NEW n, AreBackups(s), \A f \in BackupFields : n[f] = s[f]
  PROVE  AreBackups(n)
<1>1. n.backups = s.backups /\ n.backupTables = s.backupTables /\ n.backupItems = s.backupItems
  BY DEF BackupFields
<1> QED
  BY <1>1 DEF AreBackups

\* An expired item goes without a record, and the counts follow (expire_ttl_items).
LEMMA UnexpiredTable ==
  ASSUME NEW table, NEW top, IsTable(table, top)
  PROVE  /\ IsTable(Unexpired(table), top)
         /\ Unexpired(table).desc.label = table.desc.label
         /\ Unexpired(table).records = table.records
<1> DEFINE w == [table EXCEPT !.items = Without(@, ExpiredKeys(table))]
<1>1. /\ w = [f \in TableFields |-> w[f]]
      /\ \A f \in TableFields \ {"items"} : w[f] = table[f]
      /\ w.items = Without(table.items, ExpiredKeys(table))
  BY DEF IsTable, TableFields
<1>2. AreItems(w.items)
  BY <1>1, WithoutItems DEF IsTable
<1>3. w.desc = table.desc /\ w.records = table.records
  BY <1>1 DEF TableFields
<1>4. Unexpired(table) = Counted(w)
  BY DEF Unexpired
<1> HIDE DEF w
<1>5. IsDraft(w, top)
  BY <1>1, <1>2, <1>3 DEF IsTable, IsDraft
<1>6. /\ \A f \in TableFields \ {"desc"} : Counted(w)[f] = w[f]
      /\ \A f \in DescFields \ {"count", "indexes"} : Counted(w).desc[f] = w.desc[f]
  BY <1>5, CountedFields DEF IsDraft
<1> QED
  BY <1>3, <1>4, <1>5, <1>6, CountedIsTable DEF TableFields, DescFields

\* expire_ttl_items changes a whole server to a whole one, with the same streams.
LEMMA SweptStore ==
  ASSUME NEW s, NEW names, NEW top, Kept(s, names, top)
  PROVE  /\ IsServer(Swept(s)) /\ IsStore(Swept(s), names, top) /\ Fresh(Swept(s))
         /\ Grows(s.tables, Swept(s).tables, top)
<1> DEFINE T == [t \in DOMAIN s.tables |-> IF t \in Expiring(s) THEN Unexpired(s.tables[t]) ELSE s.tables[t]]
<1> DEFINE n == Swept(s)
<1>1. IsServer(s) /\ AreTables(s.tables, names, top) /\ AreBackups(s) /\ Fresh(s)
  BY DEF Kept, IsStore
<1>2. /\ IsServer(n) /\ n.tables = T /\ n.cache = s.cache /\ n.dirty = s.dirty \cup Expiring(s)
      /\ \A f \in BackupFields : n[f] = s[f]
  <2>1. n = Replacing(s, T, Expiring(s))
    BY DEF Swept, Replacing
  <2> HIDE DEF T, n
  <2> QED
    BY <1>1, <2>1, Replaced
<1> HIDE DEF n
<1>3. \A t \in DOMAIN s.tables :
        /\ IsTable(Unexpired(s.tables[t]), top)
        /\ Unexpired(s.tables[t]).desc.label = s.tables[t].desc.label
        /\ Unexpired(s.tables[t]).records = s.tables[t].records
  BY <1>1, UnexpiredTable DEF AreTables
<1>4. AreTables(n.tables, names, top)
  BY <1>1, <1>2, <1>3 DEF AreTables
<1>5. AreBackups(n)
  BY <1>1, <1>2, SameBackups
<1>6. Fresh(n)
  BY <1>1, <1>2 DEF Fresh
<1>7. Grows(s.tables, n.tables, top)
  BY <1>2, <1>3 DEF Grows, Extended
<1> QED
  BY <1>2, <1>4, <1>5, <1>6, <1>7 DEF n, IsStore

\* What an operation finds after the expiry is whole, and is what is on disk (dispatch).
LEMMA CurrentKept ==
  ASSUME StoreInv, phase = "up"
  PROVE  /\ Kept(Current, workload.tables, labels)
         /\ SameStore(Current, CurrentDisk)
         /\ IsStore(CurrentDisk, workload.tables, labels)
         /\ Grows(srv.tables, Current.tables, labels)
         /\ ReaderKept(reader, Current.tables, labels)
         /\ labels \in Nat
<1>1. /\ Kept(srv, workload.tables, labels) /\ SameStore(srv, disk) /\ labels \in Nat
      /\ ReaderKept(reader, disk.tables, labels)
  BY DEF StoreInv
<1>2. Grows(srv.tables, srv.tables, labels)
  BY DEF Grows, Extended
<1>3. \A t \in DOMAIN srv.tables : IsSequence(srv.tables[t].records)
  BY <1>1 DEF Kept, IsStore, AreTables, IsTable
<1>4. ReaderKept(reader, srv.tables, labels)
  BY <1>1 DEF SameStore
<1>5. CASE Expiring(srv) = {}
  <2>1. Current = srv /\ CurrentDisk = disk
    BY <1>5 DEF Current, CurrentDisk
  <2> QED
    BY <1>1, <1>2, <1>4, <2>1 DEF StoreInv
<1>6. CASE Expiring(srv) # {}
  <2>1. Current = Saved(Swept(srv)) /\ CurrentDisk = File(Swept(srv))
    BY <1>6 DEF Current, CurrentDisk
  <2>2. /\ IsServer(Swept(srv)) /\ IsStore(Swept(srv), workload.tables, labels) /\ Fresh(Swept(srv))
        /\ Grows(srv.tables, Swept(srv).tables, labels)
    BY <1>1, SweptStore
  <2>3. Kept(Current, workload.tables, labels) /\ SameStore(Current, Swept(srv))
    BY <2>1, <2>2, SavedKept
  <2>4. SameStore(Swept(srv), CurrentDisk)
    BY <2>1, <2>2, FileExact
  <2>5. SameStore(Current, CurrentDisk) /\ Current.tables = Swept(srv).tables
    BY <2>3, <2>4 DEF SameStore
  <2>6. IsStore(CurrentDisk, workload.tables, labels)
    BY <2>2, <2>4, SameIsStore
  <2>7. ReaderKept(reader, Current.tables, labels)
    BY <1>1, <1>3, <1>4, <2>2, <2>5, ReaderGrows
  <2> QED
    BY <1>1, <2>2, <2>3, <2>5, <2>6, <2>7
<1> QED
  BY <1>5, <1>6

\* A write that saves a whole server, or goes back to the one before, keeps the invariant:
\* saved, failed, or cut short by a kill with the file in place (persist).
LEMMA WriteKeeps ==
  ASSUME StoreInv, phase = "up", NEW outcome \in Outcomes, NEW to, NEW back,
         Write(to, back, outcome),
         labels' \in labels..MaxLabels,
         IsServer(to), IsStore(to, workload.tables, labels'), Fresh(to),
         Grows(Current.tables, to.tables, labels),
         IsServer(back), SameStore(Current, back), Fresh(back),
         back.cache = Current.cache, back.dirty \subseteq workload.tables
  PROVE  StoreInv'
<1> DEFINE names == workload.tables
<1> DEFINE top == labels'
<1>1. /\ Kept(Current, names, labels) /\ SameStore(Current, CurrentDisk)
      /\ IsStore(CurrentDisk, names, labels) /\ ReaderKept(reader, Current.tables, labels)
      /\ labels \in Nat
  BY CurrentKept
<1>2. top \in Nat /\ labels <= top /\ top \in 0..MaxLabels
  BY <1>1, ConstantsAssumption
<1>3. /\ workload' = workload /\ clock' = clock /\ reader' = reader
      /\ workload \in Workloads /\ clock \in 0..MaxClock /\ IsReader(reader)
  BY DEF Write, StoreInv
<1>4. /\ SameStore(to, File(to)) /\ IsStore(File(to), names, top)
      /\ Kept(Saved(to), names, top) /\ SameStore(Saved(to), to)
  BY FileExact, SavedKept, SameIsStore
<1>5. /\ IsStore(back, names, top) /\ IsStore(CurrentDisk, names, top)
      /\ SameStore(back, CurrentDisk)
  <2>1. IsStore(back, names, labels)
    BY <1>1, SameIsStore DEF Kept
  <2> QED
    BY <2>1, <1>1, <1>2, LabelsGrow DEF SameStore
<1>6. Kept(back, names, top)
  <2>1. DOMAIN back.cache \subseteq DOMAIN back.tables
    BY <1>1 DEF Kept, SameStore
  <2> QED
    BY <1>5, <2>1 DEF Kept
<1>7. \A t \in DOMAIN Current.tables : IsSequence(Current.tables[t].records)
  BY <1>1 DEF Kept, IsStore, AreTables, IsTable
<1>8. ReaderKept(reader, to.tables, top) /\ ReaderKept(reader, Current.tables, top)
  <2>1. Grows(Current.tables, Current.tables, labels)
    BY DEF Grows, Extended
  <2> QED
    BY <1>1, <1>2, <1>7, <2>1, ReaderGrows
<1> HIDE DEF top
<1>9. CASE outcome = "saved"
  <2>1. srv' = Saved(to) /\ disk' = File(to) /\ phase' = "up"
    BY <1>9 DEF Write
  <2>2. SameStore(Saved(to), File(to)) /\ File(to).tables = to.tables
    BY <1>4 DEF SameStore
  <2> QED
    BY <1>2, <1>3, <1>4, <1>8, <2>1, <2>2 DEF StoreInv, top
<1>10. CASE outcome = "failed"
  <2>1. srv' = back /\ disk' = CurrentDisk /\ phase' = "up"
    BY <1>10 DEF Write
  <2>2. CurrentDisk.tables = Current.tables
    BY <1>1 DEF SameStore
  <2> QED
    BY <1>2, <1>3, <1>5, <1>6, <1>8, <2>1, <2>2 DEF StoreInv, top
<1>11. CASE outcome = "killed"
  <2>1. srv' = Blank /\ disk' = File(to) /\ phase' = "down"
    BY <1>11 DEF Write
  <2>2. Kept(Blank, names, top) /\ File(to).tables = to.tables
    BY <1>4, BlankKept DEF SameStore
  <2> QED
    BY <1>2, <1>3, <1>4, <1>8, <2>1, <2>2 DEF StoreInv, top
<1> QED
  BY <1>9, <1>10, <1>11 DEF Outcomes

-----------------------------------------------------------------------------
(***************************************************************************)
(* Operations on one table.                                                *)
(***************************************************************************)

\* A server with another table under a name it has, marked dirty.
Putting(s, t, table) == Replacing(s, [s.tables EXCEPT ![t] = table], {t})

\* Putting a table changes that table and the dirty set, nothing else.
LEMMA PuttingFields ==
  ASSUME NEW s, IsServer(s), NEW t, NEW table
  PROVE  LET n == Putting(s, t, table) IN
         /\ IsServer(n)
         /\ n.tables = [s.tables EXCEPT ![t] = table] /\ n.cache = s.cache /\ n.dirty = s.dirty \cup {t}
         /\ t \in DOMAIN s.tables => n.tables[t] = table
         /\ \A f \in BackupFields : n[f] = s[f]
<1> DEFINE T == [s.tables EXCEPT ![t] = table]
<1>1. Putting(s, t, table) = Replacing(s, T, {t})
  BY DEF Putting
<1>a. t \in DOMAIN s.tables => T[t] = table
  OBVIOUS
<1> HIDE DEF T
<1>2. LET n == Replacing(s, T, {t}) IN
      /\ IsServer(n) /\ n.tables = T /\ n.cache = s.cache /\ n.dirty = s.dirty \cup {t}
      /\ \A f \in BackupFields : n[f] = s[f]
  BY Replaced
<1> QED
  BY <1>1, <1>a, <1>2 DEF T

\* A server that has its tables back, with more of them marked dirty, is as good as before.
LEMMA BackKept ==
  ASSUME NEW s, NEW names, NEW top, Kept(s, names, top), NEW t \in names,
         NEW b, IsServer(b), b.tables = s.tables, b.cache = s.cache, b.dirty = s.dirty \cup {t},
         \A f \in BackupFields : b[f] = s[f]
  PROVE  SameStore(s, b) /\ Fresh(b) /\ b.dirty \subseteq names
  BY DEF Kept, SameStore, Fresh

\* A request that changes one table and, if the save fails, changes it back.
LEMMA OneTable ==
  ASSUME StoreInv, phase = "up", NEW outcome \in Outcomes, NEW t \in DOMAIN Current.tables,
         labels' \in labels..MaxLabels,
         NEW x, IsTable(x, labels'),
         x.desc.label \in 1..labels =>
           /\ x.desc.label = Current.tables[t].desc.label
           /\ Extended(Current.tables[t].records, x.records),
         NEW back, IsServer(back), back.tables = Current.tables, back.cache = Current.cache,
         back.dirty = Current.dirty \cup {t},
         \A f \in BackupFields : back[f] = Current[f],
         Write(Putting(Current, t, x), back, outcome)
  PROVE  StoreInv'
<1> DEFINE names == workload.tables
<1> DEFINE to == Putting(Current, t, x)
<1>1. Kept(Current, names, labels) /\ labels \in Nat
  BY CurrentKept
<1>2. labels' \in Nat /\ labels <= labels'
  BY <1>1, ConstantsAssumption
<1>3. IsStore(Current, names, labels')
  BY <1>1, <1>2, LabelsGrow DEF Kept
<1>4. /\ IsServer(to)
      /\ to.tables = [Current.tables EXCEPT ![t] = x] /\ to.cache = Current.cache
      /\ to.dirty = Current.dirty \cup {t}
      /\ \A f \in BackupFields : to[f] = Current[f]
  BY <1>1, PuttingFields DEF Kept
<1> HIDE DEF to
<1>5. t \in names
  BY <1>1 DEF Kept, IsStore, AreTables
<1>6. IsStore(to, names, labels')
  <2>1. AreTables(to.tables, names, labels')
    BY <1>3, <1>4 DEF IsStore, AreTables
  <2>2. AreBackups(to)
    BY <1>3, <1>4, SameBackups DEF IsStore
  <2> QED
    BY <2>1, <2>2 DEF IsStore
<1>7. Fresh(to)
  BY <1>1, <1>4 DEF Kept, Fresh
<1>8. Grows(Current.tables, to.tables, labels)
  BY <1>4 DEF Grows, Extended
<1>9. SameStore(Current, back) /\ Fresh(back) /\ back.dirty \subseteq names
  BY <1>1, <1>5, BackKept
<1>10. Write(to, back, outcome)
  BY DEF to
<1> QED
  BY <1>4, <1>6, <1>7, <1>8, <1>9, <1>10, WriteKeeps

\* The two ways in which an operation puts its table back.
LEMMA PutAsWas ==
  ASSUME NEW s, IsServer(s), s.tables = [u \in DOMAIN s.tables |-> s.tables[u]],
         NEW t \in DOMAIN s.tables
  PROVE  LET b == Putting(s, t, s.tables[t]) IN
         /\ IsServer(b) /\ b.tables = s.tables /\ b.cache = s.cache /\ b.dirty = s.dirty \cup {t}
         /\ \A f \in BackupFields : b[f] = s[f]
<1> DEFINE b == Putting(s, t, s.tables[t])
<1>1. /\ IsServer(b)
      /\ b.tables = [s.tables EXCEPT ![t] = s.tables[t]] /\ b.cache = s.cache /\ b.dirty = s.dirty \cup {t}
      /\ \A f \in BackupFields : b[f] = s[f]
  BY PuttingFields
<1>2. [s.tables EXCEPT ![t] = s.tables[t]] = s.tables
  OBVIOUS
<1> QED
  BY <1>1, <1>2

Reputting(n, t, table) == [n EXCEPT !.tables[t] = table]

\* Putting a table and then putting the old one back leaves the tables as they were.
LEMMA PutBackAsWas ==
  ASSUME NEW s, IsServer(s), s.tables = [u \in DOMAIN s.tables |-> s.tables[u]],
         NEW t \in DOMAIN s.tables, NEW x
  PROVE  LET b == Reputting(Putting(s, t, x), t, s.tables[t]) IN
         /\ IsServer(b) /\ b.tables = s.tables /\ b.cache = s.cache /\ b.dirty = s.dirty \cup {t}
         /\ \A f \in BackupFields : b[f] = s[f]
<1> DEFINE n == Putting(s, t, x)
<1> DEFINE b == Reputting(n, t, s.tables[t])
<1>1. /\ IsServer(n)
      /\ n.tables = [s.tables EXCEPT ![t] = x] /\ n.cache = s.cache /\ n.dirty = s.dirty \cup {t}
      /\ \A f \in BackupFields : n[f] = s[f]
  BY PuttingFields
<1> HIDE DEF n
<1>2. b = [n EXCEPT !.tables = [n.tables EXCEPT ![t] = s.tables[t]]]
  BY DEF Reputting
<1> HIDE DEF b
<1>3. [n.tables EXCEPT ![t] = s.tables[t]] = s.tables
  BY <1>1
<1>4. b = [n EXCEPT !.tables = s.tables]
  BY <1>2, <1>3
<1>5. /\ b = [f \in ServerFields |-> b[f]] /\ b.tables = s.tables
      /\ \A f \in ServerFields \ {"tables"} : b[f] = n[f]
  BY <1>1, <1>4 DEF IsServer, ServerFields
<1>6. b.cache = n.cache /\ b.dirty = n.dirty /\ \A f \in BackupFields : b[f] = n[f]
  BY <1>5 DEF ServerFields, BackupFields
<1> QED
  BY <1>1, <1>5, <1>6 DEF IsServer, b, n

\* An item is written, counted and recorded, and all three can be taken back (put_item,
\* update_item, delete_item and their rollback).
LEMMA WrittenTable ==
  ASSUME NEW table, NEW top, IsTable(table, top), NEW k \in Keys, NEW event, NEW new,
         NEW old, old = ItemAt(table, k),
         NEW after, after = Recorded(Counted(SetItem(table, k, new)), event, old, new)
  PROVE  /\ IsTable(after, top)
         /\ after.desc.label = table.desc.label
         /\ Extended(table.records, after.records)
         /\ Restored(after, k, old, Len(table.records)) = table
<1> DEFINE put == [x \in {k} |-> new]
<1> DEFINE w == SetItems(table, put)
<1> DEFINE c == Counted(w)
<1>1. /\ table = [f \in TableFields |-> table[f]] /\ IsDescription(table.desc) /\ AreItems(table.items)
      /\ IsSequence(table.records) /\ Labelled(table.desc, top)
  BY DEF IsTable
<1>2. SetItem(table, k, new) = w
  BY DEF SetItem
<1>3. /\ w = [f \in TableFields |-> w[f]]
      /\ \A f \in TableFields \ {"items"} : w[f] = table[f]
      /\ AreItems(w.items)
  <2>1. DOMAIN put \subseteq Keys
    OBVIOUS
  <2> HIDE DEF put
  <2> QED
    BY <1>1, <2>1, SetItemsFields
<1> HIDE DEF w
<1>4. w.desc = table.desc /\ w.records = table.records
  BY <1>3 DEF TableFields
<1>5. IsDraft(w, top)
  BY <1>1, <1>3, <1>4 DEF IsDraft
<1>6. /\ IsTable(c, top)
      /\ \A f \in TableFields \ {"desc"} : c[f] = w[f]
      /\ \A f \in DescFields \ {"count", "indexes"} : c.desc[f] = w.desc[f]
      /\ DOMAIN c.desc.indexes = DOMAIN w.desc.indexes
  BY <1>5, CountedIsTable, CountedFields DEF IsDraft
<1> HIDE DEF c
<1>7. after = Recorded(c, event, old, new)
  BY <1>2 DEF c
<1>8. c = [f \in TableFields |-> c[f]] /\ IsSequence(c.records)
  BY <1>6 DEF IsTable
<1>9. /\ after = [f \in TableFields |-> after[f]]
      /\ \A f \in TableFields \ {"records"} : after[f] = c[f]
      /\ Extended(c.records, after.records)
      /\ IsSequence(after.records)
      /\ SubSeq(after.records, 1, Len(c.records)) = c.records
  BY <1>7, <1>8, RecordedFields
<1>10. after.desc = c.desc /\ after.items = c.items /\ c.items = w.items /\ c.records = table.records
  BY <1>4, <1>6, <1>9 DEF TableFields
<1>11. IsTable(after, top)
  BY <1>6, <1>9, <1>10 DEF IsTable
<1>12. \A f \in DescFields \ {"count", "indexes"} : after.desc[f] = table.desc[f]
  BY <1>4, <1>6, <1>10
<1>13. after.desc.label = table.desc.label
  BY <1>12 DEF DescFields
<1>14. Extended(table.records, after.records)
  BY <1>9, <1>10
<1>15. Restored(after, k, old, Len(table.records)) = table
  <2> DEFINE undo == [x \in {k} |-> old]
  <2> DEFINE u == SetItems(after, undo)
  <2> DEFINE v == [u EXCEPT !.records = SubSeq(@, 1, Len(table.records))]
  <2>1. Restored(after, k, old, Len(table.records)) = Counted(v)
    BY DEF Restored, SetItem
  <2>2. undo = [x \in DOMAIN put |-> ItemAt(table, x)]
    OBVIOUS
  <2>3. u.items = table.items
    <3> HIDE DEF put, undo
    <3>1. after.items = SetItems(table, put).items
      BY <1>10 DEF w
    <3> QED
      BY <1>1, <1>9, <2>2, <3>1, ItemsBack
  <2>4. /\ u = [f \in TableFields |-> u[f]]
        /\ \A f \in TableFields \ {"items"} : u[f] = after[f]
    <3> HIDE DEF undo
    <3> QED
      BY <1>9, SetItemsFields
  <2> HIDE DEF u
  <2>5. /\ v = [f \in TableFields |-> v[f]]
        /\ v.records = SubSeq(u.records, 1, Len(table.records))
        /\ \A f \in TableFields \ {"records"} : v[f] = u[f]
    BY <2>4 DEF TableFields
  <2> HIDE DEF v
  <2>6. v.records = table.records
    BY <1>9, <1>10, <2>4, <2>5 DEF TableFields
  <2>7. \A f \in TableFields \ {"desc"} : v[f] = table[f]
    <3>1. \A f \in {"tags", "pitr", "policy"} :
            w[f] = table[f] /\ c[f] = w[f] /\ after[f] = c[f] /\ u[f] = after[f] /\ v[f] = u[f]
      BY <1>3, <1>6, <1>9, <2>4, <2>5 DEF TableFields
    <3>2. v.items = table.items
      BY <2>3, <2>5 DEF TableFields
    <3> QED
      BY <2>6, <3>1, <3>2 DEF TableFields
  <2>8. v.desc = after.desc
    BY <2>4, <2>5 DEF TableFields
  <2>9. IsDescription(v.desc)
    BY <2>8, <1>11 DEF IsTable
  <2>10. DOMAIN v.desc.indexes = DOMAIN table.desc.indexes
    BY <1>4, <1>6, <1>10, <2>8
  <2>11. \A f \in DescFields \ {"count", "indexes"} : v.desc[f] = table.desc[f]
    BY <2>8, <1>12
  <2>12. Counted(v) = table
    BY <2>5, <2>7, <2>9, <2>10, <2>11, CountedBack
  <2> QED
    BY <2>1, <2>12
<1> QED
  BY <1>11, <1>13, <1>14, <1>15

\* The tail of put_item, update_item and delete_item keeps the invariant.
LEMMA WriteItemKeeps ==
  ASSUME StoreInv, phase = "up", NEW outcome \in Outcomes, NEW t \in DOMAIN Current.tables,
         NEW k \in Keys, NEW event, NEW new, WriteItem(t, k, event, new, outcome)
  PROVE  StoreInv'
<1>1. PICK table : table = Current.tables[t]
  OBVIOUS
<1>2. PICK old : old = ItemAt(table, k)
  OBVIOUS
<1>3. PICK after : after = Recorded(Counted(SetItem(table, k, new)), event, old, new)
  OBVIOUS
<1>4. /\ Write(Dirtied([Current EXCEPT !.tables[t] = after], {t}),
               [Dirtied([Current EXCEPT !.tables[t] = after], {t}) EXCEPT
                  !.tables[t] = Restored(after, k, old, Len(table.records))], outcome)
      /\ labels' = labels
  BY <1>1, <1>2, <1>3 DEF WriteItem
<1>5. Kept(Current, workload.tables, labels) /\ labels \in Nat /\ labels <= MaxLabels
  BY CurrentKept DEF StoreInv
<1>6. IsTable(table, labels)
  BY <1>1, <1>5 DEF Kept, IsStore, AreTables
<1>7. /\ IsTable(after, labels) /\ after.desc.label = table.desc.label
      /\ Extended(table.records, after.records)
      /\ Restored(after, k, old, Len(table.records)) = table
  BY <1>2, <1>3, <1>6, WrittenTable
<1>8. Dirtied([Current EXCEPT !.tables[t] = after], {t}) = Putting(Current, t, after)
  BY DEF Putting, Replacing
<1>9. PICK back : back = Reputting(Putting(Current, t, after), t, table)
  OBVIOUS
<1>10. Write(Putting(Current, t, after), back, outcome)
  BY <1>4, <1>7, <1>8, <1>9 DEF Reputting
<1>11. /\ IsServer(back) /\ back.tables = Current.tables /\ back.cache = Current.cache
       /\ back.dirty = Current.dirty \cup {t}
       /\ \A f \in BackupFields : back[f] = Current[f]
  <2>1. IsServer(Current) /\ Current.tables = [u \in DOMAIN Current.tables |-> Current.tables[u]]
    BY <1>5 DEF Kept, IsStore, AreTables
  <2> QED
    BY <1>1, <1>9, <2>1, PutBackAsWas
<1>12. labels' \in labels..MaxLabels
  BY <1>4, <1>5, ConstantsAssumption
<1>13. IsTable(after, labels')
  BY <1>4, <1>7
<1> QED
  BY <1>1, <1>7, <1>10, <1>11, <1>12, <1>13, OneTable

\* PutItem, DeleteItem and UpdateItem write one item under one key.
LEMMA ItemRequestsKeep ==
  ASSUME StoreInv, NEW outcome \in Outcomes, NEW t,
         \/ \E item \in workload.items, condition \in workload.conditions : PutItem(t, item, condition, outcome)
         \/ \E k \in Keys, condition \in workload.conditions : DeleteItem(t, k, condition, outcome)
         \/ \E k \in Keys, update \in workload.updates, condition \in workload.conditions :
              UpdateItem(t, k, update, condition, outcome)
  PROVE  StoreInv'
<1>1. ASSUME NEW item \in workload.items, NEW condition, PutItem(t, item, condition, outcome)
      PROVE  StoreInv'
  <2>1. "pk" \in DOMAIN item /\ workload \in Workloads
    BY <1>1 DEF PutItem, HasKey, StoreInv
  <2>2. item["pk"] \in Keys
    BY <2>1, ConstantsAssumption
  <2>3. /\ phase = "up" /\ t \in DOMAIN Current.tables
        /\ \E event : WriteItem(t, item["pk"], event, item, outcome)
    BY <1>1 DEF PutItem, Called
  <2> QED
    BY <2>2, <2>3, WriteItemKeeps
<1>2. ASSUME NEW k \in Keys, NEW condition, DeleteItem(t, k, condition, outcome)
      PROVE  StoreInv'
  <2>1. /\ phase = "up" /\ t \in DOMAIN Current.tables
        /\ WriteItem(t, k, "REMOVE", None, outcome)
    BY <1>2 DEF DeleteItem, Called
  <2> QED
    BY <2>1, WriteItemKeeps
<1>3. ASSUME NEW k \in Keys, NEW update, NEW condition, UpdateItem(t, k, update, condition, outcome)
      PROVE  StoreInv'
  <2>1. /\ phase = "up" /\ t \in DOMAIN Current.tables
        /\ \E event, new : WriteItem(t, k, event, new, outcome)
    BY <1>3 DEF UpdateItem, Called
  <2> QED
    BY <2>1, WriteItemKeeps
<1> QED
  BY <1>1, <1>2, <1>3

\* One field is changed, and changed back if the save fails.
LEMMA WriteFieldKeeps ==
  ASSUME StoreInv, phase = "up", NEW outcome \in Outcomes, NEW t \in DOMAIN Current.tables,
         NEW x, IsTable(x, labels), x.desc.label = Current.tables[t].desc.label,
         x.records = Current.tables[t].records,
         WriteField(t, x, Current.tables[t], outcome)
  PROVE  StoreInv'
<1>1. Kept(Current, workload.tables, labels) /\ labels \in Nat /\ labels <= MaxLabels
  BY CurrentKept DEF StoreInv
<1>2. IsServer(Current) /\ Current.tables = [u \in DOMAIN Current.tables |-> Current.tables[u]]
  BY <1>1 DEF Kept, IsStore, AreTables
<1>3. PICK back : back = Putting(Current, t, Current.tables[t])
  OBVIOUS
<1>4. Write(Putting(Current, t, x), back, outcome) /\ labels' = labels
  BY <1>3 DEF WriteField, Putting, Replacing
<1>5. /\ IsServer(back) /\ back.tables = Current.tables /\ back.cache = Current.cache
      /\ back.dirty = Current.dirty \cup {t}
      /\ \A f \in BackupFields : back[f] = Current[f]
  BY <1>2, <1>3, PutAsWas
<1>6. labels' \in labels..MaxLabels /\ IsTable(x, labels')
  BY <1>1, <1>4, ConstantsAssumption
<1>7. Extended(Current.tables[t].records, x.records)
  BY DEF Extended
<1> QED
  BY <1>4, <1>5, <1>6, <1>7, OneTable

\* A table with another setting is a table.
LEMMA SettingTable ==
  ASSUME NEW table, NEW top, IsTable(table, top), NEW to, to = [f \in TableFields |-> to[f]],
         to.items = table.items, to.records = table.records, NEW v,
         to.desc = table.desc \/ to.desc = [table.desc EXCEPT !.ttl = v]
  PROVE  IsTable(to, top) /\ to.desc.label = table.desc.label
<1>1. table.desc = [f \in DescFields |-> table.desc[f]]
  BY DEF IsTable, IsDescription
<1>2. /\ to.desc = [f \in DescFields |-> to.desc[f]]
      /\ to.desc.count = table.desc.count /\ to.desc.indexes = table.desc.indexes
      /\ to.desc.stream = table.desc.stream /\ to.desc.label = table.desc.label
  BY <1>1 DEF DescFields
<1>3. CountsOf(to.desc, to.items)
  BY <1>2 DEF IsTable, CountsOf
<1>4. Labelled(to.desc, top)
  BY <1>2 DEF IsTable, Labelled, StreamEnabled
<1> QED
  BY <1>2, <1>3, <1>4 DEF IsTable, IsDescription

\* update_time_to_live, update_continuous_backups, tag_resource, untag_resource,
\* put_resource_policy and delete_resource_policy keep the invariant.
LEMMA SettingsKeep ==
  ASSUME StoreInv, NEW outcome \in Outcomes, NEW t,
         \/ \E enabled \in BOOLEAN : UpdateTimeToLive(t, enabled, outcome) \/ UpdateContinuousBackups(t, enabled, outcome)
         \/ \E keys \in (SUBSET TagKeys) \ {{}} : TagResource(t, keys, outcome) \/ UntagResource(t, keys, outcome)
         \/ PutResourcePolicy(t, "p", outcome)
         \/ DeleteResourcePolicy(t, outcome)
  PROVE  StoreInv'
<1>1. phase = "up" /\ t \in DOMAIN Current.tables
  BY DEF UpdateTimeToLive, UpdateContinuousBackups, TagResource, UntagResource, PutResourcePolicy,
         DeleteResourcePolicy, Called
<1>2. PICK table : table = Current.tables[t]
  OBVIOUS
<1>3. /\ table = [f \in TableFields |-> table[f]]
      /\ table.desc = [f \in DescFields |-> table.desc[f]]
  BY <1>1, <1>2, CurrentKept DEF Kept, IsStore, AreTables, IsTable, IsDescription
<1>4. IsTable(table, labels)
  BY <1>1, <1>2, CurrentKept DEF Kept, IsStore, AreTables
<1>5. ASSUME NEW enabled, UpdateTimeToLive(t, enabled, outcome)
      PROVE  StoreInv'
  <2>1. PICK v : \E to : /\ to = [table EXCEPT !.desc.ttl = v]
                        /\ WriteField(t, to, [to EXCEPT !.desc.ttl = table.desc.ttl], outcome)
    BY <1>2, <1>5 DEF UpdateTimeToLive
  <2>2. PICK to : /\ to = [table EXCEPT !.desc.ttl = v]
                  /\ WriteField(t, to, [to EXCEPT !.desc.ttl = table.desc.ttl], outcome)
    BY <2>1
  <2>3. PICK back : back = [to EXCEPT !.desc.ttl = table.desc.ttl]
    OBVIOUS
  <2>4. WriteField(t, to, back, outcome)
    BY <2>2, <2>3
  <2>5. /\ to = [f \in TableFields |-> to[f]] /\ to.items = table.items /\ to.records = table.records
        /\ to.desc = [table.desc EXCEPT !.ttl = v]
        /\ back = table
    BY <1>3, <2>2, <2>3 DEF TableFields, DescFields
  <2> HIDE <2>1, <2>2, <2>3
  <2>6. IsTable(to, labels) /\ to.desc.label = table.desc.label
    BY <1>3, <1>4, <2>5, SettingTable
  <2> QED
    BY <1>1, <1>2, <2>4, <2>5, <2>6, WriteFieldKeeps
<1>6. ASSUME NEW enabled, UpdateContinuousBackups(t, enabled, outcome)
      PROVE  StoreInv'
  <2>1. PICK v : \E to : /\ to = [table EXCEPT !.pitr = v]
                        /\ WriteField(t, to, [to EXCEPT !.pitr = table.pitr], outcome)
    BY <1>2, <1>6 DEF UpdateContinuousBackups
  <2>2. PICK to : /\ to = [table EXCEPT !.pitr = v]
                  /\ WriteField(t, to, [to EXCEPT !.pitr = table.pitr], outcome)
    BY <2>1
  <2>3. PICK back : back = [to EXCEPT !.pitr = table.pitr]
    OBVIOUS
  <2>4. WriteField(t, to, back, outcome)
    BY <2>2, <2>3
  <2>5. /\ to = [f \in TableFields |-> to[f]] /\ to.items = table.items /\ to.records = table.records
        /\ to.desc = table.desc
        /\ back = table
    BY <1>3, <2>2, <2>3 DEF TableFields
  <2> HIDE <2>1, <2>2, <2>3
  <2>6. IsTable(to, labels) /\ to.desc.label = table.desc.label
    BY <1>3, <1>4, <2>5, SettingTable
  <2> QED
    BY <1>1, <1>2, <2>4, <2>5, <2>6, WriteFieldKeeps
<1>7. ASSUME NEW keys, TagResource(t, keys, outcome) \/ UntagResource(t, keys, outcome)
      PROVE  StoreInv'
  <2>1. PICK v : \E to : /\ to = [table EXCEPT !.tags = v]
                        /\ WriteField(t, to, [to EXCEPT !.tags = table.tags], outcome)
    BY <1>2, <1>7 DEF TagResource, UntagResource
  <2>2. PICK to : /\ to = [table EXCEPT !.tags = v]
                  /\ WriteField(t, to, [to EXCEPT !.tags = table.tags], outcome)
    BY <2>1
  <2>3. PICK back : back = [to EXCEPT !.tags = table.tags]
    OBVIOUS
  <2>4. WriteField(t, to, back, outcome)
    BY <2>2, <2>3
  <2>5. /\ to = [f \in TableFields |-> to[f]] /\ to.items = table.items /\ to.records = table.records
        /\ to.desc = table.desc
        /\ back = table
    BY <1>3, <2>2, <2>3 DEF TableFields
  <2> HIDE <2>1, <2>2, <2>3
  <2>6. IsTable(to, labels) /\ to.desc.label = table.desc.label
    BY <1>3, <1>4, <2>5, SettingTable
  <2> QED
    BY <1>1, <1>2, <2>4, <2>5, <2>6, WriteFieldKeeps
<1>8. ASSUME PutResourcePolicy(t, "p", outcome) \/ DeleteResourcePolicy(t, outcome)
      PROVE  StoreInv'
  <2>1. PICK v : \E to : /\ to = [table EXCEPT !.policy = v]
                        /\ WriteField(t, to, [to EXCEPT !.policy = table.policy], outcome)
    BY <1>2, <1>8 DEF PutResourcePolicy, DeleteResourcePolicy
  <2>2. PICK to : /\ to = [table EXCEPT !.policy = v]
                  /\ WriteField(t, to, [to EXCEPT !.policy = table.policy], outcome)
    BY <2>1
  <2>3. PICK back : back = [to EXCEPT !.policy = table.policy]
    OBVIOUS
  <2>4. WriteField(t, to, back, outcome)
    BY <2>2, <2>3
  <2>5. /\ to = [f \in TableFields |-> to[f]] /\ to.items = table.items /\ to.records = table.records
        /\ to.desc = table.desc
        /\ back = table
    BY <1>3, <2>2, <2>3 DEF TableFields
  <2> HIDE <2>1, <2>2, <2>3
  <2>6. IsTable(to, labels) /\ to.desc.label = table.desc.label
    BY <1>3, <1>4, <2>5, SettingTable
  <2> QED
    BY <1>1, <1>2, <2>4, <2>5, <2>6, WriteFieldKeeps
<1> QED
  BY <1>5, <1>6, <1>7, <1>8

\* The labels given out once a table's stream has been changed.
LabelsAfter(desc, view, top) ==
  IF view \notin {None, "off"} /\ desc.label = None THEN top + 1 ELSE top

\* update_table sets the stream and the indexes; a stream that was off gets a new label.
LEMMA DescriptionChanged ==
  ASSUME NEW table, NEW top \in Nat, IsTable(table, top), NEW view, NEW change, NEW index,
         change \in {"none", "create", "delete"}, NEW stream,
         stream = StreamChanged(table.desc, view, top + 1),
         NEW more, more = LabelsAfter(table.desc, view, top),
         NEW desc, desc = IndexesChanged(stream, change, index)
  PROVE  /\ IsDescription(desc) /\ Labelled(desc, more)
         /\ desc.label \in 1..top => desc.label = table.desc.label
<1> DEFINE d == table.desc
<1>1. /\ d = [f \in DescFields |-> d[f]] /\ Labelled(d, top)
      /\ None \notin Nat /\ None # "off"
  BY ConstantsAssumption DEF IsTable, IsDescription
<1> HIDE DEF d
<1>2. /\ stream = [f \in DescFields |-> stream[f]] /\ Labelled(stream, more)
      /\ stream.label \in 1..top => stream.label = d.label
  <2>1. CASE view = None
    <3>1. stream = d /\ more = top
      BY <1>1, <2>1 DEF d, StreamChanged, LabelsAfter
    <3> QED
      BY <1>1, <3>1
  <2>2. CASE view # None /\ view = "off"
    <3>1. stream = [[d EXCEPT !.stream = "off"] EXCEPT !.label = None] /\ more = top
      BY <2>2 DEF d, StreamOff, StreamChanged, LabelsAfter
    <3>2. stream = [f \in DescFields |-> stream[f]] /\ stream.stream = "off" /\ stream.label = None
      BY <1>1, <3>1 DEF DescFields
    <3>3. ~StreamEnabled(stream)
      BY <3>2 DEF StreamEnabled
    <3>4. stream.label \notin 1..top
      BY <1>1, <3>2
    <3> QED
      BY <3>1, <3>2, <3>3, <3>4 DEF Labelled
  <2>3. CASE view \notin {None, "off"}
    <3>1. stream = [[d EXCEPT !.stream = view] EXCEPT !.label = IF d.label = None THEN top + 1 ELSE d.label]
      BY <1>1, <2>3 DEF d, StreamOn, DescFields, StreamChanged
    <3>2. /\ stream = [f \in DescFields |-> stream[f]]
          /\ stream.label = IF d.label = None THEN top + 1 ELSE d.label
      BY <1>1, <3>1 DEF DescFields
    <3>3. more = IF d.label = None THEN top + 1 ELSE top
      BY <2>3 DEF d, LabelsAfter
    <3>4. stream.label \in 1..more /\ stream.label # None
      BY <1>1, <3>2, <3>3 DEF Labelled
    <3> QED
      BY <1>1, <3>2, <3>3, <3>4 DEF Labelled
  <2> QED
    BY <2>1, <2>2, <2>3
<1>3. PICK x : desc = stream \/ desc = [stream EXCEPT !.indexes = x]
  BY DEF IndexesChanged
<1>4. /\ desc = [f \in DescFields |-> desc[f]]
      /\ desc.label = stream.label /\ desc.stream = stream.stream
  BY <1>2, <1>3 DEF DescFields
<1> QED
  BY <1>2, <1>4 DEF d, IsDescription, Labelled, StreamEnabled

\* update_table keeps the invariant.
LEMMA UpdateTableKeeps ==
  ASSUME StoreInv, NEW outcome \in Outcomes, NEW t, NEW view, NEW change \in {"none", "create", "delete"},
         NEW index, UpdateTable(t, view, change, index, outcome)
  PROVE  StoreInv'
<1>1. phase = "up" /\ t \in DOMAIN Current.tables
  BY DEF UpdateTable, Called
<1>2. PICK table : table = Current.tables[t]
  OBVIOUS
<1>3. IsTable(table, labels) /\ labels \in Nat /\ labels <= MaxLabels /\ IsServer(Current)
  BY <1>1, <1>2, CurrentKept DEF Kept, IsStore, AreTables, StoreInv
<1>a. Current.tables = [u \in DOMAIN Current.tables |-> Current.tables[u]]
  BY <1>1, CurrentKept DEF Kept, IsStore, AreTables
<1>4. PICK stream : stream = StreamChanged(table.desc, view, labels + 1)
  OBVIOUS
<1>5. PICK desc : desc = IndexesChanged(stream, change, index)
  OBVIOUS
<1>6. PICK u, x : u = [table EXCEPT !.desc = desc] /\ x = Counted(u)
  OBVIOUS
<1>7. PICK to, back : /\ to = Dirtied([Current EXCEPT !.tables[t] = x], {t})
                      /\ back = [to EXCEPT !.tables[t].desc = table.desc]
  OBVIOUS
<1>8. /\ Write(to, back, outcome)
      /\ labels' = IF view \notin {None, "off"} /\ table.desc.label = None THEN labels + 1 ELSE labels
      /\ view \notin {None, "off"} /\ table.desc.label = None => labels < MaxLabels
  BY <1>2, <1>4, <1>5, <1>6, <1>7 DEF UpdateTable
<1>9. PICK more : more = labels'
  OBVIOUS
<1>10. /\ IsDescription(desc) /\ Labelled(desc, more)
       /\ desc.label \in 1..labels => desc.label = table.desc.label
  <2>1. more = LabelsAfter(table.desc, view, labels)
    BY <1>8, <1>9 DEF LabelsAfter
  <2> QED
    BY <1>3, <1>4, <1>5, <2>1, DescriptionChanged
<1>11. labels' \in labels..MaxLabels
  BY <1>3, <1>8, ConstantsAssumption
<1>12. /\ u = [f \in TableFields |-> u[f]] /\ u.desc = desc
       /\ \A f \in TableFields \ {"desc"} : u[f] = table[f]
  BY <1>3, <1>6 DEF IsTable, TableFields
<1>13. u.items = table.items /\ u.records = table.records
  BY <1>12 DEF TableFields
<1>14. IsDraft(u, more)
  BY <1>3, <1>10, <1>12, <1>13 DEF IsDraft, IsTable
<1>15. /\ IsTable(x, more)
       /\ x = [f \in TableFields |-> x[f]]
       /\ \A f \in TableFields \ {"desc"} : x[f] = u[f]
       /\ \A f \in DescFields \ {"count", "indexes"} : x.desc[f] = u.desc[f]
  BY <1>6, <1>14, CountedIsTable, CountedFields DEF IsDraft
<1>16. x.desc.label = desc.label /\ x.records = table.records
  BY <1>12, <1>13, <1>15 DEF TableFields, DescFields
<1>17. \A f \in TableFields \ {"desc"} : x[f] = table[f]
  BY <1>12, <1>15
<1>18. [x EXCEPT !.desc = table.desc] = table
  BY <1>3, <1>15, <1>17 DEF IsTable, TableFields
<1>19. to = Putting(Current, t, x)
  BY <1>7 DEF Putting, Replacing
<1>20. Putting(Current, t, x).tables[t] = x
  BY <1>1, <1>3, PuttingFields
<1>21. to.tables[t] = x
  BY <1>19, <1>20
<1>22. back = [to EXCEPT !.tables[t] = [to.tables[t] EXCEPT !.desc = table.desc]]
  BY <1>7
<1>23. back = Reputting(Putting(Current, t, x), t, Current.tables[t])
  BY <1>2, <1>18, <1>19, <1>21, <1>22 DEF Reputting
<1>24. /\ IsServer(back) /\ back.tables = Current.tables /\ back.cache = Current.cache
       /\ back.dirty = Current.dirty \cup {t}
       /\ \A f \in BackupFields : back[f] = Current[f]
  BY <1>1, <1>3, <1>a, <1>23, PutBackAsWas
<1>25. Extended(Current.tables[t].records, x.records)
  BY <1>2, <1>16 DEF Extended
<1>26. Write(Putting(Current, t, x), back, outcome) /\ IsTable(x, labels')
  BY <1>8, <1>9, <1>15, <1>19
<1>27. x.desc.label \in 1..labels => x.desc.label = Current.tables[t].desc.label
  BY <1>2, <1>10, <1>16
<1> QED
  BY <1>1, <1>11, <1>24, <1>25, <1>26, <1>27, OneTable

-----------------------------------------------------------------------------
(***************************************************************************)
(* Operations that add or remove tables.                                   *)
(***************************************************************************)

\* Takes a table away again.
Unadded(s, t) == [s EXCEPT !.tables = Without(@, {t}), !.dirty = @ \ {t}]

\* A table that was not there is added, and taken away if the save fails: create_table and
\* restore_table_from_backup.
LEMMA AddTable ==
  ASSUME StoreInv, phase = "up", NEW outcome \in Outcomes, NEW t \in workload.tables,
         t \notin DOMAIN Current.tables, labels' \in labels..MaxLabels,
         NEW x, IsTable(x, labels'), x.desc.label \notin 1..labels,
         NEW T, T = With(Current.tables, t, x),
         NEW to, to = Replacing(Current, T, {t}),
         NEW back, back = Unadded(to, t),
         Write(to, back, outcome)
  PROVE  StoreInv'
<1> DEFINE names == workload.tables
<1>1. Kept(Current, names, labels) /\ labels \in Nat
  BY CurrentKept
<1>2. labels' \in Nat /\ labels <= labels'
  BY <1>1, ConstantsAssumption
<1>3. IsStore(Current, names, labels')
  BY <1>1, <1>2, LabelsGrow DEF Kept
<1>4. /\ IsServer(to) /\ to.tables = T /\ to.cache = Current.cache
      /\ to.dirty = Current.dirty \cup {t}
      /\ \A f \in BackupFields : to[f] = Current[f]
  BY <1>1, Replaced DEF Kept
<1>5. /\ DOMAIN to.tables = DOMAIN Current.tables \cup {t}
      /\ to.tables[t] = x /\ \A u \in DOMAIN Current.tables : to.tables[u] = Current.tables[u]
      /\ to.tables = [u \in DOMAIN to.tables |-> to.tables[u]]
  <2>1. /\ T = [u \in DOMAIN T |-> T[u]]
        /\ DOMAIN T = DOMAIN Current.tables \cup {t}
        /\ T[t] = x /\ \A u \in DOMAIN Current.tables : T[u] = Current.tables[u]
    BY DEF With
  <2> QED
    BY ONLY <1>4, <2>1
<1>6. IsStore(to, names, labels')
  <2>1. AreTables(to.tables, names, labels')
    BY <1>3, <1>4, <1>5 DEF IsStore, AreTables
  <2>2. AreBackups(to)
    BY <1>3, <1>4, SameBackups DEF IsStore
  <2> QED
    BY <2>1, <2>2 DEF IsStore
<1>7. Fresh(to)
  BY <1>1, <1>4, <1>5 DEF Kept, Fresh
<1>8. Grows(Current.tables, to.tables, labels)
  BY <1>4, <1>5 DEF Grows, Extended
<1>9. /\ IsServer(back) /\ back.tables = Without(to.tables, {t}) /\ back.dirty = to.dirty \ {t}
      /\ back.cache = to.cache /\ \A f \in BackupFields : back[f] = to[f]
  BY <1>4 DEF IsServer, ServerFields, BackupFields, Unadded
<1>10. back.tables = Current.tables
  <2>1. Current.tables = [u \in DOMAIN Current.tables |-> Current.tables[u]]
    BY <1>3 DEF IsStore, AreTables
  <2>2. DOMAIN to.tables \ {t} = DOMAIN Current.tables
    BY <1>4, <1>5
  <2>3. Without(to.tables, {t}) = [u \in DOMAIN Current.tables |-> to.tables[u]]
    BY <2>2 DEF Without, Restrict
  <2>4. [u \in DOMAIN Current.tables |-> to.tables[u]] = Current.tables
    BY ONLY <1>5, <2>1
  <2> QED
    BY ONLY <1>9, <2>3, <2>4
<1>11. SameStore(Current, back) /\ Fresh(back) /\ back.dirty \subseteq names /\ back.cache = Current.cache
  <2>1. t \notin DOMAIN Current.tables /\ t \in names
    OBVIOUS
  <2> QED
    BY ONLY <1>1, <1>4, <1>9, <1>10, <2>1 DEF SameStore, Fresh, Kept
<1> QED
  BY <1>4, <1>6, <1>7, <1>8, <1>9, <1>11, WriteKeeps

\* create_table keeps the invariant.
LEMMA CreateTableKeeps ==
  ASSUME StoreInv, NEW outcome \in Outcomes, NEW t \in workload.tables, NEW view, NEW index,
         CreateTable(t, view, index, outcome)
  PROVE  StoreInv'
<1>1. phase = "up" /\ t \notin DOMAIN Current.tables
  BY DEF CreateTable, Called
<1>2. /\ Kept(Current, workload.tables, labels) /\ labels \in Nat /\ labels <= MaxLabels
      /\ None \notin Nat
  BY <1>1, CurrentKept, ConstantsAssumption DEF StoreInv
<1>3. PICK none : none = IF index = None THEN Empty ELSE With(Empty, index, 0)
  OBVIOUS
<1>4. PICK plain : plain = [NewDescription EXCEPT !.indexes = none]
  OBVIOUS
<1>5. PICK desc : desc = IF view = None THEN plain ELSE StreamOn(plain, view, labels + 1)
  OBVIOUS
<1>6. PICK T : T = With(Current.tables, t, NewTable(desc))
  OBVIOUS
<1>7. PICK to : to = Replacing(Current, T, {t})
  OBVIOUS
<1>8. PICK back : back = Unadded(to, t)
  OBVIOUS
<1>9. /\ Write(to, back, outcome)
      /\ labels' = IF view = None THEN labels ELSE labels + 1
      /\ view # None => labels < MaxLabels
  BY <1>3, <1>4, <1>5, <1>6, <1>7, <1>8 DEF CreateTable, Replacing, Unadded
<1>10. labels' \in labels..MaxLabels
  BY <1>2, <1>9, ConstantsAssumption
<1>11. /\ plain = [f \in DescFields |-> plain[f]] /\ plain.count = 0 /\ plain.indexes = none
       /\ plain.stream = None /\ plain.label = None
  BY <1>4 DEF NewDescription, DescFields
<1>12. none = [i \in DOMAIN none |-> 0]
  BY <1>3 DEF Empty, With
<1>13. /\ desc = [f \in DescFields |-> desc[f]] /\ desc.count = 0 /\ desc.indexes = none
       /\ desc.label = IF view = None THEN None ELSE labels + 1
       /\ view = None => desc.stream = None
  <2>1. CASE view = None
    BY <1>5, <1>11, <2>1
  <2>2. CASE view # None
    <3>1. desc = [[plain EXCEPT !.stream = view] EXCEPT !.label = labels + 1]
      BY <1>5, <1>11, <2>2 DEF StreamOn, DescFields
    <3> QED
      BY <1>11, <2>2, <3>1 DEF DescFields
  <2> QED
    BY <2>1, <2>2
<1>14. Labelled(desc, labels')
  <2>1. CASE view = None
    BY <1>13, <2>1 DEF Labelled, StreamEnabled
  <2>2. CASE view # None
    BY <1>2, <1>9, <1>13, <2>2 DEF Labelled
  <2> QED
    BY <2>1, <2>2
<1>15. desc.label \notin 1..labels
  BY <1>2, <1>13
<1>16. PICK x : x = NewTable(desc)
  OBVIOUS
<1>17. /\ x = [f \in TableFields |-> x[f]] /\ x.desc = desc /\ x.items = Empty /\ x.records = <<>>
  BY <1>16 DEF NewTable, TableFields
<1>18. DOMAIN Empty = {} /\ AreItems(Empty)
  BY DEF Empty, AreItems
<1>19. CountsOf(desc, Empty)
  <2>1. Cardinality({}) = 0
    BY FS_EmptySet
  <2>2. \A i : {k \in DOMAIN Empty : Indexes[i] \in DOMAIN Empty[k]} = {}
    BY <1>18
  <2> QED
    BY <1>12, <1>13, <1>18, <2>1, <2>2 DEF CountsOf
<1>20. IsSequence(<<>>)
  <2>1. <<>> \in Seq({})
    OBVIOUS
  <2> QED
    BY <2>1, SequenceIs
<1>21. IsTable(x, labels')
  BY <1>13, <1>14, <1>17, <1>18, <1>19, <1>20 DEF IsTable, IsDescription
<1>22. x.desc.label \notin 1..labels /\ T = With(Current.tables, t, x)
  BY <1>6, <1>15, <1>16, <1>17
<1> QED
  BY <1>1, <1>7, <1>8, <1>9, <1>10, <1>21, <1>22, AddTable

\* restore_table_from_backup keeps the invariant: the backup's description without its
\* stream, and its items.
LEMMA RestoreKeeps ==
  ASSUME StoreInv, NEW outcome \in Outcomes, NEW t \in workload.tables, NEW arn,
         RestoreTableFromBackup(arn, t, outcome)
  PROVE  StoreInv'
<1>1. phase = "up" /\ t \notin DOMAIN Current.tables /\ arn \in DOMAIN Current.backups
  BY DEF RestoreTableFromBackup, Called
<1>2. /\ Kept(Current, workload.tables, labels) /\ labels \in Nat /\ labels <= MaxLabels
      /\ None \notin Nat
  BY <1>1, CurrentKept, ConstantsAssumption DEF StoreInv
<1>3. PICK desc : desc = RestoredDescription(Current, arn)
  OBVIOUS
<1>4. PICK items : items = Current.backupItems[arn]
  OBVIOUS
<1>5. PICK u : u = [NewTable(desc) EXCEPT !.items = items]
  OBVIOUS
<1>6. PICK x : x = Counted(u)
  OBVIOUS
<1>7. PICK T : T = With(Current.tables, t, x)
  OBVIOUS
<1>8. PICK to : to = Replacing(Current, T, {t})
  OBVIOUS
<1>9. PICK back : back = Unadded(to, t)
  OBVIOUS
<1>10. Write(to, back, outcome) /\ labels' = labels
  BY <1>3, <1>4, <1>5, <1>6, <1>7, <1>8, <1>9 DEF RestoreTableFromBackup, Replacing, Unadded
<1>11. IsDescription(Current.backupTables[arn]) /\ AreItems(items)
  BY <1>1, <1>2, <1>4 DEF Kept, IsStore, AreBackups
<1>12. desc = [[Current.backupTables[arn] EXCEPT !.stream = None] EXCEPT !.label = None]
  BY <1>3 DEF RestoredDescription
<1>13. desc = [f \in DescFields |-> desc[f]] /\ desc.stream = None /\ desc.label = None
  BY <1>11, <1>12 DEF IsDescription, DescFields
<1>14. IsDescription(desc) /\ Labelled(desc, labels)
  BY <1>13 DEF IsDescription, Labelled, StreamEnabled
<1>15. PICK n : n = NewTable(desc)
  OBVIOUS
<1>16. n = [f \in TableFields |-> n[f]] /\ n.desc = desc /\ n.records = <<>>
  BY <1>15 DEF NewTable, TableFields
<1>17. u = [n EXCEPT !.items = items]
  BY <1>5, <1>15
<1>18. u = [f \in TableFields |-> u[f]] /\ u.desc = desc /\ u.records = <<>> /\ u.items = items
  BY <1>16, <1>17 DEF TableFields
<1>19. IsSequence(<<>>)
  <2>1. <<>> \in Seq({})
    OBVIOUS
  <2> QED
    BY <2>1, SequenceIs
<1>20. IsDraft(u, labels)
  BY <1>11, <1>14, <1>18, <1>19 DEF IsDraft
<1>21. IsTable(x, labels) /\ \A f \in DescFields \ {"count", "indexes"} : x.desc[f] = u.desc[f]
  BY <1>6, <1>20, CountedIsTable, CountedFields DEF IsDraft
<1>22. x.desc.label = None
  BY <1>13, <1>18, <1>21 DEF DescFields
<1>23. x.desc.label \notin 1..labels /\ labels' \in labels..MaxLabels /\ IsTable(x, labels')
  BY <1>2, <1>10, <1>21, <1>22, ConstantsAssumption
<1> QED
  BY <1>1, <1>7, <1>8, <1>9, <1>10, <1>23, AddTable

\* delete_table keeps the invariant; the encoding kept of the table goes with the save.
LEMMA DeleteTableKeeps ==
  ASSUME StoreInv, NEW outcome \in Outcomes, NEW t, DeleteTable(t, outcome)
  PROVE  StoreInv'
<1>1. phase = "up" /\ t \in DOMAIN Current.tables
  BY DEF DeleteTable, Called
<1>2. Kept(Current, workload.tables, labels) /\ labels \in Nat /\ labels <= MaxLabels
  BY <1>1, CurrentKept DEF StoreInv
<1>3. PICK T : T = Without(Current.tables, {t})
  OBVIOUS
<1>4. PICK to : to = [Current EXCEPT !.tables = T]
  OBVIOUS
<1>5. PICK U : U = With(to.tables, t, Current.tables[t])
  OBVIOUS
<1>6. PICK back : back = [to EXCEPT !.tables = U]
  OBVIOUS
<1>7. Write(to, back, outcome) /\ labels' = labels
  BY <1>3, <1>4, <1>5, <1>6 DEF DeleteTable
<1>8. /\ DOMAIN T = DOMAIN Current.tables \ {t} /\ \A u \in DOMAIN T : T[u] = Current.tables[u]
      /\ T = [u \in DOMAIN T |-> T[u]]
  BY <1>3 DEF Without, Restrict
<1>9. /\ IsServer(to) /\ to.tables = T /\ to.cache = Current.cache /\ to.dirty = Current.dirty
      /\ \A f \in BackupFields : to[f] = Current[f]
  BY <1>2, <1>4 DEF Kept, IsServer, ServerFields, BackupFields
<1>10. U = Current.tables
  <2>1. Current.tables = [u \in DOMAIN Current.tables |-> Current.tables[u]]
    BY <1>2 DEF Kept, IsStore, AreTables
  <2>2. U = [u \in DOMAIN Current.tables |-> Current.tables[u]]
    BY <1>1, <1>5, <1>8, <1>9 DEF With
  <2> QED
    BY ONLY <2>1, <2>2
<1>11. /\ IsServer(back) /\ back.tables = U /\ back.cache = to.cache /\ back.dirty = to.dirty
       /\ \A f \in BackupFields : back[f] = to[f]
  BY <1>6, <1>9 DEF IsServer, ServerFields, BackupFields
<1>12. IsStore(to, workload.tables, labels)
  <2>1. AreTables(to.tables, workload.tables, labels)
    BY <1>2, <1>8, <1>9 DEF Kept, IsStore, AreTables
  <2>2. AreBackups(to)
    BY <1>2, <1>9, SameBackups DEF Kept, IsStore
  <2> QED
    BY <2>1, <2>2 DEF IsStore
<1>13. Fresh(to)
  BY <1>2, <1>8, <1>9 DEF Kept, Fresh
<1>14. Grows(Current.tables, to.tables, labels)
  BY <1>8, <1>9 DEF Grows, Extended
<1>15. /\ SameStore(Current, back) /\ Fresh(back) /\ back.cache = Current.cache
       /\ back.dirty \subseteq workload.tables
  BY <1>2, <1>9, <1>10, <1>11 DEF SameStore, Fresh, Kept
<1>16. labels' \in labels..MaxLabels /\ IsStore(to, workload.tables, labels')
  BY <1>2, <1>7, <1>12, ConstantsAssumption
<1> QED
  BY <1>1, <1>7, <1>9, <1>11, <1>13, <1>14, <1>15, <1>16, WriteKeeps

-----------------------------------------------------------------------------
(***************************************************************************)
(* Backups.                                                                *)
(***************************************************************************)

\* A server with other backups.
Backed(s, b, d, i) == [s EXCEPT !.backups = b, !.backupTables = d, !.backupItems = i]

\* Changing the backups changes nothing but them.
LEMMA BackedFields ==
  ASSUME NEW s, IsServer(s), NEW b, NEW d, NEW i
  PROVE  LET n == Backed(s, b, d, i) IN
         /\ IsServer(n) /\ n.tables = s.tables /\ n.cache = s.cache /\ n.dirty = s.dirty
         /\ n.backups = b /\ n.backupTables = d /\ n.backupItems = i
<1> DEFINE n == Backed(s, b, d, i)
<1>1. n = [[[s EXCEPT !.backups = b] EXCEPT !.backupTables = d] EXCEPT !.backupItems = i]
  BY DEF Backed
<1> QED
  BY <1>1 DEF IsServer, ServerFields, BackupFields

IsFunction(f) == f = [x \in DOMAIN f |-> f[x]]

Dropped(f, a) == Without(f, {a})

\* Functions that agree are the same.
LEMMA SameFunction ==
  ASSUME NEW f, NEW g, IsFunction(f), IsFunction(g), DOMAIN f = DOMAIN g, \A x \in DOMAIN f : f[x] = g[x]
  PROVE  f = g
  BY DEF IsFunction

\* What was added is taken away again.
LEMMA AddedDropped ==
  ASSUME NEW f, IsFunction(f), NEW a, NEW y, a \notin DOMAIN f
  PROVE  Dropped(With(f, a, y), a) = f
<1> DEFINE w == With(f, a, y)
<1>1. /\ DOMAIN w = DOMAIN f \cup {a} /\ \A x \in DOMAIN f : w[x] = f[x]
  BY DEF With
<1> HIDE DEF w
<1>2. /\ IsFunction(Dropped(w, a)) /\ DOMAIN Dropped(w, a) = DOMAIN f
      /\ \A x \in DOMAIN f : Dropped(w, a)[x] = f[x]
  BY <1>1 DEF Dropped, Without, Restrict, IsFunction
<1> QED
  BY <1>2, SameFunction DEF w

\* What was taken away is added again.
LEMMA DroppedAdded ==
  ASSUME NEW f, IsFunction(f), NEW a \in DOMAIN f
  PROVE  With(Dropped(f, a), a, f[a]) = f
<1> DEFINE w == Dropped(f, a)
<1>1. /\ DOMAIN w = DOMAIN f \ {a} /\ \A x \in DOMAIN w : w[x] = f[x]
  BY DEF Dropped, Without, Restrict
<1> HIDE DEF w
<1>2. /\ IsFunction(With(w, a, f[a])) /\ DOMAIN With(w, a, f[a]) = DOMAIN f
      /\ \A x \in DOMAIN f : With(w, a, f[a])[x] = f[x]
  BY <1>1 DEF With, IsFunction
<1> QED
  BY <1>2, SameFunction DEF w

\* A request that changes the backups and, if the save fails, changes them back.
LEMMA BackupsChange ==
  ASSUME StoreInv, phase = "up", NEW outcome \in Outcomes, labels' = labels,
         NEW to, IsServer(to), to.tables = Current.tables, to.cache = Current.cache,
         to.dirty = Current.dirty, AreBackups(to),
         NEW back, IsServer(back), back.tables = Current.tables, back.cache = Current.cache,
         back.dirty = Current.dirty, \A f \in BackupFields : back[f] = Current[f],
         Write(to, back, outcome)
  PROVE  StoreInv'
<1>1. Kept(Current, workload.tables, labels) /\ labels \in Nat /\ labels <= MaxLabels
  BY CurrentKept DEF StoreInv
<1>2. IsStore(to, workload.tables, labels)
  BY <1>1 DEF Kept, IsStore
<1>3. Fresh(to) /\ Fresh(back)
  BY <1>1 DEF Kept, Fresh
<1>4. Grows(Current.tables, to.tables, labels)
  BY DEF Grows, Extended
<1>5. SameStore(Current, back) /\ back.dirty \subseteq workload.tables
  BY <1>1 DEF SameStore, Kept
<1>6. labels' \in labels..MaxLabels /\ IsStore(to, workload.tables, labels')
  BY <1>1, <1>2, ConstantsAssumption
<1> QED
  BY <1>3, <1>4, <1>5, <1>6, WriteKeeps

\* create_backup keeps the invariant: a backup is a description and items of a table.
LEMMA CreateBackupKeeps ==
  ASSUME StoreInv, NEW outcome \in Outcomes, NEW t, NEW name, CreateBackup(t, name, outcome)
  PROVE  StoreInv'
<1>1. PICK arn : arn = <<t, clock, name>>
  OBVIOUS
<1>2. phase = "up" /\ t \in DOMAIN Current.tables /\ arn \notin DOMAIN Current.backups
  BY <1>1 DEF CreateBackup, Called
<1>3. PICK table : table = Current.tables[t]
  OBVIOUS
<1>4. /\ IsServer(Current) /\ AreBackups(Current)
      /\ IsDescription(table.desc) /\ AreItems(table.items)
  BY <1>2, <1>3, CurrentKept DEF Kept, IsStore, AreTables, IsTable
<1>5. PICK source : source = [source |-> t, count |-> table.desc.count]
  OBVIOUS
<1>6. PICK b, d, i, D : /\ b = Current.backups /\ d = Current.backupTables /\ i = Current.backupItems
                        /\ D = DOMAIN Current.backups
  OBVIOUS
<1>7. /\ IsFunction(b) /\ IsFunction(d) /\ IsFunction(i)
      /\ DOMAIN b = D /\ DOMAIN d = D /\ DOMAIN i = D
      /\ \A a \in D : IsDescription(d[a]) /\ AreItems(i[a])
  BY <1>4, <1>6 DEF AreBackups, BackupFields, IsFunction
<1>8. PICK to : to = Backed(Current, With(b, arn, source), With(d, arn, table.desc), With(i, arn, table.items))
  OBVIOUS
<1>9. PICK back : back = Backed(to, Dropped(to.backups, arn), Dropped(to.backupTables, arn),
                                    Dropped(to.backupItems, arn))
  OBVIOUS
<1>10. Write(to, back, outcome) /\ labels' = labels
  BY <1>1, <1>3, <1>5, <1>6, <1>8, <1>9 DEF CreateBackup, Backed, Dropped
<1>11. /\ IsServer(to) /\ to.tables = Current.tables /\ to.cache = Current.cache /\ to.dirty = Current.dirty
       /\ to.backups = With(b, arn, source) /\ to.backupTables = With(d, arn, table.desc)
       /\ to.backupItems = With(i, arn, table.items)
  BY <1>4, <1>8, BackedFields
<1>12. /\ IsServer(back) /\ back.tables = to.tables /\ back.cache = to.cache /\ back.dirty = to.dirty
       /\ back.backups = Dropped(to.backups, arn) /\ back.backupTables = Dropped(to.backupTables, arn)
       /\ back.backupItems = Dropped(to.backupItems, arn)
  BY <1>9, <1>11, BackedFields
<1>13. arn \notin D
  BY <1>2, <1>6
<1>14. back.backups = b /\ back.backupTables = d /\ back.backupItems = i
  BY <1>7, <1>11, <1>12, <1>13, AddedDropped
<1>15. \A f \in BackupFields : back[f] = Current[f]
  BY <1>6, <1>14 DEF BackupFields
<1>16. AreBackups(to)
  <2>1. IsFunction(to.backups) /\ DOMAIN to.backups = D \cup {arn}
    BY <1>7, <1>11 DEF With, IsFunction
  <2>2. /\ IsFunction(to.backupTables) /\ DOMAIN to.backupTables = D \cup {arn}
        /\ to.backupTables[arn] = table.desc /\ \A a \in D \ {arn} : to.backupTables[a] = d[a]
    BY <1>7, <1>11 DEF With, IsFunction
  <2>3. /\ IsFunction(to.backupItems) /\ DOMAIN to.backupItems = D \cup {arn}
        /\ to.backupItems[arn] = table.items /\ \A a \in D \ {arn} : to.backupItems[a] = i[a]
    BY <1>7, <1>11 DEF With, IsFunction
  <2>4. \A a \in D \cup {arn} : IsDescription(to.backupTables[a]) /\ AreItems(to.backupItems[a])
    BY <1>4, <1>7, <2>2, <2>3
  <2> QED
    BY <2>1, <2>2, <2>3, <2>4 DEF AreBackups, BackupFields, IsFunction
<1>17. /\ back.tables = Current.tables /\ back.cache = Current.cache /\ back.dirty = Current.dirty
  BY <1>11, <1>12
<1> QED
  BY <1>2, <1>10, <1>11, <1>12, <1>15, <1>16, <1>17, BackupsChange

\* delete_backup keeps the invariant.
LEMMA DeleteBackupKeeps ==
  ASSUME StoreInv, NEW outcome \in Outcomes, NEW arn, DeleteBackup(arn, outcome)
  PROVE  StoreInv'
<1>1. phase = "up" /\ arn \in DOMAIN Current.backups
  BY DEF DeleteBackup, Called
<1>2. IsServer(Current) /\ AreBackups(Current)
  BY <1>1, CurrentKept DEF Kept, IsStore
<1>3. PICK b, d, i, D : /\ b = Current.backups /\ d = Current.backupTables /\ i = Current.backupItems
                        /\ D = DOMAIN Current.backups
  OBVIOUS
<1>4. /\ IsFunction(b) /\ IsFunction(d) /\ IsFunction(i)
      /\ DOMAIN b = D /\ DOMAIN d = D /\ DOMAIN i = D
      /\ \A a \in D : IsDescription(d[a]) /\ AreItems(i[a])
  BY <1>2, <1>3 DEF AreBackups, BackupFields, IsFunction
<1>5. PICK to : to = Backed(Current, Dropped(b, arn), Dropped(d, arn), Dropped(i, arn))
  OBVIOUS
<1>6. PICK back : back = Backed(to, With(to.backups, arn, b[arn]), With(to.backupTables, arn, d[arn]),
                                    With(to.backupItems, arn, i[arn]))
  OBVIOUS
<1>7. Write(to, back, outcome) /\ labels' = labels
  BY <1>3, <1>5, <1>6 DEF DeleteBackup, Forgotten, Backed, Dropped
<1>8. /\ IsServer(to) /\ to.tables = Current.tables /\ to.cache = Current.cache /\ to.dirty = Current.dirty
      /\ to.backups = Dropped(b, arn) /\ to.backupTables = Dropped(d, arn)
      /\ to.backupItems = Dropped(i, arn)
  BY <1>2, <1>5, BackedFields
<1>9. /\ IsServer(back) /\ back.tables = to.tables /\ back.cache = to.cache /\ back.dirty = to.dirty
      /\ back.backups = With(to.backups, arn, b[arn]) /\ back.backupTables = With(to.backupTables, arn, d[arn])
      /\ back.backupItems = With(to.backupItems, arn, i[arn])
  BY <1>6, <1>8, BackedFields
<1>10. arn \in D
  BY <1>1, <1>3
<1>11. back.backups = b /\ back.backupTables = d /\ back.backupItems = i
  BY <1>4, <1>8, <1>9, <1>10, DroppedAdded
<1>12. \A f \in BackupFields : back[f] = Current[f]
  BY <1>3, <1>11 DEF BackupFields
<1>13. AreBackups(to)
  <2>1. IsFunction(to.backups) /\ DOMAIN to.backups = D \ {arn}
    BY <1>4, <1>8 DEF Dropped, Without, Restrict, IsFunction
  <2>2. /\ IsFunction(to.backupTables) /\ DOMAIN to.backupTables = D \ {arn}
        /\ \A a \in D \ {arn} : to.backupTables[a] = d[a]
    BY <1>4, <1>8 DEF Dropped, Without, Restrict, IsFunction
  <2>3. /\ IsFunction(to.backupItems) /\ DOMAIN to.backupItems = D \ {arn}
        /\ \A a \in D \ {arn} : to.backupItems[a] = i[a]
    BY <1>4, <1>8 DEF Dropped, Without, Restrict, IsFunction
  <2>4. \A a \in D \ {arn} : IsDescription(to.backupTables[a]) /\ AreItems(to.backupItems[a])
    BY <1>4, <2>2, <2>3
  <2> QED
    BY <2>1, <2>2, <2>3, <2>4 DEF AreBackups, BackupFields, IsFunction
<1>14. /\ back.tables = Current.tables /\ back.cache = Current.cache /\ back.dirty = Current.dirty
  BY <1>8, <1>9
<1> QED
  BY <1>1, <1>7, <1>8, <1>9, <1>12, <1>13, <1>14, BackupsChange

-----------------------------------------------------------------------------
(***************************************************************************)
(* Batches and transactions.                                               *)
(***************************************************************************)

\* Several items of a table are written and counted, and put back as they were before the
\* first write (apply_planned_writes and its rollback).
LEMMA PlannedTable ==
  ASSUME NEW table, NEW top, IsTable(table, top), NEW new, DOMAIN new \subseteq Keys,
         NEW x, x = Counted(SetItems(table, new)),
         NEW old, old = [k \in DOMAIN new |-> ItemAt(table, k)]
  PROVE  /\ IsTable(x, top) /\ x.desc.label = table.desc.label /\ x.records = table.records
         /\ Counted(SetItems(x, old)) = table
<1>1. PICK w : w = SetItems(table, new)
  OBVIOUS
<1>2. /\ table = [f \in TableFields |-> table[f]] /\ IsDescription(table.desc) /\ AreItems(table.items)
      /\ IsSequence(table.records) /\ Labelled(table.desc, top)
  BY DEF IsTable
<1>3. /\ w = [f \in TableFields |-> w[f]]
      /\ \A f \in TableFields \ {"items"} : w[f] = table[f]
      /\ AreItems(w.items)
  BY <1>1, <1>2, SetItemsFields
<1>4. w.desc = table.desc /\ w.records = table.records
  BY <1>3 DEF TableFields
<1>5. IsDraft(w, top)
  BY <1>2, <1>3, <1>4 DEF IsDraft
<1>6. /\ IsTable(x, top) /\ x = [f \in TableFields |-> x[f]]
      /\ \A f \in TableFields \ {"desc"} : x[f] = w[f]
      /\ \A f \in DescFields \ {"count", "indexes"} : x.desc[f] = w.desc[f]
      /\ DOMAIN x.desc.indexes = DOMAIN w.desc.indexes
  BY <1>1, <1>5, CountedIsTable, CountedFields DEF IsDraft
<1>7. x.desc.label = table.desc.label /\ x.records = table.records /\ x.items = w.items
  BY <1>4, <1>6 DEF TableFields, DescFields
<1>8. PICK u : u = SetItems(x, old)
  OBVIOUS
<1>9. u.items = table.items
  BY <1>1, <1>2, <1>6, <1>7, <1>8, ItemsBack
<1>10. u = [f \in TableFields |-> u[f]] /\ \A f \in TableFields \ {"items"} : u[f] = x[f]
  BY <1>6, <1>8, SetItemsFields
<1>11. u.desc = x.desc /\ \A f \in {"tags", "pitr", "policy", "records"} : u[f] = x[f] /\ x[f] = w[f] /\ w[f] = table[f]
  BY <1>3, <1>6, <1>10 DEF TableFields
<1>12. \A f \in TableFields \ {"desc"} : u[f] = table[f]
  BY <1>9, <1>11 DEF TableFields
<1>13. /\ IsDescription(u.desc) /\ DOMAIN u.desc.indexes = DOMAIN table.desc.indexes
       /\ \A f \in DescFields \ {"count", "indexes"} : u.desc[f] = table.desc[f]
  BY <1>4, <1>6, <1>11 DEF IsTable
<1>14. Counted(u) = table
  BY <1>10, <1>12, <1>13, CountedBack
<1> QED
  BY <1>6, <1>7, <1>8, <1>14

\* All writes of a plan, or none of them.
LEMMA ApplyPlanKeeps ==
  ASSUME StoreInv, phase = "up", NEW outcome \in Outcomes, NEW plan,
         Touched(plan) \subseteq DOMAIN Current.tables,
         \A t \in Touched(plan) : WrittenKeys(plan, t) \subseteq Keys,
         ApplyPlan(plan, outcome)
  PROVE  StoreInv'
<1> DEFINE names == workload.tables
<1>1. Kept(Current, names, labels) /\ labels \in Nat /\ labels <= MaxLabels
  BY CurrentKept DEF StoreInv
<1>2. PICK tables : tables = Current.tables
  OBVIOUS
<1>3. AreTables(tables, names, labels) /\ IsServer(Current) /\ AreBackups(Current) /\ Fresh(Current)
  BY <1>1, <1>2 DEF Kept, IsStore
<1> DEFINE new(t) == Counted(SetItems(tables[t], Writes(plan, t)))
<1> DEFINE old(t) == [k \in WrittenKeys(plan, t) |-> ItemAt(tables[t], k)]
<1>4. \A t \in Touched(plan) :
        /\ IsTable(new(t), labels) /\ new(t).desc.label = tables[t].desc.label
        /\ new(t).records = tables[t].records
        /\ Counted(SetItems(new(t), old(t))) = tables[t]
  <2> SUFFICES ASSUME NEW t \in Touched(plan)
               PROVE  /\ IsTable(new(t), labels) /\ new(t).desc.label = tables[t].desc.label
                      /\ new(t).records = tables[t].records
                      /\ Counted(SetItems(new(t), old(t))) = tables[t]
    OBVIOUS
  <2>1. IsTable(tables[t], labels)
    BY <1>2, <1>3 DEF AreTables
  <2>2. PICK w : w = Writes(plan, t)
    OBVIOUS
  <2>3. DOMAIN w = WrittenKeys(plan, t) /\ DOMAIN w \subseteq Keys
    BY <2>2 DEF Writes
  <2>4. PICK o : o = old(t)
    OBVIOUS
  <2>5. o = [k \in DOMAIN w |-> ItemAt(tables[t], k)]
    BY <2>3, <2>4
  <2>6. PICK x : x = new(t)
    OBVIOUS
  <2>7. x = Counted(SetItems(tables[t], w))
    BY <2>2, <2>6
  <2> HIDE DEF new, old
  <2>8. /\ IsTable(x, labels) /\ x.desc.label = tables[t].desc.label
        /\ x.records = tables[t].records /\ Counted(SetItems(x, o)) = tables[t]
    BY <2>1, <2>3, <2>5, <2>7, PlannedTable
  <2> QED
    BY <2>4, <2>6, <2>8
<1>5. PICK T : T = [t \in DOMAIN tables |-> IF t \in Touched(plan) THEN new(t) ELSE tables[t]]
  OBVIOUS
<1>6. PICK to : to = Replacing(Current, T, Touched(plan))
  OBVIOUS
<1>7. to = Planned(Current, plan)
  BY <1>2, <1>5, <1>6 DEF Planned, Replacing
<1>8. /\ IsServer(to) /\ to.tables = T /\ to.cache = Current.cache /\ to.dirty = Current.dirty \cup Touched(plan)
      /\ \A f \in BackupFields : to[f] = Current[f]
  BY <1>3, <1>6, Replaced
<1>9. PICK U : U = [t \in DOMAIN T |-> IF t \in Touched(plan) THEN Counted(SetItems(T[t], old(t))) ELSE T[t]]
  OBVIOUS
<1>10. PICK back : back = [to EXCEPT !.tables = U]
  OBVIOUS
<1>11. back = PutBack(to, Current, plan)
  BY <1>2, <1>8, <1>9, <1>10 DEF PutBack
<1> HIDE DEF new, old
<1>12. /\ T = [t \in DOMAIN tables |-> T[t]] /\ DOMAIN T = DOMAIN tables
       /\ \A t \in DOMAIN tables : T[t] = IF t \in Touched(plan) THEN new(t) ELSE tables[t]
  BY <1>5
<1>13. U = tables
  <2>1. U = [t \in DOMAIN tables |-> tables[t]]
    BY <1>2, <1>4, <1>9, <1>12
  <2>2. tables = [t \in DOMAIN tables |-> tables[t]]
    BY <1>3 DEF AreTables
  <2> QED
    BY ONLY <2>1, <2>2
<1>14. /\ IsServer(back) /\ back.tables = tables /\ back.cache = Current.cache
       /\ back.dirty = Current.dirty \cup Touched(plan)
       /\ \A f \in BackupFields : back[f] = Current[f]
  <2>1. /\ IsServer(back) /\ back.tables = U /\ back.cache = to.cache /\ back.dirty = to.dirty
        /\ \A f \in BackupFields : back[f] = to[f]
    BY <1>8, <1>10 DEF IsServer, ServerFields, BackupFields
  <2> QED
    BY <1>8, <1>13, <2>1
<1>15. Write(to, back, outcome) /\ labels' = labels
  BY <1>7, <1>11 DEF ApplyPlan
<1>16. Touched(plan) \subseteq names
  BY <1>2, <1>3 DEF AreTables
<1>17. AreTables(T, names, labels)
  BY <1>2, <1>3, <1>4, <1>12 DEF AreTables
<1>18. AreBackups(to)
  BY <1>3, <1>8, SameBackups
<1>19. Fresh(to)
  BY <1>2, <1>3, <1>8, <1>12 DEF Fresh
<1>20. Grows(Current.tables, to.tables, labels)
  BY <1>2, <1>4, <1>8, <1>12 DEF Grows, Extended
<1>21. SameStore(Current, back) /\ Fresh(back) /\ back.dirty \subseteq names
  BY <1>1, <1>2, <1>3, <1>14, <1>16 DEF SameStore, Fresh, Kept
<1>22. labels' \in labels..MaxLabels /\ IsStore(to, names, labels')
  BY <1>1, <1>8, <1>15, <1>17, <1>18, ConstantsAssumption DEF IsStore
<1> QED
  BY <1>8, <1>14, <1>15, <1>19, <1>20, <1>21, <1>22, WriteKeeps

\* batch_write_item and transact_write_items keep the invariant.
LEMMA BatchesKeep ==
  ASSUME StoreInv, NEW outcome \in Outcomes, NEW batch \in workload.batches,
         BatchWriteItem(batch, outcome) \/ TransactWriteItems(batch, outcome)
  PROVE  StoreInv'
<1>1. \A i \in DOMAIN batch : batch[i].key \in Keys
  <2>1. workload \in Workloads
    BY DEF StoreInv
  <2> QED
    BY <2>1, ConstantsAssumption
<1>2. phase = "up" /\ \A i \in DOMAIN batch : batch[i].table \in DOMAIN Current.tables
  BY DEF BatchWriteItem, TransactWriteItems, Called, Planable
<1>3. PICK plan : /\ ApplyPlan(plan, outcome)
                  /\ DOMAIN plan \subseteq DOMAIN batch
                  /\ \A i \in DOMAIN plan : plan[i].table = batch[i].table /\ plan[i].key = batch[i].key
  <2>1. CASE BatchWriteItem(batch, outcome)
    <3> DEFINE plan == [i \in DOMAIN batch |->
                 [table |-> batch[i].table, key |-> batch[i].key, put |-> batch[i].put]]
    <3>1. ApplyPlan(plan, outcome)
      BY <2>1 DEF BatchWriteItem
    <3>2. DOMAIN plan = DOMAIN batch
      OBVIOUS
    <3>3. \A i \in DOMAIN plan : plan[i].table = batch[i].table /\ plan[i].key = batch[i].key
      OBVIOUS
    <3> HIDE DEF plan
    <3> QED
      BY <3>1, <3>2, <3>3
  <2>2. CASE TransactWriteItems(batch, outcome)
    <3> DEFINE plan == [i \in {i \in DOMAIN batch : batch[i].op # "check"} |->
                 [table |-> batch[i].table, key |-> batch[i].key, put |-> PlannedPut(batch[i])]]
    <3>1. ApplyPlan(plan, outcome)
      BY <2>2 DEF TransactWriteItems
    <3>2. DOMAIN plan \subseteq DOMAIN batch
      OBVIOUS
    <3>3. \A i \in DOMAIN plan : plan[i].table = batch[i].table /\ plan[i].key = batch[i].key
      OBVIOUS
    <3> HIDE DEF plan
    <3> QED
      BY <3>1, <3>2, <3>3
  <2> QED
    BY <2>1, <2>2
<1>4. Touched(plan) \subseteq DOMAIN Current.tables
  BY <1>2, <1>3 DEF Touched
<1>5. \A t \in Touched(plan) : WrittenKeys(plan, t) \subseteq Keys
  BY <1>1, <1>3 DEF WrittenKeys
<1> QED
  BY <1>2, <1>3, <1>4, <1>5, ApplyPlanKeeps

-----------------------------------------------------------------------------
(***************************************************************************)
(* Requests that read, expiry, and the process.                            *)
(***************************************************************************)

\* dispatch: expired items go, and memory and file stay the same.
LEMMA ServedKeeps ==
  ASSUME StoreInv, phase = "up", Served, IsReader(reader'),
         ReaderKept(reader', Current.tables, labels)
  PROVE  StoreInv'
<1>1. /\ Kept(Current, workload.tables, labels) /\ SameStore(Current, CurrentDisk)
      /\ IsStore(CurrentDisk, workload.tables, labels)
  BY CurrentKept
<1>2. /\ srv' = Current /\ disk' = CurrentDisk /\ workload' = workload /\ phase' = "up"
      /\ clock' = clock /\ labels' = labels
  BY DEF Served
<1>3. CurrentDisk.tables = Current.tables
  BY <1>1 DEF SameStore
<1> QED
  BY <1>1, <1>2, <1>3 DEF StoreInv

\* Refuse and the pages of a scan change no table.
LEMMA ReadsKeep ==
  ASSUME StoreInv,
         \/ Refuse
         \/ NextPage
         \/ \E t, index, limit : StartScan(t, index, limit)
  PROVE  StoreInv'
<1>1. phase = "up" /\ Served /\ reader' = reader
  BY DEF Refuse, NextPage, StartScan, Called
<1>2. ReaderKept(reader, Current.tables, labels) /\ IsReader(reader)
  BY <1>1, CurrentKept DEF StoreInv
<1> QED
  BY <1>1, <1>2, ServedKeeps

\* An iterator is given out for the stream as it is labelled now (get_shard_iterator).
LEMMA GetShardIteratorKeeps ==
  ASSUME StoreInv, NEW t, NEW position, GetShardIterator(t, position)
  PROVE  StoreInv'
<1>1. PICK table : table = Current.tables[t]
  OBVIOUS
<1>2. /\ phase = "up" /\ Served /\ t \in DOMAIN Current.tables
      /\ StreamThere(t, table.desc.label) /\ position \in 0..Len(table.records)
      /\ reader' = [on |-> TRUE, table |-> t, label |-> table.desc.label, from |-> position,
                    pos |-> position, got |-> <<>>]
  BY <1>1 DEF GetShardIterator, Called
<1>3. IsTable(table, labels)
  BY <1>1, <1>2, CurrentKept DEF Kept, IsStore, AreTables
<1>4. table.desc.label \in 1..labels
  BY <1>1, <1>2, <1>3 DEF IsTable, Labelled, StreamThere
<1>5. Len(table.records) \in Nat /\ IsSequence(table.records)
  BY <1>3 DEF IsTable, IsSequence
<1>6. position \in Nat /\ position <= Len(table.records)
  BY <1>2, <1>5
<1>7. SubSeq(table.records, position + 1, position) = <<>>
  <2>1. table.records \in Seq({table.records[i] : i \in 1..Len(table.records)})
    BY <1>5, SequenceOf
  <2> QED
    BY <1>6, <2>1
<1>8. ReaderKept(reader', Current.tables, labels)
  BY <1>1, <1>2, <1>4, <1>6, <1>7 DEF ReaderKept, Reads
<1>9. IsReader(reader')
  BY <1>2 DEF IsReader, ReaderFields
<1> QED
  BY <1>2, <1>8, <1>9, ServedKeeps

\* Records are read on from where the reader is (get_records, stream_records).
LEMMA GetRecordsKeeps ==
  ASSUME StoreInv, NEW limit \in workload.limits, GetRecords(limit)
  PROVE  StoreInv'
<1>1. PICK records : records = Current.tables[reader.table].records
  OBVIOUS
<1>2. PICK end : end = IF limit = 0 THEN Len(records) ELSE Min({Len(records), reader.pos + limit})
  OBVIOUS
<1>3. PICK got : got = SubSeq(records, reader.pos + 1, end)
  OBVIOUS
<1>4. /\ phase = "up" /\ Served /\ reader.on /\ StreamThere(reader.table, reader.label)
      /\ reader' = [reader EXCEPT !.pos = @ + Len(got), !.got = @ \o got]
  BY <1>1, <1>2, <1>3 DEF GetRecords, Called
<1>5. ReaderKept(reader, Current.tables, labels)
  BY <1>4, CurrentKept
<1>6. /\ reader.label \in 1..labels /\ reader.from \in Nat /\ reader.pos \in Nat
      /\ reader.from <= reader.pos /\ reader.pos <= Len(records)
      /\ SubSeq(records, reader.from + 1, reader.pos) = reader.got
      /\ reader.table \in DOMAIN Current.tables
  BY <1>1, <1>4, <1>5 DEF ReaderKept, Reads, StreamThere
<1>7. IsSequence(records)
  BY <1>1, <1>4, <1>6, CurrentKept DEF Kept, IsStore, AreTables, IsTable
<1>8. Len(records) \in Nat /\ limit \in Nat
  BY <1>7, ConstantsAssumption DEF IsSequence, StoreInv
<1>9. end \in Nat /\ reader.pos <= end /\ end <= Len(records)
  <2>1. PICK a, b : a = Len(records) /\ b = reader.pos + limit
    OBVIOUS
  <2>2. a \in Nat /\ b \in Nat /\ reader.pos <= a /\ reader.pos <= b
    BY <1>6, <1>8, <2>1
  <2>3. Min({a, b}) \in {a, b} /\ Min({a, b}) <= a
    BY <2>2 DEF Min
  <2>4. end = IF limit = 0 THEN a ELSE Min({a, b})
    BY <1>2, <2>1
  <2> QED
    BY <2>1, <2>2, <2>3, <2>4
<1>10. /\ SubSeq(records, reader.from + 1, reader.pos) \o got = SubSeq(records, reader.from + 1, end)
       /\ Len(got) = end - reader.pos
  BY <1>3, <1>6, <1>7, <1>9, ReadsOn
<1>11. reader = [f \in ReaderFields |-> reader[f]]
  BY DEF StoreInv, IsReader
<1>12. PICK next : next = reader'
  OBVIOUS
<1>13. next = [[reader EXCEPT !.pos = @ + Len(got)] EXCEPT !.got = @ \o got]
  BY <1>4, <1>12
<1>14. /\ next.on = reader.on /\ next.table = reader.table /\ next.label = reader.label
       /\ next.from = reader.from /\ next.pos = reader.pos + Len(got) /\ next.got = reader.got \o got
       /\ next = [f \in ReaderFields |-> next[f]]
  BY <1>11, <1>13 DEF ReaderFields
<1>15. /\ next.pos = end /\ next.got = SubSeq(records, next.from + 1, next.pos)
  <2>1. next.pos = end
    BY <1>6, <1>9, <1>10, <1>14
  <2> QED
    BY <1>6, <1>10, <1>14, <2>1
<1>16. ReaderKept(next, Current.tables, labels)
  <2>1. Current.tables[next.table].records = records
    BY <1>1, <1>14
  <2>2. /\ next.label \in 1..labels /\ next.from \in Nat /\ next.pos \in Nat
        /\ next.from <= next.pos /\ next.pos <= Len(records)
    BY <1>6, <1>9, <1>14, <1>15
  <2> QED
    BY <1>15, <2>1, <2>2 DEF ReaderKept, Reads
<1> QED
  BY <1>4, <1>12, <1>14, <1>16, ServedKeeps DEF IsReader

\* A failed save of the expiry leaves the tables as they were; a kill leaves the file whole.
LEMMA ExpiryFailsKeeps ==
  ASSUME StoreInv, NEW outcome \in Outcomes, ExpiryFails(outcome)
  PROVE  StoreInv'
<1> DEFINE names == workload.tables
<1>1. /\ phase = "up" /\ outcome \in {"failed", "killed"} /\ workload' = workload
      /\ clock' = clock /\ labels' = labels /\ reader' = reader
  BY DEF ExpiryFails
<1>2. /\ Kept(srv, names, labels) /\ SameStore(srv, disk) /\ IsStore(disk, names, labels)
      /\ ReaderKept(reader, disk.tables, labels) /\ labels \in Nat
  BY <1>1 DEF StoreInv
<1>3. CASE outcome = "failed"
  <2>1. srv' = Unswept(srv) /\ disk' = disk /\ phase' = "up"
    BY <1>3 DEF ExpiryFails
  <2>2. PICK T : T = [t \in DOMAIN srv.tables |->
                        IF t \in Expiring(srv) THEN Counted(srv.tables[t]) ELSE srv.tables[t]]
    OBVIOUS
  <2>3. Unswept(srv) = Replacing(srv, T, Expiring(srv))
    BY <2>2 DEF Unswept, Replacing
  <2>4. T = srv.tables
    <3>1. \A t \in DOMAIN srv.tables : Counted(srv.tables[t]) = srv.tables[t]
      BY <1>2, CountedOnce DEF Kept, IsStore, AreTables
    <3>2. srv.tables = [t \in DOMAIN srv.tables |-> srv.tables[t]]
      BY <1>2 DEF Kept, IsStore, AreTables
    <3>3. T = [t \in DOMAIN srv.tables |-> srv.tables[t]]
      BY <2>2, <3>1
    <3> QED
      BY ONLY <3>2, <3>3
  <2>5. PICK n : n = Unswept(srv)
    OBVIOUS
  <2>6. /\ IsServer(n) /\ n.tables = srv.tables /\ n.cache = srv.cache
        /\ n.dirty = srv.dirty \cup Expiring(srv) /\ \A f \in BackupFields : n[f] = srv[f]
    <3>1. IsServer(srv)
      BY <1>2 DEF Kept
    <3>2. n = Replacing(srv, T, Expiring(srv))
      BY <2>3, <2>5
    <3>3. /\ IsServer(n) /\ n.tables = T /\ n.cache = srv.cache
          /\ n.dirty = srv.dirty \cup Expiring(srv) /\ \A f \in BackupFields : n[f] = srv[f]
      BY <3>1, <3>2, Replaced
    <3> QED
      BY <2>4, <3>3
  <2>7. Expiring(srv) \subseteq DOMAIN srv.tables
    BY DEF Expiring
  <2>8. SameStore(srv, n) /\ SameStore(n, disk)
    BY <1>2, <2>6 DEF SameStore
  <2>9. IsStore(n, names, labels)
    BY <1>2, <2>8, SameIsStore DEF Kept
  <2>10. Expiring(srv) \subseteq names
    BY <1>2, <2>7 DEF Kept, IsStore, AreTables
  <2>11. Kept(n, names, labels)
    BY <1>2, <2>6, <2>9, <2>10 DEF Kept, Fresh
  <2> QED
    BY <1>1, <1>2, <2>1, <2>5, <2>8, <2>11 DEF StoreInv
<1>4. CASE outcome = "killed"
  <2>1. srv' = Blank /\ disk' = File(Swept(srv)) /\ phase' = "down"
    BY <1>4 DEF ExpiryFails
  <2>2. /\ IsServer(Swept(srv)) /\ IsStore(Swept(srv), names, labels) /\ Fresh(Swept(srv))
        /\ Grows(srv.tables, Swept(srv).tables, labels)
    BY <1>2, SweptStore
  <2>3. SameStore(Swept(srv), File(Swept(srv)))
    BY <2>2, FileExact
  <2>4. IsStore(File(Swept(srv)), names, labels) /\ File(Swept(srv)).tables = Swept(srv).tables
    BY <2>2, <2>3, SameIsStore DEF SameStore
  <2>5. ReaderKept(reader, srv.tables, labels) /\ \A t \in DOMAIN srv.tables : IsSequence(srv.tables[t].records)
    BY <1>2 DEF SameStore, Kept, IsStore, AreTables, IsTable
  <2>6. ReaderKept(reader, File(Swept(srv)).tables, labels)
    BY <1>2, <2>2, <2>4, <2>5, ReaderGrows
  <2>7. Kept(Blank, names, labels)
    BY BlankKept
  <2> QED
    BY <1>1, <2>1, <2>4, <2>6, <2>7 DEF StoreInv
<1> QED
  BY <1>1, <1>3, <1>4

\* load finds what was saved: counting again changes nothing (Server::new).
LEMMA LoadedKept ==
  ASSUME NEW d, NEW names, NEW top, IsStore(d, names, top)
  PROVE  Kept(Loaded(d), names, top) /\ SameStore(d, Loaded(d))
<1> DEFINE n == Loaded(d)
<1>1. n.tables = d.tables
  <2>1. \A t \in DOMAIN d.tables : Counted(d.tables[t]) = d.tables[t]
    BY CountedOnce DEF IsStore, AreTables
  <2>2. d.tables = [t \in DOMAIN d.tables |-> d.tables[t]]
    BY DEF IsStore, AreTables
  <2>3. n.tables = [t \in DOMAIN d.tables |-> Counted(d.tables[t])]
    BY DEF Loaded
  <2> QED
    BY <2>1, <2>2, <2>3
<1>2. /\ IsServer(n) /\ n.cache = Empty /\ n.dirty = {}
      /\ \A f \in BackupFields : d[f] = n[f]
  BY DEF Loaded, IsServer, ServerFields, BackupFields
<1> HIDE DEF n
<1>3. SameStore(d, n)
  BY <1>1, <1>2 DEF SameStore
<1>4. IsStore(n, names, top)
  BY <1>3, SameIsStore
<1>5. DOMAIN Empty = {}
  BY DEF Empty
<1>6. Kept(n, names, top)
  BY <1>2, <1>4, <1>5 DEF Kept, Fresh
<1> QED
  BY <1>3, <1>6 DEF n

-----------------------------------------------------------------------------
(***************************************************************************)
(* The invariant holds.                                                    *)
(***************************************************************************)

\* The server starts with an empty store (DynamoDbServer::new on an empty directory).
LEMMA InitStore ==
  ASSUME Init
  PROVE  StoreInv
<1>1. /\ workload \in Workloads /\ phase = "up" /\ srv = Blank /\ disk = File(Blank) /\ clock = 0
      /\ labels = 0 /\ reader = NoReader
  BY DEF Init
<1>2. Kept(Blank, workload.tables, labels) /\ Fresh(Blank)
  BY BlankKept
<1>3. IsStore(Blank, workload.tables, labels)
  BY <1>2 DEF Kept
<1>4. SameStore(Blank, File(Blank))
  BY <1>2, <1>3, FileExact
<1>5. IsStore(File(Blank), workload.tables, labels)
  BY <1>3, <1>4, SameIsStore
<1>6. IsReader(reader) /\ reader.on = FALSE
  BY <1>1 DEF NoReader, IsReader, ReaderFields
<1>7. clock \in 0..MaxClock /\ labels \in 0..MaxLabels
  BY <1>1, ConstantsAssumption
<1> QED
  BY <1>1, <1>2, <1>4, <1>5, <1>6, <1>7 DEF StoreInv, ReaderKept

\* Every request on a table keeps the invariant.
LEMMA WriteRequestKeeps ==
  ASSUME StoreInv, NEW t \in workload.tables, NEW outcome \in Outcomes, WriteRequest(t, outcome)
  PROVE  StoreInv'
<1>1. CASE \E view \in workload.views \cup {None}, index \in workload.indexes \cup {None} :
             CreateTable(t, view, index, outcome)
  BY <1>1, CreateTableKeeps
<1>2. CASE DeleteTable(t, outcome)
  BY <1>2, DeleteTableKeeps
<1>3. CASE \/ \E view \in workload.views \cup {"off"} : UpdateTable(t, view, "none", None, outcome)
           \/ \E change \in {"create", "delete"}, index \in workload.indexes : UpdateTable(t, None, change, index, outcome)
  BY <1>3, UpdateTableKeeps
<1>4. CASE \/ \E item \in workload.items, condition \in workload.conditions : PutItem(t, item, condition, outcome)
           \/ \E k \in Keys, condition \in workload.conditions : DeleteItem(t, k, condition, outcome)
           \/ \E k \in Keys, update \in workload.updates, condition \in workload.conditions :
                UpdateItem(t, k, update, condition, outcome)
  BY <1>4, ItemRequestsKeep
<1>5. CASE \/ \E enabled \in BOOLEAN : UpdateTimeToLive(t, enabled, outcome) \/ UpdateContinuousBackups(t, enabled, outcome)
           \/ \E keys \in (SUBSET TagKeys) \ {{}} : TagResource(t, keys, outcome) \/ UntagResource(t, keys, outcome)
           \/ PutResourcePolicy(t, "p", outcome)
           \/ DeleteResourcePolicy(t, outcome)
  BY <1>5, SettingsKeep
<1>6. CASE \E name \in {"b"} : CreateBackup(t, name, outcome)
  BY <1>6, CreateBackupKeeps
<1>7. CASE \E arn \in DOMAIN srv.backups : RestoreTableFromBackup(arn, t, outcome)
  BY <1>7, RestoreKeeps
<1> QED
  BY <1>1, <1>2, <1>3, <1>4, <1>5, <1>6, <1>7 DEF WriteRequest

\* Every request, page, reader step, tick and restart keeps the store whole.
LEMMA NextStore ==
  ASSUME StoreInv, [Next]_vars
  PROVE  StoreInv'
<1>1. CASE \E t \in workload.tables, outcome \in Outcomes : WriteRequest(t, outcome)
  BY <1>1, WriteRequestKeeps
<1>2. CASE \E batch \in workload.batches, outcome \in Outcomes :
             BatchWriteItem(batch, outcome) \/ TransactWriteItems(batch, outcome)
  BY <1>2, BatchesKeep
<1>3. CASE \E arn \in DOMAIN srv.backups, outcome \in Outcomes : DeleteBackup(arn, outcome)
  BY <1>3, DeleteBackupKeeps
<1>4. CASE \/ Refuse
           \/ NextPage
           \/ \E t \in workload.tables, index \in workload.indexes \cup {None}, limit \in workload.limits :
                StartScan(t, index, limit)
  BY <1>4, ReadsKeep
<1>5. CASE \E outcome \in Outcomes : ExpiryFails(outcome)
  BY <1>5, ExpiryFailsKeeps
<1>6. CASE \E t \in workload.tables, position \in 0..MaxRecords : GetShardIterator(t, position)
  BY <1>6, GetShardIteratorKeeps
<1>7. CASE \E limit \in workload.limits : GetRecords(limit)
  BY <1>7, GetRecordsKeeps
<1>8. CASE EndScan
  BY <1>8 DEF EndScan, StoreInv
<1>9. CASE Tick
  <2>1. /\ workload' = workload /\ phase' = phase /\ srv' = srv /\ disk' = disk /\ labels' = labels
        /\ reader' = reader /\ clock' = clock + 1 /\ clock < MaxClock
    BY <1>9 DEF Tick, clientVars
  <2>2. clock' \in 0..MaxClock
    BY <2>1, ConstantsAssumption DEF StoreInv
  <2> QED
    BY <2>1, <2>2 DEF StoreInv
<1>10. CASE Crash
  <2>1. /\ workload' = workload /\ phase' = "down" /\ srv' = Blank /\ disk' = disk /\ labels' = labels
        /\ reader' = reader /\ clock' = clock
    BY <1>10 DEF Crash, clientVars
  <2> QED
    BY <2>1, BlankKept DEF StoreInv
<1>11. CASE Restart
  <2>1. /\ workload' = workload /\ phase' = "up" /\ srv' = Loaded(disk) /\ disk' = disk /\ labels' = labels
        /\ reader' = reader /\ clock' = clock
    BY <1>11 DEF Restart, clientVars
  <2>2. Kept(Loaded(disk), workload.tables, labels) /\ SameStore(disk, Loaded(disk))
    BY LoadedKept DEF StoreInv
  <2>3. SameStore(Loaded(disk), disk)
    BY <2>2 DEF SameStore
  <2> QED
    BY <2>1, <2>2, <2>3 DEF StoreInv
<1>12. CASE UNCHANGED vars
  BY <1>12 DEF vars, clientVars, StoreInv
<1> QED
  BY <1>1, <1>2, <1>3, <1>4, <1>5, <1>6, <1>7, <1>8, <1>9, <1>10, <1>11, <1>12 DEF Next

\* For every choice of the constants, memory and state.json are whole, with right counts and
\* complete backups, and the same while the server is up, through every request, failed save,
\* kill, restart and expiry (server.rs: persist, load and the undo of each operation).
THEOREM StoreIsWhole == Spec => []StoreInv
<1>1. Init => StoreInv
  BY InitStore
<1>2. StoreInv /\ [Next]_vars => StoreInv'
  BY NextStore
<1> QED
  BY <1>1, <1>2, PTL DEF Spec

\* A save of the DynamoDB server is all or nothing, also of several tables at once; counts,
\* cached encodings and backups go with it, and no reader of a stream saw what was not saved
\* (server.rs: persist and the undo of each operation; streams.rs).
THEOREM SavesAreWhole == Spec => []SavesWhole
<1>1. StoreInv => SavesWhole
  <2> SUFFICES ASSUME StoreInv PROVE SavesWhole
    OBVIOUS
  <2>1. Kept(srv, workload.tables, labels) /\ IsStore(disk, workload.tables, labels)
    BY DEF StoreInv
  <2>2. TypeOK
    BY <2>1 DEF StoreInv, TypeOK, Kept, IsStore, AreTables, IsTable, AreItems
  <2>3. NothingUnsaved
    <3> SUFFICES ASSUME phase = "up"
                 PROVE  /\ Loaded(disk).tables = srv.tables
                        /\ \A f \in {"backups", "backupTables", "backupItems"} : disk[f] = srv[f]
      BY DEF NothingUnsaved
    <3>1. SameStore(srv, disk)
      BY DEF StoreInv
    <3>2. SameStore(disk, Loaded(disk))
      BY <2>1, LoadedKept
    <3> QED
      BY <3>1, <3>2 DEF SameStore, BackupFields
  <2>4. CacheFresh
    BY <2>1 DEF CacheFresh, Kept, Fresh
  <2>5. CountsRight
    <3> SUFFICES ASSUME NEW t \in DOMAIN srv.tables, NEW table, table = srv.tables[t]
                 PROVE  /\ table.desc.count = Cardinality(DOMAIN table.items)
                        /\ \A i \in DOMAIN table.desc.indexes :
                             table.desc.indexes[i] =
                               Cardinality({k \in DOMAIN table.items :
                                              Indexes[i] \in DOMAIN table.items[k]})
      BY DEF CountsRight
    <3>1. CountsOf(table.desc, table.items)
      BY <2>1 DEF Kept, IsStore, AreTables, IsTable
    <3> QED
      BY <3>1 DEF CountsOf
  <2>6. BackupsWhole
    <3>1. \A s : AreBackups(s) => DOMAIN s.backups = DOMAIN s.backupTables /\ DOMAIN s.backups = DOMAIN s.backupItems
      BY DEF AreBackups, BackupFields
    <3> QED
      BY <2>1, <3>1 DEF BackupsWhole, Kept, IsStore
  <2>7. ReaderSeesStream
    <3> SUFFICES ASSUME phase = "up", reader.on, StreamThere(reader.table, reader.label)
                 PROVE  LET records == Current.tables[reader.table].records IN
                        /\ reader.pos <= Len(records)
                        /\ SubSeq(records, reader.from + 1, reader.pos) = reader.got
      BY DEF ReaderSeesStream
    <3>1. ReaderKept(reader, Current.tables, labels)
      BY CurrentKept
    <3> QED
      BY <3>1 DEF ReaderKept, Reads, StreamThere
  <2> QED
    BY <2>2, <2>3, <2>4, <2>5, <2>6, <2>7 DEF SavesWhole
<1> QED
  BY <1>1, StoreIsWhole, PTL

=============================================================================
