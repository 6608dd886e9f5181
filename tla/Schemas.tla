------------------------------ MODULE Schemas ------------------------------
(***************************************************************************)
(* Pub/Sub schemas: a map in memory under the server's one mutex, changed  *)
(* over REST (create, delete) and over gRPC (create, commit, roll back,    *)
(* delete a revision, delete), each change followed by a save of           *)
(* resources.json.  When the save fails, REST and gRPC's create take their *)
(* change back; gRPC's other changes stay in memory, and resource_dirty    *)
(* lets the next save of anything write them.  Creation times are left     *)
(* out.  The message file is not written here: nothing in it changes.      *)
(***************************************************************************)
EXTENDS Integers, Sequences, SequencesExt, FiniteSets, FiniteSetsExt

CONSTANTS Names,        \* schema names, naturals in the map's order
          Workloads,    \* what clients send in a run: name -> [bodies, revisions], the
                        \* schemas sent for it and a bound on its revisions
          Inlines,      \* schemas sent inline to be validated
          PageSize,
          MaxFaults     \* bound: failed saves and crashes

VARIABLES workload,     \* the run's member of Workloads
          schemas,      \* Server::schemas
          dirty,        \* resource_dirty
          file,         \* the schemas of resources.json
          up,
          said,         \* name -> what the answers so far let a client find there
          pager,        \* a client listing page by page
          faults

vars == <<workload, schemas, dirty, file, up, said, pager, faults>>

NoId == -1              \* an empty revision id
Draft == 0              \* an id that is no positive number
None == 0               \* no name
Schema(req, rev, revs, api) == [type |-> req.type, def |-> req.def, rev |-> rev, revs |-> revs, api |-> api]
\* api (who created it) is kept for the properties only.
Absent == Schema([type |-> "", def |-> ""], NoId, <<>>, "none")
Idle == [of |-> <<"none">>, token |-> 0, seen |-> {}, due |-> {}, done |-> FALSE]
Exists(n) == schemas[n] # Absent
-----------------------------------------------------------------------------
(* Validation. *)

ValidType(t) == t \in {"", "TYPE_UNSPECIFIED", "PROTOCOL_BUFFER", "AVRO"}
ValidEncoding(e) == e \in {"", "ENCODING_UNSPECIFIED", "JSON", "BINARY"}
\* A definition is blank, a JSON object, other JSON, or other text.
ValidDefinition(t, d) == t = "AVRO" => d \notin {"json", "text"}
ValidData(msg, e) == e = "JSON" => msg \in {"empty", "json"}
\* create_schema's checks and grpc_schema_from_request's are the same ones.
ValidSchema(req) == ValidType(req.type) /\ ValidDefinition(req.type, req.def)

\* A request to validate a message: by name or with an inline schema.
NoInline == [type |-> "none", def |-> ""]
EmptyInline(s) == s.type = "" /\ s.def = ""
RestAccepts(n, s, msg, e) ==
    LET inline == s # NoInline /\ ~EmptyInline(s)
    IN  /\ (n # None) # inline
        /\ ValidEncoding(e) /\ ValidData(msg, e)
        /\ IF inline THEN ValidSchema(s) ELSE Exists(n)
GrpcAccepts(n, s, msg, e) ==
    /\ ValidEncoding(e) /\ (n # None) # (s # NoInline)
    /\ IF n # None THEN Exists(n) ELSE ValidSchema(s)
    /\ ValidData(msg, e)
-----------------------------------------------------------------------------
(* Revisions. *)

Current(s) == [type |-> s.type, def |-> s.def, rev |-> s.rev]
\* grpc_schema_revisions: a schema created over REST has none stored.
Revisions(s) ==
    LET named == SelectSeq(s.revs, LAMBDA r : r.rev # NoId)
    IN  IF named # <<>> THEN named ELSE <<Current(s)>>
NextRevisionId(rs) == 1 + Max({0} \cup {r.rev : r \in Range(rs)})
AtRevision(s, r, revs) == Schema(r, r.rev, revs, s.api)

\* The schema's own fields change before its revisions are read.
Committed(s, req) ==
    LET r == [type |-> req.type, def |-> req.def, rev |-> NextRevisionId(Revisions(s))]
    IN  AtRevision(s, r, Append(Revisions(AtRevision(s, r, s.revs)), r))
RolledBack(s, rev) ==
    LET rs == Revisions(s)
        target == SelectSeq(rs, LAMBDA r : r.rev = rev)[1]
        r == [target EXCEPT !.rev = NextRevisionId(rs)]
    IN  AtRevision(s, r, Append(rs, r))
RevisionDeleted(s, rev) ==
    LET kept == SelectSeq(Revisions(s), LAMBDA r : r.rev # rev)
    IN  AtRevision(s, Last(kept), kept)
-----------------------------------------------------------------------------
(* Listing, REST's and gRPC's: <<first, last, next token>>, 0 for no next. *)

PageBounds(total, token, size) ==
    LET start == Min({token, total})
    IN  IF size > 0 /\ start + size < total THEN <<start + 1, start + size, start + size>>
        ELSE <<start + 1, total, 0>>
GrpcPageBounds(total, token, size) ==
    LET limit == IF size > 0 /\ size < total THEN size ELSE total
        end == Min({token + limit, total})
    IN  <<token + 1, end, IF end < total THEN end ELSE 0>>

\* What is listed: the names, or the ids of one schema's revisions.
Items(of, ss) ==
    IF of[1] = "names" THEN SetToSortSeq({n \in Names : ss[n] # Absent}, <)
    ELSE IF of[1] = "revisions" /\ ss[of[2]] # Absent
    THEN [i \in 1..Len(Revisions(ss[of[2]])) |-> Revisions(ss[of[2]])[i].rev]
    ELSE <<>>
\* A listing is given up when something it lists goes away.
Follow == pager' = IF Range(Items(pager.of, schemas)) \subseteq Range(Items(pager.of, schemas'))
                   THEN pager ELSE Idle

Page(of) ==
    LET from == IF pager.of = of /\ ~pager.done THEN pager
                ELSE [Idle EXCEPT !.of = of, !.due = Range(Items(of, schemas))]
        items == Items(of, schemas)
        page == GrpcPageBounds(Len(items), from.token, PageSize)
    IN  /\ up /\ items # <<>> /\ from.token <= Len(items)
        /\ pager' = [from EXCEPT !.token = page[3], !.done = page[3] = 0,
                                 !.seen = @ \cup Range(SubSeq(items, page[1], page[2]))]
        /\ UNCHANGED <<schemas, dirty, file, up, said, faults>>
ListSchemas == Page(<<"names">>)
ListSchemaRevisions(n) == Exists(n) /\ Page(<<"revisions", n>>)
-----------------------------------------------------------------------------
(* Changes.  persist() succeeds, or fails, or the process dies before or   *)
(* after the file is renamed into place.                                   *)

Put(n, new) == [schemas EXCEPT ![n] = new]
Saved(n, new) ==
    /\ schemas' = Put(n, new) /\ file' = Put(n, new) /\ dirty' = FALSE
    /\ said' = [said EXCEPT ![n] = {new}]
    /\ UNCHANGED <<up, faults>>
\* REST, and gRPC's create: the change is taken back, and the client told so.
Undone(n, new) ==
    /\ faults < MaxFaults /\ faults' = faults + 1
    /\ dirty' = TRUE
    /\ UNCHANGED <<schemas, file, up, said>>
\* The other gRPC calls: refused, but in memory all the same.
LeftInMemory(n, new) ==
    /\ faults < MaxFaults /\ faults' = faults + 1
    /\ schemas' = Put(n, new) /\ dirty' = TRUE
    /\ said' = [said EXCEPT ![n] = @ \cup {new}]
    /\ UNCHANGED <<file, up>>
Dies(n, new) ==
    /\ faults < MaxFaults /\ faults' = faults + 1
    /\ up' = FALSE
    /\ file' \in {file, Put(n, new)}
    /\ said' = [said EXCEPT ![n] = @ \cup {new}]
    /\ UNCHANGED <<schemas, dirty>>

RestChange(n, new) == up /\ (Saved(n, new) \/ Undone(n, new) \/ Dies(n, new)) /\ Follow
GrpcChange(n, new) == up /\ (Saved(n, new) \/ LeftInMemory(n, new) \/ Dies(n, new)) /\ Follow

IdOf(req) == IF req.rev = NoId THEN 1 ELSE req.rev
\* REST stores the revisions of the body as they are, gRPC the first revision.
CreateSchema(n, req) ==
    /\ ValidSchema(req) /\ ~Exists(n)
    /\ RestChange(n, Schema(req, IdOf(req), req.revs, "rest"))
GrpcCreateSchema(n, req) ==
    LET s == Schema(req, IdOf(req), <<>>, "grpc")
    IN  /\ ValidSchema(req) /\ ~Exists(n)
        /\ RestChange(n, [s EXCEPT !.revs = <<Current(s)>>])
DeleteSchema(n) == Exists(n) /\ RestChange(n, Absent)
GrpcDeleteSchema(n) == Exists(n) /\ GrpcChange(n, Absent)

CommitSchema(n, req) ==
    /\ ValidSchema(req) /\ Exists(n) /\ req.type = schemas[n].type
    /\ Len(Revisions(schemas[n])) < workload[n].revisions
    /\ GrpcChange(n, Committed(schemas[n], req))
RollbackSchema(n, rev) ==
    /\ Exists(n)
    /\ \E r \in Range(Revisions(schemas[n])) : r.rev = rev
    /\ Len(Revisions(schemas[n])) < workload[n].revisions
    /\ GrpcChange(n, RolledBack(schemas[n], rev))
DeleteSchemaRevision(n, rev) ==
    /\ Exists(n)
    /\ \E r \in Range(Revisions(schemas[n])) : r.rev = rev
    /\ \E r \in Range(Revisions(schemas[n])) : r.rev # rev
    /\ GrpcChange(n, RevisionDeleted(schemas[n], rev))

\* Any other request's save writes what is dirty.
OtherSave ==
    /\ up /\ dirty
    /\ file' = schemas /\ dirty' = FALSE
    /\ UNCHANGED <<schemas, up, said, pager, faults>>
Restart ==
    /\ ~up /\ up' = TRUE
    /\ schemas' = file /\ dirty' = FALSE
    /\ Follow /\ UNCHANGED <<file, said, faults>>
-----------------------------------------------------------------------------
Ids(n) == Draft..(workload[n].revisions + 1)

Init ==
    /\ workload \in Workloads
    /\ schemas = [n \in Names |-> Absent] /\ file = schemas
    /\ dirty = FALSE /\ up = TRUE /\ faults = 0
    /\ said = [n \in Names |-> {Absent}] /\ pager = Idle

Next ==
    /\ UNCHANGED workload
    /\ \/ \E n \in Names :
             \/ \E req \in workload[n].bodies : CreateSchema(n, req) \/ GrpcCreateSchema(n, req) \/ CommitSchema(n, req)
             \/ \E rev \in Ids(n) : RollbackSchema(n, rev) \/ DeleteSchemaRevision(n, rev)
             \/ DeleteSchema(n) \/ GrpcDeleteSchema(n) \/ ListSchemaRevisions(n)
       \/ ListSchemas \/ OtherSave \/ Restart

Spec == Init /\ [][Next]_vars
-----------------------------------------------------------------------------
(* Properties. *)

\* What memory and resources.json hold of a schema is what its last answered
\* change made of it, or what a change left without a clear answer (a gRPC
\* call refused by a failed save, a call cut off) would have made of it since.
AnsweredIsKept ==
    \A n \in Names : file[n] \in said[n] /\ (up => schemas[n] \in said[n])

\* Memory is ahead of the file only while resource_dirty says so.
CleanIsSaved == up /\ ~dirty => file = schemas

\* The revisions of a schema created over gRPC have increasing ids and end
\* with the one in force, whatever was committed, rolled back and deleted.
RevisionsOrdered ==
    \A n \in Names : schemas[n].api = "grpc" =>
       LET rs == schemas[n].revs
       IN  /\ Last(rs) = Current(schemas[n])
           /\ \A i \in 1..Len(rs) - 1 : rs[i].rev < rs[i + 1].rev

\* A listing read page by page to its end holds everything that was there all
\* along, while revisions are committed and rolled back between its pages.
PagingComplete == pager.done => pager.due \subseteq pager.seen

\* REST and gRPC page alike, and accept the same messages, but for an inline
\* schema with nothing in it, which REST takes for none.
ApisAgree ==
    /\ \A t \in 0..3, k \in 0..3, s \in 0..4 : k <= t => PageBounds(t, k, s) = GrpcPageBounds(t, k, s)
    /\ \A n \in Names \cup {None}, s \in Inlines \cup {NoInline}, e \in {"", "JSON", "XML"}, msg \in {"empty", "json", "text"} :
         ~EmptyInline(s) => (RestAccepts(n, s, msg, e) <=> GrpcAccepts(n, s, msg, e))
=============================================================================
