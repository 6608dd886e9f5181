-------------------------------- MODULE Gcs --------------------------------
(***************************************************************************)
(* The Cloud Storage service (src/services/gcs/src/http.rs) beside the S3  *)
(* service, on the same directory and in the same process.                 *)
(*                                                                         *)
(* Its own mutex serialises its requests: at most one, `gcs', is in        *)
(* flight.  Conditions on an object are checked on a snapshot and again    *)
(* under the lock of the write they guard.  A resumable upload is a        *)
(* session, in memory and in session.json, with the bytes received so far  *)
(* in body.part; when it completes, a receipt names the object for ever.   *)
(*                                                                         *)
(* Ghosts: answers[u] the generations reported for upload u, notices[u]    *)
(* the events emitted for it.                                              *)
(***************************************************************************)
EXTENDS S3

CONSTANTS Uploads

VARIABLES gcs, sessions, answers, notices
gcsVars == <<gcs, sessions, answers, notices>>
vars == <<disk, io, lock, s3, clock, faults, workload, read, gcs, sessions, answers, notices>>

\* What every client uploads.
File == workload.file

GcsFree == gcs = Idle /\ io.gcs = <<>>
GcsLocked(ops, next) ==
    /\ Perform("gcs", ops)
    /\ lock' = IF ops = <<>> THEN "none" ELSE "gcs"
    /\ gcs' = next
    /\ UNCHANGED <<disk, s3, faults, workload, read, sessions, answers, notices>>
GcsUnlocked(ops, next) ==
    /\ Perform("gcs", ops)
    /\ gcs' = next
    /\ UNCHANGED <<disk, lock, s3, clock, faults, workload, read, answers, notices>>
GcsOnly(next) ==
    gcs' = next /\ UNCHANGED <<disk, io, lock, s3, clock, faults, workload, read>>

(***************************************************************************)
(* Conditions: each of a set is met.  A missing object is generation 0.    *)
(***************************************************************************)
Generation(d, b, k) == IF Live(d, b, k) THEN Current(d, b, k).modified ELSE 0
Metageneration(d, b, k) == IF Live(d, b, k) THEN Current(d, b, k).metageneration ELSE 0
Met(cond, d, b, k) ==
    CASE cond.kind = "ifGenerationMatch" -> Generation(d, b, k) = cond.value
      [] cond.kind = "ifGenerationNotMatch" -> Generation(d, b, k) # cond.value
      [] cond.kind = "ifMetagenerationMatch" -> Metageneration(d, b, k) = cond.value
      [] cond.kind = "ifMetagenerationNotMatch" -> Metageneration(d, b, k) # cond.value
Preconditions(conds, d, b, k) == \A cond \in conds : Met(cond, d, b, k)

\* Conditions a client can state: on no object, or on the one it last saw.
Conditions(b, k) ==
    {{}} \cup {{[kind |-> kind, value |-> value]} :
               kind \in workload.conds,
               value \in {0, Generation(disk, b, k), Metageneration(disk, b, k)}}

(***************************************************************************)
(* Buckets, and single-request writes: check, then check and write.        *)
(***************************************************************************)
GcsCreateBucket(b) ==
    /\ Called("GcsCreateBucket") /\ GcsFree /\ Locked("gcs") /\ ~BucketExists(disk, b)
    /\ GcsLocked(CreateBucketOps(b), Idle) /\ UNCHANGED clock
GcsDeleteBucket(b) ==
    /\ Called("GcsDeleteBucket") /\ GcsFree /\ Locked("gcs")
    /\ Exists(disk, <<b>>) /\ BucketEmpty(disk, b)
    /\ GcsLocked(DeleteBucketOps(disk, b), Idle) /\ UNCHANGED clock

Checked(op, b, k, conds, body) ==
    [op |-> op, b |-> b, k |-> k, conds |-> conds, body |-> body]
\* Media and multipart uploads.
UploadObject(b, k, body, conds) ==
    /\ Called("GcsUpload") /\ GcsFree /\ Locked("gcs") /\ BucketExists(disk, b)
    /\ Preconditions(conds, disk, b, k)
    /\ GcsOnly(Checked("put", b, k, conds, body)) /\ UNCHANGED <<sessions, answers, notices>>
PatchObject(b, k, conds) ==
    /\ Called("GcsPatch") /\ GcsFree /\ Locked("gcs") /\ BucketExists(disk, b) /\ Live(disk, b, k)
    /\ Preconditions(conds, disk, b, k)
    /\ GcsOnly(Checked("patch", b, k, conds, <<>>)) /\ UNCHANGED <<sessions, answers, notices>>
GcsDeleteObject(b, k, conds) ==
    /\ Called("GcsDelete") /\ GcsFree /\ Locked("gcs") /\ BucketExists(disk, b) /\ Live(disk, b, k)
    /\ Preconditions(conds, disk, b, k)
    /\ GcsOnly(Checked("delete", b, k, conds, <<>>)) /\ UNCHANGED <<sessions, answers, notices>>

\* Conditions on the source guard the write when source and destination are one.
CopyTo(b, sk, k, sourceConds, conds) ==
    /\ Called("GcsCopy") /\ GcsFree /\ Locked("gcs") /\ BucketExists(disk, b) /\ Live(disk, b, sk)
    /\ Preconditions(sourceConds, disk, b, sk) /\ Preconditions(conds, disk, b, k)
    /\ GcsOnly(Checked("put", b, k, IF sk = k THEN conds \cup sourceConds ELSE conds, disk[Body(b, sk)]))
    /\ UNCHANGED <<sessions, answers, notices>>

\* The sources are read one at a time; a named generation is checked on each,
\* and again under the write's lock on a source that is the destination.
Compose(b, k, sources, conds) ==
    /\ Called("GcsCompose") /\ GcsFree /\ Locked("gcs") /\ BucketExists(disk, b)
    /\ Preconditions(conds, disk, b, k)
    /\ GcsOnly([op |-> "compose", b |-> b, k |-> k, conds |-> conds, body |-> <<>>, sources |-> sources])
    /\ UNCHANGED <<sessions, answers, notices>>
ComposeSource ==
    /\ gcs.op = "compose" /\ Locked("gcs")
    /\ LET source == Head(gcs.sources)
           conds == IF source.generation = 0 THEN {}
                    ELSE {[kind |-> "ifGenerationMatch", value |-> source.generation]}
           kept == IF source.k = gcs.k THEN gcs.conds \cup conds ELSE gcs.conds
       IN  GcsOnly(IF gcs.sources = <<>> THEN Checked("put", gcs.b, gcs.k, gcs.conds, gcs.body)
                   ELSE IF ~Live(disk, gcs.b, source.k) \/ ~Preconditions(conds, disk, gcs.b, source.k) THEN Idle
                   ELSE [gcs EXCEPT !.sources = Tail(@), !.conds = kept,
                                    !.body = @ \o disk[Body(gcs.b, source.k)]])
    /\ UNCHANGED <<sessions, answers, notices>>

PassesUnchecked(b, k) ==
    BucketExists(disk, b) /\ (gcs.op \in {"patch", "delete"} => Live(disk, b, k))
\* What is checked again under the lock.
Passes(b, k) ==
    /\ BucketExists(disk, b)
    /\ gcs.op \in {"patch", "delete"} => Live(disk, b, k)
    /\ Preconditions(gcs.conds, disk, b, k)
    /\ gcs.op = "delete" => ~DeleteDenied(b, k, FALSE)
\* The write, under the lock, of a request that passed its first check.
Commit ==
    /\ gcs.op \in {"put", "patch", "delete"} /\ Locked("gcs")
    /\ LET b == gcs.b
           k == gcs.k
           object == NewObject(disk, b, gcs.body, NoUpload, Unlocked, FALSE, clock)
           done == [op |-> "done", conds |-> gcs.conds]
       IN  IF ~Passes(b, k)
           THEN GcsOnly(Idle) /\ UNCHANGED <<sessions, answers, notices>>
           ELSE /\ Stamped
                /\ GcsLocked(CASE gcs.op = "put" -> PutOps(disk, b, k, object, gcs.body)
                               [] gcs.op = "patch" -> UpdateMetadataOps(disk, b, k)
                               [] gcs.op = "delete" -> DeleteOps(disk, b, k, clock), done)
Done ==
    /\ gcs.op = "done" /\ io.gcs = <<>>
    /\ GcsOnly(Idle) /\ UNCHANGED <<sessions, answers, notices>>

(***************************************************************************)
(* Resumable uploads.                                                      *)
(***************************************************************************)
SaveSessionOps(u, session) == <<Mkdirs(SessionDir(u)), Write(SessionFile(u), session)>>

\* The identifiers are random: one is drawn once.
CreateResumableUpload(u, b, k, conds) ==
    /\ Called("Resumable") /\ GcsFree /\ Locked("gcs") /\ BucketExists(disk, b)
    /\ u \notin DOMAIN sessions /\ ~Exists(disk, SessionDir(u)) /\ ~Exists(disk, Receipt(u))
    /\ answers[u] = {} /\ notices[u] = 0
    /\ Preconditions(conds, disk, b, k)
    /\ LET session == [b |-> b, k |-> k, conds |-> conds, received |-> 0]
       IN  /\ sessions' = (u :> session) @@ sessions
           /\ GcsUnlocked(SaveSessionOps(u, session), [op |-> "created", u |-> u])
Created ==
    /\ gcs.op = "created" /\ io.gcs = <<>>
    /\ GcsOnly(Idle) /\ UNCHANGED <<sessions, answers, notices>>

\* The object that completed the upload: its receipt, or the current object that
\* still carries the upload's id because a crash came before the receipt.
HasMarked(u) ==
    /\ u \in DOMAIN sessions /\ Live(disk, sessions[u].b, sessions[u].k)
    /\ Current(disk, sessions[u].b, sessions[u].k).upload = u
UploadResult(u) ==
    IF Exists(disk, Receipt(u)) THEN disk[Receipt(u)] ELSE Current(disk, sessions[u].b, sessions[u].k)
RecoverOps(u) ==
    IF Exists(disk, Receipt(u)) THEN <<>> ELSE PreserveCurrentOps(disk, sessions[u].b, sessions[u].k)

\* A PUT for an upload: of a range of the file, of all of it without a range, or
\* a status query.  A completed upload answers with its result whatever is sent.
PutResumableUpload(u, from, to) ==
    /\ Called("Resumable") /\ GcsFree /\ Locked("gcs")
    /\ u \in DOMAIN sessions \/ Exists(disk, Receipt(u))
    /\ IF Exists(disk, Receipt(u)) \/ HasMarked(u)
       THEN GcsLocked(RecoverOps(u), [op |-> "claim", u |-> u, object |-> UploadResult(u)])
       ELSE GcsOnly([op |-> "chunk", u |-> u, from |-> from, to |-> to]) /\ UNCHANGED <<sessions, answers, notices>>
    /\ UNCHANGED clock

Staged(u) == IF Exists(disk, SessionBody(u)) THEN disk[SessionBody(u)] ELSE <<>>
AppendKeeping(u, committed, chunk) ==
    <<Mkdirs(SessionDir(u))>>
    \o [i \in DOMAIN chunk |-> Write(SessionBody(u), Staged(u) \o SubSeq(chunk, 1, i))]
\* What is beyond the committed offset is cut off before the chunk is appended.
AppendOps(u, committed, chunk) ==
    <<Mkdirs(SessionDir(u)), Write(SessionBody(u), SubSeq(Staged(u), 1, committed))>>
    \o [i \in DOMAIN chunk |->
          Write(SessionBody(u), SubSeq(Staged(u), 1, committed) \o SubSeq(chunk, 1, i))]

\* A chunk must begin at the committed offset.  The last one is staged without
\* moving the offset; a file sent whole is not staged at all.
ReceiveChunk ==
    /\ gcs.op = "chunk" /\ Locked("gcs")
    /\ LET u == gcs.u
           session == sessions[u]
           final == gcs.to = Len(File)
           whole == gcs.from = 0 /\ final
           chunk == SubSeq(File, gcs.from + 1, gcs.to)
           moved == [session EXCEPT !.received = gcs.to]
       IN  IF \/ gcs.from # session.received
              \/ ~final /\ ~(BucketExists(disk, session.b) /\ Preconditions(session.conds, disk, session.b, session.k))
              \/ ~whole /\ Len(Staged(u)) < session.received
           THEN GcsOnly(Idle) /\ UNCHANGED sessions
           ELSE IF whole THEN GcsOnly([op |-> "commit", u |-> u, body |-> File]) /\ UNCHANGED sessions
           ELSE /\ GcsUnlocked(AppendOps(u, session.received, chunk)
                               \o (IF final THEN <<>> ELSE SaveSessionOps(u, moved)),
                               [op |-> "staged", u |-> u, final |-> final, moved |-> moved])
                /\ UNCHANGED sessions
    /\ UNCHANGED <<answers, notices>>
\* Without a Content-Range what is sent is committed, whatever was received.
ReceiveWhole ==
    /\ gcs.op = "chunk" /\ gcs.from = 0 /\ gcs.to = Len(File)
    /\ GcsOnly([op |-> "commit", u |-> gcs.u, body |-> File])
    /\ UNCHANGED <<sessions, answers, notices>>
ChunkStaged ==
    /\ gcs.op = "staged" /\ io.gcs = <<>>
    /\ IF gcs.final
       THEN GcsOnly([op |-> "commit", u |-> gcs.u, body |-> Staged(gcs.u)]) /\ UNCHANGED sessions
       ELSE GcsOnly(Idle) /\ sessions' = [sessions EXCEPT ![gcs.u] = gcs.moved]
    /\ UNCHANGED <<answers, notices>>

\* Staged bytes that were not committed are cut off; that may fail as well.
Truncated(u) ==
    IF u \in DOMAIN sessions /\ Len(Staged(u)) > sessions[u].received
    THEN (SessionBody(u) :> SubSeq(Staged(u), 1, sessions[u].received)) @@ disk ELSE disk

CommitUpload ==
    /\ gcs.op = "commit" /\ Locked("gcs")
    /\ LET u == gcs.u
           session == sessions[u]
           b == session.b
           k == session.k
           object == NewObject(disk, b, gcs.body, u, Unlocked, FALSE, clock)
       IN  IF Exists(disk, Receipt(u)) \/ HasMarked(u)
           THEN GcsLocked(RecoverOps(u), [op |-> "claim", u |-> u, object |-> UploadResult(u)]) /\ UNCHANGED clock
           ELSE IF BucketExists(disk, b) /\ Preconditions(session.conds, disk, b, k)
           THEN /\ Stamped
                /\ GcsLocked(CommitUploadOps(disk, b, k, object, gcs.body),
                             [op |-> "committing", u |-> u, object |-> object, conds |-> session.conds])
           ELSE /\ disk' \in {disk, Truncated(u)} /\ gcs' = Idle
                /\ UNCHANGED <<io, lock, s3, clock, faults, workload, read, sessions, answers, notices>>
Committed ==
    /\ gcs.op = "committing" /\ io.gcs = <<>>
    /\ GcsOnly([op |-> "claim", u |-> gcs.u, object |-> gcs.object])
    /\ UNCHANGED <<sessions, answers, notices>>

Claims(u) == ~Exists(disk, Notified(u))
\* The event is claimed once, by creating a file; then the session is removed
\* and the result is sent.
ClaimEvent ==
    /\ gcs.op = "claim" /\ Locked("gcs")
    /\ IF Exists(disk, Receipt(gcs.u)) /\ disk[Receipt(gcs.u)] = gcs.object
       THEN GcsLocked(IF Claims(gcs.u) THEN <<Write(Notified(gcs.u), TRUE)>> ELSE <<>>,
                      [op |-> "finish", u |-> gcs.u, object |-> gcs.object, notify |-> Claims(gcs.u)])
       ELSE GcsOnly(Idle) /\ UNCHANGED <<sessions, answers, notices>>
    /\ UNCHANGED clock
FinishUpload ==
    /\ gcs.op = "finish" /\ io.gcs = <<>>
    /\ sessions' = Without(sessions, {gcs.u})
    /\ Perform("gcs", <<RemoveAll(SessionDir(gcs.u))>>)
    /\ notices' = [notices EXCEPT ![gcs.u] = @ + (IF gcs.notify THEN 1 ELSE 0)]
    /\ answers' = [answers EXCEPT ![gcs.u] = @ \cup {gcs.object.modified}]
    /\ gcs' = Idle
    /\ UNCHANGED <<disk, lock, s3, clock, faults, workload, read>>

(***************************************************************************)
(* Steps on the disk, errors, crash and restart.                           *)
(***************************************************************************)
GcsDisk == DiskStep("gcs") /\ UNCHANGED <<s3, clock, faults, workload, read>> /\ UNCHANGED gcsVars

\* An error while a session is created forgets it; while a chunk is staged or
\* the object committed, the staged bytes are cut off if that is possible.
GcsError ==
    /\ io.gcs # <<>>
    /\ \/ ~Possible(disk, Head(io.gcs)) /\ UNCHANGED faults
       \/ faults < workload.faults /\ faults' = faults + 1
    /\ Perform("gcs", <<>>)
    /\ lock' = Released("gcs", <<>>)
    /\ disk' \in IF gcs.op \in {"staged", "committing"} THEN {disk, Truncated(gcs.u)} ELSE {disk}
    /\ sessions' = IF gcs.op = "created" THEN Without(sessions, {gcs.u}) ELSE sessions
    /\ gcs' = Idle
    /\ UNCHANGED <<s3, clock, workload, read, answers, notices>>

\* The process stops; the next one loads the sessions that are on disk.
Loaded ==
    LET saved == {u \in Uploads : Exists(disk, SessionFile(u))}
    IN  [u \in saved |-> disk[SessionFile(u)]]
Crash ==
    /\ faults < workload.faults /\ faults' = faults + 1
    /\ io' = [s3 |-> <<>>, gcs |-> <<>>] /\ lock' = "none"
    /\ s3' = Idle /\ gcs' = Idle
    /\ sessions' = Loaded
    /\ UNCHANGED <<disk, clock, workload, read, answers, notices>>

GcsStep ==
    \/ GcsDisk \/ GcsError \/ ComposeSource \/ Commit \/ Done \/ Created \/ ReceiveChunk
    \/ ReceiveWhole \/ ChunkStaged \/ CommitUpload \/ Committed \/ ClaimEvent \/ FinishUpload

GcsObject(b, k) ==
    \/ \E conds \in Conditions(b, k) :
          \/ \E body \in workload.bodies : UploadObject(b, k, body, conds)
          \/ PatchObject(b, k, conds) \/ GcsDeleteObject(b, k, conds)
          \/ \E sk \in workload.keys : \E sourceConds \in Conditions(b, sk) : CopyTo(b, sk, k, sourceConds, conds)
          \/ \E sk \in workload.keys : \E g \in {0, Generation(disk, b, sk)} :
                Compose(b, k, <<[k |-> k, generation |-> 0], [k |-> sk, generation |-> g]>>, conds)
          \/ \E u \in Uploads : CreateResumableUpload(u, b, k, conds)

GcsNext ==
    \/ GcsStep
    \/ \E b \in workload.buckets : GcsCreateBucket(b) \/ GcsDeleteBucket(b) \/ \E k \in workload.keys : GcsObject(b, k)
    \/ \E u \in Uploads, from \in 0 .. Len(File), to \in 1 .. Len(File) :
          from < to /\ PutResumableUpload(u, from, to)

Init ==
    /\ workload \in Workloads
    /\ disk = [p \in {<<b>> : b \in workload.buckets} |-> "dir"]
              @@ [p \in {BucketFile(b, "bucket.json") : b \in workload.buckets} |->
                    [NewBucket EXCEPT !.versioning = workload.versioning]]
    /\ io = [s3 |-> <<>>, gcs |-> <<>>] /\ lock = "none" /\ s3 = Idle /\ clock = 1 /\ faults = 0
    /\ read = Idle
    /\ gcs = Idle /\ sessions = <<>> /\ answers = [u \in Uploads |-> {}] /\ notices = [u \in Uploads |-> 0]

Next == (S3Next /\ UNCHANGED gcsVars) \/ GcsNext \/ Crash
Spec == Init /\ [][Next]_vars

(***************************************************************************)
(* Properties.                                                             *)
(***************************************************************************)
\* The disk is a tree: every file is in a directory; every lock holder has
\* operations to perform; sessions are the uploads'.
TypeOK ==
    /\ \A p \in DOMAIN disk : InDirectory(disk, p)
    /\ lock # "none" => io[lock] # <<>>
    /\ DOMAIN sessions \subseteq Uploads
    /\ clock \in 1 .. MaxClock /\ faults \in 0 .. workload.faults

\* The objects and versions that carry an upload's id, and its receipt.
IsObject(p) == Len(p) \in {4, 6} /\ p[2] = "objects" /\ p[Len(p)] = "object.json"
Objects(u) ==
    {disk[p] : p \in {q \in DOMAIN disk : q = Receipt(u) \/ (IsObject(q) /\ disk[q].upload = u)}}

\* An upload makes one object: whatever chunks are repeated, whatever is
\* overwritten or deleted since, and wherever a crash falls, every answer to it
\* and every object that carries its id have one generation
\* (put_resumable_upload, preserve_resumable_upload_result).
UploadOnce == \A u \in Uploads : Cardinality(answers[u] \cup {o.modified : o \in Objects(u)}) <= 1

\* What an upload leaves is the file, each byte once and in order
\* (append_session_body cuts off what an interrupted append left).
UploadBody == \A u \in Uploads : \A o \in Objects(u) : o.etag = <<"md5", File>>

\* A completed upload is announced at most once (claim_resumable_upload_event).
NotifiedOnce == \A u \in Uploads : notices[u] <= 1

\* Without faults, whenever no write is under way: an object that is not a
\* marker has a body, which is the one its metadata describes, in its version
\* as in the current object (what get_object_snapshot relies on).
Quiet == lock = "none" /\ faults = 0
Describes(object, body) ==
    /\ object.size = Len(body)
    /\ object.etag[1] = "md5" => object.etag[2] = body
    /\ object.etag[1] = "parts" => FlattenSeq(object.etag[2]) = body
SnapshotWhole ==
    Quiet => \A b \in Buckets, k \in Keys :
        /\ Live(disk, b, k) => Exists(disk, Body(b, k)) /\ Describes(Current(disk, b, k), disk[Body(b, k)])
        /\ \A v \in Versions(disk, b, k) :
              ~disk[VersionMeta(b, k, v)].marker =>
                  /\ Exists(disk, VersionBody(b, k, v))
                  /\ Describes(disk[VersionMeta(b, k, v)], disk[VersionBody(b, k, v)])

\* The current object is the newest version there is (rebuild_current_object and
\* every put), and an object directory always has one, so that listing works.
CurrentIsNewest ==
    Quiet => \A b \in Buckets, k \in Keys :
        Exists(disk, ObjectDir(b, k)) =>
            /\ HasCurrent(disk, b, k)
            /\ \A v \in Versions(disk, b, k) : disk[VersionMeta(b, k, v)].modified <= Current(disk, b, k).modified
            /\ Versions(disk, b, k) # {} => Current(disk, b, k).version \in Versions(disk, b, k)

\* The versioning and the ACL a GET reports are those the writes obey, even when
\* a crash falls between bucket.json and its sidecar.
ReportedIsUsed ==
    \A b \in Buckets : BucketExists(disk, b) /\ ~Called("GcsDeleteBucket") =>
        /\ BucketVersioning(disk, b) = Bucket(disk, b).versioning
        /\ BucketAcl(disk, b) = IF Bucket(disk, b).acl = "" THEN "private" ELSE Bucket(disk, b).acl

\* A version under a legal hold or retention is not removed or replaced, by
\* either service, a lifecycle rule or a replication, unless a GOVERNANCE
\* retention is bypassed (object_lock_prevents_delete).
LockHonoured ==
    [][\A b \in Buckets, k \in Keys : \A v \in Versions(disk, b, k) \ {NullVersion} :
          LET p == VersionMeta(b, k, v)
          IN  Exists(disk, p) /\ ~disk[p].marker /\ Prevents(disk[p], clock, TRUE) =>
                  Exists(disk', p) /\ disk'[p].etag = disk[p].etag]_vars

\* A conditional write of Cloud Storage replaces an object that meets its
\* conditions at the moment it is replaced, whatever S3 wrote since they were
\* first checked; so does If-None-Match: * of S3.
ConditionalWrites ==
    [][\A b \in Buckets, k \in Keys :
          LET p == Meta(b, k)
              current == IF Exists(disk, p) THEN disk[p] ELSE Idle
              next == IF Exists(disk', p) THEN disk'[p] ELSE Idle
          IN  /\ current # next /\ io.gcs # <<>> /\ io'.gcs = Tail(io.gcs) /\ "conds" \in DOMAIN gcs =>
                     Preconditions(gcs.conds, disk, b, k)
              /\ current # next /\ io.s3 # <<>> /\ io'.s3 = Tail(io.s3)
                 /\ s3.op = "event" /\ s3.event = "PutIfAbsent" => ~Live(disk, b, k)]_vars

\* A resumable upload leaves one object with the file's bytes and is announced once.
UploadsExact == UploadOnce /\ UploadBody /\ NotifiedOnce

\* The objects, versions and settings on disk are whole.
ObjectsWhole == TypeOK /\ SnapshotWhole /\ CurrentIsNewest /\ ReportedIsUsed

\* What locks and preconditions forbid is not written.
WritesGuarded == LockHonoured /\ ConditionalWrites
=============================================================================
