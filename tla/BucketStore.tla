---------------------------- MODULE BucketStore ----------------------------
(***************************************************************************)
(* The on-disk store shared by the S3 and Cloud Storage services           *)
(* (src/services/s3/src/store*.rs).  The disk is a function from paths to  *)
(* contents; a path is a sequence of names, a directory holds "dir".  Each *)
(* operation of the store is given as the sequence of file-system          *)
(* operations it performs, in order, computed from the disk it reads under *)
(* the lock: a crash or an I/O error leaves a prefix of them on disk.      *)
(*                                                                         *)
(* Abstractions: a body is a sequence of symbols and its ETag the body     *)
(* itself, tagged when it is a multipart upload's; time is a counter that  *)
(* every write advances, so that no two modification times are equal;      *)
(* version ids are drawn from the same counter.  The temporary file of     *)
(* write_atomic is left out: a write is one rename.                        *)
(***************************************************************************)
EXTENDS Integers, FiniteSets, Sequences, SequencesExt, TLC

(***************************************************************************)
(* Paths.                                                                  *)
(***************************************************************************)
BucketFile(b, f) == <<b, f>>
ObjectsDir(b) == <<b, "objects">>
ObjectDir(b, k) == <<b, "objects", k>>
Meta(b, k) == <<b, "objects", k, "object.json">>
Body(b, k) == <<b, "objects", k, "body">>
VersionsDir(b, k) == <<b, "objects", k, "versions">>
VersionDir(b, k, v) == <<b, "objects", k, "versions", v>>
VersionMeta(b, k, v) == <<b, "objects", k, "versions", v, "object.json">>
VersionBody(b, k, v) == <<b, "objects", k, "versions", v, "body">>
MultipartDir(b) == <<b, "multipart">>
UploadDir(b, u) == <<b, "multipart", u>>
PartDir(b, u, n) == <<b, "multipart", u, "parts", n>>
Receipt(u) == <<"receipt", u>>
Notified(u) == <<"notified", u>>
SessionDir(u) == <<"sessions", u>>
SessionFile(u) == <<"sessions", u, "session.json">>
SessionBody(u) == <<"sessions", u, "body.part">>

Sidecars == {"bucket.json", "versioning.json", "policy.json", "cors.json", "acl.json",
             "lifecycle.json", "notification.json", "notification-events.json",
             "object-lock.json", "replication.json"}
SidecarDirs == {"inventory", "analytics"}

(***************************************************************************)
(* File-system operations.                                                 *)
(***************************************************************************)
Under(p, q) == IsPrefix(p, q)
Exists(d, p) == p \in DOMAIN d
Children(d, p) == {q \in DOMAIN d : Len(q) = Len(p) + 1 /\ IsPrefix(p, q)}
Without(d, P) == [q \in DOMAIN d \ P |-> d[q]]

Write(p, c) == [do |-> "write", path |-> p, content |-> c]
Mkdirs(p) == [do |-> "mkdirs", path |-> p, content |-> "dir"]
Unlink(p) == [do |-> "remove", path |-> p, content |-> "dir"]
RemoveAll(p) == [do |-> "removeAll", path |-> p, content |-> "dir"]
Rmdir(p) == [do |-> "rmdir", path |-> p, content |-> "dir"]
TryRmdir(p) == [do |-> "tryRmdir", path |-> p, content |-> "dir"]
Read(p) == [do |-> "read", path |-> p, content |-> "dir"]

\* Roots hold the buckets, the receipts and the sessions: always there.
InDirectory(d, p) == Len(p) = 1 \/ p[1] \in {"receipt", "notified"} \/ Exists(d, Front(p))

\* Whether the operation can succeed: a file is written into a directory, a file
\* that is read exists, and only an empty directory is removed.
Possible(d, op) ==
    CASE op.do = "write" -> InDirectory(d, op.path)
      [] op.do = "read" -> Exists(d, op.path)
      [] op.do = "rmdir" -> Exists(d, op.path) /\ Children(d, op.path) = {}
      [] OTHER -> TRUE

Apply(d, op) ==
    CASE op.do = "write" -> (op.path :> op.content) @@ d
      [] op.do = "mkdirs" ->
            [q \in {SubSeq(op.path, 1, n) : n \in 1 .. Len(op.path)} |-> "dir"] @@ d
      [] op.do = "read" -> d
      [] op.do = "remove" -> Without(d, {op.path})
      [] op.do = "removeAll" -> Without(d, {q \in DOMAIN d : Under(op.path, q)})
      [] OTHER -> IF Children(d, op.path) = {} THEN Without(d, {op.path}) ELSE d

(***************************************************************************)
(* Buckets.                                                                *)
(***************************************************************************)
BucketExists(d, b) == Exists(d, BucketFile(b, "bucket.json"))
Bucket(d, b) == d[BucketFile(b, "bucket.json")]
NewBucket == [versioning |-> "", lock |-> FALSE, acl |-> ""]
Versioned(d, b) == Bucket(d, b).versioning \in {"Enabled", "Suspended"}

CreateBucketOps(b) == <<Mkdirs(<<b>>), Write(BucketFile(b, "bucket.json"), NewBucket)>>

\* Everything in the bucket's directory is a sidecar.
BucketEmpty(d, b) ==
    \A p \in Children(d, <<b>>) : p[2] \in Sidecars \cup SidecarDirs

\* bucket.json first, then the other sidecars and the directory itself.
DeleteBucketOps(d, b) ==
    LET files == {f \in Sidecars \ {"bucket.json"} : Exists(d, BucketFile(b, f))}
        dirs == {f \in SidecarDirs : Exists(d, BucketFile(b, f))}
        removed == [f \in files |-> Unlink(BucketFile(b, f))]
    IN  <<Unlink(BucketFile(b, "bucket.json"))>>
        \o SetToSeq({removed[f] : f \in files})
        \o SetToSeq({RemoveAll(BucketFile(b, f)) : f \in dirs})
        \o <<Rmdir(<<b>>)>>

\* A field of bucket.json is replaced, then its own sidecar written.
BucketFieldOps(d, b, bucket, file, content) ==
    <<Write(BucketFile(b, "bucket.json"), bucket), Write(BucketFile(b, file), content)>>
VersioningOps(d, b, status) ==
    BucketFieldOps(d, b, [Bucket(d, b) EXCEPT !.versioning = status], "versioning.json", status)
BucketAclOps(d, b, acl) ==
    BucketFieldOps(d, b, [Bucket(d, b) EXCEPT !.acl = acl], "acl.json", acl)
ObjectLockOps(d, b) ==
    BucketFieldOps(d, b, [Bucket(d, b) EXCEPT !.lock = TRUE], "object-lock.json", TRUE)
DeleteObjectLockOps(d, b) ==
    <<Write(BucketFile(b, "bucket.json"), [Bucket(d, b) EXCEPT !.lock = FALSE]),
      Unlink(BucketFile(b, "object-lock.json"))>>

\* What is read back prefers bucket.json and falls back on the sidecar.
BucketVersioning(d, b) ==
    IF Bucket(d, b).versioning # "" THEN Bucket(d, b).versioning
    ELSE IF Exists(d, BucketFile(b, "versioning.json")) THEN d[BucketFile(b, "versioning.json")]
    ELSE ""
BucketAcl(d, b) ==
    IF Bucket(d, b).acl # "" THEN Bucket(d, b).acl
    ELSE IF Exists(d, BucketFile(b, "acl.json")) THEN d[BucketFile(b, "acl.json")]
    ELSE "private"

(***************************************************************************)
(* Objects.  A version id is -1 for an object of an unversioned bucket, 0  *)
(* for "null", and otherwise the time at which it was drawn.               *)
(***************************************************************************)
NoVersion == -1
NullVersion == 0
NoUpload == "none"
Unlocked == [mode |-> "", until |-> 0]

NewObject(d, b, body, upload, retention, hold, now) ==
    [etag |-> <<"md5", body>>, size |-> Len(body), modified |-> now, metageneration |-> 1,
     version |-> CASE Bucket(d, b).versioning = "Enabled" -> now
                   [] Bucket(d, b).versioning = "Suspended" -> NullVersion
                   [] OTHER -> NoVersion,
     marker |-> FALSE, upload |-> upload, hold |-> hold, acl |-> "",
     retention |-> IF retention.mode = "" /\ Bucket(d, b).lock
                   THEN [mode |-> "GOVERNANCE", until |-> now + 1] ELSE retention]

Marker(d, b, now) ==
    [etag |-> <<"">>, size |-> 0, modified |-> now, metageneration |-> 0,
     version |-> IF Bucket(d, b).versioning = "Suspended" THEN NullVersion ELSE now,
     marker |-> TRUE, upload |-> NoUpload, hold |-> FALSE, acl |-> "", retention |-> Unlocked]

HasCurrent(d, b, k) == Exists(d, Meta(b, k))
Current(d, b, k) == d[Meta(b, k)]
\* A current object that is not a delete marker.
Live(d, b, k) == HasCurrent(d, b, k) /\ ~Current(d, b, k).marker

\* object_lock_prevents_delete
Prevents(object, now, bypass) ==
    \/ object.hold
    \/ /\ object.retention.mode # ""
       /\ ~(object.retention.mode = "GOVERNANCE" /\ bypass)
       /\ object.retention.until > now

\* The snapshot of an object under its version id.
VersionOps(b, k, object, body) ==
    IF object.version = NoVersion THEN <<>>
    ELSE <<Mkdirs(VersionDir(b, k, object.version)),
           Write(VersionMeta(b, k, object.version), object),
           IF object.marker THEN Unlink(VersionBody(b, k, object.version))
           ELSE Write(VersionBody(b, k, object.version), body)>>

\* Before the metadata that carries an upload's identity is replaced, its
\* result is kept in a receipt; a version snapshot that a crash left out is
\* completed first.
PreserveOps(d, b, k, object, source) ==
    IF object.upload = NoUpload \/ Exists(d, Receipt(object.upload)) THEN <<>>
    ELSE (IF source # Meta(b, k) \/ object.version = NoVersion THEN <<>>
          ELSE IF ~Exists(d, Body(b, k)) THEN <<Read(Body(b, k))>>
          ELSE VersionOps(b, k, object, d[Body(b, k)]))
         \o <<Write(Receipt(object.upload), object)>>
PreserveCurrentOps(d, b, k) ==
    IF HasCurrent(d, b, k) THEN PreserveOps(d, b, k, Current(d, b, k), Meta(b, k)) ELSE <<>>

PutOps(d, b, k, object, body) ==
    <<Mkdirs(ObjectDir(b, k))>>
    \o PreserveCurrentOps(d, b, k)
    \o <<Write(Body(b, k), body), Write(Meta(b, k), object)>>
    \o VersionOps(b, k, object, body)

\* A resumable upload's object, then its receipt.
CommitUploadOps(d, b, k, object, body) ==
    PutOps(d, b, k, object, body) \o <<Write(Receipt(object.upload), object)>>

\* Only object.json changes: the version snapshot keeps the old metadata.
UpdateMetadataOps(d, b, k) ==
    LET object == Current(d, b, k)
    IN  PreserveOps(d, b, k, object, Meta(b, k))
        \o <<Write(Meta(b, k), [object EXCEPT !.metageneration = @ + 1])>>

\* What a versionId names: nothing, a version of its own, or, for "null", the
\* current object of a bucket that had no versioning when it was written.
HasVersion(d, b, k, v) ==
    \/ Exists(d, VersionMeta(b, k, v))
    \/ v = NullVersion /\ HasCurrent(d, b, k) /\ Current(d, b, k).version \in {NoVersion, NullVersion}
Version(d, b, k, v) ==
    IF Exists(d, VersionMeta(b, k, v)) THEN d[VersionMeta(b, k, v)]
    ELSE [Current(d, b, k) EXCEPT !.version = NullVersion]
VersionBytes(d, b, k, v) ==
    IF Exists(d, VersionMeta(b, k, v)) THEN d[VersionBody(b, k, v)] ELSE d[Body(b, k)]

Versions(d, b, k) == {p[5] : p \in Children(d, VersionsDir(b, k))}

\* Deleting the current object: a marker over it, or the directory removed.
DeleteOps(d, b, k, now) ==
    PreserveCurrentOps(d, b, k)
    \o (IF Versioned(d, b)
        THEN <<Write(Meta(b, k), Marker(d, b, now))>>
             \o VersionOps(b, k, Marker(d, b, now), <<>>)
             \o <<Unlink(Body(b, k))>>
        ELSE <<RemoveAll(ObjectDir(b, k)), TryRmdir(ObjectsDir(b))>>)

\* The newest version that is left becomes the current object.
Newest(d, b, k, V) ==
    CHOOSE v \in V : \A w \in V :
        \/ d[VersionMeta(b, k, v)].modified > d[VersionMeta(b, k, w)].modified
        \/ d[VersionMeta(b, k, v)].modified = d[VersionMeta(b, k, w)].modified /\ v >= w
\* A version that a fault left without its metadata or body is an error.
Incomplete(d, b, k, V) ==
    {VersionMeta(b, k, v) : v \in {w \in V : ~Exists(d, VersionMeta(b, k, w))}}
    \cup {VersionBody(b, k, v) : v \in {w \in V : /\ Exists(d, VersionMeta(b, k, w))
                                                  /\ ~d[VersionMeta(b, k, w)].marker
                                                  /\ ~Exists(d, VersionBody(b, k, w))}}
RebuildMetadataOps(d, b, k, V) ==
    IF V = {} THEN <<RemoveAll(ObjectDir(b, k))>>
    ELSE IF Incomplete(d, b, k, V) # {} THEN <<Read(CHOOSE p \in Incomplete(d, b, k, V) : TRUE)>>
    ELSE <<Write(Meta(b, k), d[VersionMeta(b, k, Newest(d, b, k, V))])>>
RebuildOps(d, b, k, V) ==
    IF V = {} THEN <<RemoveAll(ObjectDir(b, k))>>
    ELSE IF Incomplete(d, b, k, V) # {} THEN <<Read(CHOOSE p \in Incomplete(d, b, k, V) : TRUE)>>
    ELSE LET v == Newest(d, b, k, V)
         IN  <<Write(Meta(b, k), d[VersionMeta(b, k, v)]),
               IF d[VersionMeta(b, k, v)].marker THEN Unlink(Body(b, k))
               ELSE Write(Body(b, k), d[VersionBody(b, k, v)])>>

\* Likewise before a version's metadata is replaced or removed.
PreserveVersionOps(d, b, k, v) ==
    IF Exists(d, VersionMeta(b, k, v))
    THEN PreserveOps(d, b, k, d[VersionMeta(b, k, v)], VersionMeta(b, k, v)) ELSE <<>>

DeleteVersionOps(d, b, k, v) ==
    PreserveCurrentOps(d, b, k)
    \o PreserveVersionOps(d, b, k, v)
    \o <<RemoveAll(VersionDir(b, k, v))>>
    \o RebuildOps(d, b, k, Versions(d, b, k) \ {v})

\* Retention and legal hold: of a version, or of the current object and its snapshot.
LockMetadataOps(d, b, k, v, object) ==
    PreserveCurrentOps(d, b, k)
    \o (IF v = NoVersion
        THEN <<Write(Meta(b, k), object)>> \o VersionOps(b, k, object, d[Body(b, k)])
        ELSE PreserveVersionOps(d, b, k, v) \o <<Write(VersionMeta(b, k, v), object)>>
             \o VersionOps(b, k, object, IF object.marker THEN <<>> ELSE VersionBytes(d, b, k, v)))

\* An ACL: of a version, or of the current object, its snapshot and acl.json.
ObjectAclOps(d, b, k, v, object) ==
    PreserveCurrentOps(d, b, k)
    \o (IF v = NoVersion
        THEN <<Write(Meta(b, k), object)>> \o VersionOps(b, k, object, d[Body(b, k)])
             \o <<Write(<<b, "objects", k, "acl.json">>, object.acl)>>
        ELSE PreserveVersionOps(d, b, k, v) \o <<Write(VersionMeta(b, k, v), object)>>)

\* Listing: every object directory must hold an object.json.
Listable(d, b) == \A p \in Children(d, ObjectsDir(b)) : Exists(d, Append(p, "object.json"))
Listed(d, b) == {p[3] : p \in {q \in Children(d, ObjectsDir(b)) : ~d[Append(q, "object.json")].marker}}

\* Every version and marker; the current object stands for a missing "null".
ListedVersions(d, b) ==
    UNION {LET k == p[3]
           IN  {<<k, v>> : v \in Versions(d, b, k)}
               \cup (IF HasCurrent(d, b, k) /\ Current(d, b, k).version \in {NoVersion, NullVersion}
                     THEN {<<k, NullVersion>>} ELSE {})
           : p \in Children(d, ObjectsDir(b))}

(***************************************************************************)
(* Multipart uploads.                                                      *)
(***************************************************************************)
UploadFile(b, u) == <<b, "multipart", u, "upload.json">>
PartMeta(b, u, n) == Append(PartDir(b, u, n), "part.json")
PartBody(b, u, n) == Append(PartDir(b, u, n), "body")

HasUpload(d, b, k, u) == Exists(d, UploadFile(b, u)) /\ d[UploadFile(b, u)] = k

CreateUploadOps(b, k, u) ==
    <<Mkdirs(<<b, "multipart", u, "parts">>), Write(UploadFile(b, u), k)>>
UploadPartOps(b, u, n, body) ==
    <<Mkdirs(PartDir(b, u, n)), Write(PartBody(b, u, n), body),
      Write(PartMeta(b, u, n), [etag |-> body, size |-> Len(body)])>>

\* A listed part is whole: its body is there and has the recorded size.
PartWhole(d, b, u, n) ==
    /\ Exists(d, PartMeta(b, u, n)) /\ Exists(d, PartBody(b, u, n))
    /\ Len(d[PartBody(b, u, n)]) = d[PartMeta(b, u, n)].size

AbortUploadOps(b, u) == <<RemoveAll(UploadDir(b, u)), TryRmdir(MultipartDir(b))>>

\* The parts are put together as an object, which is then given the ETag of the
\* parts, in object.json and in its snapshot, before the upload is removed.
CompleteUploadOps(d, b, k, u, parts, now) ==
    LET body == FlattenSeq([i \in DOMAIN parts |-> d[PartBody(b, u, parts[i])]])
        object == NewObject(d, b, body, NoUpload, Unlocked, FALSE, now)
        tagged == [object EXCEPT !.etag = <<"parts", [i \in DOMAIN parts |-> d[PartMeta(b, u, parts[i])].etag]>>]
    IN  PutOps(d, b, k, object, body)
        \o <<Write(Meta(b, k), tagged)>> \o VersionOps(b, k, tagged, body)
        \o AbortUploadOps(b, u)

(***************************************************************************)
(* Inventory and analytics configurations, under their ids.                *)
(***************************************************************************)
ConfigFile(b, dir, id) == <<b, dir, id>>
InventoryReport(b, id) == <<b, "inventory", "reports", id>>

\* An enabled CSV inventory is reported at once; any other has no report.
InventoryOps(d, b, id, config) ==
    <<Mkdirs(<<b, "inventory">>), Write(ConfigFile(b, "inventory", id), config)>>
    \o (IF ~config.enabled THEN <<RemoveAll(InventoryReport(b, id))>>
        ELSE <<Mkdirs(InventoryReport(b, id)),
               Write(Append(InventoryReport(b, id), "inventory.csv"),
                     IF config.all
                     THEN {x \in ListedVersions(d, b) : ~Version(d, b, x[1], x[2]).marker}
                     ELSE {<<k, Current(d, b, k).version>> : k \in Listed(d, b)}),
               Write(Append(InventoryReport(b, id), "manifest.json"), config)>>)
DeleteInventoryOps(b, id) ==
    <<Unlink(ConfigFile(b, "inventory", id)), RemoveAll(InventoryReport(b, id)),
      TryRmdir(<<b, "inventory">>)>>
AnalyticsOps(b, id) ==
    <<Mkdirs(<<b, "analytics">>), Write(ConfigFile(b, "analytics", id), TRUE)>>
DeleteAnalyticsOps(b, id) ==
    <<Unlink(ConfigFile(b, "analytics", id)), TryRmdir(<<b, "analytics">>)>>
=============================================================================
