--------------------------------- MODULE S3 ---------------------------------
(***************************************************************************)
(* The S3 service (src/services/s3/src/http.rs) over the shared store.     *)
(*                                                                         *)
(* One mutex serialises S3 requests, so at most one, `s3', is in flight.   *)
(* The Cloud Storage service runs beside it on the same directory: the     *)
(* root-wide lock `lock' serialises their object writes, and nothing else. *)
(* `io' holds the file-system operations a server has still to perform;    *)
(* each is a step, so that the other server's unlocked reads, an I/O error *)
(* and a crash fall between any two.                                       *)
(*                                                                         *)
(* A request that is refused changes nothing and is left out.              *)
(***************************************************************************)
EXTENDS BucketStore

CONSTANTS Buckets, Keys, MaxClock, Workloads

ASSUME BoundsAssumption == MaxClock \in Nat /\ \A w \in Workloads : w.writes < MaxClock

VARIABLES disk, io, lock, s3, clock, faults, workload, read
storeVars == <<disk, io, lock, s3, clock, faults, workload, read>>

Idle == [op |-> "idle"]
Called(op) == op \in workload.ops

\* A request may be taken up: the mutex is free.
S3Free == s3 = Idle /\ io.s3 = <<>>
\* A locked section may begin, and what it writes is stamped with `clock'.
Locked(actor) == lock = "none" /\ io[actor] = <<>>
Stamped == clock <= workload.writes /\ clock' = clock + 1

\* The server goes on with `next' once the operations are done.
Perform(actor, ops) == io' = [io EXCEPT ![actor] = ops]
S3Locked(ops, next) ==
    /\ Perform("s3", ops)
    /\ lock' = IF ops = <<>> THEN "none" ELSE "s3"
    /\ s3' = next
    /\ UNCHANGED <<disk, faults, workload, read>>
S3Unlocked(ops) ==
    Perform("s3", ops) /\ UNCHANGED <<disk, lock, s3, clock, faults, workload, read>>

\* The next file-system operation of a server; an impossible one is an error.
Released(actor, rest) == IF rest = <<>> /\ lock = actor THEN "none" ELSE lock
DiskStep(actor) ==
    /\ io[actor] # <<>>
    /\ Possible(disk, Head(io[actor]))
    /\ disk' = Apply(disk, Head(io[actor]))
    /\ Perform(actor, Tail(io[actor]))
    /\ lock' = Released(actor, Tail(io[actor]))
DiskError(actor) ==
    /\ io[actor] # <<>>
    /\ \/ ~Possible(disk, Head(io[actor])) /\ UNCHANGED faults
       \/ faults < workload.faults /\ faults' = faults + 1
    /\ Perform(actor, <<>>)
    /\ lock' = Released(actor, <<>>)
    /\ UNCHANGED disk

S3Disk == DiskStep("s3") /\ UNCHANGED <<s3, clock, faults, workload, read>>
\* The handler answers 500 and is done.
S3Error == DiskError("s3") /\ s3' = Idle /\ UNCHANGED <<clock, workload, read>>

(***************************************************************************)
(* Buckets and their configurations.                                       *)
(***************************************************************************)
CreateBucket(b) ==
    /\ Called("CreateBucket") /\ S3Free /\ Locked("s3") /\ ~BucketExists(disk, b)
    /\ S3Locked(CreateBucketOps(b), Idle) /\ UNCHANGED clock
DeleteBucket(b) ==
    /\ Called("DeleteBucket") /\ S3Free /\ Locked("s3")
    /\ Exists(disk, <<b>>) /\ BucketEmpty(disk, b)
    /\ S3Locked(DeleteBucketOps(disk, b), Idle) /\ UNCHANGED clock

\* What a configuration must be to be accepted.
ValidLifecycle(config) == config.days >= 0
ValidNotification(config) ==
    config.events # {} /\ config.events \subseteq {"Put", "PutIfAbsent", "Copy", "Complete", "Delete", "DeleteMarker"}
ValidReplication(rules) == rules # <<>> /\ \A i \in DOMAIN rules : rules[i].dest # ""
ValidRetention(retention) == retention.mode \in {"GOVERNANCE", "COMPLIANCE"} /\ retention.until > 0

Configuring(op, b) == Called(op) /\ S3Free /\ BucketExists(disk, b)
PutBucketVersioning(b, status) ==
    Configuring("PutBucketVersioning", b) /\ S3Unlocked(VersioningOps(disk, b, status))
PutBucketAcl(b, acl) ==
    Configuring("PutBucketAcl", b) /\ S3Unlocked(BucketAclOps(disk, b, acl))
PutBucketPolicy(b) ==
    Configuring("PutBucketPolicy", b) /\ S3Unlocked(<<Write(BucketFile(b, "policy.json"), TRUE)>>)
DeleteBucketPolicy(b) ==
    Configuring("PutBucketPolicy", b) /\ S3Unlocked(<<Unlink(BucketFile(b, "policy.json"))>>)
PutBucketCors(b) ==
    Configuring("PutBucketCors", b) /\ S3Unlocked(<<Write(BucketFile(b, "cors.json"), TRUE)>>)
DeleteBucketCors(b) ==
    Configuring("PutBucketCors", b) /\ S3Unlocked(<<Unlink(BucketFile(b, "cors.json"))>>)
PutBucketObjectLock(b) ==
    Configuring("PutBucketObjectLock", b) /\ S3Unlocked(ObjectLockOps(disk, b))
DeleteBucketObjectLock(b) ==
    Configuring("PutBucketObjectLock", b) /\ S3Unlocked(DeleteObjectLockOps(disk, b))
PutBucketLifecycle(b, config) ==
    /\ Configuring("PutBucketLifecycle", b) /\ ValidLifecycle(config)
    /\ S3Unlocked(<<Write(BucketFile(b, "lifecycle.json"), config)>>)
DeleteBucketLifecycle(b) ==
    /\ Configuring("PutBucketLifecycle", b)
    /\ S3Unlocked(<<Unlink(BucketFile(b, "lifecycle.json"))>>)
PutBucketNotification(b, config) ==
    /\ Configuring("PutBucketNotification", b) /\ ValidNotification(config)
    /\ S3Unlocked(<<Write(BucketFile(b, "notification.json"), config)>>)
PutBucketReplication(b, config) ==
    /\ Configuring("PutBucketReplication", b) /\ ValidReplication(config)
    /\ S3Unlocked(<<Write(BucketFile(b, "replication.json"), config)>>)
DeleteBucketReplication(b) ==
    /\ Configuring("PutBucketReplication", b)
    /\ S3Unlocked(<<Unlink(BucketFile(b, "replication.json"))>>)
\* An id holds the configuration of one bucket; the report lists the objects.
PutBucketInventory(b, config) ==
    /\ Configuring("PutBucketInventory", b) /\ Listable(disk, b)
    /\ S3Unlocked(InventoryOps(disk, b, "id", config))
DeleteBucketInventory(b) ==
    Configuring("PutBucketInventory", b) /\ S3Unlocked(DeleteInventoryOps(b, "id"))
PutBucketAnalytics(b) ==
    Configuring("PutBucketAnalytics", b) /\ S3Unlocked(AnalyticsOps(b, "id"))
DeleteBucketAnalytics(b) ==
    Configuring("PutBucketAnalytics", b) /\ S3Unlocked(DeleteAnalyticsOps(b, "id"))

(***************************************************************************)
(* What follows a write: the notification, then the replication.           *)
(***************************************************************************)
After(op, b, k, object) ==
    [op |-> "event", event |-> op, b |-> b, k |-> k, object |-> object]

NotificationMatches(config, event, k) == event \in config.events /\ k \in config.keys
EventsFile(b) == BucketFile(b, "notification-events.json")
RecordObjectEvent ==
    /\ s3.op = "event" /\ io.s3 = <<>>
    /\ LET b == s3.b
           config == BucketFile(b, "notification.json")
           old == IF Exists(disk, EventsFile(b)) THEN disk[EventsFile(b)] ELSE <<>>
           matches == /\ BucketExists(disk, b) /\ Exists(disk, config)
                      /\ NotificationMatches(disk[config], s3.event, s3.k)
       IN  Perform("s3", IF matches
                         THEN <<Write(EventsFile(b), Append(old, <<s3.event, s3.k, s3.object.version>>))>>
                         ELSE <<>>)
    /\ s3' = IF s3.event = "Delete" THEN Idle ELSE [s3 EXCEPT !.op = "replicate"]
    /\ UNCHANGED <<disk, lock, clock, faults, workload, read>>

\* The rules that apply, and the body as it now is under the object's version.
ReplicationMatches(rule, b, k) == rule.enabled /\ k \in rule.keys /\ rule.dest # b
Replicate ==
    /\ s3.op = "replicate" /\ io.s3 = <<>>
    /\ LET b == s3.b
           k == s3.k
           config == BucketFile(b, "replication.json")
           rules == IF BucketExists(disk, b) /\ Exists(disk, config)
                    THEN SelectSeq(disk[config], LAMBDA r : ReplicationMatches(r, b, k)) ELSE <<>>
           file == IF s3.object.version = NoVersion \/ ~Exists(disk, VersionBody(b, k, s3.object.version))
                   THEN Body(b, k) ELSE VersionBody(b, k, s3.object.version)
       IN  s3' = IF s3.object.marker
                 THEN [op |-> "rules", b |-> b, k |-> k, object |-> s3.object, body |-> <<>>,
                       rules |-> SelectSeq(rules, LAMBDA r : r.markers)]
                 ELSE IF rules = <<>> \/ ~Exists(disk, file) THEN Idle
                 ELSE [op |-> "rules", b |-> b, k |-> k, object |-> s3.object, body |-> disk[file],
                       rules |-> rules]
    /\ UNCHANGED <<disk, io, lock, clock, faults, workload, read>>

\* One rule at a time, each a write of its own in the destination.
DeleteDenied(b, k, bypass) ==
    /\ HasCurrent(disk, b, k)
    /\ ~(Versioned(disk, b) /\ Current(disk, b, k).marker)
    /\ Prevents(Current(disk, b, k), clock, bypass)
ReplicateRule ==
    /\ s3.op = "rules" /\ io.s3 = <<>>
    /\ \/ s3.rules = <<>> /\ s3' = Idle /\ UNCHANGED <<disk, io, lock, clock, faults, workload, read>>
       \/ /\ s3.rules # <<>>
          /\ LET dest == Head(s3.rules).dest
                 next == [s3 EXCEPT !.rules = Tail(@)]
                 copy == NewObject(disk, dest, s3.body, NoUpload, s3.object.retention, s3.object.hold, clock)
             IN  IF ~BucketExists(disk, dest) THEN S3Locked(<<>>, next) /\ lock = "none" /\ UNCHANGED clock
                 ELSE /\ Locked("s3") /\ Stamped
                      /\ IF ~s3.object.marker THEN S3Locked(PutOps(disk, dest, s3.k, copy, s3.body), next)
                         ELSE IF DeleteDenied(dest, s3.k, FALSE) THEN S3Locked(<<>>, Idle)
                         ELSE S3Locked(IF Exists(disk, ObjectDir(dest, s3.k))
                                       THEN DeleteOps(disk, dest, s3.k, clock) ELSE <<>>, next)

(***************************************************************************)
(* Objects.                                                                *)
(***************************************************************************)
\* If-None-Match: * is checked under the lock of the write it guards.
AbsentOrUnconditional(b, k, ifAbsent) == ifAbsent => ~Live(disk, b, k)

PutObject(b, k, body, held, ifAbsent) ==
    /\ Called("PutObject") /\ S3Free /\ Locked("s3") /\ Stamped
    /\ BucketExists(disk, b) /\ AbsentOrUnconditional(b, k, ifAbsent)
    /\ LET object == NewObject(disk, b, body, NoUpload, held.retention, held.hold, clock)
       IN  S3Locked(PutOps(disk, b, k, object, body),
                    After(IF ifAbsent THEN "PutIfAbsent" ELSE "Put", b, k, object))

\* The source is read without the lock, its metadata before its body.
SourceFiles(sb, sk, v) ==
    IF v = NoVersion \/ ~Exists(disk, VersionMeta(sb, sk, v))
    THEN <<Meta(sb, sk), Body(sb, sk)>> ELSE <<VersionMeta(sb, sk, v), VersionBody(sb, sk, v)>>
CopyObject(sb, sk, v, b, k, ifAbsent) ==
    /\ Called("CopyObject") /\ S3Free
    /\ BucketExists(disk, sb)
    /\ IF v = NoVersion THEN Live(disk, sb, sk) ELSE HasVersion(disk, sb, sk, v)
    /\ s3' = [op |-> "copy", files |-> SourceFiles(sb, sk, v), b |-> b, k |-> k, ifAbsent |-> ifAbsent,
              source |-> disk[SourceFiles(sb, sk, v)[1]]]
    /\ UNCHANGED <<disk, io, lock, clock, faults, workload, read>>
CopyBody ==
    /\ s3.op = "copy"
    /\ s3' = IF s3.source.marker THEN [op |-> "copied", b |-> s3.b, k |-> s3.k, ifAbsent |-> s3.ifAbsent,
                                       source |-> s3.source, body |-> <<>>]
             ELSE IF ~Exists(disk, s3.files[2]) THEN Idle
             ELSE [op |-> "copied", b |-> s3.b, k |-> s3.k, ifAbsent |-> s3.ifAbsent,
                   source |-> s3.source, body |-> disk[s3.files[2]]]
    /\ UNCHANGED <<disk, io, lock, clock, faults, workload, read>>
CopyPut ==
    /\ s3.op = "copied" /\ Locked("s3")
    /\ IF BucketExists(disk, s3.b) /\ AbsentOrUnconditional(s3.b, s3.k, s3.ifAbsent)
       THEN /\ Stamped
            /\ LET object == NewObject(disk, s3.b, s3.body, NoUpload, s3.source.retention, s3.source.hold, clock)
               IN  S3Locked(PutOps(disk, s3.b, s3.k, object, s3.body), After("Copy", s3.b, s3.k, object))
       ELSE s3' = Idle /\ UNCHANGED <<disk, io, lock, clock, faults, workload, read>>

DeleteObject(b, k, bypass) ==
    /\ Called("DeleteObject") /\ S3Free /\ Locked("s3") /\ Stamped
    /\ BucketExists(disk, b) /\ Exists(disk, ObjectDir(b, k)) /\ ~DeleteDenied(b, k, bypass)
    /\ S3Locked(DeleteOps(disk, b, k, clock),
                IF Versioned(disk, b) THEN After("DeleteMarker", b, k, Marker(disk, b, clock))
                ELSE After("Delete", b, k, [Marker(disk, b, clock) EXCEPT !.version = NoVersion]))

VersionLocked(object, bypass) == ~object.marker /\ Prevents(object, clock, bypass)
DeleteObjectVersion(b, k, v, bypass) ==
    /\ Called("DeleteObjectVersion") /\ S3Free /\ Locked("s3")
    /\ BucketExists(disk, b) /\ HasVersion(disk, b, k, v)
    /\ ~VersionLocked(Version(disk, b, k, v), bypass)
    /\ S3Locked(DeleteVersionOps(disk, b, k, v), After("Delete", b, k, Version(disk, b, k, v)))
    /\ UNCHANGED clock

\* The version the request names, or the current object: there, and with a body.
Named(b, k, v) ==
    /\ IF v = NoVersion THEN Live(disk, b, k) ELSE HasVersion(disk, b, k, v)
    /\ LET files == SourceFiles(b, k, v) IN disk[files[1]].marker \/ Exists(disk, files[2])
Chosen(b, k, v) == IF v = NoVersion THEN Current(disk, b, k) ELSE Version(disk, b, k, v)
PutObjectRetention(b, k, v, retention) ==
    /\ Called("PutObjectLock") /\ S3Free /\ Locked("s3") /\ BucketExists(disk, b) /\ Named(b, k, v)
    /\ ValidRetention(retention)
    /\ S3Locked(LockMetadataOps(disk, b, k, v, [Chosen(b, k, v) EXCEPT !.retention = retention]), Idle)
    /\ UNCHANGED clock
PutObjectLegalHold(b, k, v, hold) ==
    /\ Called("PutObjectLock") /\ S3Free /\ Locked("s3") /\ BucketExists(disk, b) /\ Named(b, k, v)
    /\ S3Locked(LockMetadataOps(disk, b, k, v, [Chosen(b, k, v) EXCEPT !.hold = hold]), Idle)
    /\ UNCHANGED clock
PutObjectAcl(b, k, v) ==
    /\ Called("PutObjectAcl") /\ S3Free /\ Locked("s3") /\ BucketExists(disk, b) /\ Named(b, k, v)
    /\ S3Locked(ObjectAclOps(disk, b, k, v, [Chosen(b, k, v) EXCEPT !.acl = "public-read"]), Idle)
    /\ UNCHANGED clock

(***************************************************************************)
(* Reads: the lifecycle rules are applied first, then object.json and the  *)
(* body are read, all without the lock.                                    *)
(***************************************************************************)
ExpiredBy(config, object, k) ==
    config.enabled /\ k \in config.keys /\ object.modified + config.days <= clock
Expiring(b) ==
    LET config == BucketFile(b, "lifecycle.json")
    IN  IF ~Exists(disk, config) \/ ~Listable(disk, b) THEN {}
        ELSE {k \in Listed(disk, b) : ExpiredBy(disk[config], Current(disk, b, k), k)}
Reading(b, k, v) ==
    [op |-> "expire", b |-> b, k |-> k, v |-> v, expired |-> Expiring(b)]
GetObject(b, k, v) ==
    /\ Called("GetObject") /\ S3Free /\ BucketExists(disk, b)
    /\ s3' = Reading(b, k, v)
    /\ UNCHANGED <<disk, io, lock, clock, faults, workload, read>>
ExpireObject(k) ==
    /\ s3.op = "expire" /\ k \in s3.expired /\ Locked("s3")
    /\ LET next == [s3 EXCEPT !.expired = @ \ {k}]
       IN  IF Exists(disk, ObjectDir(s3.b, k)) /\ BucketExists(disk, s3.b) /\ ~DeleteDenied(s3.b, k, FALSE)
           THEN Stamped /\ S3Locked(DeleteOps(disk, s3.b, k, clock), next)
           ELSE S3Locked(<<>>, next) /\ UNCHANGED clock
ReadMeta ==
    /\ s3.op = "expire" /\ s3.expired = {} /\ io.s3 = <<>>
    /\ s3' = IF ~Named(s3.b, s3.k, s3.v) THEN Idle
             ELSE [op |-> "body", files |-> SourceFiles(s3.b, s3.k, s3.v), object |-> Chosen(s3.b, s3.k, s3.v)]
    /\ UNCHANGED <<disk, io, lock, clock, faults, workload, read>>
ReadBody ==
    /\ s3.op = "body"
    /\ read' = IF s3.object.marker \/ ~Exists(disk, s3.files[2]) THEN read
               ELSE [object |-> s3.object, body |-> disk[s3.files[2]]]
    /\ s3' = Idle
    /\ UNCHANGED <<disk, io, lock, clock, faults, workload>>

(***************************************************************************)
(* Multipart uploads.                                                      *)
(***************************************************************************)
CreateMultipartUpload(b, k) ==
    /\ Called("Multipart") /\ S3Free /\ Locked("s3") /\ Stamped /\ BucketExists(disk, b)
    /\ S3Locked(CreateUploadOps(b, k, clock), Idle)
\* Parts are written and uploads aborted under the S3 mutex alone.
UploadPart(b, k, u, n, body) ==
    /\ Called("Multipart") /\ S3Free /\ BucketExists(disk, b) /\ HasUpload(disk, b, k, u)
    /\ S3Unlocked(UploadPartOps(b, u, n, body))
CompleteMultipartUpload(b, k, u, parts, ifAbsent) ==
    /\ Called("Multipart") /\ S3Free /\ Locked("s3") /\ Stamped
    /\ BucketExists(disk, b) /\ HasUpload(disk, b, k, u)
    /\ AbsentOrUnconditional(b, k, ifAbsent)
    /\ \A i \in DOMAIN parts : PartWhole(disk, b, u, parts[i])
    /\ LET body == FlattenSeq([i \in DOMAIN parts |-> disk[PartBody(b, u, parts[i])]])
       IN  S3Locked(CompleteUploadOps(disk, b, k, u, parts, clock),
                    After("Complete", b, k, NewObject(disk, b, body, NoUpload, Unlocked, FALSE, clock)))
AbortMultipartUpload(b, k, u) ==
    /\ Called("Multipart") /\ S3Free /\ BucketExists(disk, b) /\ HasUpload(disk, b, k, u)
    /\ S3Unlocked(AbortUploadOps(b, u))

S3Step ==
    \/ S3Disk \/ S3Error \/ RecordObjectEvent \/ Replicate \/ ReplicateRule
    \/ CopyBody \/ CopyPut \/ ReadMeta \/ ReadBody \/ \E k \in workload.keys : ExpireObject(k)

S3Config(b) ==
    \/ CreateBucket(b) \/ DeleteBucket(b)
    \/ \E status \in {"Enabled", "Suspended"} : PutBucketVersioning(b, status)
    \/ \E acl \in {"private", "public-read"} : PutBucketAcl(b, acl)
    \/ PutBucketPolicy(b) \/ DeleteBucketPolicy(b) \/ PutBucketCors(b) \/ DeleteBucketCors(b)
    \/ PutBucketObjectLock(b) \/ DeleteBucketObjectLock(b)
    \/ \E config \in workload.lifecycles : PutBucketLifecycle(b, config)
    \/ DeleteBucketLifecycle(b)
    \/ \E config \in workload.notifications : PutBucketNotification(b, config)
    \/ \E config \in workload.replications : PutBucketReplication(b, config)
    \/ DeleteBucketReplication(b)
    \/ \E config \in workload.inventories : PutBucketInventory(b, config)
    \/ DeleteBucketInventory(b) \/ PutBucketAnalytics(b) \/ DeleteBucketAnalytics(b)

VersionIds == {NoVersion} \cup (NullVersion .. MaxClock)
S3Object(b, k) ==
    \/ \E body \in workload.bodies, held \in workload.helds, ifAbsent \in workload.conditional :
          PutObject(b, k, body, held, ifAbsent)
    \/ \E sk \in workload.keys, v \in VersionIds, ifAbsent \in workload.conditional :
          CopyObject(b, sk, v, b, k, ifAbsent)
    \/ \E bypass \in BOOLEAN : DeleteObject(b, k, bypass)
    \/ \E bypass \in BOOLEAN, v \in VersionIds \ {NoVersion} : DeleteObjectVersion(b, k, v, bypass)
    \/ \E held \in workload.helds, v \in VersionIds : PutObjectRetention(b, k, v, held.retention)
    \/ \E held \in workload.helds, v \in VersionIds : PutObjectLegalHold(b, k, v, held.hold)
    \/ \E v \in VersionIds : PutObjectAcl(b, k, v) \/ GetObject(b, k, v)
    \/ CreateMultipartUpload(b, k)
    \/ \E u \in 1 .. MaxClock :
          \/ \E n \in {1, 2}, body \in workload.bodies : UploadPart(b, k, u, n, body)
          \/ \E parts \in {<<1>>, <<2>>, <<1, 2>>}, ifAbsent \in workload.conditional :
                CompleteMultipartUpload(b, k, u, parts, ifAbsent)
          \/ AbortMultipartUpload(b, k, u)

S3Next == S3Step \/ \E b \in workload.buckets : S3Config(b) \/ \E k \in workload.keys : S3Object(b, k)
=============================================================================
