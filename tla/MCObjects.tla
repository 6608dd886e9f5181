------------------------------ MODULE MCObjects ------------------------------
(* Small instances of the object store: each workload names the requests that *)
(* are made, the inputs they choose from, how many writes are stamped and how *)
(* many faults (I/O errors and crashes) occur.                                *)
EXTENDS Gcs

Base ==
    [ops |-> {}, buckets |-> {"b1"}, keys |-> {"k1"}, versioning |-> "", writes |-> 3, faults |-> 0,
     file |-> <<"x", "y">>, bodies |-> {<<"x">>},
     helds |-> {[retention |-> Unlocked, hold |-> FALSE]}, conditional |-> {FALSE}, conds |-> {},
     lifecycles |-> {}, notifications |-> {}, replications |-> {}, inventories |-> {}]

\* Uploads in chunks, against a crash or an I/O error anywhere and writes over the object.
Resuming == [Base EXCEPT !.ops = {"Resumable", "PutObject", "DeleteObject"}, !.faults = 2]
ResumingVersions ==
    [Base EXCEPT !.ops = {"Resumable", "GcsPatch", "DeleteObject", "DeleteObjectVersion", "PutObjectAcl"},
                 !.faults = 1, !.versioning = "Enabled"]
ResumingOnce ==
    [Base EXCEPT !.ops = {"Resumable", "PutObject"}, !.faults = 1, !.conds = {"ifGenerationMatch"}]

\* Versions of an object, with versioning switched on and suspended on the way.
Versioning ==
    [Base EXCEPT !.ops = {"PutObject", "DeleteObject", "DeleteObjectVersion", "PutBucketVersioning", "GcsUpload"},
                 !.bodies = {<<"x">>, <<"y">>}]

\* Holds and retention, against deletions, lifecycle rules and both services.
Locking ==
    [Base EXCEPT !.ops = {"PutObject", "DeleteObject", "DeleteObjectVersion", "PutObjectLock"},
                 !.versioning = "Enabled",
                 !.helds = {[retention |-> Unlocked, hold |-> TRUE],
                            [retention |-> [mode |-> "COMPLIANCE", until |-> 4], hold |-> FALSE],
                            [retention |-> [mode |-> "GOVERNANCE", until |-> 4], hold |-> FALSE]},
                 !.writes = 2]
Expirations ==
    [Base EXCEPT !.ops = {"PutObject", "GetObject", "GcsDelete", "PutBucketObjectLock", "PutBucketLifecycle"},
                 !.versioning = "Enabled",
                 !.lifecycles = {[enabled |-> TRUE, keys |-> {"k1"}, days |-> 1]}, !.writes = 2]

\* Conditional writes of one service against the writes of the other.
Conditional ==
    [Base EXCEPT !.ops = {"GcsUpload", "GcsPatch", "GcsDelete", "PutObject", "CopyObject"},
                 !.conditional = {TRUE, FALSE}, !.bodies = {<<"x">>},
                 !.conds = {"ifGenerationMatch", "ifGenerationNotMatch", "ifMetagenerationMatch",
                            "ifMetagenerationNotMatch"}]
Composing ==
    [Base EXCEPT !.ops = {"GcsCopy", "GcsCompose", "PutObject"}, !.conds = {"ifGenerationMatch"}, !.keys = {"k1", "k2"}]

\* Parts, completed or aborted, across a fault.
Parts ==
    [Base EXCEPT !.ops = {"Multipart", "PutObject", "DeleteBucket"}, !.bodies = {<<"x">>, <<"y", "z">>},
                 !.conditional = {TRUE, FALSE}, !.versioning = "Suspended", !.writes = 2, !.faults = 0]

\* What follows a write in S3: events, and copies in another bucket.
Following ==
    [Base EXCEPT !.ops = {"PutObject", "DeleteObject", "PutBucketNotification", "PutBucketReplication", "GcsDelete"},
                 !.buckets = {"b1", "b2"}, !.versioning = "Enabled", !.writes = 3,
                 !.notifications = {[events |-> {"Put", "DeleteMarker"}, keys |-> {"k1"}]},
                 !.replications = {<<[enabled |-> TRUE, keys |-> {"k1"}, dest |-> "b2", markers |-> TRUE],
                                     [enabled |-> FALSE, keys |-> {"k1"}, dest |-> "b2", markers |-> TRUE]>>}]

\* Configurations, with a crash between a bucket's file and its sidecar.
Settings ==
    [Base EXCEPT !.ops = {"PutBucketVersioning", "PutBucketAcl", "PutBucketObjectLock"},
                 !.faults = 1]
Documents ==
    [Base EXCEPT !.ops = {"CreateBucket", "GcsCreateBucket", "GcsDeleteBucket", "PutBucketPolicy", "PutBucketCors",
                          "PutBucketLifecycle", "PutBucketReplication"},
                 !.lifecycles = {[enabled |-> TRUE, keys |-> {"k1"}, days |-> 1]},
                 !.replications = {<<>>, <<[enabled |-> TRUE, keys |-> {"k1"}, dest |-> "b2", markers |-> FALSE]>>}]
Reports ==
    [Base EXCEPT !.ops = {"PutObject", "DeleteObject", "PutBucketInventory", "PutBucketAnalytics", "DeleteBucket"},
                 !.versioning = "Enabled", !.writes = 2,
                 !.inventories = [enabled : BOOLEAN, all : BOOLEAN]]

MCWorkloads ==
    {Resuming, ResumingVersions, ResumingOnce, Versioning, Locking, Expirations, Conditional, Composing, Parts, Following,
     Settings, Documents, Reports}
==============================================================================
