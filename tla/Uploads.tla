------------------------------ MODULE Uploads ------------------------------
(***************************************************************************)
(* Multipart uploads of one tenant: the uploads, inodes and file_nodes     *)
(* rows of the tenant database, the multipart uploads and objects in S3,   *)
(* and the request handlers that keep them and the central quota tables    *)
(* (CentralQuota) in step without a common transaction.                    *)
(*                                                                         *)
(* A handler is one request goroutine; an action runs it from one store    *)
(* (tenant database, server database, S3) to the next.  The file id and    *)
(* the S3 key an upload is given at initiate are as unique as its upload   *)
(* id, so the upload id stands for all three: Files = Uploads.             *)
(***************************************************************************)
EXTENDS CentralQuota

CONSTANTS
    Paths,         \* target paths
    V2Uploads,     \* the uploads that use the v2 protocol
    ExpectedRevs,  \* expected revisions clients send (-1: unconditional)
    Handlers,      \* request goroutines
    Serial         \* clients wait for an answer before they touch the upload again

ASSUME UploadsAssumption ==
    /\ QuotaFiles = Uploads
    /\ V2Uploads \subseteq Uploads
    /\ ExpectedRevs \subseteq Int
    /\ Serial \in BOOLEAN

VARIABLES
    upload,      \* [Uploads -> row of uploads]
    inode,        \* [Uploads -> inodes and contents rows of the file]
    node,        \* [Paths -> file id of the file_nodes row]
    mpu,         \* [Uploads -> state of the multipart upload in S3]
    blobs,       \* the objects in S3
    candidates,  \* object_gc_candidates
    req          \* [Handlers -> local state of the handler]

tenantVars == <<upload, inode, node, mpu, blobs, candidates>>
uploadsVars == <<quotaVars, tenantVars, req>>

NoUploadFile == "none"
NoPath == "none"
NoRef == "none"

NoRequest == [pc |-> "idle"]

\* old: the size the finalize transaction replaced; ref: the object it replaced.
At(pc, u) == [pc |-> pc, u |-> u, old |-> 0, file |-> NoUploadFile, ref |-> NoRef, id |-> 0]

Busy(h) == req[h].pc # "idle"

Proceed(h, pc) == req' = [req EXCEPT ![h].pc = pc]
Return(h) == req' = [req EXCEPT ![h] = NoRequest]

\* A handler may start on upload u.
Admitted(h, u) ==
    /\ ~Busy(h)
    /\ Serial => \A g \in Handlers : Busy(g) => req[g].u # u

InProgress == {"INITIATED", "UPLOADING"}

SizeOf(f) == Size[inode[f].ref]

UploadsInit ==
    /\ QuotaInit
    /\ upload = [u \in Uploads |-> [status |-> "none", path |-> NoPath, exp |-> -1, file |-> NoUploadFile]]
    /\ inode = [u \in Uploads |-> [status |-> "none", ref |-> NoRef, rev |-> 0]]
    /\ node = [p \in Paths |-> NoUploadFile]
    /\ mpu = [u \in Uploads |-> "none"]
    /\ blobs = {}
    /\ candidates = {}
    /\ req = [h \in Handlers |-> NoRequest]

-----------------------------------------------------------------------------
(* Initiate: the server-reserve-first saga *)

validateUploadTargetRevision(p, exp) ==
    IF node[p] = NoUploadFile
    THEN exp <= 0
    ELSE /\ exp # 0
         /\ exp > 0 => inode[node[p]].status = "CONFIRMED" /\ inode[node[p]].rev = exp

activeUploadByPath(p) ==
    {u \in Uploads : upload[u].path = p /\ upload[u].status \in InProgress /\ u \notin expired}

\* The checks of initiate and CreateMultipartUpload, up to the reservation.
InitiateUpload(h, u) ==
    /\ Admitted(h, u)
    /\ mpu[u] = "none"
    /\ \E p \in Paths, exp \in ExpectedRevs :
          /\ validateUploadTargetRevision(p, exp)
          /\ activeUploadByPath(p) = {}
          /\ upload' = [upload EXCEPT ![u].path = p, ![u].exp = exp]
    /\ mpu' = [mpu EXCEPT ![u] = "open"]
    /\ req' = [req EXCEPT ![h] = At("reserve", u)]
    /\ UNCHANGED <<quotaVars, inode, node, blobs, candidates>>

\* Over the limit the request ends; a server database error fails open.
reserveUploadOnServer(h) ==
    LET u == req[h].u IN
    /\ req[h].pc = "reserve"
    /\ \/ /\ AtomicReserveAndInsertUpload(u)
          /\ Proceed(h, "insert")
          /\ UNCHANGED <<quotaFaults, mpu>>
       \/ /\ ~FitsQuota(u)
          /\ mpu' = [mpu EXCEPT ![u] = "aborted"]
          /\ Return(h)
          /\ UNCHANGED quotaVars
       \/ /\ Fault
          /\ Proceed(h, "insert")
          /\ UNCHANGED <<usage, resv, log, fileMeta, expired, sweep, batch, mpu>>
    /\ UNCHANGED <<upload, inode, node, blobs, candidates>>

\* idx_uploads_active covers the rows whose status is UPLOADING.
PathTaken(u) ==
    \E v \in Uploads \ {u} : upload[v].status = "UPLOADING" /\ upload[v].path = upload[u].path

\* Compensation also aborts the multipart upload, which no row names by then.
InsertUploadTx(h) ==
    LET u == req[h].u IN
    /\ req[h].pc = "insert"
    /\ \/ /\ u \notin V2Uploads => ~PathTaken(u)
          /\ upload' = [upload EXCEPT ![u].status = IF u \in V2Uploads THEN "INITIATED" ELSE "UPLOADING",
                                      ![u].file = u]
          /\ inode' = [inode EXCEPT ![u] = [status |-> "PENDING", ref |-> u, rev |-> 1]]
          /\ Return(h)
          /\ UNCHANGED <<quotaFaults, mpu>>
       \/ /\ \/ u \notin V2Uploads /\ PathTaken(u) /\ UNCHANGED quotaFaults
             \/ Fault
          /\ mpu' = [mpu EXCEPT ![u] = "aborted"]
          /\ Proceed(h, "lookup")
          /\ UNCHANGED <<upload, inode>>
    /\ UNCHANGED <<usage, resv, log, fileMeta, expired, sweep, batch, node, blobs, candidates>>

-----------------------------------------------------------------------------
(* Between initiate and complete *)

\* The first presign of a v2 upload moves it on; the unique index may refuse.
ensureUploadPresignable(h, u) ==
    /\ Admitted(h, u)
    /\ upload[u].status = "INITIATED"
    /\ u \notin expired
    /\ ~PathTaken(u)
    /\ upload' = [upload EXCEPT ![u].status = "UPLOADING"]
    /\ UNCHANGED <<quotaVars, inode, node, mpu, blobs, candidates, req>>

\* The client PUTs the parts to their presigned URLs, directly to S3.
UploadParts(u) ==
    /\ upload[u].status = "UPLOADING"
    /\ mpu[u] = "open"
    /\ mpu' = [mpu EXCEPT ![u] = "full"]
    /\ UNCHANGED <<quotaVars, upload, inode, node, blobs, candidates, req>>

-----------------------------------------------------------------------------
(* Complete *)

\* Only v2 looks at expires_at; an expired v2 upload is aborted instead.
ConfirmUpload(h, u) ==
    /\ Admitted(h, u)
    /\ upload[u].status = "UPLOADING"
    /\ mpu[u] = "full"
    /\ u \in V2Uploads => u \notin expired
    /\ req' = [req EXCEPT ![h] = At("complete", u)]
    /\ UNCHANGED <<quotaVars, tenantVars>>

\* S3 may answer a repeated completion with success or with NoSuchUpload.
CompleteMultipartUpload(h) ==
    LET u == req[h].u IN
    /\ req[h].pc = "complete"
    /\ \/ /\ mpu[u] = "full"
          /\ mpu' = [mpu EXCEPT ![u] = "done"]
          /\ blobs' = blobs \cup {u}
          /\ Proceed(h, "finalize")
       \/ /\ mpu[u] = "done"
          /\ Proceed(h, "finalize")
          /\ UNCHANGED <<mpu, blobs>>
       \/ /\ mpu[u] # "full"
          /\ Return(h)
          /\ UNCHANGED <<mpu, blobs>>
    /\ UNCHANGED <<quotaVars, upload, inode, node, candidates>>

\* CompleteUploadTx changes an UPLOADING row and ignores the rows affected.
Completed(u) == IF upload[u].status = "UPLOADING" THEN "COMPLETED" ELSE upload[u].status

\* The overwrite branch: the path has a node.
CanOverwrite(u) ==
    LET f == node[upload[u].path] IN
    /\ f # NoUploadFile
    /\ upload[u].exp # 0
    /\ inode[f].status = "CONFIRMED"
    /\ upload[u].exp > 0 => inode[f].rev = upload[u].exp
    /\ inode[u].status = "PENDING"

\* The create branch: it does not.
CanCreate(u) ==
    /\ node[upload[u].path] = NoUploadFile
    /\ upload[u].exp <= 0
    /\ inode[u].status = "PENDING"

\* The tenant transaction of finalizeUpload; rolled back, it leaves cleanup.
finalizeUpload(h) ==
    LET u == req[h].u
        p == upload[u].path
        f == node[p]
    IN
    /\ req[h].pc = "finalize"
    /\ \/ /\ CanOverwrite(u)
          /\ upload' = [upload EXCEPT ![u].status = Completed(u), ![u].file = f]
          /\ inode' = [inode EXCEPT ![f] = [@ EXCEPT !.ref = u, !.rev = @ + 1],
                                  ![u] = [@ EXCEPT !.status = "DELETED", !.ref = NoRef]]
          /\ req' = [req EXCEPT ![h] = [@ EXCEPT !.pc = "log", !.file = f,
                                                 !.old = SizeOf(f), !.ref = inode[f].ref]]
          /\ UNCHANGED <<node, quotaFaults>>
       \/ /\ CanCreate(u)
          /\ upload' = [upload EXCEPT ![u].status = Completed(u)]
          /\ inode' = [inode EXCEPT ![u] = [status |-> "CONFIRMED", ref |-> u, rev |-> 1]]
          /\ node' = [node EXCEPT ![p] = u]
          /\ req' = [req EXCEPT ![h] = [@ EXCEPT !.pc = "log", !.file = u]]
          /\ UNCHANGED quotaFaults
       \/ /\ \/ ~CanOverwrite(u) /\ ~CanCreate(u) /\ UNCHANGED quotaFaults
             \/ Fault
          /\ Proceed(h, "cleanBlob")
          /\ UNCHANGED <<upload, inode, node>>
    /\ UNCHANGED <<usage, resv, log, fileMeta, expired, sweep, batch, mpu, blobs, candidates>>

\* completeUploadReservation, first half: without its log entry the delta is lost.
completeUploadReservation(h) ==
    LET r == req[h] IN
    /\ r.pc = "log"
    /\ \/ /\ InsertMutationLog(LogEntry("upload_complete", r.u, r.file, r.old, Size[r.u]))
          /\ req' = [req EXCEPT ![h] = [@ EXCEPT !.pc = "apply", !.id = Len(log) + 1]]
          /\ UNCHANGED quotaFaults
       \/ /\ Fault
          /\ Proceed(h, "candidate")
          /\ UNCHANGED <<usage, resv, log, fileMeta, expired, sweep, batch>>
    /\ UNCHANGED tenantVars

\* Second half: the inline attempt; what it leaves pending is the replay's.
applyUploadComplete(h) ==
    /\ req[h].pc = "apply"
    /\ \/ /\ ApplyLogged(req[h].id)
          /\ UNCHANGED <<expired, sweep, batch, quotaFaults>>
       \/ /\ log[req[h].id].status # "pending"
          /\ UNCHANGED quotaVars
       \/ /\ Fault
          /\ UNCHANGED <<usage, resv, log, fileMeta, expired, sweep, batch>>
    /\ Proceed(h, "candidate")
    /\ UNCHANGED tenantVars

\* An overwritten object is left to object GC, never deleted here.
deleteBlobIfS3(h) ==
    /\ req[h].pc = "candidate"
    /\ \/ /\ candidates' = candidates \cup ({req[h].ref} \ {NoRef, req[h].u})
          /\ UNCHANGED quotaFaults
       \/ /\ req[h].ref # NoRef
          /\ Fault
          /\ UNCHANGED candidates
    /\ Return(h)
    /\ UNCHANGED <<usage, resv, log, fileMeta, expired, sweep, batch, upload, inode, node, mpu, blobs>>

\* Mutant: a failed finalize leaves the object.
cleanBlobNever(h) ==
    /\ req[h].pc = "cleanBlob"
    /\ Proceed(h, "cleanUpload")
    /\ UNCHANGED <<quotaVars, tenantVars>>

\* cleanupFailedFinalizeUpload: the object, the uploads row, the inodes row.
cleanBlob(h) ==
    /\ req[h].pc = "cleanBlob"
    /\ \/ /\ blobs' = blobs \ {req[h].u}
          /\ UNCHANGED quotaFaults
       \/ /\ Fault
          /\ UNCHANGED blobs
    /\ Proceed(h, "cleanUpload")
    /\ UNCHANGED <<usage, resv, log, fileMeta, expired, sweep, batch, upload, inode, node, mpu, candidates>>

AbortedV2(u) == IF upload[u].status \in InProgress THEN "ABORTED" ELSE upload[u].status

cleanUpload(h) ==
    /\ req[h].pc = "cleanUpload"
    /\ \/ /\ upload' = [upload EXCEPT ![req[h].u].status = AbortedV2(req[h].u)]
          /\ UNCHANGED quotaFaults
       \/ /\ Fault
          /\ UNCHANGED upload
    /\ Proceed(h, "markDeleted")
    /\ UNCHANGED <<usage, resv, log, fileMeta, expired, sweep, batch, inode, node, mpu, blobs, candidates>>

\* MarkFileDeleted is not guarded by the status of the file.
MarkFileDeleted(h) ==
    /\ req[h].pc = "markDeleted"
    /\ \/ /\ inode' = [inode EXCEPT ![req[h].u].status = "DELETED"]
          /\ UNCHANGED quotaFaults
       \/ /\ Fault
          /\ UNCHANGED inode
    /\ Proceed(h, "lookup")
    /\ UNCHANGED <<usage, resv, log, fileMeta, expired, sweep, batch, upload, node, mpu, blobs, candidates>>

-----------------------------------------------------------------------------
(* Abort *)

\* Mutant: an upload that has completed can be aborted.
AbortCompletedToo(h, u) ==
    /\ Admitted(h, u)
    /\ upload[u].status \in InProgress \cup {"COMPLETED"}
    /\ req' = [req EXCEPT ![h] = At("s3abort", u)]
    /\ UNCHANGED <<quotaVars, tenantVars>>

\* AbortUpload, AbortUploadV2, and the abort of an expired v2 upload by a
\* presign or a complete.
AbortUpload(h, u) ==
    /\ Admitted(h, u)
    /\ \/ upload[u].status = "UPLOADING"
       \/ u \in V2Uploads /\ upload[u].status = "INITIATED"
    /\ req' = [req EXCEPT ![h] = At("s3abort", u)]
    /\ UNCHANGED <<quotaVars, tenantVars>>

\* ResumeUpload of an expired upload aborts it and leaves its reservation.
ResumeExpired(h, u) ==
    /\ Admitted(h, u)
    /\ u \notin V2Uploads
    /\ upload[u].status = "UPLOADING"
    /\ u \in expired
    /\ mpu' = [mpu EXCEPT ![u] = IF @ = "done" THEN @ ELSE "aborted"]
    /\ req' = [req EXCEPT ![h] = [At("storeAbort", u) EXCEPT !.ref = "resume"]]
    /\ UNCHANGED <<quotaVars, upload, inode, node, blobs, candidates>>

AbortMultipartUpload(h) ==
    LET u == req[h].u IN
    /\ req[h].pc = "s3abort"
    /\ mpu' = [mpu EXCEPT ![u] = IF @ = "done" THEN @ ELSE "aborted"]
    /\ Proceed(h, "storeAbort")
    /\ UNCHANGED <<quotaVars, upload, inode, node, blobs, candidates>>

storeAbort(h) ==
    LET u == req[h].u IN
    /\ req[h].pc = "storeAbort"
    /\ \/ /\ upload' = [upload EXCEPT ![u].status = AbortedV2(u)]
          /\ CASE req[h].ref = "resume" -> Return(h)
               [] u \in V2Uploads       -> Proceed(h, "markDeleted")
               [] OTHER                 -> Proceed(h, "lookup")
          /\ UNCHANGED quotaFaults
       \/ /\ Fault
          /\ Return(h)
          /\ UNCHANGED upload
    /\ UNCHANGED <<usage, resv, log, fileMeta, expired, sweep, batch, inode, node, mpu, blobs, candidates>>

\* abortUploadReservation, first half: the row is read outside the transaction.
GetUploadReservation(h) ==
    /\ req[h].pc = "lookup"
    /\ \/ /\ IF resv[req[h].u] = "active" THEN Proceed(h, "release") ELSE Return(h)
          /\ UNCHANGED quotaFaults
       \/ /\ Fault
          /\ Return(h)
    /\ UNCHANGED <<usage, resv, log, fileMeta, expired, sweep, batch, tenantVars>>

abortUploadReservation(h) ==
    /\ req[h].pc = "release"
    /\ \/ /\ ReleaseReservation(req[h].u)
          /\ UNCHANGED quotaFaults
       \/ /\ Fault
          /\ UNCHANGED <<usage, resv, log, fileMeta, expired, sweep, batch>>
    /\ Return(h)
    /\ UNCHANGED tenantVars

-----------------------------------------------------------------------------
(* The specification *)

\* The process of a handler dies.
HandlerCrash(h) ==
    /\ Busy(h)
    /\ Fault
    /\ Return(h)
    /\ UNCHANGED <<usage, resv, log, fileMeta, expired, sweep, batch, tenantVars>>

\* The 24 hours of an upload and of its reservation run out, long after the
\* request that initiated it.
PassDeadline(u) ==
    /\ mpu[u] # "none"
    /\ \A h \in Handlers : req[h].pc \in {"reserve", "insert"} => req[h].u # u
    /\ Expire(u)
    /\ UNCHANGED <<tenantVars, req>>

HandlerStep(h) ==
    \/ reserveUploadOnServer(h) \/ InsertUploadTx(h)
    \/ CompleteMultipartUpload(h) \/ finalizeUpload(h)
    \/ completeUploadReservation(h) \/ applyUploadComplete(h) \/ deleteBlobIfS3(h)
    \/ cleanBlob(h) \/ cleanUpload(h) \/ MarkFileDeleted(h)
    \/ AbortMultipartUpload(h) \/ storeAbort(h)
    \/ GetUploadReservation(h) \/ abortUploadReservation(h)

Request(h, u) ==
    \/ InitiateUpload(h, u) \/ ensureUploadPresignable(h, u)
    \/ ConfirmUpload(h, u) \/ AbortUpload(h, u) \/ ResumeExpired(h, u)

Background == QuotaWorkers /\ UNCHANGED <<tenantVars, req>>

UploadsNext ==
    \/ \E h \in Handlers : HandlerStep(h) \/ HandlerCrash(h)
    \/ \E h \in Handlers, u \in Uploads : Request(h, u)
    \/ \E u \in Uploads : UploadParts(u)
    \/ \E u \in Uploads : PassDeadline(u)
    \/ Background

UploadsSpec == UploadsInit /\ [][UploadsNext]_uploadsVars

\* Handlers run on, the two background workers wake up, time passes.
UploadsFairness ==
    /\ \A h \in Handlers : WF_uploadsVars(HandlerStep(h))
    /\ \A u \in Uploads : WF_uploadsVars(PassDeadline(u))
    /\ WF_uploadsVars(replayBatch /\ UNCHANGED <<tenantVars, req>>)
    /\ WF_uploadsVars(ExpireActiveReservations /\ UNCHANGED <<tenantVars, req>>)

UploadsFairSpec == UploadsSpec /\ UploadsFairness

-----------------------------------------------------------------------------
(* Properties *)

\* The rows of uploads, inodes and dentries, the multipart uploads and the objects in S3 keep
\* the states the handlers of upload.go know.
UploadsTypeOK ==
    /\ QuotaTypeOK
    /\ upload \in [Uploads -> [status : InProgress \cup {"none", "COMPLETED", "ABORTED"},
                               path : Paths \cup {NoPath}, exp : ExpectedRevs \cup {-1},
                               file : Uploads \cup {NoUploadFile}]]
    /\ inode \in [Uploads -> [status : {"none", "PENDING", "CONFIRMED", "DELETED"},
                             ref : Uploads \cup {NoRef}, rev : 0..Cardinality(Uploads)]]
    /\ node \in [Paths -> Uploads \cup {NoUploadFile}]
    /\ mpu \in [Uploads -> {"none", "open", "full", "done", "aborted"}]
    /\ blobs \subseteq Uploads
    /\ candidates \subseteq Uploads

Confirmed == {f \in Uploads : inode[f].status = "CONFIRMED"}

\* docs/design-overview.md: a COMPLETED upload has a confirmed file and a path.
\* The finalize transaction, aborts and cleanups of failed finalizes keep it.
CompletedIsConfirmed ==
    \A u \in Uploads : upload[u].status = "COMPLETED" =>
        /\ upload[u].file \in Confirmed
        /\ \E p \in Paths : node[p] = upload[u].file

\* docs/design-overview.md: the storage of a confirmed file has its object.
\* No cleanup of a failed or aborted upload removes an object in use.
ConfirmedHasObject == \A f \in Confirmed : inode[f].ref \in blobs

\* Unless a process died or a statement failed, an object in S3 belongs to a
\* confirmed file, waits for object GC, or is in the hands of a handler.
NoOrphanObject ==
    \A b \in blobs :
        \/ \E f \in Confirmed : inode[f].ref = b
        \/ b \in candidates
        \/ \E h \in Handlers : Busy(h) /\ b \in {req[h].u, req[h].ref}
        \/ quotaFaults > 0

\* Once the outbox is drained, storage_bytes is the size of the confirmed
\* files, whichever of sweep, replay, abort and complete came first.
StorageConverges ==
    (quotaFaults = 0 /\ Pending = {} /\ \A h \in Handlers : ~Busy(h))
        => usage.storage = MapThenSumSet(SizeOf, Confirmed)

\* Every reservation ends: the upload completes, is aborted, or is swept.
ReservationsEnd == \A u \in Uploads : resv[u] = "active" ~> resv[u] # "active"

\* Every entry of the outbox leaves pending: applied, or failed for good.
OutboxDrains == []<>(Pending = {})

\* Objects and rows account for each other whatever interleaves with a
\* complete, an abort or a failure half way: every confirmed inode has its S3
\* object, and no object is left that nothing will ever delete.
ObjectsAccounted == ConfirmedHasObject /\ NoOrphanObject

\* The central quota settles (replayBatch, ExpireActiveReservations): every
\* reservation ends, and every logged mutation is applied or given up.
CentralSettles == ReservationsEnd /\ OutboxDrains
=============================================================================
