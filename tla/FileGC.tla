------------------------------- MODULE FileGC -------------------------------
(***************************************************************************)
(* The central accounting of a file from its first write to the end of its *)
(* garbage collection.  A write commits in the tenant database and then    *)
(* tells the central database through the outbox; a delete leaves a row in *)
(* file_gc_tasks; the GC workers lease the row, wait until the outbox has  *)
(* no create or overwrite of the file, delete its tenant_file_meta row     *)
(* with its bytes, hand the object to object GC and ack.                   *)
(*                                                                         *)
(* The central tables, the outbox and its replay come from CentralQuota.   *)
(***************************************************************************)
EXTENDS CentralQuota

CONSTANTS
    Sizes,        \* sizes of small writes
    GcHandlers,     \* request goroutines
    GcWorkers,      \* FileGCWorkers, one in each server process
    GcMaxRev,       \* bound on the writes of a file
    GcMaxAttempts,  \* max_attempts of a task
    FailOpen      \* the types of entries whose central statements may fail

ASSUME FileGCAssumption ==
    /\ Sizes \subseteq Nat \ {0}
    /\ GcMaxRev \in Nat /\ GcMaxAttempts \in Nat \ {0}
    /\ FailOpen \subseteq EntryTypes

VARIABLES
    gcFile,        \* [QuotaFiles -> status, size and revision in the tenant database]
    gcTask,        \* [QuotaFiles -> the row of file_gc_tasks]
    gcCandidates,  \* files whose object (they all have one) is an object_gc_candidate
    objects,     \* files whose object is in S3
    missed,      \* the central tables missed, or got late, some write
    gcReq,         \* [GcHandlers -> local state]
    gcWorker       \* [GcWorkers -> local state]

gcTenantVars == <<gcFile, gcTask, gcCandidates, objects, missed>>
gcVars == <<quotaVars, gcTenantVars, gcReq, gcWorker>>

GcIdle == [pc |-> "idle"]
NoGcTask == [status |-> "none", receipt |-> 0, leased |-> FALSE]

\* attempt_count is the receipt: a claim raises it and takes its value.
Claimed(t) == [status |-> "processing", receipt |-> t.receipt + 1, leased |-> TRUE]

GcInit ==
    /\ QuotaInit
    /\ gcFile = [f \in QuotaFiles |-> [status |-> "none", size |-> 0, rev |-> 0]]
    /\ gcTask = [f \in QuotaFiles |-> NoGcTask]
    /\ gcCandidates = {}
    /\ objects = {}
    /\ missed = FALSE
    /\ gcReq = [h \in GcHandlers |-> GcIdle]
    /\ gcWorker = [w \in GcWorkers |-> GcIdle]

Live == {f \in QuotaFiles : gcFile[f].status = "CONFIRMED"}
Deleted == {f \in QuotaFiles : gcFile[f].status = "DELETED"}

InRequest(f) == \E h \in GcHandlers : gcReq[h].pc # "idle" /\ gcReq[h].file = f

-----------------------------------------------------------------------------
(* Writes and deletes *)

\* The stat before the transaction; syncCentralFileOverwrite gets its size.
Write(h, f, n) ==
    /\ gcReq[h].pc = "idle"
    /\ f \notin Deleted /\ ~InRequest(f)
    /\ gcFile[f].rev < GcMaxRev
    /\ gcReq' = [gcReq EXCEPT ![h] =
                 [pc |-> "commit", file |-> f, new |-> n, old |-> gcFile[f].size, upload |-> "none", id |-> 0,
                  type |-> IF f \in Live THEN "file_overwrite" ELSE "file_create"]]
    /\ UNCHANGED <<quotaVars, gcTenantVars, gcWorker>>

\* finalizeUpload reads the old size in its transaction.
FinishUpload(h, f, u) ==
    /\ gcReq[h].pc = "idle"
    /\ resv[u] = "active"
    /\ ~\E g \in GcHandlers : gcReq[g].pc # "idle" /\ gcReq[g].upload = u
    /\ \A i \in DOMAIN log : log[i].upload # u
    /\ f \notin Deleted /\ ~InRequest(f)
    /\ gcFile[f].rev < GcMaxRev
    /\ gcFile' = [gcFile EXCEPT ![f] = [status |-> "CONFIRMED", size |-> Size[u], rev |-> @.rev + 1]]
    /\ gcReq' = [gcReq EXCEPT ![h] =
                 [pc |-> "log", file |-> f, new |-> Size[u], old |-> gcFile[f].size, upload |-> u, id |-> 0,
                  type |-> "upload_complete"]]
    /\ objects' = objects \cup {f}
    /\ UNCHANGED <<quotaVars, gcTask, gcCandidates, missed, gcWorker>>

StartUpload(u) ==
    /\ AtomicReserveAndInsertUpload(u)
    /\ UNCHANGED <<quotaFaults, gcTenantVars, gcReq, gcWorker>>

\* The tenant transaction.
commitWrite(h) ==
    LET r == gcReq[h] IN
    /\ r.pc = "commit"
    /\ gcFile' = [gcFile EXCEPT ![r.file] = [status |-> "CONFIRMED", size |-> r.new, rev |-> @.rev + 1]]
    /\ objects' = objects \cup {r.file}
    /\ gcReq' = [gcReq EXCEPT ![h].pc = "log"]
    /\ UNCHANGED <<quotaVars, gcTask, gcCandidates, missed, gcWorker>>

logMutation(h) ==
    LET r == gcReq[h] IN
    /\ r.pc = "log"
    /\ InsertMutationLog(LogEntry(r.type, r.upload, r.file, r.old, r.new))
    /\ gcReq' = [gcReq EXCEPT ![h].pc = "apply", ![h].id = Len(log) + 1]
    /\ UNCHANGED <<quotaFaults, gcTenantVars, gcWorker>>

\* The entry is applied at once unless the replay worker was faster.
applyInline(h) ==
    /\ gcReq[h].pc = "apply"
    /\ \/ /\ ApplyLogged(gcReq[h].id)
          /\ UNCHANGED <<expired, sweep, batch, quotaFaults>>
       \/ /\ log[gcReq[h].id].status # "pending"
          /\ UNCHANGED quotaVars
    /\ gcReq' = [gcReq EXCEPT ![h] = GcIdle]
    /\ UNCHANGED <<gcTenantVars, gcWorker>>

\* Fail open: the log insert or the central transaction fails, or the process
\* dies; the entry, if there is one, is left to the replay worker.
failOpen(h) ==
    /\ gcReq[h].pc \in {"log", "apply"} /\ gcReq[h].type \in FailOpen
    /\ Fault
    /\ missed' = TRUE
    /\ gcReq' = [gcReq EXCEPT ![h] = GcIdle]
    /\ UNCHANGED <<usage, resv, log, fileMeta, expired, sweep, batch, gcFile, gcTask, gcCandidates, objects, gcWorker>>

\* DeleteFileWithRefCheck of the last link, with its task.
RemoveFile(f) ==
    /\ f \in Live
    /\ ~InRequest(f)
    /\ gcFile' = [gcFile EXCEPT ![f].status = "DELETED"]
    /\ gcTask' = [gcTask EXCEPT ![f].status = "queued"]
    /\ UNCHANGED <<quotaVars, gcCandidates, objects, missed, gcReq, gcWorker>>

-----------------------------------------------------------------------------
(* The lease queue file_gc_tasks *)

ClaimFileGCTask(w, f) ==
    /\ gcWorker[w].pc = "idle"
    /\ gcTask[f].status = "queued"
    /\ gcTask' = [gcTask EXCEPT ![f] = Claimed(@)]
    /\ gcWorker' = [gcWorker EXCEPT ![w] = [pc |-> "check", file |-> f, receipt |-> gcTask[f].receipt + 1, size |-> 0]]
    /\ UNCHANGED <<quotaVars, gcFile, gcCandidates, objects, missed, gcReq>>

\* The WHERE clause of ack and retry: processing, own receipt, lease not over.
HoldsLease(w) ==
    LET t == gcTask[gcWorker[w].file] IN
    t.status = "processing" /\ t.receipt = gcWorker[w].receipt /\ t.leased

AckFileGCTask(w) ==
    /\ gcWorker[w].pc = "ack"
    /\ gcTask' = IF HoldsLease(w)
               THEN [gcTask EXCEPT ![gcWorker[w].file].status = "succeeded", ![gcWorker[w].file].leased = FALSE]
               ELSE gcTask
    /\ gcWorker' = [gcWorker EXCEPT ![w] = GcIdle]
    /\ UNCHANGED <<quotaVars, gcFile, gcCandidates, objects, missed, gcReq>>

RetryFileGCTask(w) ==
    LET f == gcWorker[w].file IN
    /\ gcWorker[w].pc = "retry"
    /\ gcTask' = IF HoldsLease(w)
               THEN [gcTask EXCEPT ![f].status = IF gcTask[f].receipt >= GcMaxAttempts THEN "dead_lettered" ELSE "queued",
                                 ![f].leased = FALSE]
               ELSE gcTask
    /\ gcWorker' = [gcWorker EXCEPT ![w] = GcIdle]
    /\ UNCHANGED <<quotaVars, gcFile, gcCandidates, objects, missed, gcReq>>

\* lease_until passes while the worker is slow or dead; each lapse uses up one
\* of the faults a behaviour has.
LeaseExpires(f) ==
    /\ gcTask[f].leased
    /\ Fault
    /\ gcTask' = [gcTask EXCEPT ![f].leased = FALSE]
    /\ UNCHANGED <<usage, resv, log, fileMeta, expired, sweep, batch, gcFile, gcCandidates, objects, missed, gcReq, gcWorker>>

\* Mutant: the sweep passes over tasks that have used up their attempts.
RecoverOnlyRetryable(f) ==
    /\ gcTask[f].status = "processing"
    /\ ~gcTask[f].leased
    /\ gcTask[f].receipt < GcMaxAttempts
    /\ gcTask' = [gcTask EXCEPT ![f].status = "queued"]
    /\ UNCHANGED <<quotaVars, gcFile, gcCandidates, objects, missed, gcReq, gcWorker>>

\* A recovered task is queued however often it was tried.
RecoverExpiredFileGCTasks(f) ==
    /\ gcTask[f].status = "processing"
    /\ ~gcTask[f].leased
    /\ gcTask' = [gcTask EXCEPT ![f].status = "queued"]
    /\ UNCHANGED <<quotaVars, gcFile, gcCandidates, objects, missed, gcReq, gcWorker>>

-----------------------------------------------------------------------------
(* FileGCWorker *)

GotoGC(w, pc) == gcWorker' = [gcWorker EXCEPT ![w].pc = pc]

\* Mutant: the worker does not wait for mutations of the file.
PendingNothing(f) == FALSE

HasPendingFileMutation(f) ==
    \E i \in Pending : log[i].file = f /\ log[i].type \in {"file_create", "file_overwrite"}

checkNoPendingCentralFileMutation(w) ==
    /\ gcWorker[w].pc = "check"
    /\ GotoGC(w, IF HasPendingFileMutation(gcWorker[w].file) THEN "retry" ELSE "get")
    /\ UNCHANGED <<quotaVars, gcTenantVars, gcReq>>

\* The size is read here and used in the transaction below.
GetFileMeta(w) ==
    LET size == fileMeta[gcWorker[w].file] IN
    /\ gcWorker[w].pc = "get"
    /\ gcWorker' = [gcWorker EXCEPT ![w].pc = IF size = NoMeta THEN "enqueue" ELSE "delete", ![w].size = size]
    /\ UNCHANGED <<quotaVars, gcTenantVars, gcReq>>

\* Only the transaction that removes the row gives its bytes back.
deleteCentralFileMeta(w) ==
    LET f == gcWorker[w].file IN
    /\ gcWorker[w].pc = "delete"
    /\ fileMeta' = [fileMeta EXCEPT ![f] = NoMeta]
    /\ usage' = IF fileMeta[f] = NoMeta THEN usage ELSE [usage EXCEPT !.storage = @ - gcWorker[w].size]
    /\ GotoGC(w, "enqueue")
    /\ UNCHANGED <<resv, log, expired, sweep, batch, quotaFaults, gcTenantVars, gcReq>>

enqueueObjectGCCandidate(w) ==
    /\ gcWorker[w].pc = "enqueue"
    /\ gcCandidates' = gcCandidates \cup {gcWorker[w].file}
    /\ GotoGC(w, "ack")
    /\ UNCHANGED <<quotaVars, gcFile, gcTask, objects, missed, gcReq>>

\* A statement of processFileGCTask fails: the task is retried later.
gcFails(w) ==
    /\ gcWorker[w].pc \in {"check", "get", "delete", "enqueue"}
    /\ Fault
    /\ GotoGC(w, "retry")
    /\ UNCHANGED <<usage, resv, log, fileMeta, expired, sweep, batch, gcTenantVars, gcReq>>

\* The worker's process dies, or its ack or retry fails: the lease runs out.
gcStops(w) ==
    LET f == gcWorker[w].file IN
    /\ gcWorker[w].pc # "idle"
    /\ Fault
    /\ gcWorker' = [gcWorker EXCEPT ![w] = GcIdle]
    /\ gcTask' = IF HoldsLease(w) THEN [gcTask EXCEPT ![f].leased = FALSE] ELSE gcTask
    /\ UNCHANGED <<usage, resv, log, fileMeta, expired, sweep, batch, gcFile, gcCandidates, objects, missed, gcReq>>

\* The object GC worker: the file of a candidate is no longer confirmed.
processCandidate(f) ==
    /\ f \in gcCandidates \ Live
    /\ objects' = objects \ {f}
    /\ gcCandidates' = gcCandidates \ {f}
    /\ UNCHANGED <<quotaVars, gcFile, gcTask, missed, gcReq, gcWorker>>

-----------------------------------------------------------------------------
(* The specification *)

Replay == replayBatch /\ UNCHANGED <<gcTenantVars, gcReq, gcWorker>>

Handle(h) == commitWrite(h) \/ logMutation(h) \/ applyInline(h)

Process(w) ==
    \/ \E f \in QuotaFiles : ClaimFileGCTask(w, f)
    \/ checkNoPendingCentralFileMutation(w)
    \/ GetFileMeta(w)
    \/ deleteCentralFileMeta(w)
    \/ enqueueObjectGCCandidate(w)
    \/ AckFileGCTask(w)
    \/ RetryFileGCTask(w)

GcNext ==
    \/ \E h \in GcHandlers, f \in QuotaFiles, n \in Sizes : Write(h, f, n)
    \/ \E h \in GcHandlers, f \in QuotaFiles, u \in Uploads : FinishUpload(h, f, u)
    \/ \E u \in Uploads : StartUpload(u)
    \/ \E h \in GcHandlers : Handle(h) \/ failOpen(h)
    \/ \E f \in QuotaFiles : RemoveFile(f) \/ LeaseExpires(f) \/ RecoverExpiredFileGCTasks(f) \/ processCandidate(f)
    \/ \E w \in GcWorkers : Process(w) \/ gcFails(w) \/ gcStops(w)
    \/ Replay

GcSpec == GcInit /\ [][GcNext]_gcVars

\* Handlers run on; the GC workers, the object GC and the replay worker poll forever.
GcFairSpec ==
    /\ GcSpec
    /\ \A h \in GcHandlers : WF_gcVars(Handle(h))
    /\ \A w \in GcWorkers : WF_gcVars(Process(w))
    /\ \A f \in QuotaFiles : WF_gcVars(RecoverExpiredFileGCTasks(f)) /\ WF_gcVars(processCandidate(f))
    /\ WF_gcVars(Replay)

-----------------------------------------------------------------------------
(* Properties *)

\* The rows of file_gc_tasks and the central tables keep their types; a lease belongs to a task
\* that is processing, and a GC worker only ever works on a deleted file.
GcTypeOK ==
    /\ QuotaTypeOK
    /\ gcFile \in [QuotaFiles -> [status : {"none", "CONFIRMED", "DELETED"}, size : Nat, rev : 0..GcMaxRev]]
    /\ \A f \in QuotaFiles :
          /\ gcTask[f].status \in {"none", "queued", "processing", "succeeded", "dead_lettered"}
          /\ gcTask[f].receipt \in Nat
          /\ gcTask[f].leased => gcTask[f].status = "processing"
    /\ gcCandidates \subseteq QuotaFiles /\ objects \subseteq QuotaFiles
    /\ missed \in BOOLEAN
    /\ \A w \in GcWorkers : gcWorker[w].pc # "idle" => gcWorker[w].file \in Deleted

Quiet == Pending = {} /\ \A h \in GcHandlers : gcReq[h].pc = "idle"

\* "Deleting/acking GC before that mutation replays would let replay recreate
\* quota state for an already-deleted tenant file": once the task of a file
\* has succeeded, its tenant_file_meta row is gone for good.
AckedLeavesNoMeta == \A f \in QuotaFiles : gcTask[f].status = "succeeded" => fileMeta[f] = NoMeta

\* A task only succeeds after the object was handed to object GC, however many
\* workers with lapsed leases worked on it before.
AckedHandsOver == \A f \in QuotaFiles : gcTask[f].status = "succeeded" => f \in gcCandidates \/ f \notin objects

\* Between deletes that two workers process at once, replays and inline
\* applies, the bytes of a file leave storage_bytes exactly once, together
\* with its row; unless some write failed open.
MetaBacksStorage ==
    \/ missed
    \/ \E i \in DOMAIN log : log[i].status = "failed"
    \/ usage.storage = MapThenSumSet(LAMBDA f : fileMeta[f], {f \in QuotaFiles : fileMeta[f] # NoMeta})

\* The replay worker and the inline applies race, yet "the shadow state"
\* converges: with the outbox applied, tenant_file_meta holds the size of every
\* live file; unless some write failed open.
ShadowConverges ==
    (Quiet /\ ~missed /\ \A i \in DOMAIN log : log[i].status = "applied") =>
        \A f \in Live : fileMeta[f] = gcFile[f].size

\* Every delete is processed to the end: the object leaves S3 or the task is
\* dead-lettered, through failing workers, lapsed leases and a slow outbox.
DeletedObjectsVanish ==
    \A f \in QuotaFiles : (f \in Deleted) ~> (f \notin objects \/ gcTask[f].status = "dead_lettered")

\* A delete that was answered follows through: when its task is acked the
\* quota row is gone and the object was handed over, no row of the quota
\* outlives what it counts, and the tenant's counter agrees with the rows once
\* nothing is pending (processTask, deleteFileMeta, replayBatch).
DeletesFollowThrough ==
    AckedLeavesNoMeta /\ AckedHandsOver /\ MetaBacksStorage /\ ShadowConverges
=============================================================================
