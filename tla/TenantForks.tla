----------------------------- MODULE TenantForks -----------------------------
(***************************************************************************)
(* Forks of a tenant: a fork is a branch of the source's database that     *)
(* shares the source's objects in S3.  A request creates it, a worker      *)
(* provisions it, its owner deletes it, a worker cleans it up, and the     *)
(* object GC deletes objects nobody refers to any more.  The server may    *)
(* crash between any two steps; a restart resumes unfinished forks.        *)
(*                                                                         *)
(* A database is the set of objects its confirmed files refer to, the      *)
(* objects its file GC tasks name and whether it has an upload in          *)
(* progress.  An object is written once and never under the same name.     *)
(***************************************************************************)
EXTENDS Common, Integers, FiniteSets

CONSTANTS
    Forks,          \* ids of forks
    Branches,       \* numbers of the branches the provider can make
    Objects,        \* names of S3 objects (blobs/...)
    ForkMaxCrashes  \* bound on crashes of the server

(* The columns of tenants that forks use, and a worker with the row it     *)
(* read.                                                                   *)
ForkRow == [status : {"provisioning", "active", "failed", "deleting", "deleted"},
            branch : Branches \cup {None}, host : {"source", "none", "branch"}]

ForkWorker ==
    [kind : {"provision", "cleanup"}, at : {"start", "prepared"}] \cup
    [kind : {"provision", "cleanup"}, row : ForkRow,
     at : {"checked", "connected", "drained", "enqueued", "deleted"}]

ASSUME ForkAssumption ==
    /\ Branches \subseteq Nat /\ ForkMaxCrashes \in Nat
    /\ None \notin Branches /\ None \notin ForkRow /\ None \notin ForkWorker
    /\ None \notin [fork : Forks, at : {"inserted", "connected"}]
    /\ None \notin [obj : Objects, at : {"unforked", "unreachable"}]

VARIABLES
    trow,     \* [Forks -> row of tenants, or None]
    tdb,      \* [Branches -> database of the branch, or None]
    tsrc,     \* database of the source, the owner of the storage namespace
    tobj,     \* [Objects -> "unborn", "stored" or "gone"]
    tcand,    \* [Objects -> "none", "pending" or "deleted"]: object_gc_candidates
    tlate,    \* objects a request stored in a fork that was already deleting
    tup,      \* the server runs
    tcreate,  \* the createForkTenant call in progress, or None
    twork,    \* [Forks -> the fork worker running for it, or None]
    tgc,      \* the candidate the object GC worker is at, or None
    tcrashes  \* crashes so far

filesVars == <<tsrc, tobj, tcand, tlate>>
forkVars == <<trow, tdb, tsrc, tobj, tcand, tlate, tup, tcreate, twork, tgc, tcrashes>>

NewDb == [st |-> "live", refs |-> {}, tasks |-> {}, uploading |-> FALSE]
NoDb == [NewDb EXCEPT !.st = "unborn"]
GoneDb == [NewDb EXCEPT !.st = "gone"]

ForkInit ==
    /\ trow = [f \in Forks |-> None]
    /\ tdb = [b \in Branches |-> NoDb]
    /\ tsrc = NewDb
    /\ tobj = [o \in Objects |-> "unborn"]
    /\ tcand = [o \in Objects |-> "none"]
    /\ tlate = {}
    /\ tup = TRUE
    /\ tcreate = None
    /\ twork = [f \in Forks |-> None]
    /\ tgc = None
    /\ tcrashes = 0

Status(f) == IF trow[f] = None THEN "none" ELSE trow[f].status

SetWork(f, w) == twork' = [twork EXCEPT ![f] = w]

(* startForkProvision and startForkCleanup                                 *)
StartForkProvision(f) == SetWork(f, [kind |-> "provision", at |-> "start"])
StartForkCleanup(f) == SetWork(f, [kind |-> "cleanup", at |-> "start"])

Working(f, kind, at) ==
    /\ twork[f] # None
    /\ twork[f].kind = kind
    /\ twork[f].at = at

(* UpdateTenantStatus writes whatever the status was; the update may fail. *)
UpdateTenantStatus(f, row, s) ==
    trow' \in {[trow EXCEPT ![f] = [row EXCEPT !.status = s]], [trow EXCEPT ![f] = row]}

(* markForkFailed: an error of the update is only logged.                  *)
MarkForkFailed(f, row) == UpdateTenantStatus(f, row, "failed")

-----------------------------------------------------------------------------
(* The branch provider.  A new branch holds a snapshot of the source.      *)

Unborn == {b \in Branches : tdb[b].st = "unborn" /\ \A c \in Branches : c < b => tdb[c].st # "unborn"}

DeleteBranch(b) == [tdb EXCEPT ![b] = GoneDb]

(* deleteForkBranchOrPersist on a branch the row does not know: it is      *)
(* deleted; if that fails its id is recorded and the connection of the row *)
(* stays the source's; if that fails too nobody knows of the branch.       *)
DeleteForkBranchOrPersist(f, b) ==
    {[row |-> trow[f], db |-> [tdb EXCEPT ![b] = GoneDb]],
     [row |-> [trow[f] EXCEPT !.branch = b], db |-> [tdb EXCEPT ![b] = tsrc]],
     [row |-> trow[f], db |-> [tdb EXCEPT ![b] = tsrc]]}

(* What is left of a CreateBranch that did not end in a recorded           *)
(* connection: no branch, one nobody knows of because its answer was lost, *)
(* or a partial answer or an error of UpdateTenantConnection that          *)
(* deleteForkBranchOrPersist handles.                                      *)
CreateBranchFails(f) ==
    {[row |-> trow[f], db |-> tdb]} \cup
    UNION {DeleteForkBranchOrPersist(f, b) : b \in Unborn}

(* CreateBranch and UpdateTenantConnection: the branch, with its endpoint  *)
(* if it is active already.                                                *)
CreateBranchOk(f) ==
    UNION {{[row |-> [trow[f] EXCEPT !.branch = b, !.host = h], db |-> [tdb EXCEPT ![b] = tsrc]] :
            h \in {"none", "branch"}} : b \in Unborn}

-----------------------------------------------------------------------------
(* createForkTenant.                                                       *)

(* The source must have no upload in progress; the row starts with the     *)
(* source's connection and no branch.                                      *)
CreateForkInsert(f) ==
    /\ tup /\ tcreate = None
    /\ trow[f] = None
    /\ ~tsrc.uploading
    /\ trow' = [trow EXCEPT ![f] = [status |-> "provisioning", branch |-> None, host |-> "source"]]
    /\ tcreate' = [fork |-> f, at |-> "inserted"]
    /\ UNCHANGED <<tdb, filesVars, tup, twork, tgc, tcrashes>>

CreateForkBranch ==
    /\ tcreate # None
    /\ tcreate.at = "inserted"
    /\ LET f == tcreate.fork IN
       \/ \E r \in CreateBranchOk(f) :
             /\ trow' = [trow EXCEPT ![f] = r.row]
             /\ tdb' = r.db
             /\ tcreate' = [fork |-> f, at |-> "connected"]
       \/ \E r \in CreateBranchFails(f) :
             /\ MarkForkFailed(f, r.row)
             /\ tdb' = r.db
             /\ tcreate' = None
    /\ UNCHANGED <<filesVars, tup, twork, tgc, tcrashes>>

(* The API key of the fork; then a worker provisions it.                   *)
CreateForkKey ==
    /\ tcreate # None
    /\ tcreate.at = "connected"
    /\ LET f == tcreate.fork IN
       \/ StartForkProvision(f) /\ UNCHANGED trow
       \/ MarkForkFailed(f, trow[f]) /\ StartForkCleanup(f)
    /\ tcreate' = None
    /\ UNCHANGED <<tdb, filesVars, tup, tgc, tcrashes>>

-----------------------------------------------------------------------------
(* provisionForkTenantAsync and provisionForkTenantOnce.                   *)

(* markForkFailedAndCleanup                                                *)
MarkForkFailedAndCleanup(f) == MarkForkFailed(f, trow[f]) /\ StartForkCleanup(f)

(* The row and the source are read: a fork that is settled needs nothing,  *)
(* one that failed is fatal, a source with uploads is tried again.         *)
ProvisionCheck(f) ==
    /\ Working(f, "provision", "start")
    /\ \/ /\ Status(f) \in {"active", "deleting", "deleted"}
          /\ SetWork(f, None)
          /\ UNCHANGED trow
       \/ /\ Status(f) = "failed"
          /\ MarkForkFailedAndCleanup(f)
       \/ /\ Status(f) = "provisioning"
          /\ ~tsrc.uploading
          /\ SetWork(f, [kind |-> "provision", at |-> "checked", row |-> trow[f]])
          /\ UNCHANGED trow
    /\ UNCHANGED <<tdb, filesVars, tup, tcreate, tgc, tcrashes>>

Connected(f, row) ==
    SetWork(f, [kind |-> "provision", at |-> "connected", row |-> row])

RetryProvision(f) == StartForkProvision(f)

(* ensureForkBranchConnection: with a branch and an endpoint in the row,   *)
(* those; with a branch only, it waits for the endpoint and records it;    *)
(* otherwise it makes the branch.                                          *)
EnsureForkBranchConnection(f) ==
    /\ Working(f, "provision", "checked")
    /\ LET row == twork[f].row IN
       \/ /\ row.branch # None /\ row.host # "none"
          /\ Connected(f, row)
          /\ UNCHANGED <<trow, tdb>>
       \/ /\ row.branch # None /\ row.host = "none"
          /\ trow' = [trow EXCEPT ![f] = [trow[f] EXCEPT !.branch = row.branch, !.host = "branch"]]
          /\ Connected(f, [row EXCEPT !.host = "branch"])
          /\ UNCHANGED tdb
       \/ /\ row.branch = None
          /\ \/ \E r \in CreateBranchOk(f) :
                   /\ trow' = [trow EXCEPT ![f] = r.row]
                   /\ tdb' = r.db
                   /\ IF r.row.host = "none" THEN RetryProvision(f) ELSE Connected(f, r.row)
             \/ \E r \in CreateBranchFails(f) :
                   /\ trow' = [trow EXCEPT ![f] = r.row]
                   /\ tdb' = r.db
                   /\ RetryProvision(f)
    /\ UNCHANGED <<filesVars, tup, tcreate, tgc, tcrashes>>

(* SanitizeForkRuntimeState: uploads and tasks of the snapshot are the     *)
(* source's business and leave the fork.                                   *)
Sanitized(db) == [db EXCEPT !.tasks = {}, !.uploading = FALSE]

(* HasActiveUploads on the snapshot.                                       *)
HasActiveUploads(db) == db.uploading

(* InitSchema, HasActiveUploads, SanitizeForkRuntimeState and the quota of *)
(* the fork.  The source's database refuses the fork's password; an upload *)
(* in the snapshot is fatal.                                               *)
ProvisionPrepare(f) ==
    /\ Working(f, "provision", "connected")
    /\ twork[f].row.host = "branch"
    /\ LET b == twork[f].row.branch IN
       /\ tdb[b].st = "live"
       /\ IF HasActiveUploads(tdb[b])
          THEN /\ MarkForkFailedAndCleanup(f)
               /\ UNCHANGED tdb
          ELSE /\ tdb' = [tdb EXCEPT ![b] = Sanitized(tdb[b])]
               /\ SetWork(f, [kind |-> "provision", at |-> "prepared"])
               /\ UNCHANGED trow
    /\ UNCHANGED <<filesVars, tup, tcreate, tgc, tcrashes>>

(* The last statement of provisionForkTenantOnce.                          *)
ProvisionActivate(f) ==
    /\ Working(f, "provision", "prepared")
    /\ trow' = [trow EXCEPT ![f].status = "active"]
    /\ SetWork(f, None)
    /\ UNCHANGED <<tdb, filesVars, tup, tcreate, tgc, tcrashes>>

(* An attempt fails: it is repeated, and after the retry window the fork   *)
(* is marked failed and cleaned up.                                        *)
ProvisionError(f) ==
    /\ twork[f] # None
    /\ twork[f].kind = "provision"
    /\ \/ twork[f].at # "start" /\ RetryProvision(f) /\ UNCHANGED trow
       \/ MarkForkFailedAndCleanup(f)
    /\ UNCHANGED <<tdb, filesVars, tup, tcreate, tgc, tcrashes>>

-----------------------------------------------------------------------------
(* handleForkDelete and cleanupForkTenant.                                 *)

(* The request is authenticated with the fork's key, so it is active.      *)
DeleteFork(f) ==
    /\ tup
    /\ Status(f) = "active"
    /\ trow' = [trow EXCEPT ![f].status = "deleting"]
    /\ StartForkCleanup(f)
    /\ UNCHANGED <<tdb, filesVars, tup, tcreate, tgc, tcrashes>>

CleaningUp(f, at, row) == SetWork(f, [kind |-> "cleanup", at |-> at, row |-> row])

(* The row is read and the pool drained; without a branch, or when the     *)
(* drain times out, the cleanup ends here.                                 *)
CleanupDrain(f) ==
    /\ Working(f, "cleanup", "start")
    /\ \/ /\ trow[f].branch # None
          /\ CleaningUp(f, IF Status(f) = "deleting" THEN "drained" ELSE "enqueued", trow[f])
       \/ SetWork(f, None)
    /\ UNCHANGED <<trow, tdb, filesVars, tup, tcreate, tgc, tcrashes>>

(* EnqueueObjectGCCandidate: a candidate already deleted stays so.         *)
Enqueue(objs) ==
    [o \in Objects |-> IF o \in objs /\ tcand[o] # "deleted" THEN "pending" ELSE tcand[o]]

(* enqueueForkConfirmedRefs and enqueueForkFileGCTaskRefs                  *)
ForkRefs(db) == db.refs \cup db.tasks

(* All of them, or some when a statement fails and the cleanup ends.  The  *)
(* database of a branch that is gone cannot be opened (openTenantStore).   *)
CleanupEnqueue(f) ==
    /\ Working(f, "cleanup", "drained")
    /\ LET b == twork[f].row.branch IN
       /\ \/ /\ tdb[b].st = "live"
             /\ tcand' = Enqueue(ForkRefs(tdb[b]))
             /\ CleaningUp(f, "enqueued", twork[f].row)
          \/ /\ \E objs \in SUBSET ForkRefs(tdb[b]) : tcand' = Enqueue(objs)
             /\ SetWork(f, None)
    /\ UNCHANGED <<trow, tdb, tsrc, tobj, tlate, tup, tcreate, tgc, tcrashes>>

\* Mutant: the branch goes though the objects were not handed over.
DeleteBranchAnyway(f) ==
    /\ Working(f, "cleanup", "enqueued")
    /\ tdb' \in {tdb, DeleteBranch(twork[f].row.branch)}
    /\ CleaningUp(f, "deleted", twork[f].row)
    /\ UNCHANGED <<trow, filesVars, tup, tcreate, tgc, tcrashes>>

(* The branch goes, after SanitizeForkRuntimeState when the fork was       *)
(* active once; an error ends the cleanup.                                 *)
CleanupDeleteBranch(f) ==
    /\ Working(f, "cleanup", "enqueued")
    /\ LET b == twork[f].row.branch IN
       \/ /\ tdb' = DeleteBranch(b)
          /\ CleaningUp(f, "deleted", twork[f].row)
       \/ /\ tdb' = IF twork[f].row.status = "deleting" THEN [tdb EXCEPT ![b] = Sanitized(tdb[b])] ELSE tdb
          /\ SetWork(f, None)
    /\ UNCHANGED <<trow, filesVars, tup, tcreate, tgc, tcrashes>>

\* Mutant: the last statement puts the fork back to failed.
CleanupMarkFailed(f) ==
    /\ Working(f, "cleanup", "deleted")
    /\ MarkForkFailed(f, trow[f])
    /\ SetWork(f, None)
    /\ UNCHANGED <<tdb, filesVars, tup, tcreate, tgc, tcrashes>>

(* The last statement: an error leaves the fork as it was.               *)
CleanupMark(f) ==
    /\ Working(f, "cleanup", "deleted")
    /\ UpdateTenantStatus(f, trow[f], "deleted")
    /\ SetWork(f, None)
    /\ UNCHANGED <<tdb, filesVars, tup, tcreate, tgc, tcrashes>>

-----------------------------------------------------------------------------
(* Crash and restart.                                                      *)

ServerCrash ==
    /\ tup
    /\ tcrashes < ForkMaxCrashes
    /\ tup' = FALSE
    /\ tcreate' = None
    /\ twork' = [f \in Forks |-> None]
    /\ tgc' = None
    /\ tcrashes' = tcrashes + 1
    /\ UNCHANGED <<trow, tdb, filesVars>>

(* resumeProvisioningTenants and resumeDeletingForkTenants                 *)
ServerStart ==
    /\ ~tup
    /\ tup' = TRUE
    /\ twork' = [f \in Forks |->
          CASE Status(f) = "provisioning" -> [kind |-> "provision", at |-> "start"]
            [] Status(f) \in {"deleting", "failed"} -> [kind |-> "cleanup", at |-> "start"]
            [] OTHER -> None]
    /\ UNCHANGED <<trow, tdb, filesVars, tcreate, tgc, tcrashes>>

-----------------------------------------------------------------------------
(* Files.  They belong to the source or to an active fork.                 *)

ForkDb(f) == tdb[trow[f].branch]

SetDb(f, db) == tdb' = [tdb EXCEPT ![trow[f].branch] = db]

Stores(o) == tobj[o] = "unborn" /\ tobj' = [tobj EXCEPT ![o] = "stored"]

(* A file is written: its content is a new object.                         *)
SourceWrites(o) ==
    /\ Stores(o)
    /\ tsrc' = [tsrc EXCEPT !.refs = @ \cup {o}]
    /\ UNCHANGED <<trow, tdb, tcand, tlate, tup, tcreate, twork, tgc, tcrashes>>

(* A request admitted while the fork was active can still store a file     *)
(* after the drain: it resolved the tenant before and took a backend from  *)
(* the pool after it, or it held one the pool had already evicted.         *)
ForkWrites(f, o) ==
    /\ Status(f) \in {"active", "deleting"}
    /\ ForkDb(f).st = "live"
    /\ Stores(o)
    /\ SetDb(f, [ForkDb(f) EXCEPT !.refs = ForkDb(f).refs \cup {o}])
    /\ tlate' = IF Status(f) = "deleting" THEN tlate \cup {o} ELSE tlate
    /\ UNCHANGED <<trow, tsrc, tcand, tup, tcreate, twork, tgc, tcrashes>>

(* A file is deleted: a file GC task takes over its object.                *)
WithoutFile(db, o) == [db EXCEPT !.refs = db.refs \ {o}, !.tasks = db.tasks \cup {o}]

SourceDeletes(o) ==
    /\ o \in tsrc.refs
    /\ tsrc' = WithoutFile(tsrc, o)
    /\ UNCHANGED <<trow, tdb, tobj, tcand, tlate, tup, tcreate, twork, tgc, tcrashes>>

ForkDeletes(f, o) ==
    /\ Status(f) = "active"
    /\ o \in ForkDb(f).refs
    /\ SetDb(f, WithoutFile(ForkDb(f), o))
    /\ UNCHANGED <<trow, filesVars, tup, tcreate, twork, tgc, tcrashes>>

(* The file GC worker hands the object of a task to the object GC.         *)
SourceFileGC(o) ==
    /\ o \in tsrc.tasks
    /\ tcand' = Enqueue({o})
    /\ tsrc' = [tsrc EXCEPT !.tasks = @ \ {o}]
    /\ UNCHANGED <<trow, tdb, tobj, tlate, tup, tcreate, twork, tgc, tcrashes>>

ForkFileGC(f, o) ==
    /\ Status(f) = "active"
    /\ o \in ForkDb(f).tasks
    /\ tcand' = Enqueue({o})
    /\ SetDb(f, [ForkDb(f) EXCEPT !.tasks = ForkDb(f).tasks \ {o}])
    /\ UNCHANGED <<trow, tsrc, tobj, tlate, tup, tcreate, twork, tgc, tcrashes>>

(* An upload of the source begins, or ends without a file.                 *)
SourceUploads ==
    /\ tsrc' = [tsrc EXCEPT !.uploading = ~@]
    /\ UNCHANGED <<trow, tdb, tobj, tcand, tlate, tup, tcreate, twork, tgc, tcrashes>>

-----------------------------------------------------------------------------
(* The object GC worker: processCandidate.  A postponed candidate stays    *)
(* pending.                                                                *)

NamespaceHasNonDeletedFork == \E f \in Forks : Status(f) \notin {"none", "deleted"}

GCCheckForks(o) ==
    /\ tup /\ tgc = None
    /\ tcand[o] = "pending"
    /\ ~NamespaceHasNonDeletedFork
    /\ tgc' = [obj |-> o, at |-> "unforked"]
    /\ UNCHANGED <<trow, tdb, filesVars, tup, tcreate, twork, tcrashes>>

(* HasConfirmedS3StorageRef in the owner's database.                       *)
Reachable(o) == o \in tsrc.refs

GCCheckReachable ==
    /\ tgc # None
    /\ tgc.at = "unforked"
    /\ tgc' = IF Reachable(tgc.obj) THEN None ELSE [tgc EXCEPT !.at = "unreachable"]
    /\ UNCHANGED <<trow, tdb, filesVars, tup, tcreate, twork, tcrashes>>

(* The object is deleted, then the candidate is marked; if that fails it   *)
(* is tried again.                                                         *)
GCDelete ==
    /\ tgc # None
    /\ tgc.at = "unreachable"
    /\ tobj' = [tobj EXCEPT ![tgc.obj] = "gone"]
    /\ tcand' \in {tcand, [tcand EXCEPT ![tgc.obj] = "deleted"]}
    /\ tgc' = None
    /\ UNCHANGED <<trow, tdb, tsrc, tlate, tup, tcreate, twork, tcrashes>>

-----------------------------------------------------------------------------
ForkNext ==
    \/ \E f \in Forks :
          \/ CreateForkInsert(f)
          \/ ProvisionCheck(f)
          \/ EnsureForkBranchConnection(f)
          \/ ProvisionPrepare(f)
          \/ ProvisionActivate(f)
          \/ ProvisionError(f)
          \/ DeleteFork(f)
          \/ CleanupDrain(f)
          \/ CleanupEnqueue(f)
          \/ CleanupDeleteBranch(f)
          \/ CleanupMark(f)
          \/ \E o \in Objects : ForkWrites(f, o) \/ ForkDeletes(f, o) \/ ForkFileGC(f, o)
    \/ CreateForkBranch
    \/ CreateForkKey
    \/ ServerCrash
    \/ ServerStart
    \/ \E o \in Objects :
          SourceWrites(o) \/ SourceDeletes(o) \/ SourceFileGC(o) \/ GCCheckForks(o)
    \/ SourceUploads
    \/ GCCheckReachable
    \/ GCDelete

ForkSpec == ForkInit /\ [][ForkNext]_forkVars

-----------------------------------------------------------------------------
(* Properties.                                                             *)

(* Every variable has its type.                                            *)
Database == [st : {"unborn", "live", "gone"}, refs : SUBSET Objects, tasks : SUBSET Objects,
             uploading : BOOLEAN]

ForkTypeOK ==
    /\ trow \in [Forks -> ForkRow \cup {None}]
    /\ tdb \in [Branches -> Database]
    /\ tsrc \in Database
    /\ tobj \in [Objects -> {"unborn", "stored", "gone"}]
    /\ tcand \in [Objects -> {"none", "pending", "deleted"}]
    /\ tlate \subseteq Objects
    /\ tup \in BOOLEAN
    /\ tcreate \in [fork : Forks, at : {"inserted", "connected"}] \cup {None}
    /\ twork \in [Forks -> ForkWorker \cup {None}]
    /\ tgc \in [obj : Objects, at : {"unforked", "unreachable"}] \cup {None}
    /\ tcrashes \in 0..ForkMaxCrashes

(* An object a confirmed file of the namespace's owner refers to is never  *)
(* deleted: the reachability check of processCandidate.                    *)
OwnerKeepsObjects == \A o \in tsrc.refs : tobj[o] = "stored"

(* A fork that is active has its own, existing branch and its connection;  *)
(* one that is deleted has left no branch its row knows of, whatever step  *)
(* of creation or cleanup failed and was resumed.                          *)
RowMatchesCloud ==
    \A f \in Forks :
        /\ Status(f) = "active" =>
              trow[f].branch # None /\ trow[f].host = "branch" /\ ForkDb(f).st = "live"
        /\ Status(f) = "deleted" => ForkDb(f).st = "gone"

(* A fork that becomes active has neither an upload nor a GC task of the   *)
(* source in it: its workers would finish or delete what is the source's.  *)
ActivatesClean ==
    \A f \in Forks :
        Status(f) # "active" /\ Status(f)' = "active" =>
            tdb'[trow'[f].branch].tasks = {} /\ ~tdb'[trow'[f].branch].uploading

(* Deletion of a fork is final: from deleting it only goes to deleted, and *)
(* stays there, also when provisioning and cleanup are resumed.            *)
KeepsDeletion ==
    \A f \in Forks :
        /\ Status(f) = "deleting" => Status(f)' \in {"deleting", "deleted"}
        /\ Status(f) = "deleted" => Status(f)' = "deleted"

(* What no step of provisioning or cleanup does to a fork: activate it     *)
(* with the source's work in it, or bring it back from deletion.           *)
ForkSteps == [][ActivatesClean /\ KeepsDeletion]_forkVars

(* No object is orphaned by the deletion of a fork: every object in S3 is  *)
(* referred to by a database that exists or is a pending GC candidate,     *)
(* except one a late request stored after the fork was marked deleting.    *)
Referring(o) ==
    \/ o \in tsrc.refs \cup tsrc.tasks
    \/ \E b \in Branches : o \in tdb[b].refs \cup tdb[b].tasks

NoObjectOrphaned ==
    \A o \in Objects \ tlate : tobj[o] = "stored" => Referring(o) \/ tcand[o] = "pending"

(* The rows of forks agree with what exists: branches with their rows,     *)
(* objects with the files that refer to them, and nothing is left over.    *)
ForksConsistent == RowMatchesCloud /\ OwnerKeepsObjects /\ NoObjectOrphaned
=============================================================================
