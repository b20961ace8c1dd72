----------------------------- MODULE ForkProofs -----------------------------
(***************************************************************************)
(* Proofs about forks, for any number of forks, branches, objects and      *)
(* crashes: rows agree with branches, no object of the owner is deleted,   *)
(* none is orphaned, and no step activates a fork with the source's work   *)
(* in it or brings a deleted one back.                                     *)
(*                                                                         *)
(* The argument: a branch belongs to one row, and the worker of a fork     *)
(* holds the row as it is, since only one works for a fork at a time.  An  *)
(* object of the source that is in a snapshot is kept for ever by the      *)
(* source, by its candidate or by its deletion; a fork that was never      *)
(* active has only such objects, and a cleanup hands over the others       *)
(* before it deletes the branch.                                           *)
(***************************************************************************)
EXTENDS TenantForks, TLAPS

(* An object that a fork may forget: the source, its candidate or nothing  *)
(* at all is left to forget it, or a late request stored it.               *)
Kept(o) ==
    \/ o \in tsrc.refs \cup tsrc.tasks
    \/ tcand[o] = "pending"
    \/ tobj[o] = "gone"
    \/ o \in tlate

AllKept(b) == \A o \in ForkRefs(tdb[b]) : Kept(o)

(* A row and the branch it names.                                          *)
RowHolds(f) ==
    trow[f] # None =>
        /\ trow[f].branch # None => tdb[trow[f].branch].st # "unborn"
        /\ trow[f].status \in {"active", "deleting", "deleted"} => trow[f].branch # None
        /\ trow[f].status = "active" => trow[f].host = "branch" /\ ForkDb(f).st = "live"
        /\ trow[f].status = "deleted" => ForkDb(f).st = "gone"
        /\ trow[f].status \in {"provisioning", "failed"} /\ trow[f].branch # None => AllKept(trow[f].branch)

(* A worker of a fork, the row it read and what it has done so far.        *)
ProvisionHolds(f) ==
    /\ trow[f].status = "provisioning"
    /\ twork[f].at \in {"start", "checked", "connected", "prepared"}
    /\ twork[f].at \in {"checked", "connected"} => twork[f].row = trow[f]
    /\ twork[f].at = "connected" => trow[f].branch # None
    /\ twork[f].at = "prepared" =>
          /\ trow[f].branch # None /\ trow[f].host = "branch" /\ ForkDb(f).st = "live"
          /\ ForkDb(f).tasks = {} /\ ~ForkDb(f).uploading

CleanupHolds(f) ==
    /\ trow[f].status \in {"provisioning", "failed", "deleting"}
    /\ twork[f].at \in {"start", "drained", "enqueued", "deleted"}
    /\ twork[f].at # "start" => twork[f].row = trow[f] /\ trow[f].branch # None
    /\ twork[f].at \in {"enqueued", "deleted"} => AllKept(trow[f].branch)
    /\ twork[f].at = "deleted" => ForkDb(f).st = "gone"

WorkHolds(f) ==
    twork[f] # None =>
        /\ trow[f] # None /\ tup
        /\ twork[f].kind = "provision" => ProvisionHolds(f)
        /\ twork[f].kind = "cleanup" => CleanupHolds(f)

(* A request that creates a fork is the only one to work for it.           *)
CreateHolds ==
    tcreate # None =>
        /\ tup /\ twork[tcreate.fork] = None
        /\ trow[tcreate.fork] # None /\ trow[tcreate.fork].status = "provisioning"
        /\ tcreate.at = "inserted" => trow[tcreate.fork].branch = None

(* No two rows name the same branch.                                       *)
BranchesApart ==
    \A f, g \in Forks :
        f # g /\ trow[f] # None /\ trow[g] # None /\ trow[f].branch # None => trow[f].branch # trow[g].branch

(* What is referred to, or is a candidate, was stored once.                *)
Born ==
    /\ \A o \in tsrc.refs \cup tsrc.tasks : tobj[o] # "unborn"
    /\ \A b \in Branches : \A o \in ForkRefs(tdb[b]) : tobj[o] # "unborn"
    /\ \A o \in Objects : tcand[o] # "none" => tobj[o] # "unborn"

(* A branch the provider has not made refers to nothing.                   *)
UnbornEmpty == \A b \in Branches : tdb[b].st = "unborn" => ForkRefs(tdb[b]) = {}

(* A candidate that is done is gone from S3.                               *)
DoneIsGone == \A o \in Objects : tcand[o] = "deleted" => tobj[o] = "gone"

(* The object GC worker is at an object that was stored; once it found     *)
(* that the owner does not refer to it, the owner never will.              *)
GCHolds ==
    tgc # None =>
        /\ tobj[tgc.obj] # "unborn"
        /\ tgc.at = "unreachable" => tgc.obj \notin tsrc.refs

ForkInv ==
    /\ ForkTypeOK
    /\ tsrc.st = "live"
    /\ \A f \in Forks : RowHolds(f) /\ WorkHolds(f)
    /\ CreateHolds
    /\ BranchesApart
    /\ UnbornEmpty /\ Born /\ DoneIsGone /\ GCHolds
    /\ OwnerKeepsObjects /\ NoObjectOrphaned

-----------------------------------------------------------------------------
(* What the lemmas about steps have in common.                             *)

(* A step that works for one fork leaves the rows and workers of the       *)
(* others alone.                                                           *)
OnlyFork(f) ==
    /\ trow' \in [Forks -> ForkRow \cup {None}]
    /\ twork' \in [Forks -> ForkWorker \cup {None}]
    /\ \A g \in Forks \ {f} : trow'[g] = trow[g] /\ twork'[g] = twork[g]
    /\ tup' = tup

(* The branches of the other forks stay as they are.                       *)
OthersBranches(f) ==
    \A g \in Forks \ {f} : trow[g] # None /\ trow[g].branch # None =>
        tdb'[trow[g].branch] = tdb[trow[g].branch]

(* A row changes to a branch that no other row names.                      *)
OwnBranch(f) ==
    \A g \in Forks \ {f} :
        trow'[f] # None /\ trow'[f].branch # None /\ trow[g] # None => trow[g].branch # trow'[f].branch

KeptStays == \A o \in Objects : Kept(o) => Kept(o)'

(* A row whose branch does not change keeps what holds of it.              *)
LEMMA RowStays ==
    ASSUME ForkTypeOK, NEW g \in Forks, RowHolds(g), KeptStays, trow'[g] = trow[g],
           trow[g] # None /\ trow[g].branch # None => tdb'[trow[g].branch] = tdb[trow[g].branch]
    PROVE  /\ RowHolds(g)'
           /\ trow[g] # None /\ trow[g].branch # None /\ AllKept(trow[g].branch) => AllKept(trow[g].branch)'
<1>1. ASSUME trow[g] # None, trow[g].branch # None, AllKept(trow[g].branch)
      PROVE  AllKept(trow[g].branch)'
  <2>1. trow[g].branch \in Branches /\ tdb[trow[g].branch] \in Database
    BY <1>1, ZenonT(30) DEF ForkTypeOK, ForkRow
  <2> QED
    BY <1>1, <2>1, ZenonT(30) DEF AllKept, ForkRefs, Database, KeptStays
<1>2. RowHolds(g)'
  BY <1>1, ZenonT(30) DEF RowHolds, ForkDb
<1> QED
  BY <1>1, <1>2, ZenonT(30)

(* A fork whose row, worker and branch do not change keeps what holds of   *)
(* them.                                                                   *)
LEMMA ForkStays ==
    ASSUME ForkTypeOK, NEW g \in Forks, RowHolds(g), WorkHolds(g), KeptStays,
           trow'[g] = trow[g], twork'[g] = twork[g], twork[g] # None => tup',
           trow[g] # None /\ trow[g].branch # None => tdb'[trow[g].branch] = tdb[trow[g].branch]
    PROVE  RowHolds(g)' /\ WorkHolds(g)'
<1>1. /\ RowHolds(g)'
      /\ trow[g] # None /\ trow[g].branch # None /\ AllKept(trow[g].branch) => AllKept(trow[g].branch)'
  BY RowStays, ZenonT(30)
<1>2. CASE twork[g] = None
  BY <1>1, <1>2, ZenonT(30) DEF WorkHolds
<1>3. CASE twork[g] # None
  <2>1. trow'[g] # None /\ tup'
    BY <1>3, ZenonT(30) DEF WorkHolds
  <2>2. ASSUME twork'[g].kind = "provision" PROVE ProvisionHolds(g)'
    BY <1>3, <2>1, <2>2, ZenonT(30) DEF WorkHolds, ProvisionHolds, ForkDb
  <2>3. ASSUME twork'[g].kind = "cleanup" PROVE CleanupHolds(g)'
    BY <1>1, <1>3, <2>1, <2>3, ZenonT(30) DEF WorkHolds, CleanupHolds, ForkDb
  <2> QED
    BY <1>1, <2>1, <2>2, <2>3, ZenonT(30) DEF WorkHolds
<1> QED
  BY <1>2, <1>3, ZenonT(30)

(* What one fork's step shows for all rows and workers.                    *)
LEMMA OneFork ==
    ASSUME ForkInv, NEW f \in Forks, OnlyFork(f), OthersBranches(f), OwnBranch(f), KeptStays,
           RowHolds(f)', WorkHolds(f)'
    PROVE  /\ \A g \in Forks : RowHolds(g)' /\ WorkHolds(g)'
           /\ BranchesApart'
<1>1. ASSUME NEW g \in Forks, g # f PROVE RowHolds(g)' /\ WorkHolds(g)'
  <2>1. ForkTypeOK /\ RowHolds(g) /\ WorkHolds(g)
    BY ZenonT(30) DEF ForkInv
  <2>2. twork[g] # None => tup'
    BY <2>1, ZenonT(30) DEF WorkHolds, OnlyFork
  <2> QED
    BY <1>1, <2>1, <2>2, ForkStays, ZenonT(30) DEF OnlyFork, OthersBranches
<1>2. BranchesApart'
  <2> SUFFICES ASSUME NEW g \in Forks, NEW h \in Forks, g # h, trow'[g] # None, trow'[h] # None,
                      trow'[g].branch # None
               PROVE  trow'[g].branch # trow'[h].branch
    BY ZenonT(30) DEF BranchesApart
  <2>1. CASE g = f
    BY <2>1, ZenonT(30) DEF OnlyFork, OwnBranch
  <2>2. CASE h = f
    BY <2>2, ZenonT(30) DEF OnlyFork, OwnBranch
  <2>3. CASE g # f /\ h # f
    BY <2>3 DEF OnlyFork, ForkInv, BranchesApart
  <2> QED
    BY <2>1, <2>2, <2>3, ZenonT(30)
<1> QED
  BY <1>1, <1>2, ZenonT(30)

(* A step for a fork that no request is creating leaves the creation in    *)
(* progress alone.                                                         *)
LEMMA CreateStays ==
    ASSUME ForkInv, NEW f \in Forks, OnlyFork(f), tcreate' = tcreate,
           twork[f] # None \/ trow[f] = None \/ trow[f].status # "provisioning"
    PROVE  CreateHolds'
<1>1. tcreate # None => tcreate.fork \in Forks /\ tcreate.fork # f
  BY ZenonT(30) DEF ForkInv, ForkTypeOK, CreateHolds
<1> QED
  BY <1>1, ZenonT(30) DEF ForkInv, OnlyFork, CreateHolds

(* Files that do not change are kept as before.                            *)
LEMMA FilesStay ==
    ASSUME UNCHANGED filesVars
    PROVE  /\ KeptStays
           /\ tsrc' = tsrc /\ tobj' = tobj /\ tcand' = tcand /\ tlate' = tlate
           /\ \A b : tdb'[b] = tdb[b] => (AllKept(b)' <=> AllKept(b))
BY ZenonT(30) DEF filesVars, KeptStays, Kept, AllKept

-----------------------------------------------------------------------------
(* Steps that change a row or a worker and no branch and no file.          *)

LEMMA RowStep ==
    ASSUME ForkInv, NEW f \in Forks, OnlyFork(f), tdb' = tdb, UNCHANGED <<filesVars, tgc, tcrashes>>,
           tcreate' \in [fork : Forks, at : {"inserted", "connected"}] \cup {None}, CreateHolds',
           trow'[f] # None =>
               trow'[f].branch = None \/ (trow[f] # None /\ trow'[f].branch = trow[f].branch),
           RowHolds(f)', WorkHolds(f)'
    PROVE  ForkInv'
<1>1. /\ KeptStays
      /\ tsrc' = tsrc /\ tobj' = tobj /\ tcand' = tcand /\ tlate' = tlate
  BY FilesStay, ZenonT(30)
<1>2. OthersBranches(f)
  BY ZenonT(30) DEF OthersBranches
<1>3. OwnBranch(f)
  BY ZenonT(30) DEF OwnBranch, ForkInv, BranchesApart
<1>4. /\ \A g \in Forks : RowHolds(g)' /\ WorkHolds(g)'
      /\ BranchesApart'
  BY <1>1, <1>2, <1>3, OneFork, ZenonT(30)
<1>5. ForkTypeOK'
  BY <1>1, ZenonT(30) DEF ForkInv, ForkTypeOK, OnlyFork
<1>6. UnbornEmpty' /\ Born' /\ DoneIsGone' /\ GCHolds' /\ OwnerKeepsObjects' /\ NoObjectOrphaned'
  BY <1>1, ZenonT(30) DEF ForkInv, UnbornEmpty, Born, DoneIsGone, GCHolds, OwnerKeepsObjects, NoObjectOrphaned, Referring
<1> QED
  BY <1>1, <1>4, <1>5, <1>6, ZenonT(30) DEF ForkInv

(* A row of the table.                                                     *)
LEMMA RowType ==
    ASSUME ForkTypeOK, NEW f \in Forks, trow[f] # None
    PROVE  /\ trow[f] \in ForkRow
           /\ trow[f].branch \in Branches \cup {None}
           /\ trow[f].branch # None => trow[f].branch \in Branches /\ tdb[trow[f].branch] \in Database
BY ZenonT(30) DEF ForkTypeOK, ForkRow

(* UpdateTenantStatus changes the status of a row, or nothing of it.       *)
LEMMA StatusUpdate ==
    ASSUME ForkTypeOK, NEW f \in Forks, NEW row \in ForkRow, NEW s \in {"active", "failed", "deleting", "deleted"},
           UpdateTenantStatus(f, row, s)
    PROVE  /\ trow'[f] \in ForkRow /\ trow'[f] # None
           /\ trow'[f].branch = row.branch /\ trow'[f].host = row.host
           /\ trow'[f].status = s \/ trow'[f].status = row.status
           /\ trow' \in [Forks -> ForkRow \cup {None}]
           /\ \A g \in Forks \ {f} : trow'[g] = trow[g]
<1>1. PICK r : r \in {[row EXCEPT !.status = s], row} /\ trow' = [trow EXCEPT ![f] = r]
  BY ZenonT(30) DEF UpdateTenantStatus
<1>2. /\ r \in ForkRow /\ r.branch = row.branch /\ r.host = row.host
      /\ r.status = s \/ r.status = row.status
  BY <1>1, ZenonT(30) DEF ForkRow
<1>3. trow'[f] = r /\ r # None
  BY <1>1, <1>2, ForkAssumption, ZenonT(30) DEF ForkTypeOK
<1> QED
  BY <1>1, <1>2, <1>3, ZenonT(30) DEF ForkTypeOK

(* SetWork replaces the worker of one fork.                                *)
LEMMA WorkSet ==
    ASSUME ForkTypeOK, NEW f \in Forks, NEW w \in ForkWorker \cup {None}, SetWork(f, w)
    PROVE  /\ twork'[f] = w
           /\ twork' \in [Forks -> ForkWorker \cup {None}]
           /\ \A g \in Forks \ {f} : twork'[g] = twork[g]
BY ZenonT(30) DEF ForkTypeOK, SetWork

(* A worker that starts has read nothing yet.                              *)
LEMMA Starts ==
    ASSUME NEW kind \in {"provision", "cleanup"}
    PROVE  /\ [kind |-> kind, at |-> "start"] \in ForkWorker
           /\ [kind |-> kind, at |-> "start"] # None
BY ForkAssumption DEF ForkWorker

(* A worker with a row.                                                    *)
LEMMA Reads ==
    ASSUME NEW kind \in {"provision", "cleanup"}, NEW row \in ForkRow,
           NEW at \in {"checked", "connected", "drained", "enqueued", "deleted"}
    PROVE  /\ [kind |-> kind, at |-> at, row |-> row] \in ForkWorker
           /\ [kind |-> kind, at |-> at, row |-> row] # None
BY ForkAssumption DEF ForkWorker

(* CreateForkInsert makes a row without a branch.                          *)
LEMMA CreateForkInsertStep ==
    ASSUME ForkInv, NEW f \in Forks, CreateForkInsert(f)
    PROVE  ForkInv'
<1>0. PICK r : r = [status |-> "provisioning", branch |-> None, host |-> "source"]
  BY ZenonT(30)
<1>1. /\ r \in ForkRow /\ r # None /\ r.branch = None /\ r.status = "provisioning"
      /\ trow' = [trow EXCEPT ![f] = r] /\ twork' = twork /\ tup' = tup /\ tup /\ trow[f] = None
      /\ tcreate' = [fork |-> f, at |-> "inserted"]
      /\ tdb' = tdb /\ UNCHANGED <<filesVars, tgc, tcrashes>>
  BY <1>0, ForkAssumption DEF CreateForkInsert, ForkRow
<1>2. twork[f] = None
  BY <1>1, ZenonT(30) DEF ForkInv, WorkHolds
<1>3. OnlyFork(f) /\ trow'[f] = r
  BY <1>1, ZenonT(30) DEF OnlyFork, ForkInv, ForkTypeOK
<1>4. RowHolds(f)' /\ WorkHolds(f)'
  BY <1>1, <1>2, <1>3, ZenonT(30) DEF RowHolds, WorkHolds
<1>5. tcreate' \in [fork : Forks, at : {"inserted", "connected"}] /\ CreateHolds'
  BY <1>1, <1>2, <1>3, ZenonT(30) DEF CreateHolds
<1> QED
  BY <1>1, <1>3, <1>4, <1>5, RowStep, ZenonT(30)

(* A fork that cannot go on is marked failed and cleaned up, if it was     *)
(* being provisioned.                                                      *)
LEMMA FailsStep ==
    ASSUME ForkInv, NEW f \in Forks, trow[f] # None, trow[f].status = "provisioning", tup,
           MarkForkFailedAndCleanup(f),
           CreateHolds', tcreate' \in [fork : Forks, at : {"inserted", "connected"}] \cup {None},
           UNCHANGED <<tdb, filesVars, tup, tgc, tcrashes>>
    PROVE  ForkInv'
<1>1. /\ trow'[f] # None /\ trow'[f].branch = trow[f].branch /\ trow'[f].status \in {"failed", "provisioning"}
      /\ trow' \in [Forks -> ForkRow \cup {None}]
      /\ \A g \in Forks \ {f} : trow'[g] = trow[g]
  BY RowType, StatusUpdate, ZenonT(30) DEF ForkInv, MarkForkFailedAndCleanup, MarkForkFailed
<1>2. /\ twork'[f] = [kind |-> "cleanup", at |-> "start"]
      /\ twork' \in [Forks -> ForkWorker \cup {None}]
      /\ \A g \in Forks \ {f} : twork'[g] = twork[g]
  BY Starts, WorkSet, ZenonT(30) DEF ForkInv, MarkForkFailedAndCleanup, StartForkCleanup
<1>3. OnlyFork(f)
  BY <1>1, <1>2, ZenonT(30) DEF OnlyFork
<1>4. RowHolds(f)'
  <2>1. RowHolds(f) /\ AllKept(trow[f].branch)' = AllKept(trow[f].branch)
    BY <1>1, FilesStay, ZenonT(30) DEF ForkInv, AllKept, Kept, filesVars
  <2> QED
    BY <1>1, <2>1, ZenonT(30) DEF RowHolds
<1>5. WorkHolds(f)'
  BY <1>1, <1>2 DEF WorkHolds, CleanupHolds
<1> QED
  BY <1>1, <1>3, <1>4, <1>5, RowStep, ZenonT(30)

(* A fork with a worker has a row, and the worker is of one kind.          *)
LEMMA WorkerFacts ==
    ASSUME ForkInv, NEW f \in Forks, twork[f] # None
    PROVE  /\ trow[f] # None /\ tup /\ Status(f) = trow[f].status
           /\ trow[f] \in ForkRow
           /\ trow[f].branch # None => trow[f].branch \in Branches /\ tdb[trow[f].branch] \in Database
           /\ tcreate' = tcreate /\ OnlyFork(f) => CreateHolds'
           /\ tcreate \in [fork : Forks, at : {"inserted", "connected"}] \cup {None}
           /\ RowHolds(f)
           /\ twork[f].kind = "provision" => ProvisionHolds(f)
           /\ twork[f].kind = "cleanup" => CleanupHolds(f)
<1>1. trow[f] # None /\ tup /\ Status(f) = trow[f].status /\ RowHolds(f)
  BY ZenonT(30) DEF ForkInv, WorkHolds, Status
<1>2. tcreate' = tcreate /\ OnlyFork(f) => CreateHolds'
  BY CreateStays, ZenonT(30)
<1>3. /\ trow[f] \in ForkRow
      /\ trow[f].branch # None => trow[f].branch \in Branches /\ tdb[trow[f].branch] \in Database
  BY <1>1, RowType, ZenonT(30) DEF ForkInv
<1>4. /\ tcreate \in [fork : Forks, at : {"inserted", "connected"}] \cup {None}
      /\ twork[f].kind = "provision" => ProvisionHolds(f)
      /\ twork[f].kind = "cleanup" => CleanupHolds(f)
  BY ZenonT(30) DEF ForkInv, ForkTypeOK, WorkHolds
<1> QED
  BY <1>1, <1>2, <1>3, <1>4, ZenonT(30)

(* A step of a worker that only notes how far it has come.                 *)
LEMMA WorkerStep ==
    ASSUME ForkInv, NEW f \in Forks, twork[f] # None, NEW w \in ForkWorker \cup {None}, SetWork(f, w),
           trow' = trow, UNCHANGED <<tdb, filesVars, tup, tcreate, tgc, tcrashes>>, WorkHolds(f)'
    PROVE  ForkInv'
<1>1. OnlyFork(f)
  BY WorkSet, ZenonT(30) DEF ForkInv, ForkTypeOK, OnlyFork
<1>2. RowHolds(f)'
  BY FilesStay, WorkerFacts, ZenonT(30) DEF RowHolds, AllKept, Kept, ForkDb, filesVars
<1> QED
  BY <1>1, <1>2, WorkerFacts, RowStep, ZenonT(30)

(* ProvisionCheck reads the row and the source.                            *)
LEMMA ProvisionCheckStep ==
    ASSUME ForkInv, NEW f \in Forks, ProvisionCheck(f)
    PROVE  ForkInv'
<1>1. twork[f] # None /\ twork[f].kind = "provision"
  BY ZenonT(30) DEF ProvisionCheck, Working
<1>2. /\ trow[f] # None /\ trow[f].status = "provisioning" /\ Status(f) = "provisioning" /\ tup
      /\ trow[f] \in ForkRow
  BY <1>1, WorkerFacts, ZenonT(30) DEF ProvisionHolds
<1>3. PICK w : w = [kind |-> "provision", at |-> "checked", row |-> trow[f]]
  BY ZenonT(30)
<1>4. SetWork(f, w) /\ trow' = trow /\ UNCHANGED <<tdb, filesVars, tup, tcreate, tgc, tcrashes>>
  BY <1>2, <1>3, ZenonT(30) DEF ProvisionCheck
<1>5. w \in ForkWorker /\ w # None /\ w.kind = "provision" /\ w.at = "checked" /\ w.row = trow[f]
  BY <1>2, <1>3, Reads, ZenonT(30)
<1>6. twork'[f] = w
  BY <1>4, <1>5, WorkSet, ZenonT(30) DEF ForkInv
<1>7. WorkHolds(f)'
  BY <1>2, <1>4, <1>5, <1>6, ZenonT(30) DEF WorkHolds, ProvisionHolds
<1> QED
  BY <1>1, <1>4, <1>5, <1>7, WorkerStep, ZenonT(30)

(* CreateForkKey starts the worker of the fork it created.                 *)
LEMMA CreateForkKeyStep ==
    ASSUME ForkInv, CreateForkKey
    PROVE  ForkInv'
<1>0. PICK f : f = tcreate.fork
  BY ZenonT(30)
<1>1. /\ f \in Forks /\ trow[f] # None /\ trow[f].status = "provisioning" /\ tup /\ twork[f] = None
      /\ tcreate' = None /\ UNCHANGED <<tdb, filesVars, tup, tgc, tcrashes>>
  BY <1>0, ZenonT(30) DEF CreateForkKey, ForkInv, ForkTypeOK, CreateHolds
<1>2. CreateHolds'
  BY <1>1, ZenonT(30) DEF CreateHolds
<1>3. CASE StartForkProvision(f) /\ trow' = trow
  <2>1. /\ twork'[f] = [kind |-> "provision", at |-> "start"] /\ twork'[f] # None
        /\ twork' \in [Forks -> ForkWorker \cup {None}]
        /\ \A g \in Forks \ {f} : twork'[g] = twork[g]
    BY <1>1, <1>3, Starts, WorkSet, ZenonT(30) DEF ForkInv, StartForkProvision
  <2>2. OnlyFork(f)
    BY <1>1, <1>3, <2>1, ZenonT(30) DEF OnlyFork, ForkInv, ForkTypeOK
  <2>3. RowHolds(f)'
    BY <1>1, <1>3, FilesStay, ZenonT(30) DEF ForkInv, RowHolds, AllKept, Kept, ForkDb, filesVars
  <2>4. WorkHolds(f)'
    BY <1>1, <1>3, <2>1 DEF WorkHolds, ProvisionHolds
  <2> QED
    BY <1>1, <1>2, <1>3, <2>2, <2>3, <2>4, RowStep, ZenonT(30)
<1>4. CASE MarkForkFailed(f, trow[f]) /\ StartForkCleanup(f)
  BY <1>1, <1>2, <1>4, FailsStep, ZenonT(30) DEF MarkForkFailedAndCleanup
<1> QED
  BY <1>0, <1>3, <1>4, ZenonT(30) DEF CreateForkKey

(* ProvisionActivate makes the fork active: its branch is live and clean.  *)
LEMMA ProvisionActivateStep ==
    ASSUME ForkInv, NEW f \in Forks, ProvisionActivate(f)
    PROVE  ForkInv'
<1>1. twork[f] # None /\ twork[f].kind = "provision" /\ twork[f].at = "prepared"
  BY ZenonT(30) DEF ProvisionActivate, Working
<1>2. ProvisionHolds(f) /\ trow[f] # None /\ trow[f] \in ForkRow
  BY <1>1, WorkerFacts, ZenonT(30)
<1>3. PICK r : r = [trow[f] EXCEPT !.status = "active"]
  BY ZenonT(30)
<1>4. r \in ForkRow /\ r # None /\ r.status = "active" /\ r.branch = trow[f].branch /\ r.host = trow[f].host
  BY <1>2, <1>3, ForkAssumption DEF ForkRow
<1>5. trow' = [trow EXCEPT ![f] = r]
  BY <1>3, ZenonT(30) DEF ProvisionActivate
<1>6. SetWork(f, None) /\ UNCHANGED <<tdb, filesVars, tup, tcreate, tgc, tcrashes>>
  BY ZenonT(30) DEF ProvisionActivate
<1>7. OnlyFork(f) /\ trow'[f] = r /\ twork'[f] = None
  BY <1>4, <1>5, <1>6, WorkSet DEF ForkInv, ForkTypeOK, OnlyFork
<1>8. RowHolds(f)'
  BY <1>1, <1>2, <1>4, <1>6, <1>7, ZenonT(30) DEF RowHolds, ProvisionHolds, ForkDb
<1>9. WorkHolds(f)'
  BY <1>7, ZenonT(30) DEF WorkHolds
<1> QED
  BY <1>1, <1>2, <1>4, <1>6, <1>7, <1>8, <1>9, WorkerFacts, RowStep, ZenonT(30)

(* ProvisionError starts an attempt again or gives up.                     *)
LEMMA ProvisionErrorStep ==
    ASSUME ForkInv, NEW f \in Forks, ProvisionError(f)
    PROVE  ForkInv'
<1>1. /\ twork[f] # None /\ twork[f].kind = "provision"
      /\ UNCHANGED <<tdb, filesVars, tup, tcreate, tgc, tcrashes>>
  BY ZenonT(30) DEF ProvisionError
<1>2. ProvisionHolds(f) /\ trow[f] # None /\ trow[f].status = "provisioning" /\ tup
  BY <1>1, WorkerFacts, ZenonT(30) DEF ProvisionHolds
<1>3. CASE RetryProvision(f) /\ trow' = trow
  <2>1. PICK w : w = [kind |-> "provision", at |-> "start"]
    BY ZenonT(30)
  <2>2. w \in ForkWorker /\ w # None /\ w.kind = "provision" /\ w.at = "start" /\ SetWork(f, w)
    BY <1>3, <2>1, Starts, ZenonT(30) DEF RetryProvision, StartForkProvision
  <2>3. twork'[f] = w
    BY <2>2, WorkSet, ZenonT(30) DEF ForkInv
  <2>4. WorkHolds(f)'
    BY <1>1, <1>2, <1>3, <2>2, <2>3, ZenonT(30) DEF WorkHolds, ProvisionHolds
  <2> QED
    BY <1>1, <1>3, <2>2, <2>4, WorkerStep, ZenonT(30)
<1>4. CASE MarkForkFailedAndCleanup(f)
  <2>1. OnlyFork(f)
    <3>1. /\ trow' \in [Forks -> ForkRow \cup {None}]
          /\ \A g \in Forks \ {f} : trow'[g] = trow[g]
      BY <1>1, <1>2, <1>4, WorkerFacts, StatusUpdate, ZenonT(30) DEF ForkInv, MarkForkFailedAndCleanup, MarkForkFailed
    <3>2. /\ twork' \in [Forks -> ForkWorker \cup {None}]
          /\ \A g \in Forks \ {f} : twork'[g] = twork[g]
      BY <1>4, Starts, WorkSet, ZenonT(30) DEF ForkInv, MarkForkFailedAndCleanup, StartForkCleanup
    <3> QED
      BY <1>1, <3>1, <3>2, ZenonT(30) DEF OnlyFork
  <2> QED
    BY <1>1, <1>2, <1>4, <2>1, WorkerFacts, FailsStep, ZenonT(30)
<1> QED
  BY <1>3, <1>4, ZenonT(30) DEF ProvisionError

(* DeleteFork marks an active fork deleting and starts its cleanup.        *)
LEMMA DeleteForkStep ==
    ASSUME ForkInv, NEW f \in Forks, DeleteFork(f)
    PROVE  ForkInv'
<1>1. /\ tup /\ UNCHANGED <<tdb, filesVars, tup, tcreate, tgc, tcrashes>>
      /\ trow[f] # None /\ trow[f].status = "active"
  BY ZenonT(30) DEF DeleteFork, Status
<1>2. trow[f] \in ForkRow /\ RowHolds(f)
  BY <1>1, RowType, ZenonT(30) DEF ForkInv
<1>3. PICK r : r = [trow[f] EXCEPT !.status = "deleting"]
  BY ZenonT(30)
<1>4. r \in ForkRow /\ r # None /\ r.status = "deleting" /\ r.branch = trow[f].branch
  BY <1>2, <1>3, ForkAssumption, ZenonT(30) DEF ForkRow
<1>5. trow' = [trow EXCEPT ![f] = r]
  BY <1>3, ZenonT(30) DEF DeleteFork
<1>6. /\ twork'[f] = [kind |-> "cleanup", at |-> "start"]
      /\ twork' \in [Forks -> ForkWorker \cup {None}]
      /\ \A g \in Forks \ {f} : twork'[g] = twork[g]
  BY Starts, WorkSet, ZenonT(30) DEF ForkInv, DeleteFork, StartForkCleanup
<1>7. OnlyFork(f) /\ trow'[f] = r
  BY <1>1, <1>4, <1>5, <1>6, ZenonT(30) DEF ForkInv, ForkTypeOK, OnlyFork
<1>8. RowHolds(f)'
  BY <1>1, <1>2, <1>4, <1>7, ZenonT(30) DEF RowHolds
<1>9. WorkHolds(f)'
  BY <1>1, <1>4, <1>6, <1>7 DEF WorkHolds, CleanupHolds
<1>10. CreateHolds' /\ tcreate' \in [fork : Forks, at : {"inserted", "connected"}] \cup {None}
  BY <1>1, <1>7, CreateStays, ZenonT(30) DEF ForkInv, ForkTypeOK
<1> QED
  BY <1>1, <1>4, <1>7, <1>8, <1>9, <1>10, RowStep, ZenonT(30)

(* CleanupDrain goes on with the row, or ends.                             *)
LEMMA CleanupDrainStep ==
    ASSUME ForkInv, NEW f \in Forks, CleanupDrain(f)
    PROVE  ForkInv'
<1>1. /\ twork[f] # None /\ twork[f].kind = "cleanup"
      /\ trow' = trow /\ UNCHANGED <<tdb, filesVars, tup, tcreate, tgc, tcrashes>>
  BY ZenonT(30) DEF CleanupDrain, Working
<1>2. CleanupHolds(f) /\ trow[f] # None /\ trow[f] \in ForkRow /\ Status(f) = trow[f].status /\ tup /\ RowHolds(f)
  BY <1>1, WorkerFacts, ZenonT(30)
<1>3. CASE SetWork(f, None)
  <2>1. WorkHolds(f)'
    BY <1>3, WorkSet, ZenonT(30) DEF ForkInv, WorkHolds
  <2> QED
    BY <1>1, <1>3, <2>1, WorkerStep, ZenonT(30)
<1>4. CASE trow[f].branch # None /\ CleaningUp(f, IF Status(f) = "deleting" THEN "drained" ELSE "enqueued", trow[f])
  <2>1. PICK at : at = IF Status(f) = "deleting" THEN "drained" ELSE "enqueued"
    BY ZenonT(30)
  <2>2. PICK w : w = [kind |-> "cleanup", at |-> at, row |-> trow[f]]
    BY ZenonT(30)
  <2>3. /\ w \in ForkWorker /\ w # None /\ w.kind = "cleanup" /\ w.at = at /\ w.row = trow[f]
        /\ SetWork(f, w)
    BY <1>2, <1>4, <2>1, <2>2, Reads, ZenonT(30) DEF CleaningUp
  <2>4. twork'[f] = w
    BY <2>3, WorkSet, ZenonT(30) DEF ForkInv
  <2>5. at = "enqueued" => AllKept(trow[f].branch)'
    <3>1. at = "enqueued" => AllKept(trow[f].branch)
      BY <1>2, <1>4, <2>1, ZenonT(30) DEF RowHolds, CleanupHolds
    <3> QED
      BY <1>1, <3>1, ZenonT(30) DEF AllKept, Kept, filesVars
  <2>6. at \in {"drained", "enqueued"}
    BY <2>1, ZenonT(30)
  <2>7. CleanupHolds(f)'
    BY <1>1, <1>2, <1>4, <2>3, <2>4, <2>5, <2>6, ZenonT(30) DEF CleanupHolds
  <2>8. WorkHolds(f)'
    BY <1>1, <1>2, <2>3, <2>4, <2>7, ZenonT(30) DEF WorkHolds
  <2> QED
    BY <1>1, <2>3, <2>8, WorkerStep, ZenonT(30)
<1> QED
  BY <1>3, <1>4, ZenonT(30) DEF CleanupDrain

(* CleanupMark marks a fork deleted whose branch is gone.                  *)
LEMMA CleanupMarkStep ==
    ASSUME ForkInv, NEW f \in Forks, CleanupMark(f)
    PROVE  ForkInv'
<1>1. /\ twork[f] # None /\ twork[f].kind = "cleanup" /\ twork[f].at = "deleted"
      /\ UNCHANGED <<tdb, filesVars, tup, tcreate, tgc, tcrashes>>
      /\ UpdateTenantStatus(f, trow[f], "deleted") /\ SetWork(f, None)
  BY ZenonT(30) DEF CleanupMark, Working
<1>2. CleanupHolds(f) /\ trow[f] # None /\ trow[f] \in ForkRow /\ RowHolds(f)
  BY <1>1, WorkerFacts, ZenonT(30)
<1>3. /\ trow'[f] # None /\ trow'[f].branch = trow[f].branch
      /\ trow'[f].status = "deleted" \/ trow'[f].status = trow[f].status
      /\ trow' \in [Forks -> ForkRow \cup {None}]
      /\ \A g \in Forks \ {f} : trow'[g] = trow[g]
  BY <1>1, <1>2, StatusUpdate, ZenonT(30) DEF ForkInv
<1>4. OnlyFork(f) /\ twork'[f] = None
  BY <1>1, <1>3, WorkSet, ZenonT(30) DEF ForkInv, OnlyFork
<1>5. trow[f].branch # None /\ tdb[trow[f].branch].st = "gone" /\ AllKept(trow[f].branch)
  BY <1>1, <1>2, ZenonT(30) DEF CleanupHolds, ForkDb
<1>6. AllKept(trow[f].branch)'
  BY <1>1, <1>3, <1>5, ZenonT(30) DEF AllKept, Kept, filesVars
<1>7. RowHolds(f)'
  BY <1>1, <1>2, <1>3, <1>5, <1>6, ZenonT(30) DEF RowHolds, CleanupHolds, ForkDb
<1>8. WorkHolds(f)'
  BY <1>4, ZenonT(30) DEF WorkHolds
<1> QED
  BY <1>1, <1>2, <1>3, <1>4, <1>7, <1>8, WorkerFacts, RowStep, ZenonT(30)

-----------------------------------------------------------------------------
(* Steps that change a branch and no file.                                 *)

(* What holds of files and branches, apart from rows.                      *)
FilesHold == UnbornEmpty /\ Born /\ DoneIsGone /\ OwnerKeepsObjects /\ NoObjectOrphaned

(* CreateBranch makes a branch no row names: a snapshot of the source, or  *)
(* one that is deleted again.                                              *)
LEMMA BranchMade ==
    ASSUME ForkInv, NEW b \in Unborn, NEW db \in {tsrc, GoneDb}, tdb' = [tdb EXCEPT ![b] = db], UNCHANGED filesVars
    PROVE  /\ tdb' \in [Branches -> Database]
           /\ \A g \in Forks : trow[g] # None => trow[g].branch # b
           /\ tdb'[b].st # "unborn" /\ AllKept(b)'
           /\ FilesHold'
<1>1. b \in Branches /\ tdb[b].st = "unborn" /\ ForkRefs(tdb[b]) = {}
  BY ZenonT(30) DEF Unborn, ForkInv, UnbornEmpty
<1>2. db \in Database /\ db.st # "unborn"
  BY ZenonT(30) DEF ForkInv, ForkTypeOK, Database, GoneDb, NewDb
<1>3. ForkRefs(db) \subseteq tsrc.refs \cup tsrc.tasks
  BY DEF ForkInv, ForkTypeOK, Database, GoneDb, NewDb, ForkRefs
<1>4. /\ tdb' \in [Branches -> Database] /\ tdb'[b] = db
      /\ \A c \in Branches \ {b} : tdb'[c] = tdb[c]
  BY <1>1, <1>2, ZenonT(30) DEF ForkInv, ForkTypeOK
<1>5. \A g \in Forks : trow[g] # None => trow[g].branch # b
  BY <1>1, ForkAssumption, ZenonT(30) DEF ForkInv, RowHolds
<1>6. tsrc' = tsrc /\ tobj' = tobj /\ tcand' = tcand /\ tlate' = tlate
  BY ZenonT(30) DEF filesVars
<1>7. AllKept(b)'
  BY <1>3, <1>4, <1>6, ZenonT(30) DEF AllKept, Kept
<1>8. UnbornEmpty' /\ Born' /\ DoneIsGone' /\ OwnerKeepsObjects'
  BY <1>1, <1>2, <1>3, <1>4, <1>6 DEF ForkInv, UnbornEmpty, Born, DoneIsGone, OwnerKeepsObjects
<1>9. NoObjectOrphaned'
  <2>1. ASSUME NEW o \in Objects, Referring(o) PROVE Referring(o)'
    BY <1>1, <1>4, <1>6, <2>1, ZenonT(30) DEF Referring, ForkRefs
  <2> QED
    BY <1>6, <2>1, ZenonT(30) DEF ForkInv, NoObjectOrphaned
<1> QED
  BY <1>2, <1>4, <1>5, <1>7, <1>8, <1>9, ZenonT(30) DEF FilesHold

(* A branch forgets objects only when they are kept elsewhere.             *)
LEMMA BranchForgets ==
    ASSUME ForkInv, NEW b \in Branches, tdb[b].st # "unborn", AllKept(b), NEW db \in Database, db.st # "unborn",
           ForkRefs(db) \subseteq ForkRefs(tdb[b]), tdb' = [tdb EXCEPT ![b] = db], UNCHANGED filesVars
    PROVE  /\ tdb' \in [Branches -> Database] /\ tdb'[b] = db
           /\ \A c \in Branches \ {b} : tdb'[c] = tdb[c]
           /\ AllKept(b)'
           /\ FilesHold'
<1>1. /\ tdb' \in [Branches -> Database] /\ tdb'[b] = db
      /\ \A c \in Branches \ {b} : tdb'[c] = tdb[c]
  BY ZenonT(30) DEF ForkInv, ForkTypeOK
<1>2. tsrc' = tsrc /\ tobj' = tobj /\ tcand' = tcand /\ tlate' = tlate
  BY ZenonT(30) DEF filesVars
<1>3. AllKept(b)'
  BY <1>1, <1>2, ZenonT(30) DEF AllKept, Kept
<1>4. UnbornEmpty' /\ Born' /\ DoneIsGone' /\ OwnerKeepsObjects'
  BY <1>1, <1>2 DEF ForkInv, UnbornEmpty, Born, DoneIsGone, OwnerKeepsObjects
<1>5. NoObjectOrphaned'
  <2> SUFFICES ASSUME NEW o \in Objects, o \notin tlate, tobj[o] = "stored"
               PROVE  Referring(o)' \/ tcand[o] = "pending"
    BY <1>2, ZenonT(30) DEF NoObjectOrphaned
  <2>1. CASE o \in ForkRefs(tdb[b])
    BY <1>2, <2>1, ZenonT(30) DEF AllKept, Kept, Referring
  <2>2. CASE o \notin ForkRefs(tdb[b])
    <3>1. Referring(o) \/ tcand[o] = "pending"
      BY ZenonT(30) DEF ForkInv, NoObjectOrphaned
    <3> QED
      BY <1>1, <1>2, <2>2, <3>1, ZenonT(30) DEF Referring, ForkRefs
  <2> QED
    BY <2>1, <2>2, ZenonT(30)
<1> QED
  BY <1>1, <1>3, <1>4, <1>5, ZenonT(30) DEF FilesHold

(* A step for one fork that may change a branch of its own.                *)
LEMMA BranchStep ==
    ASSUME ForkInv, NEW f \in Forks, OnlyFork(f), tdb' \in [Branches -> Database], OthersBranches(f), OwnBranch(f),
           FilesHold', UNCHANGED <<filesVars, tgc, tcrashes>>,
           tcreate' \in [fork : Forks, at : {"inserted", "connected"}] \cup {None}, CreateHolds',
           RowHolds(f)', WorkHolds(f)'
    PROVE  ForkInv'
<1>1. /\ KeptStays
      /\ tsrc' = tsrc /\ tobj' = tobj /\ tcand' = tcand /\ tlate' = tlate
  BY FilesStay, ZenonT(30)
<1>2. /\ \A g \in Forks : RowHolds(g)' /\ WorkHolds(g)'
      /\ BranchesApart'
  BY <1>1, OneFork, ZenonT(30)
<1>3. ForkTypeOK'
  BY <1>1, ZenonT(30) DEF ForkInv, ForkTypeOK, OnlyFork
<1>4. GCHolds'
  BY <1>1, ZenonT(30) DEF ForkInv, GCHolds
<1> QED
  BY <1>1, <1>2, <1>3, <1>4, ZenonT(30) DEF ForkInv, FilesHold

(* What an attempt to make the branch of a fork leaves, whether it         *)
(* succeeds or not: a row that names no branch or a new one of its own.    *)
LEMMA BranchTried ==
    ASSUME ForkInv, NEW f \in Forks, trow[f] # None, trow[f].status = "provisioning", trow[f].branch = None,
           NEW r \in CreateBranchOk(f) \cup CreateBranchFails(f), tdb' = r.db, UNCHANGED filesVars
    PROVE  /\ r.row \in ForkRow /\ r.row.status = "provisioning"
           /\ tdb' \in [Branches -> Database] /\ OthersBranches(f) /\ FilesHold'
           /\ r.row.branch # None =>
                 /\ \A g \in Forks : trow[g] # None => trow[g].branch # r.row.branch
                 /\ tdb'[r.row.branch].st # "unborn" /\ AllKept(r.row.branch)'
           /\ r \in CreateBranchOk(f) => r.row.branch # None
<1>0. trow[f] \in ForkRow
  BY RowType, ZenonT(30) DEF ForkInv
<1>1. ASSUME NEW b \in Unborn, NEW db \in {tsrc, GoneDb}, tdb' = [tdb EXCEPT ![b] = db]
      PROVE  /\ tdb' \in [Branches -> Database] /\ OthersBranches(f) /\ FilesHold'
             /\ \A g \in Forks : trow[g] # None => trow[g].branch # b
             /\ tdb'[b].st # "unborn" /\ AllKept(b)' /\ b \in Branches /\ b # None
  <2>1. /\ tdb' \in [Branches -> Database] /\ FilesHold'
        /\ \A g \in Forks : trow[g] # None => trow[g].branch # b
        /\ tdb'[b].st # "unborn" /\ AllKept(b)'
    BY <1>1, BranchMade, ZenonT(30)
  <2>2. b \in Branches /\ b # None
    BY ForkAssumption, ZenonT(30) DEF Unborn
  <2>3. OthersBranches(f)
    BY <1>1, <2>1, <2>2, RowType, ZenonT(30) DEF OthersBranches, ForkInv, ForkTypeOK
  <2> QED
    BY <2>1, <2>2, <2>3, ZenonT(30)
<1>2. CASE r \in CreateBranchOk(f)
  <2>1. PICK b \in Unborn, h \in {"none", "branch"} :
           r = [row |-> [trow[f] EXCEPT !.branch = b, !.host = h], db |-> [tdb EXCEPT ![b] = tsrc]]
    BY <1>2, ZenonT(30) DEF CreateBranchOk
  <2>2. r.row = [trow[f] EXCEPT !.branch = b, !.host = h] /\ tdb' = [tdb EXCEPT ![b] = tsrc]
    BY <2>1, ZenonT(30)
  <2>3. r.row \in ForkRow /\ r.row.status = "provisioning" /\ r.row.branch = b
    BY <1>0, <2>2, ZenonT(30) DEF ForkRow, Unborn
  <2> QED
    BY <1>1, <2>2, <2>3, ZenonT(30)
<1>3. CASE r = [row |-> trow[f], db |-> tdb]
  <2>1. r.row = trow[f] /\ tdb' = tdb
    BY <1>3, ZenonT(30)
  <2>2. OthersBranches(f) /\ FilesHold' /\ tdb' \in [Branches -> Database]
    <3>1. tsrc' = tsrc /\ tobj' = tobj /\ tcand' = tcand /\ tlate' = tlate
      BY FilesStay, ZenonT(30)
    <3>2. UnbornEmpty' /\ Born' /\ DoneIsGone'
      BY <2>1, <3>1, ZenonT(30) DEF ForkInv, UnbornEmpty, Born, DoneIsGone
    <3>3. OwnerKeepsObjects' /\ NoObjectOrphaned'
      BY <2>1, <3>1, ZenonT(30) DEF ForkInv, OwnerKeepsObjects, NoObjectOrphaned, Referring
    <3> QED
      BY <2>1, <3>2, <3>3, ZenonT(30) DEF ForkInv, ForkTypeOK, OthersBranches, FilesHold
  <2>3. r \notin CreateBranchOk(f)
    <3> SUFFICES ASSUME r \in CreateBranchOk(f) PROVE FALSE
      BY ZenonT(30)
    <3>0. PICK b \in Unborn, h \in {"none", "branch"} :
             r = [row |-> [trow[f] EXCEPT !.branch = b, !.host = h], db |-> [tdb EXCEPT ![b] = tsrc]]
      BY ZenonT(30) DEF CreateBranchOk
    <3>1. r.row = [trow[f] EXCEPT !.branch = b, !.host = h]
      BY <3>0, ZenonT(30)
    <3>2. r.row.branch = b
      BY <1>0, <3>1, ZenonT(30) DEF ForkRow
    <3> QED
      BY <2>1, <3>2, ForkAssumption, ZenonT(30) DEF Unborn
  <2> QED
    BY <1>0, <2>1, <2>2, <2>3, ZenonT(30)
<1>4. ASSUME NEW b \in Unborn, r \in DeleteForkBranchOrPersist(f, b), r \notin CreateBranchOk(f)
      PROVE  /\ r.row \in ForkRow /\ r.row.status = "provisioning"
             /\ tdb' \in [Branches -> Database] /\ OthersBranches(f) /\ FilesHold'
             /\ r.row.branch # None =>
                 /\ \A g \in Forks : trow[g] # None => trow[g].branch # r.row.branch
                 /\ tdb'[r.row.branch].st # "unborn" /\ AllKept(r.row.branch)'
  <2>1. PICK row \in {trow[f], [trow[f] EXCEPT !.branch = b]}, db \in {tsrc, GoneDb} :
           r = [row |-> row, db |-> [tdb EXCEPT ![b] = db]]
    BY <1>4, ZenonT(30) DEF DeleteForkBranchOrPersist
  <2>2. r.row = row /\ tdb' = [tdb EXCEPT ![b] = db]
    BY <2>1, ZenonT(30)
  <2>3. row \in ForkRow /\ row.status = "provisioning" /\ (row.branch = b \/ row.branch = None)
    BY <1>0 DEF ForkRow, Unborn
  <2> QED
    BY <1>1, <2>2, <2>3, ZenonT(30)
<1> QED
  BY <1>2, <1>3, <1>4, ZenonT(30) DEF CreateBranchFails

(* CreateForkBranch: the row names its branch, or the fork is marked       *)
(* failed.                                                                 *)
LEMMA CreateForkBranchStep ==
    ASSUME ForkInv, CreateForkBranch
    PROVE  ForkInv'
<1>0. PICK f : f = tcreate.fork
  BY ZenonT(30)
<1>1. /\ f \in Forks /\ trow[f] # None /\ trow[f].status = "provisioning" /\ tup /\ twork[f] = None
      /\ trow[f].branch = None /\ tcreate # None
      /\ UNCHANGED filesVars /\ UNCHANGED <<filesVars, tgc, tcrashes>> /\ tup' = tup /\ twork' = twork
  BY <1>0, ZenonT(30) DEF CreateForkBranch, ForkInv, ForkTypeOK, CreateHolds
<1>2. ASSUME NEW r \in CreateBranchOk(f) \cup CreateBranchFails(f), tdb' = r.db,
             trow'[f] \in ForkRow, trow'[f].branch = r.row.branch, trow'[f].status \in {"provisioning", "failed"},
             \A g \in Forks \ {f} : trow'[g] = trow[g], trow' \in [Forks -> ForkRow \cup {None}],
             tcreate' = None \/ (tcreate' = [fork |-> f, at |-> "connected"] /\ trow'[f].status = "provisioning")
      PROVE  ForkInv'
  <2>1. /\ r.row \in ForkRow /\ r.row.status = "provisioning"
        /\ tdb' \in [Branches -> Database] /\ OthersBranches(f) /\ FilesHold'
        /\ r.row.branch # None =>
              /\ \A g \in Forks : trow[g] # None => trow[g].branch # r.row.branch
              /\ tdb'[r.row.branch].st # "unborn" /\ AllKept(r.row.branch)'
    BY <1>1, <1>2, BranchTried
  <2>2. OnlyFork(f) /\ OwnBranch(f)
    BY <1>1, <1>2, <2>1 DEF OnlyFork, OwnBranch, ForkInv, ForkTypeOK
  <2>3. trow'[f].branch # None => AllKept(trow[f].branch)'
    BY <1>2, <2>1, ZenonT(30) DEF AllKept
  <2>4. RowHolds(f)'
    BY <1>2, <2>1, <2>3, ZenonT(30) DEF RowHolds
  <2>5. WorkHolds(f)'
    BY <1>1, ZenonT(30) DEF WorkHolds
  <2>6. tcreate' \in [fork : Forks, at : {"inserted", "connected"}] \cup {None}
    BY <1>1, <1>2
  <2>7. CreateHolds'
    BY <1>1, <1>2, ForkAssumption DEF CreateHolds
  <2> QED
    BY <1>1, <2>1, <2>2, <2>4, <2>5, <2>6, <2>7, BranchStep, ZenonT(30)
<1>3. ASSUME NEW r \in CreateBranchOk(f), trow' = [trow EXCEPT ![f] = r.row], tdb' = r.db,
             tcreate' = [fork |-> f, at |-> "connected"]
      PROVE  ForkInv'
  <2>1. r.row \in ForkRow /\ r.row.status = "provisioning"
    BY <1>1, <1>3, BranchTried
  <2>2. /\ trow'[f] = r.row /\ trow' \in [Forks -> ForkRow \cup {None}]
        /\ \A g \in Forks \ {f} : trow'[g] = trow[g]
    BY <1>1, <1>3, <2>1 DEF ForkInv, ForkTypeOK
  <2> QED
    BY <1>2, <1>3, <2>1, <2>2, ZenonT(30)
<1>4. ASSUME NEW r \in CreateBranchFails(f), MarkForkFailed(f, r.row), tdb' = r.db, tcreate' = None
      PROVE  ForkInv'
  <2>1. r.row \in ForkRow /\ r.row.status = "provisioning"
    BY <1>1, <1>4, BranchTried, ZenonT(30)
  <2>2. /\ trow'[f] \in ForkRow /\ trow'[f].branch = r.row.branch /\ trow'[f].status \in {"provisioning", "failed"}
        /\ trow' \in [Forks -> ForkRow \cup {None}]
        /\ \A g \in Forks \ {f} : trow'[g] = trow[g]
    BY <1>1, <1>4, <2>1, StatusUpdate, ZenonT(30) DEF ForkInv, MarkForkFailed
  <2> QED
    BY <1>2, <1>4, <2>2, ZenonT(30)
<1> QED
  BY <1>0, <1>1, <1>3, <1>4, ZenonT(30) DEF CreateForkBranch

(* Rows with the same columns are the same.                                *)
LEMMA SameRow ==
    ASSUME NEW r \in ForkRow, NEW q \in ForkRow, r.status = q.status, r.branch = q.branch, r.host = q.host
    PROVE  r = q
BY DEF ForkRow

(* EnsureForkBranchConnection: the worker goes on with the branch of the   *)
(* row, or the row gets one, or it starts again.                           *)
LEMMA EnsureForkBranchConnectionStep ==
    ASSUME ForkInv, NEW f \in Forks, EnsureForkBranchConnection(f)
    PROVE  ForkInv'
<1>1. /\ twork[f] # None /\ twork[f].kind = "provision" /\ twork[f].at = "checked"
      /\ UNCHANGED filesVars /\ UNCHANGED <<filesVars, tup, tcreate, tgc, tcrashes>>
  BY ZenonT(30) DEF EnsureForkBranchConnection, Working
<1>2. /\ trow[f] # None /\ trow[f] \in ForkRow /\ trow[f].status = "provisioning" /\ tup
      /\ twork[f].row = trow[f] /\ RowHolds(f)
  BY <1>1, WorkerFacts, ZenonT(30) DEF ProvisionHolds
<1>3. CASE trow[f].branch # None /\ Connected(f, trow[f]) /\ UNCHANGED <<trow, tdb>>
  <2>1. PICK w : w = [kind |-> "provision", at |-> "connected", row |-> trow[f]]
    BY ZenonT(30)
  <2>2. /\ w \in ForkWorker /\ w # None /\ w.kind = "provision" /\ w.at = "connected" /\ w.row = trow[f]
        /\ SetWork(f, w)
    BY <1>2, <1>3, <2>1, Reads, ZenonT(30) DEF Connected
  <2>3. twork'[f] = w
    BY <2>2, WorkSet, ZenonT(30) DEF ForkInv
  <2>4. WorkHolds(f)'
    BY <1>1, <1>2, <1>3, <2>2, <2>3, ZenonT(30) DEF WorkHolds, ProvisionHolds
  <2> QED
    BY <1>1, <1>3, <2>2, <2>4, WorkerStep, ZenonT(30)
<1>4. CASE /\ trow[f].branch # None
           /\ trow' = [trow EXCEPT ![f] = [trow[f] EXCEPT !.branch = trow[f].branch, !.host = "branch"]]
           /\ Connected(f, [trow[f] EXCEPT !.host = "branch"])
           /\ UNCHANGED tdb
  <2>1. PICK r, q : /\ r = [trow[f] EXCEPT !.branch = trow[f].branch, !.host = "branch"]
                    /\ q = [trow[f] EXCEPT !.host = "branch"]
    BY ZenonT(30)
  <2>2. /\ r \in ForkRow /\ r.branch = trow[f].branch /\ r.status = "provisioning" /\ r.host = "branch"
        /\ q \in ForkRow /\ q.branch = trow[f].branch /\ q.status = "provisioning" /\ q.host = "branch"
    BY <1>2, <2>1, ZenonT(30) DEF ForkRow
  <2>3. r = q /\ r # None
    BY <2>2, SameRow, ForkAssumption, ZenonT(30)
  <2>4. /\ trow'[f] = r /\ trow' \in [Forks -> ForkRow \cup {None}]
        /\ \A g \in Forks \ {f} : trow'[g] = trow[g]
    BY <1>4, <2>1, <2>2 DEF ForkInv, ForkTypeOK
  <2>5. PICK w : w = [kind |-> "provision", at |-> "connected", row |-> q]
    BY ZenonT(30)
  <2>6. /\ w \in ForkWorker /\ w # None /\ w.kind = "provision" /\ w.at = "connected" /\ w.row = q
        /\ SetWork(f, w)
    BY <1>4, <2>1, <2>2, <2>5, Reads, ZenonT(30) DEF Connected
  <2>7. /\ twork'[f] = w /\ twork' \in [Forks -> ForkWorker \cup {None}]
        /\ \A g \in Forks \ {f} : twork'[g] = twork[g]
    BY <2>6, WorkSet, ZenonT(30) DEF ForkInv
  <2>8. OnlyFork(f)
    BY <1>1, <2>4, <2>7, ZenonT(30) DEF OnlyFork
  <2>9. AllKept(trow[f].branch)'
    <3>1. AllKept(trow[f].branch)
      BY <1>2, <1>4, ZenonT(30) DEF RowHolds
    <3> QED
      BY <1>1, <1>4, <2>2, <2>4, <3>1 DEF AllKept, Kept, filesVars
  <2>10. RowHolds(f)'
    BY <1>2, <1>4, <2>2, <2>4, <2>9 DEF RowHolds
  <2>11. WorkHolds(f)'
    BY <1>1, <1>2, <1>4, <2>2, <2>3, <2>4, <2>6, <2>7 DEF WorkHolds, ProvisionHolds
  <2> QED
    BY <1>1, <1>2, <1>4, <2>2, <2>4, <2>8, <2>10, <2>11, WorkerFacts, RowStep
<1>5. ASSUME trow[f].branch = None, NEW r \in CreateBranchOk(f) \cup CreateBranchFails(f),
             trow' = [trow EXCEPT ![f] = r.row], tdb' = r.db,
             RetryProvision(f) \/ (r \in CreateBranchOk(f) /\ Connected(f, r.row))
      PROVE  ForkInv'
  <2>1. /\ r.row \in ForkRow /\ r.row.status = "provisioning"
        /\ tdb' \in [Branches -> Database] /\ OthersBranches(f) /\ FilesHold'
        /\ r.row.branch # None =>
              /\ \A g \in Forks : trow[g] # None => trow[g].branch # r.row.branch
              /\ tdb'[r.row.branch].st # "unborn" /\ AllKept(r.row.branch)'
        /\ r \in CreateBranchOk(f) => r.row.branch # None
    BY <1>1, <1>2, <1>5, BranchTried, ZenonT(30)
  <2>2. /\ trow'[f] = r.row /\ trow'[f] # None /\ trow' \in [Forks -> ForkRow \cup {None}]
        /\ \A g \in Forks \ {f} : trow'[g] = trow[g]
    BY <1>5, <2>1, ForkAssumption, ZenonT(30) DEF ForkInv, ForkTypeOK
  <2>3. PICK w \in ForkWorker : /\ w # None /\ w.kind = "provision" /\ SetWork(f, w)
                                /\ \/ w.at = "start"
                                   \/ w.at = "connected" /\ w.row = r.row /\ r.row.branch # None
    <3>1. CASE RetryProvision(f)
      BY <3>1, Starts, ZenonT(30) DEF RetryProvision, StartForkProvision
    <3>2. CASE r \in CreateBranchOk(f) /\ Connected(f, r.row)
      BY <2>1, <3>2, Reads, ZenonT(30) DEF Connected
    <3> QED
      BY <1>5, <3>1, <3>2, ZenonT(30)
  <2>4. /\ twork'[f] = w /\ twork' \in [Forks -> ForkWorker \cup {None}]
        /\ \A g \in Forks \ {f} : twork'[g] = twork[g]
    BY <2>3, WorkSet, ZenonT(30) DEF ForkInv
  <2>5. OnlyFork(f) /\ OwnBranch(f)
    BY <1>1, <2>1, <2>2, <2>4 DEF OnlyFork, OwnBranch
  <2>6. trow'[f].branch # None => AllKept(trow[f].branch)'
    BY <2>1, <2>2, ZenonT(30) DEF AllKept
  <2>7. RowHolds(f)'
    BY <2>1, <2>2, <2>6, ZenonT(30) DEF RowHolds
  <2>8. WorkHolds(f)'
    BY <1>1, <1>2, <2>1, <2>2, <2>3, <2>4, ZenonT(30) DEF WorkHolds, ProvisionHolds
  <2> QED
    BY <1>1, <2>1, <2>5, <2>7, <2>8, WorkerFacts, BranchStep, ZenonT(30)
<1> QED
  <2>1. CASE trow[f].branch # None
    BY <1>2, <1>3, <1>4, <2>1, ZenonT(30) DEF EnsureForkBranchConnection
  <2>2. ASSUME trow[f].branch = None, NEW r \in CreateBranchOk(f), trow' = [trow EXCEPT ![f] = r.row], tdb' = r.db,
               IF r.row.host = "none" THEN RetryProvision(f) ELSE Connected(f, r.row)
        PROVE  ForkInv'
    BY <1>5, <2>2, ZenonT(30)
  <2>3. ASSUME trow[f].branch = None, NEW r \in CreateBranchFails(f), trow' = [trow EXCEPT ![f] = r.row], tdb' = r.db,
               RetryProvision(f)
        PROVE  ForkInv'
    BY <1>5, <2>3, ZenonT(30)
  <2> QED
    BY <1>2, <2>1, <2>2, <2>3, ZenonT(30) DEF EnsureForkBranchConnection

(* Without its tasks and uploads a branch refers to less.                  *)
LEMMA SanitizedBranch ==
    ASSUME NEW db \in Database
    PROVE  /\ Sanitized(db) \in Database /\ Sanitized(db).st = db.st
           /\ Sanitized(db).tasks = {} /\ ~Sanitized(db).uploading
           /\ ForkRefs(Sanitized(db)) \subseteq ForkRefs(db)
<1>1. PICK x : x = Sanitized(db)
  BY ZenonT(30)
<1>2. x \in Database /\ x.st = db.st /\ x.tasks = {} /\ x.uploading = FALSE /\ x.refs = db.refs
  BY <1>1, ZenonT(30) DEF Sanitized, Database
<1> QED
  BY <1>1, <1>2, ZenonT(30) DEF ForkRefs

(* A fork that changes its own branch changes no other's.                  *)
LEMMA OwnBranchOnly ==
    ASSUME ForkInv, NEW f \in Forks, trow[f] # None, trow[f].branch # None, trow'[f] = trow[f],
           \A c \in Branches \ {trow[f].branch} : tdb'[c] = tdb[c]
    PROVE  OthersBranches(f) /\ OwnBranch(f)
<1>1. ForkTypeOK /\ BranchesApart
  BY ZenonT(30) DEF ForkInv
<1>2. OthersBranches(f)
  BY <1>1, RowType DEF OthersBranches, BranchesApart
<1>3. OwnBranch(f)
  BY <1>1, ZenonT(30) DEF OwnBranch, BranchesApart
<1> QED
  BY <1>2, <1>3, ZenonT(30)

(* ProvisionPrepare takes the source's work out of the branch, or finds an *)
(* upload in it and gives the fork up.                                     *)
LEMMA ProvisionPrepareStep ==
    ASSUME ForkInv, NEW f \in Forks, ProvisionPrepare(f)
    PROVE  ForkInv'
<1>1. /\ twork[f] # None /\ twork[f].kind = "provision" /\ twork[f].at = "connected"
      /\ twork[f].row.host = "branch" /\ tdb[twork[f].row.branch].st = "live"
      /\ UNCHANGED filesVars /\ UNCHANGED <<filesVars, tup, tcreate, tgc, tcrashes>>
  BY ZenonT(30) DEF ProvisionPrepare, Working
<1>2. /\ trow[f] # None /\ trow[f] \in ForkRow /\ trow[f].status = "provisioning" /\ tup
      /\ twork[f].row = trow[f] /\ trow[f].branch # None /\ RowHolds(f)
  BY <1>1, WorkerFacts, ZenonT(30) DEF ProvisionHolds
<1>3. PICK b : b = trow[f].branch
  BY ZenonT(30)
<1>4. b \in Branches /\ tdb[b] \in Database /\ tdb[b].st = "live" /\ AllKept(b)
  BY <1>1, <1>2, <1>3, WorkerFacts, ZenonT(30) DEF RowHolds
<1>5. CASE MarkForkFailedAndCleanup(f) /\ UNCHANGED tdb
  <2>1. OnlyFork(f)
    <3>1. /\ trow' \in [Forks -> ForkRow \cup {None}]
          /\ \A g \in Forks \ {f} : trow'[g] = trow[g]
      BY <1>2, <1>5, StatusUpdate, ZenonT(30) DEF ForkInv, MarkForkFailedAndCleanup, MarkForkFailed
    <3>2. /\ twork' \in [Forks -> ForkWorker \cup {None}]
          /\ \A g \in Forks \ {f} : twork'[g] = twork[g]
      BY <1>5, Starts, WorkSet, ZenonT(30) DEF ForkInv, MarkForkFailedAndCleanup, StartForkCleanup
    <3> QED
      BY <1>1, <3>1, <3>2, ZenonT(30) DEF OnlyFork
  <2> QED
    BY <1>1, <1>2, <1>5, <2>1, WorkerFacts, FailsStep, ZenonT(30)
<1>6. CASE /\ tdb' = [tdb EXCEPT ![b] = Sanitized(tdb[b])]
           /\ SetWork(f, [kind |-> "provision", at |-> "prepared"])
           /\ trow' = trow
  <2>1. PICK db : db = Sanitized(tdb[b])
    BY ZenonT(30)
  <2>2. /\ db \in Database /\ db.st = "live" /\ db.tasks = {} /\ ~db.uploading
        /\ ForkRefs(db) \subseteq ForkRefs(tdb[b])
    BY <1>4, <2>1, SanitizedBranch, ZenonT(30)
  <2>3. /\ tdb' \in [Branches -> Database] /\ tdb'[b] = db
        /\ \A c \in Branches \ {b} : tdb'[c] = tdb[c]
        /\ AllKept(b)' /\ FilesHold'
    BY <1>1, <1>4, <1>6, <2>1, <2>2, BranchForgets, ZenonT(30)
  <2>4. OthersBranches(f) /\ OwnBranch(f)
    BY <1>2, <1>3, <1>6, <2>3, OwnBranchOnly, ZenonT(30)
  <2>5. PICK w : w = [kind |-> "provision", at |-> "prepared"]
    BY ZenonT(30)
  <2>6. w \in ForkWorker /\ w # None /\ w.kind = "provision" /\ w.at = "prepared" /\ SetWork(f, w)
    BY <1>6, <2>5, ForkAssumption DEF ForkWorker
  <2>7. OnlyFork(f) /\ twork'[f] = w
    BY <1>1, <1>6, <2>6, WorkSet, ZenonT(30) DEF ForkInv, ForkTypeOK, OnlyFork
  <2>8. AllKept(trow[f].branch)'
    BY <1>3, <1>6, <2>3, ZenonT(30) DEF AllKept
  <2>9. RowHolds(f)'
    BY <1>2, <1>3, <1>6, <2>2, <2>3, <2>8, ZenonT(30) DEF RowHolds
  <2>10. WorkHolds(f)'
    BY <1>1, <1>2, <1>3, <1>6, <2>2, <2>3, <2>6, <2>7, ZenonT(30) DEF WorkHolds, ProvisionHolds, ForkDb
  <2> QED
    BY <1>1, <2>3, <2>4, <2>7, <2>9, <2>10, WorkerFacts, BranchStep, ZenonT(30)
<1> QED
  BY <1>2, <1>3, <1>5, <1>6, ZenonT(30) DEF ProvisionPrepare

(* CleanupDeleteBranch deletes a branch whose objects are kept.            *)
LEMMA CleanupDeleteBranchStep ==
    ASSUME ForkInv, NEW f \in Forks, CleanupDeleteBranch(f)
    PROVE  ForkInv'
<1>1. /\ twork[f] # None /\ twork[f].kind = "cleanup" /\ twork[f].at = "enqueued" /\ trow' = trow
      /\ UNCHANGED filesVars /\ UNCHANGED <<filesVars, tup, tcreate, tgc, tcrashes>>
  BY ZenonT(30) DEF CleanupDeleteBranch, Working
<1>2. /\ trow[f] # None /\ trow[f] \in ForkRow /\ trow[f].status \in {"provisioning", "failed", "deleting"} /\ tup
      /\ twork[f].row = trow[f] /\ trow[f].branch # None /\ RowHolds(f) /\ AllKept(trow[f].branch)
  BY <1>1, WorkerFacts, ZenonT(30) DEF CleanupHolds
<1>3. PICK b : b = trow[f].branch
  BY ZenonT(30)
<1>4. b \in Branches /\ tdb[b] \in Database /\ tdb[b].st # "unborn" /\ AllKept(b)
  BY <1>1, <1>2, <1>3, WorkerFacts, ZenonT(30) DEF RowHolds
<1>5. ASSUME NEW db \in Database, db.st # "unborn", ForkRefs(db) \subseteq ForkRefs(tdb[b]),
             tdb' = [tdb EXCEPT ![b] = db],
             \/ SetWork(f, None)
             \/ db.st = "gone" /\ CleaningUp(f, "deleted", trow[f])
      PROVE  ForkInv'
  <2>1. /\ tdb' \in [Branches -> Database] /\ tdb'[b] = db
        /\ \A c \in Branches \ {b} : tdb'[c] = tdb[c]
        /\ AllKept(b)' /\ FilesHold'
    BY <1>1, <1>4, <1>5, BranchForgets, ZenonT(30)
  <2>2. OthersBranches(f) /\ OwnBranch(f)
    BY <1>1, <1>2, <1>3, <2>1, OwnBranchOnly, ZenonT(30)
  <2>3. AllKept(trow[f].branch)'
    BY <1>1, <1>3, <2>1 DEF AllKept
  <2>4. RowHolds(f)'
    BY <1>1, <1>2, <1>3, <1>5, <2>1, <2>3, ZenonT(30) DEF RowHolds
  <2>5. OnlyFork(f) /\ WorkHolds(f)'
    <3>1. CASE SetWork(f, None)
      BY <1>1, <3>1, WorkSet, ZenonT(30) DEF ForkInv, ForkTypeOK, OnlyFork, WorkHolds
    <3>2. CASE db.st = "gone" /\ CleaningUp(f, "deleted", trow[f])
      <4>1. PICK w : w = [kind |-> "cleanup", at |-> "deleted", row |-> trow[f]]
        BY ZenonT(30)
      <4>2. /\ w \in ForkWorker /\ w # None /\ w.kind = "cleanup" /\ w.at = "deleted" /\ w.row = trow[f]
            /\ SetWork(f, w)
        BY <1>2, <3>2, <4>1, Reads, ZenonT(30) DEF CleaningUp
      <4>3. OnlyFork(f) /\ twork'[f] = w
        BY <1>1, <4>2, WorkSet, ZenonT(30) DEF ForkInv, ForkTypeOK, OnlyFork
      <4>4. CleanupHolds(f)'
        BY <1>1, <1>2, <1>3, <2>1, <2>3, <3>2, <4>2, <4>3, ZenonT(30) DEF CleanupHolds, ForkDb
      <4> QED
        BY <1>1, <1>2, <4>2, <4>3, <4>4, ZenonT(30) DEF WorkHolds
    <3> QED
      BY <1>5, <3>1, <3>2, ZenonT(30)
  <2> QED
    BY <1>1, <2>1, <2>2, <2>4, <2>5, WorkerFacts, BranchStep, ZenonT(30)
<1>6. CASE tdb' = DeleteBranch(b) /\ CleaningUp(f, "deleted", trow[f])
  <2>1. GoneDb \in Database /\ GoneDb.st = "gone" /\ ForkRefs(GoneDb) \subseteq ForkRefs(tdb[b])
    BY ZenonT(30) DEF GoneDb, NewDb, Database, ForkRefs
  <2> QED
    BY <1>5, <1>6, <2>1, ZenonT(30) DEF DeleteBranch
<1>7. CASE /\ tdb' = IF trow[f].status = "deleting" THEN [tdb EXCEPT ![b] = Sanitized(tdb[b])] ELSE tdb
           /\ SetWork(f, None)
  <2>1. CASE trow[f].status = "deleting"
    <3>1. PICK db : db = Sanitized(tdb[b])
      BY ZenonT(30)
    <3>2. db \in Database /\ db.st # "unborn" /\ ForkRefs(db) \subseteq ForkRefs(tdb[b])
      BY <1>4, <3>1, SanitizedBranch, ZenonT(30)
    <3> QED
      BY <1>5, <1>7, <2>1, <3>1, <3>2, ZenonT(30)
  <2>2. CASE trow[f].status # "deleting"
    <3>1. tdb' = tdb /\ WorkHolds(f)'
      BY <1>7, <2>2, WorkSet DEF ForkInv, WorkHolds
    <3> QED
      BY <1>1, <1>7, <3>1, WorkerStep, ZenonT(30)
  <2> QED
    BY <2>1, <2>2, ZenonT(30)
<1> QED
  BY <1>2, <1>3, <1>6, <1>7, ZenonT(30) DEF CleanupDeleteBranch

-----------------------------------------------------------------------------
(* Steps that change files.                                                *)

(* EnqueueObjectGCCandidate makes every object a candidate that is not     *)
(* gone already.                                                           *)
LEMMA Enqueued ==
    ASSUME ForkInv, NEW objs, objs \subseteq Objects, \A o \in objs : tobj[o] # "unborn", tcand' = Enqueue(objs)
    PROVE  /\ tcand' \in [Objects -> {"none", "pending", "deleted"}]
           /\ \A o \in Objects : /\ tcand[o] = "pending" => tcand'[o] = "pending"
                                 /\ tcand'[o] = "deleted" => tobj[o] = "gone"
                                 /\ tcand'[o] # "none" => tobj[o] # "unborn"
           /\ \A o \in objs : tcand'[o] = "pending" \/ tobj[o] = "gone"
BY ZenonT(30) DEF ForkInv, ForkTypeOK, Born, DoneIsGone, Enqueue

(* CleanupEnqueue hands the objects of a fork over.                        *)
LEMMA CleanupEnqueueStep ==
    ASSUME ForkInv, NEW f \in Forks, CleanupEnqueue(f)
    PROVE  ForkInv'
<1>1. /\ twork[f] # None /\ twork[f].kind = "cleanup" /\ twork[f].at = "drained"
      /\ trow' = trow /\ tdb' = tdb /\ tsrc' = tsrc /\ tobj' = tobj /\ tlate' = tlate /\ tup' = tup
      /\ tcreate' = tcreate /\ tgc' = tgc /\ tcrashes' = tcrashes
  BY ZenonT(30) DEF CleanupEnqueue, Working
<1>2. /\ trow[f] # None /\ trow[f] \in ForkRow /\ tup /\ twork[f].row = trow[f] /\ trow[f].branch # None
      /\ trow[f].status \in {"provisioning", "failed", "deleting"} /\ RowHolds(f)
  BY <1>1, WorkerFacts, ZenonT(30) DEF CleanupHolds
<1>3. PICK b : b = trow[f].branch
  BY ZenonT(30)
<1>4. /\ b \in Branches /\ tdb[b] \in Database /\ ForkRefs(tdb[b]) \subseteq Objects
      /\ \A o \in ForkRefs(tdb[b]) : tobj[o] # "unborn"
  BY <1>1, <1>2, <1>3, WorkerFacts, ZenonT(30) DEF ForkInv, Born, ForkRefs, Database
<1>5. ASSUME NEW objs, objs \subseteq ForkRefs(tdb[b]), tcand' = Enqueue(objs),
             \/ SetWork(f, None)
             \/ objs = ForkRefs(tdb[b]) /\ CleaningUp(f, "enqueued", trow[f])
      PROVE  ForkInv'
  <2>1. /\ tcand' \in [Objects -> {"none", "pending", "deleted"}]
        /\ \A o \in Objects : /\ tcand[o] = "pending" => tcand'[o] = "pending"
                              /\ tcand'[o] = "deleted" => tobj[o] = "gone"
                              /\ tcand'[o] # "none" => tobj[o] # "unborn"
        /\ \A o \in objs : tcand'[o] = "pending" \/ tobj[o] = "gone"
    BY <1>4, <1>5, Enqueued
  <2>2. KeptStays
    BY <1>1, <2>1, ZenonT(30) DEF KeptStays, Kept
  <2>3. RowHolds(f)'
    BY <1>1, <1>2, <2>2, RowStays, ZenonT(30) DEF ForkInv
  <2>4. OnlyFork(f) /\ WorkHolds(f)'
    <3>1. CASE SetWork(f, None)
      BY <1>1, <3>1, WorkSet, ZenonT(30) DEF ForkInv, ForkTypeOK, OnlyFork, WorkHolds
    <3>2. CASE objs = ForkRefs(tdb[b]) /\ CleaningUp(f, "enqueued", trow[f])
      <4>1. PICK w : w = [kind |-> "cleanup", at |-> "enqueued", row |-> trow[f]]
        BY ZenonT(30)
      <4>2. /\ w \in ForkWorker /\ w # None /\ w.kind = "cleanup" /\ w.at = "enqueued" /\ w.row = trow[f]
            /\ SetWork(f, w)
        BY <1>2, <3>2, <4>1, Reads, ZenonT(30) DEF CleaningUp
      <4>3. OnlyFork(f) /\ twork'[f] = w
        BY <1>1, <4>2, WorkSet, ZenonT(30) DEF ForkInv, ForkTypeOK, OnlyFork
      <4>4. AllKept(trow[f].branch)'
        BY <1>1, <1>3, <2>1, <3>2, ZenonT(30) DEF AllKept, Kept
      <4>5. CleanupHolds(f)'
        BY <1>1, <1>2, <4>2, <4>3, <4>4, ZenonT(30) DEF CleanupHolds
      <4> QED
        BY <1>1, <1>2, <4>2, <4>3, <4>5, ZenonT(30) DEF WorkHolds
    <3> QED
      BY <1>5, <3>1, <3>2, ZenonT(30)
  <2>5. OthersBranches(f) /\ OwnBranch(f)
    BY <1>1, <1>2, OwnBranchOnly, ZenonT(30)
  <2>6. /\ \A g \in Forks : RowHolds(g)' /\ WorkHolds(g)'
        /\ BranchesApart'
    BY <2>2, <2>3, <2>4, <2>5, OneFork, ZenonT(30)
  <2>7. CreateHolds'
    BY <1>1, <2>4, WorkerFacts, ZenonT(30)
  <2>8. ForkTypeOK'
    BY <1>1, <2>1, <2>4 DEF ForkInv, ForkTypeOK, OnlyFork
  <2>9. UnbornEmpty' /\ Born' /\ DoneIsGone' /\ GCHolds' /\ OwnerKeepsObjects'
    BY <1>1, <2>1, ZenonT(30) DEF ForkInv, UnbornEmpty, Born, DoneIsGone, GCHolds, OwnerKeepsObjects
  <2>10. NoObjectOrphaned'
    BY <1>1, <2>1, ZenonT(30) DEF ForkInv, NoObjectOrphaned, Referring
  <2> QED
    BY <1>1, <2>6, <2>7, <2>8, <2>9, <2>10, ZenonT(30) DEF ForkInv
<1> QED
  BY <1>2, <1>3, <1>5, ZenonT(30) DEF CleanupEnqueue

(* Files of the source change, or the object GC goes on: no row, worker or *)
(* branch changes.                                                         *)
LEMMA SourceStep ==
    ASSUME ForkInv, UNCHANGED <<trow, tdb, tup, tcreate, twork, tcrashes>>, KeptStays,
           tsrc' \in Database, tsrc'.st = "live",
           tobj' \in [Objects -> {"unborn", "stored", "gone"}],
           tcand' \in [Objects -> {"none", "pending", "deleted"}],
           tlate' \subseteq Objects,
           tgc' \in [obj : Objects, at : {"unforked", "unreachable"}] \cup {None},
           Born', DoneIsGone', GCHolds', OwnerKeepsObjects', NoObjectOrphaned'
    PROVE  ForkInv'
<1>1. ASSUME NEW g \in Forks PROVE RowHolds(g)' /\ WorkHolds(g)'
  <2>1. ForkTypeOK /\ RowHolds(g) /\ WorkHolds(g) /\ (twork[g] # None => tup')
    BY ZenonT(30) DEF ForkInv, WorkHolds
  <2> QED
    BY <2>1, ForkStays, ZenonT(30)
<1>2. CreateHolds' /\ BranchesApart' /\ UnbornEmpty'
  BY DEF ForkInv, CreateHolds, BranchesApart, UnbornEmpty
<1>3. ForkTypeOK'
  BY ZenonT(30) DEF ForkInv, ForkTypeOK
<1> QED
  BY <1>1, <1>2, <1>3 DEF ForkInv

(* SourceWrites: the new object is the source's.                           *)
LEMMA SourceWritesStep ==
    ASSUME ForkInv, NEW o \in Objects, SourceWrites(o)
    PROVE  ForkInv'
<1>1. /\ tobj[o] = "unborn" /\ tobj' = [tobj EXCEPT ![o] = "stored"]
      /\ tsrc' = [tsrc EXCEPT !.refs = tsrc.refs \cup {o}]
      /\ tcand' = tcand /\ tlate' = tlate /\ tgc' = tgc /\ tdb' = tdb
      /\ UNCHANGED <<trow, tdb, tup, tcreate, twork, tcrashes>>
  BY ZenonT(30) DEF SourceWrites, Stores
<1>2. /\ tsrc' \in Database /\ tsrc'.st = "live" /\ tsrc'.refs = tsrc.refs \cup {o} /\ tsrc'.tasks = tsrc.tasks
  BY <1>1 DEF ForkInv, ForkTypeOK, Database
<1>3. /\ tobj' \in [Objects -> {"unborn", "stored", "gone"}] /\ tobj'[o] = "stored"
      /\ \A x \in Objects \ {o} : tobj'[x] = tobj[x]
  BY <1>1, ZenonT(30) DEF ForkInv, ForkTypeOK
<1>4. /\ tcand \in [Objects -> {"none", "pending", "deleted"}] /\ tlate \subseteq Objects
      /\ tgc \in [obj : Objects, at : {"unforked", "unreachable"}] \cup {None}
      /\ tsrc.refs \subseteq Objects /\ tsrc.tasks \subseteq Objects
      /\ \A b \in Branches : ForkRefs(tdb[b]) \subseteq Objects
  BY ZenonT(30) DEF ForkInv, ForkTypeOK, Database, ForkRefs
<1>5. KeptStays
  BY <1>1, <1>2, <1>3 DEF KeptStays, Kept
<1>6. Born' /\ DoneIsGone'
  BY <1>1, <1>2, <1>3, <1>4 DEF ForkInv, Born, DoneIsGone
<1>7. GCHolds'
  BY <1>1, <1>2, <1>3, <1>4 DEF ForkInv, GCHolds
<1>8. OwnerKeepsObjects'
  BY <1>2, <1>3, <1>4, ZenonT(30) DEF ForkInv, OwnerKeepsObjects
<1>9. NoObjectOrphaned'
  BY <1>1, <1>2, <1>3 DEF ForkInv, NoObjectOrphaned, Referring
<1> QED
  BY <1>1, <1>2, <1>3, <1>4, <1>5, <1>6, <1>7, <1>8, <1>9, SourceStep

(* SourceDeletes and SourceUploads: a task takes over the object of a      *)
(* file, and the source refers to the same objects as before.              *)
LEMMA SourceRefersStep ==
    ASSUME ForkInv, tsrc' \in Database, tsrc'.st = "live", tsrc'.refs \subseteq tsrc.refs,
           tsrc'.refs \cup tsrc'.tasks = tsrc.refs \cup tsrc.tasks,
           UNCHANGED <<trow, tdb, tobj, tcand, tlate, tup, tcreate, twork, tgc, tcrashes>>
    PROVE  ForkInv'
<1>1. tobj' = tobj /\ tcand' = tcand /\ tlate' = tlate /\ tgc' = tgc /\ tdb' = tdb
  BY ZenonT(30)
<1>2. KeptStays
  BY <1>1 DEF KeptStays, Kept
<1>3. Born' /\ DoneIsGone' /\ GCHolds' /\ OwnerKeepsObjects'
  BY <1>1 DEF ForkInv, Born, DoneIsGone, GCHolds, OwnerKeepsObjects
<1>4. NoObjectOrphaned'
  BY <1>1, ZenonT(30) DEF ForkInv, NoObjectOrphaned, Referring
<1> QED
  BY <1>1, <1>2, <1>3, <1>4, SourceStep, ZenonT(30) DEF ForkInv, ForkTypeOK

(* SourceFileGC: the object of a task becomes a candidate.                 *)
LEMMA SourceFileGCStep ==
    ASSUME ForkInv, NEW o \in Objects, SourceFileGC(o)
    PROVE  ForkInv'
<1>1. /\ o \in tsrc.tasks /\ tcand' = Enqueue({o})
      /\ tsrc' = [tsrc EXCEPT !.tasks = tsrc.tasks \ {o}]
      /\ tobj' = tobj /\ tlate' = tlate /\ tgc' = tgc /\ tdb' = tdb
      /\ UNCHANGED <<trow, tdb, tup, tcreate, twork, tcrashes>>
  BY ZenonT(30) DEF SourceFileGC
<1>2. /\ tsrc' \in Database /\ tsrc'.st = "live" /\ tsrc'.refs = tsrc.refs /\ tsrc'.tasks = tsrc.tasks \ {o}
  BY <1>1 DEF ForkInv, ForkTypeOK, Database
<1>3. /\ tcand' \in [Objects -> {"none", "pending", "deleted"}]
      /\ \A x \in Objects : /\ tcand[x] = "pending" => tcand'[x] = "pending"
                            /\ tcand'[x] = "deleted" => tobj[x] = "gone"
                            /\ tcand'[x] # "none" => tobj[x] # "unborn"
      /\ tcand'[o] = "pending" \/ tobj[o] = "gone"
  <2>1. {o} \subseteq Objects /\ \A x \in {o} : tobj[x] # "unborn"
    BY <1>1, ZenonT(30) DEF ForkInv, Born
  <2> QED
    BY <1>1, <2>1, Enqueued
<1>4. KeptStays
  BY <1>1, <1>2, <1>3 DEF KeptStays, Kept
<1>5. Born' /\ DoneIsGone' /\ GCHolds' /\ OwnerKeepsObjects'
  BY <1>1, <1>2, <1>3, ZenonT(30) DEF ForkInv, Born, DoneIsGone, GCHolds, OwnerKeepsObjects
<1>6. NoObjectOrphaned'
  BY <1>1, <1>2, <1>3, ZenonT(30) DEF ForkInv, NoObjectOrphaned, Referring
<1> QED
  BY <1>1, <1>2, <1>3, <1>4, <1>5, <1>6, SourceStep, ZenonT(30) DEF ForkInv, ForkTypeOK

(* GCCheckForks and GCCheckReachable: the worker of the object GC goes on. *)
LEMMA GCChecksStep ==
    ASSUME ForkInv, tgc' \in [obj : Objects, at : {"unforked", "unreachable"}] \cup {None}, GCHolds',
           UNCHANGED <<trow, tdb, filesVars, tup, tcreate, twork, tcrashes>>
    PROVE  ForkInv'
<1>1. KeptStays /\ tsrc' = tsrc /\ tobj' = tobj /\ tcand' = tcand /\ tlate' = tlate
  BY FilesStay, ZenonT(30)
<1>2. Born' /\ DoneIsGone' /\ OwnerKeepsObjects' /\ NoObjectOrphaned'
  BY <1>1, ZenonT(30) DEF ForkInv, Born, DoneIsGone, OwnerKeepsObjects, NoObjectOrphaned, Referring
<1> QED
  BY <1>1, <1>2, SourceStep, ZenonT(30) DEF ForkInv, ForkTypeOK

(* GCDelete deletes an object the owner does not refer to.                 *)
LEMMA GCDeleteStep ==
    ASSUME ForkInv, GCDelete
    PROVE  ForkInv'
<1>0. PICK o : o = tgc.obj
  BY ZenonT(30)
<1>1. /\ tgc # None /\ tgc.at = "unreachable" /\ o \in Objects
      /\ tobj' = [tobj EXCEPT ![o] = "gone"] /\ tgc' = None
      /\ tcand' = tcand \/ tcand' = [tcand EXCEPT ![o] = "deleted"]
      /\ tsrc' = tsrc /\ tlate' = tlate /\ tdb' = tdb
      /\ UNCHANGED <<trow, tdb, tup, tcreate, twork, tcrashes>>
  BY <1>0, ZenonT(30) DEF GCDelete, ForkInv, ForkTypeOK
<1>2. tobj[o] # "unborn" /\ o \notin tsrc.refs
  BY <1>0, <1>1, ZenonT(30) DEF ForkInv, GCHolds
<1>3. /\ tobj' \in [Objects -> {"unborn", "stored", "gone"}] /\ tobj'[o] = "gone"
      /\ tcand' \in [Objects -> {"none", "pending", "deleted"}]
      /\ \A x \in Objects \ {o} : tobj'[x] = tobj[x] /\ tcand'[x] = tcand[x]
  BY <1>1 DEF ForkInv, ForkTypeOK
<1>4. /\ tsrc.refs \subseteq Objects /\ tsrc.tasks \subseteq Objects
      /\ \A b \in Branches : ForkRefs(tdb[b]) \subseteq Objects
  BY ZenonT(30) DEF ForkInv, ForkTypeOK, Database, ForkRefs
<1>5. KeptStays
  BY <1>1, <1>3, ZenonT(30) DEF KeptStays, Kept
<1>6. Born' /\ DoneIsGone'
  BY <1>1, <1>2, <1>3, <1>4 DEF ForkInv, Born, DoneIsGone
<1>7. GCHolds' /\ OwnerKeepsObjects'
  BY <1>1, <1>2, <1>3, <1>4 DEF ForkInv, GCHolds, OwnerKeepsObjects
<1>8. NoObjectOrphaned'
  BY <1>1, <1>3 DEF ForkInv, NoObjectOrphaned, Referring
<1> QED
  BY <1>1, <1>3, <1>5, <1>6, <1>7, <1>8, SourceStep, ZenonT(30) DEF ForkInv, ForkTypeOK

(* The database of a fork changes: an active one, or one that a late       *)
(* request reaches.                                                        *)
LEMMA ForkFileStep ==
    ASSUME ForkInv, NEW f \in Forks, trow[f] # None, trow[f].status \in {"active", "deleting"},
           tdb[trow[f].branch].st = "live",
           NEW db \in Database, db.st = "live", tdb' = [tdb EXCEPT ![trow[f].branch] = db],
           \A o \in ForkRefs(db) : o \in ForkRefs(tdb[trow[f].branch]) \/ trow[f].status = "active" \/ Kept(o)',
           KeptStays, UNCHANGED <<trow, tsrc, tup, tcreate, twork, tgc, tcrashes>>,
           tobj' \in [Objects -> {"unborn", "stored", "gone"}],
           tcand' \in [Objects -> {"none", "pending", "deleted"}],
           tlate' \subseteq Objects,
           Born', DoneIsGone', GCHolds', OwnerKeepsObjects', NoObjectOrphaned'
    PROVE  ForkInv'
<1>0. PICK b : b = trow[f].branch
  BY ZenonT(30)
<1>1. RowHolds(f) /\ WorkHolds(f) /\ ForkTypeOK
  BY ZenonT(30) DEF ForkInv
<1>2. b # None /\ b \in Branches /\ tdb[b] \in Database /\ trow'[f] = trow[f] /\ twork'[f] = twork[f]
  BY <1>0, <1>1, RowType, ZenonT(30) DEF RowHolds
<1>3. /\ tdb' \in [Branches -> Database] /\ tdb'[b] = db
      /\ \A c \in Branches \ {b} : tdb'[c] = tdb[c]
  BY <1>0, <1>1, <1>2, ZenonT(30) DEF ForkTypeOK
<1>4. OnlyFork(f) /\ OthersBranches(f) /\ OwnBranch(f)
  BY <1>0, <1>1, <1>2, <1>3, OwnBranchOnly, ZenonT(30) DEF OnlyFork, ForkTypeOK
<1>5. RowHolds(f)'
  BY <1>0, <1>1, <1>2, <1>3, ZenonT(30) DEF RowHolds, ForkDb
<1>6. WorkHolds(f)'
  <2>1. CASE twork[f] = None
    BY <1>2, <2>1, ZenonT(30) DEF WorkHolds
  <2>2. CASE twork[f] # None
    <3>1. /\ twork[f].kind # "provision" /\ trow[f].status # "active" /\ tup
          /\ twork[f].kind = "cleanup" => CleanupHolds(f)
      <4>1. twork[f].kind = "provision" \/ twork[f].kind = "cleanup"
        BY <1>1, <2>2, ZenonT(30) DEF ForkTypeOK, ForkWorker
      <4> QED
        BY <1>1, <2>2, <4>1, ZenonT(30) DEF WorkHolds, ProvisionHolds, CleanupHolds
    <3>2. ASSUME twork[f].kind = "cleanup", twork[f].at \in {"enqueued", "deleted"}
          PROVE  twork[f].at # "deleted" /\ AllKept(trow[f].branch)'
      <4>1. AllKept(b) /\ twork[f].at # "deleted"
        BY <1>0, <3>1, <3>2, ZenonT(30) DEF CleanupHolds, ForkDb
      <4>2. \A o \in ForkRefs(tdb[b]) : Kept(o)'
        BY <1>2, <4>1, ZenonT(30) DEF AllKept, KeptStays, ForkRefs, Database
      <4>3. \A o \in ForkRefs(db) : Kept(o)'
        BY <1>0, <3>1, <4>2, ZenonT(30)
      <4> QED
        BY <1>0, <1>2, <1>3, <4>1, <4>3, ZenonT(30) DEF AllKept
    <3>3. twork[f].kind = "cleanup" => CleanupHolds(f)'
      BY <1>2, <3>1, <3>2, ZenonT(30) DEF CleanupHolds
    <3> QED
      BY <1>1, <1>2, <2>2, <3>1, <3>3, ZenonT(30) DEF WorkHolds
  <2> QED
    BY <2>1, <2>2, ZenonT(30)
<1>7. /\ \A g \in Forks : RowHolds(g)' /\ WorkHolds(g)'
      /\ BranchesApart'
  BY <1>4, <1>5, <1>6, OneFork, ZenonT(30)
<1>8. CreateHolds'
  BY <1>4, CreateStays, ZenonT(30)
<1>9. ForkTypeOK'
  BY <1>1, <1>3, ZenonT(30) DEF ForkTypeOK
<1>10. UnbornEmpty'
  BY <1>2, <1>3, ZenonT(30) DEF ForkInv, UnbornEmpty
<1> QED
  BY <1>7, <1>8, <1>9, <1>10, ZenonT(30) DEF ForkInv

(* ForkWrites: the new object is the fork's; a late request's is noted.    *)
LEMMA ForkWritesStep ==
    ASSUME ForkInv, NEW f \in Forks, NEW o \in Objects, ForkWrites(f, o)
    PROVE  ForkInv'
<1>0. PICK b, db : b = trow[f].branch /\ db = [tdb[b] EXCEPT !.refs = tdb[b].refs \cup {o}]
  BY ZenonT(30)
<1>1. /\ trow[f] # None /\ trow[f].status \in {"active", "deleting"} /\ Status(f) = trow[f].status
      /\ tdb[b].st = "live" /\ tobj[o] = "unborn"
      /\ tobj' = [tobj EXCEPT ![o] = "stored"] /\ tdb' = [tdb EXCEPT ![b] = db]
      /\ tlate' = IF trow[f].status = "deleting" THEN tlate \cup {o} ELSE tlate
      /\ tsrc' = tsrc /\ tcand' = tcand /\ tgc' = tgc
      /\ UNCHANGED <<trow, tsrc, tup, tcreate, twork, tgc, tcrashes>>
  BY <1>0, ZenonT(30) DEF ForkWrites, Status, ForkDb, SetDb, Stores
<1>2. b \in Branches /\ tdb[b] \in Database
  BY <1>0, <1>1, RowType DEF ForkInv, RowHolds
<1>3. db \in Database /\ db.st = "live" /\ db.refs = tdb[b].refs \cup {o} /\ db.tasks = tdb[b].tasks
  BY <1>0, <1>1, <1>2 DEF Database
<1>4. ForkRefs(db) = ForkRefs(tdb[b]) \cup {o} /\ tdb'[b] = db /\ \A c \in Branches \ {b} : tdb'[c] = tdb[c]
  BY <1>1, <1>2, <1>3, ZenonT(30) DEF ForkRefs, ForkInv, ForkTypeOK
<1>5. /\ tobj' \in [Objects -> {"unborn", "stored", "gone"}] /\ tobj'[o] = "stored"
      /\ \A x \in Objects \ {o} : tobj'[x] = tobj[x]
  BY <1>1, ZenonT(30) DEF ForkInv, ForkTypeOK
<1>6. /\ tlate' \subseteq Objects /\ tlate \subseteq tlate' /\ (trow[f].status = "deleting" => o \in tlate')
      /\ tcand \in [Objects -> {"none", "pending", "deleted"}]
      /\ tsrc.refs \subseteq Objects /\ tsrc.tasks \subseteq Objects
      /\ \A c \in Branches : ForkRefs(tdb[c]) \subseteq Objects
  BY <1>1, ZenonT(30) DEF ForkInv, ForkTypeOK, Database, ForkRefs
<1>7. KeptStays
  BY <1>1, <1>5, <1>6, ZenonT(30) DEF KeptStays, Kept
<1>8. Born' /\ DoneIsGone'
  <2>1. Born /\ DoneIsGone
    BY ZenonT(30) DEF ForkInv
  <2>2. \A c \in Branches : ForkRefs(tdb'[c]) \subseteq ForkRefs(tdb[c]) \cup {o}
    BY <1>4, ZenonT(30)
  <2>3. \A x \in Objects : tobj[x] # "unborn" => tobj'[x] = tobj[x]
    BY <1>1, <1>5, ZenonT(30)
  <2>4. Born'
    BY <1>1, <1>5, <1>6, <2>1, <2>2, <2>3 DEF Born
  <2>5. DoneIsGone'
    BY <1>1, <2>1, <2>3, ZenonT(30) DEF DoneIsGone
  <2> QED
    BY <2>4, <2>5, ZenonT(30)
<1>9. GCHolds' /\ OwnerKeepsObjects'
  BY <1>1, <1>5, <1>6, ZenonT(30) DEF ForkInv, ForkTypeOK, GCHolds, OwnerKeepsObjects
<1>10. NoObjectOrphaned'
  <2>1. \A x \in Objects : Referring(x) => Referring(x)'
    BY <1>1, <1>2, <1>4 DEF Referring, ForkRefs
  <2>2. Referring(o)'
    BY <1>2, <1>4, ZenonT(30) DEF Referring, ForkRefs
  <2> QED
    BY <1>1, <1>5, <1>6, <2>1, <2>2, ZenonT(30) DEF ForkInv, NoObjectOrphaned
<1>11. \A x \in ForkRefs(db) : x \in ForkRefs(tdb[b]) \/ trow[f].status = "active" \/ Kept(x)'
  BY <1>1, <1>4, <1>6, ZenonT(30) DEF Kept
<1> QED
  <2>1. /\ tdb[trow[f].branch].st = "live" /\ tdb' = [tdb EXCEPT ![trow[f].branch] = db]
        /\ \A x \in ForkRefs(db) : x \in ForkRefs(tdb[trow[f].branch]) \/ trow[f].status = "active" \/ Kept(x)'
    BY <1>0, <1>1, <1>11, ZenonT(30)
  <2>2. tcand' \in [Objects -> {"none", "pending", "deleted"}]
    BY <1>1, <1>6, ZenonT(30)
  <2> QED
    BY <1>1, <1>3, <1>5, <1>6, <1>7, <1>8, <1>9, <1>10, <2>1, <2>2, ForkFileStep, ZenonT(30)

(* ForkDeletes: a task of the fork takes over the object of a file.        *)
LEMMA ForkDeletesStep ==
    ASSUME ForkInv, NEW f \in Forks, NEW o \in Objects, ForkDeletes(f, o)
    PROVE  ForkInv'
<1>0. PICK b, db : b = trow[f].branch /\ db = WithoutFile(tdb[b], o)
  BY ZenonT(30)
<1>1. /\ trow[f] # None /\ trow[f].status = "active" /\ o \in tdb[b].refs
      /\ tdb' = [tdb EXCEPT ![b] = db]
      /\ UNCHANGED filesVars /\ UNCHANGED <<trow, tup, tcreate, twork, tgc, tcrashes>>
  BY <1>0, ZenonT(30) DEF ForkDeletes, Status, ForkDb, SetDb
<1>2. b \in Branches /\ tdb[b] \in Database /\ tdb[b].st = "live"
  BY <1>0, <1>1, RowType, ZenonT(30) DEF ForkInv, RowHolds, ForkDb
<1>3. db \in Database /\ db.st = "live" /\ db.refs = tdb[b].refs \ {o} /\ db.tasks = tdb[b].tasks \cup {o}
  BY <1>0, <1>2, ZenonT(30) DEF Database, WithoutFile
<1>4. ForkRefs(db) = ForkRefs(tdb[b]) /\ tdb'[b] = db /\ \A c \in Branches \ {b} : tdb'[c] = tdb[c]
  BY <1>1, <1>2, <1>3, ZenonT(30) DEF ForkRefs, ForkInv, ForkTypeOK
<1>5. KeptStays /\ tsrc' = tsrc /\ tobj' = tobj /\ tcand' = tcand /\ tlate' = tlate
  BY <1>1, FilesStay, ZenonT(30)
<1>6. Born' /\ DoneIsGone' /\ GCHolds' /\ OwnerKeepsObjects'
  <2>1. \A c \in Branches : ForkRefs(tdb'[c]) = ForkRefs(tdb[c])
    BY <1>4, ZenonT(30)
  <2>2. tgc' = tgc
    BY <1>1, ZenonT(30)
  <2> QED
    BY ONLY ForkInv, <1>5, <2>1, <2>2, ZenonT(30) DEF ForkInv, Born, DoneIsGone, GCHolds, OwnerKeepsObjects
<1>7. NoObjectOrphaned'
  <2>1. \A x \in Objects : Referring(x) => Referring(x)'
    BY <1>2, <1>4, <1>5, ZenonT(30) DEF Referring, ForkRefs
  <2> QED
    BY <1>5, <2>1, ZenonT(30) DEF ForkInv, NoObjectOrphaned
<1> QED
  BY <1>0, <1>1, <1>2, <1>3, <1>5, <1>6, <1>7, ForkFileStep, ZenonT(30) DEF ForkInv, ForkTypeOK

(* ForkFileGC: the object of a task of the fork becomes a candidate.       *)
LEMMA ForkFileGCStep ==
    ASSUME ForkInv, NEW f \in Forks, NEW o \in Objects, ForkFileGC(f, o)
    PROVE  ForkInv'
<1>0. PICK b, db : b = trow[f].branch /\ db = [tdb[b] EXCEPT !.tasks = tdb[b].tasks \ {o}]
  BY ZenonT(30)
<1>1. /\ trow[f] # None /\ trow[f].status = "active" /\ o \in tdb[b].tasks
      /\ tdb' = [tdb EXCEPT ![b] = db] /\ tcand' = Enqueue({o})
      /\ tsrc' = tsrc /\ tobj' = tobj /\ tlate' = tlate /\ tgc' = tgc
      /\ UNCHANGED <<trow, tsrc, tup, tcreate, twork, tgc, tcrashes>>
  BY <1>0, ZenonT(30) DEF ForkFileGC, Status, ForkDb, SetDb
<1>2. b \in Branches /\ tdb[b] \in Database /\ tdb[b].st = "live"
  BY <1>0, <1>1, RowType DEF ForkInv, RowHolds, ForkDb
<1>3. db \in Database /\ db.st = "live" /\ db.refs = tdb[b].refs /\ db.tasks = tdb[b].tasks \ {o}
  BY <1>0, <1>2 DEF Database
<1>4. /\ ForkRefs(db) \subseteq ForkRefs(tdb[b]) /\ ForkRefs(tdb[b]) \subseteq ForkRefs(db) \cup {o}
      /\ tdb'[b] = db /\ \A c \in Branches \ {b} : tdb'[c] = tdb[c]
  BY <1>1, <1>2, <1>3, ZenonT(30) DEF ForkRefs, ForkInv, ForkTypeOK
<1>5. /\ tcand' \in [Objects -> {"none", "pending", "deleted"}]
      /\ \A x \in Objects : /\ tcand[x] = "pending" => tcand'[x] = "pending"
                            /\ tcand'[x] = "deleted" => tobj[x] = "gone"
                            /\ tcand'[x] # "none" => tobj[x] # "unborn"
      /\ tcand'[o] = "pending" \/ tobj[o] = "gone"
  <2>1. {o} \subseteq Objects /\ \A x \in {o} : tobj[x] # "unborn"
    BY <1>1, <1>2, ZenonT(30) DEF ForkInv, Born, ForkRefs
  <2>2. tcand' = Enqueue({o})
    BY <1>1, ZenonT(30)
  <2> QED
    BY ONLY ForkInv, <2>1, <2>2, Enqueued
<1>6. KeptStays
  BY <1>1, <1>5, ZenonT(30) DEF KeptStays, Kept
<1>7. Born' /\ DoneIsGone' /\ GCHolds' /\ OwnerKeepsObjects'
  <2>1. \A c \in Branches : ForkRefs(tdb'[c]) \subseteq ForkRefs(tdb[c])
    BY <1>4
  <2> QED
    BY ONLY ForkInv, <1>1, <1>5, <2>1, ZenonT(30) DEF ForkInv, Born, DoneIsGone, GCHolds, OwnerKeepsObjects
<1>8. NoObjectOrphaned'
  <2>1. \A x \in Objects \ {o} : Referring(x) => Referring(x)'
    BY <1>1, <1>2, <1>4 DEF Referring, ForkRefs
  <2> QED
    BY <1>1, <1>5, <2>1, ZenonT(30) DEF ForkInv, NoObjectOrphaned
<1> QED
  BY <1>0, <1>1, <1>2, <1>3, <1>4, <1>5, <1>6, <1>7, <1>8, ForkFileStep, ZenonT(30) DEF ForkInv, ForkTypeOK

-----------------------------------------------------------------------------
(* Crash and restart.                                                      *)

(* A crash loses the workers, the request and the GC worker, and no row.   *)
LEMMA ServerCrashStep ==
    ASSUME ForkInv, ServerCrash
    PROVE  ForkInv'
<1>1. /\ trow' = trow /\ tdb' = tdb /\ tup' = FALSE /\ tcreate' = None /\ tgc' = None
      /\ twork' = [f \in Forks |-> None] /\ tcrashes' = tcrashes + 1 /\ tcrashes < ForkMaxCrashes
      /\ UNCHANGED filesVars
  BY ZenonT(30) DEF ServerCrash
<1>2. KeptStays /\ tsrc' = tsrc /\ tobj' = tobj /\ tcand' = tcand /\ tlate' = tlate
  BY <1>1, FilesStay, ZenonT(30)
<1>3. ASSUME NEW g \in Forks PROVE RowHolds(g)' /\ WorkHolds(g)'
  BY <1>1, <1>2, RowStays, ZenonT(30) DEF ForkInv, WorkHolds
<1>4. tcrashes' \in 0..ForkMaxCrashes
  <2>1. tcrashes \in 0..ForkMaxCrashes
    BY ZenonT(30) DEF ForkInv, ForkTypeOK
  <2> QED
    BY <1>1, <2>1, ForkAssumption
<1>5. ForkTypeOK'
  BY <1>1, <1>2, <1>4, ZenonT(30) DEF ForkInv, ForkTypeOK
<1>6. CreateHolds' /\ GCHolds' /\ BranchesApart' /\ UnbornEmpty'
  BY <1>1, ZenonT(30) DEF ForkInv, CreateHolds, GCHolds, BranchesApart, UnbornEmpty
<1>7. Born' /\ DoneIsGone' /\ OwnerKeepsObjects' /\ NoObjectOrphaned'
  BY <1>1, <1>2, ZenonT(30) DEF ForkInv, Born, DoneIsGone, OwnerKeepsObjects, NoObjectOrphaned, Referring
<1> QED
  BY <1>2, <1>3, <1>5, <1>6, <1>7 DEF ForkInv

(* A restart gives every unfinished fork the worker for its status.        *)
LEMMA ServerStartStep ==
    ASSUME ForkInv, ServerStart
    PROVE  ForkInv'
<1>1. /\ trow' = trow /\ tdb' = tdb /\ tup' = TRUE /\ ~tup /\ tcreate' = tcreate /\ tgc' = tgc
      /\ tcrashes' = tcrashes /\ UNCHANGED filesVars
  BY DEF ServerStart
<1>2. KeptStays /\ tsrc' = tsrc /\ tobj' = tobj /\ tcand' = tcand /\ tlate' = tlate
  BY <1>1, FilesStay, ZenonT(30)
<1>3. ASSUME NEW g \in Forks
      PROVE  \/ twork'[g] = None
             \/ Status(g) = "provisioning" /\ twork'[g] = [kind |-> "provision", at |-> "start"]
             \/ Status(g) \in {"deleting", "failed"} /\ twork'[g] = [kind |-> "cleanup", at |-> "start"]
  BY DEF ServerStart
<1>4. twork' \in [Forks -> ForkWorker \cup {None}]
  <2>1. twork' = [f \in Forks |-> twork'[f]]
    BY ZenonT(30) DEF ServerStart
  <2> QED
    BY <1>3, <2>1, Starts, ZenonT(30)
<1>5. ASSUME NEW g \in Forks PROVE RowHolds(g)'
  BY <1>1, <1>2, RowStays, ZenonT(30) DEF ForkInv
<1>6. ASSUME NEW g \in Forks PROVE WorkHolds(g)'
  <2>1. CASE twork'[g] = None
    BY <2>1, ZenonT(30) DEF WorkHolds
  <2>2. CASE Status(g) = "provisioning" /\ twork'[g] = [kind |-> "provision", at |-> "start"]
    <3>1. trow[g] # None /\ trow[g].status = "provisioning"
      BY <2>2, ZenonT(30) DEF Status
    <3>2. twork'[g].kind = "provision" /\ twork'[g].at = "start"
      BY <2>2
    <3> QED
      BY <1>1, <3>1, <3>2 DEF WorkHolds, ProvisionHolds
  <2>3. CASE Status(g) \in {"deleting", "failed"} /\ twork'[g] = [kind |-> "cleanup", at |-> "start"]
    <3>1. trow[g] # None /\ trow[g].status \in {"deleting", "failed"}
      BY <2>3, ZenonT(30) DEF Status
    <3>2. twork'[g].kind = "cleanup" /\ twork'[g].at = "start"
      BY <2>3
    <3> QED
      BY <1>1, <3>1, <3>2, ZenonT(30) DEF WorkHolds, CleanupHolds
  <2> QED
    BY <1>3, <2>1, <2>2, <2>3
<1>7. ForkTypeOK'
  BY <1>1, <1>2, <1>4 DEF ForkInv, ForkTypeOK
<1>8. CreateHolds' /\ GCHolds' /\ BranchesApart' /\ UnbornEmpty'
  BY <1>1, <1>2 DEF ForkInv, CreateHolds, GCHolds, BranchesApart, UnbornEmpty
<1>9. Born' /\ DoneIsGone' /\ OwnerKeepsObjects' /\ NoObjectOrphaned'
  BY <1>1, <1>2 DEF ForkInv, Born, DoneIsGone, OwnerKeepsObjects, NoObjectOrphaned, Referring
<1> QED
  BY <1>2, <1>5, <1>6, <1>7, <1>8, <1>9 DEF ForkInv

-----------------------------------------------------------------------------
(* The invariant holds, and what follows from it.                          *)

(* Without forks and files the invariant holds.                            *)
LEMMA ForkInitInv == ForkInit => ForkInv
<1> SUFFICES ASSUME ForkInit PROVE ForkInv
  BY ZenonT(30)
<1>1. /\ NewDb \in Database /\ NewDb.st = "live" /\ NewDb.refs = {} /\ NewDb.tasks = {}
      /\ NoDb \in Database /\ NoDb.refs = {} /\ NoDb.tasks = {}
  BY ZenonT(30) DEF NewDb, NoDb, Database
<1>2. tcrashes \in 0..ForkMaxCrashes
  BY ForkAssumption DEF ForkInit
<1>3. ForkTypeOK
  BY <1>1, <1>2, ZenonT(30) DEF ForkInit, ForkTypeOK
<1>4. /\ \A f \in Forks : RowHolds(f) /\ WorkHolds(f)
      /\ CreateHolds /\ BranchesApart /\ GCHolds
  BY DEF ForkInit, RowHolds, WorkHolds, CreateHolds, BranchesApart, GCHolds
<1>5. UnbornEmpty /\ Born /\ DoneIsGone /\ OwnerKeepsObjects /\ NoObjectOrphaned
  BY <1>1, ZenonT(30) DEF ForkInit, UnbornEmpty, Born, DoneIsGone, OwnerKeepsObjects, NoObjectOrphaned, ForkRefs
<1> QED
  BY <1>1, <1>3, <1>4, <1>5 DEF ForkInv, ForkInit

(* Every step preserves the invariant.                                     *)
LEMMA ForkStep == ForkInv /\ [ForkNext]_forkVars => ForkInv'
<1> SUFFICES ASSUME ForkInv, [ForkNext]_forkVars PROVE ForkInv'
  BY ZenonT(30)
<1>1. ASSUME NEW f \in Forks,
             \/ CreateForkInsert(f) \/ ProvisionCheck(f) \/ EnsureForkBranchConnection(f)
             \/ ProvisionPrepare(f) \/ ProvisionActivate(f) \/ ProvisionError(f)
      PROVE  ForkInv'
  BY <1>1, CreateForkInsertStep, ProvisionCheckStep, EnsureForkBranchConnectionStep, ProvisionPrepareStep,
     ProvisionActivateStep, ProvisionErrorStep, ZenonT(30)
<1>2. ASSUME NEW f \in Forks,
             \/ DeleteFork(f) \/ CleanupDrain(f) \/ CleanupEnqueue(f)
             \/ CleanupDeleteBranch(f) \/ CleanupMark(f)
      PROVE  ForkInv'
  BY <1>2, DeleteForkStep, CleanupDrainStep, CleanupEnqueueStep, CleanupDeleteBranchStep, CleanupMarkStep
<1>3. ASSUME NEW f \in Forks, NEW o \in Objects, ForkWrites(f, o) \/ ForkDeletes(f, o) \/ ForkFileGC(f, o)
      PROVE  ForkInv'
  BY <1>3, ForkWritesStep, ForkDeletesStep, ForkFileGCStep, ZenonT(30)
<1>4. CASE CreateForkBranch \/ CreateForkKey \/ ServerCrash \/ ServerStart \/ GCDelete
  BY <1>4, CreateForkBranchStep, CreateForkKeyStep, ServerCrashStep, ServerStartStep, GCDeleteStep
<1>5. ASSUME NEW o \in Objects, SourceWrites(o) \/ SourceFileGC(o) PROVE ForkInv'
  BY <1>5, SourceWritesStep, SourceFileGCStep
<1>6. ASSUME NEW o \in Objects, SourceDeletes(o) PROVE ForkInv'
  <2>1. /\ o \in tsrc.refs /\ tsrc' = WithoutFile(tsrc, o)
        /\ UNCHANGED <<trow, tdb, tobj, tcand, tlate, tup, tcreate, twork, tgc, tcrashes>>
    BY <1>6 DEF SourceDeletes
  <2>2. /\ tsrc' \in Database /\ tsrc'.st = "live"
        /\ tsrc'.refs = tsrc.refs \ {o} /\ tsrc'.tasks = tsrc.tasks \cup {o}
    BY <2>1, ZenonT(30) DEF ForkInv, ForkTypeOK, Database, WithoutFile
  <2> QED
    BY <2>1, <2>2, SourceRefersStep
<1>7. CASE SourceUploads
  <2>1. /\ tsrc' = [tsrc EXCEPT !.uploading = ~tsrc.uploading]
        /\ UNCHANGED <<trow, tdb, tobj, tcand, tlate, tup, tcreate, twork, tgc, tcrashes>>
    BY <1>7, ZenonT(30) DEF SourceUploads
  <2>2. tsrc' \in Database /\ tsrc'.st = "live" /\ tsrc'.refs = tsrc.refs /\ tsrc'.tasks = tsrc.tasks
    BY <2>1, ZenonT(30) DEF ForkInv, ForkTypeOK, Database
  <2> QED
    BY <2>1, <2>2, SourceRefersStep, ZenonT(30)
<1>8. ASSUME NEW o \in Objects, GCCheckForks(o) PROVE ForkInv'
  <2>1. /\ tcand[o] = "pending" /\ tgc' = [obj |-> o, at |-> "unforked"]
        /\ UNCHANGED <<trow, tdb, filesVars, tup, tcreate, twork, tcrashes>>
    BY <1>8 DEF GCCheckForks
  <2>2. tgc'.obj = o /\ tgc'.at = "unforked" /\ tobj' = tobj /\ tobj[o] # "unborn"
    BY <2>1, ZenonT(30) DEF ForkInv, Born, filesVars
  <2> QED
    BY <2>1, <2>2, GCChecksStep DEF GCHolds
<1>9. CASE GCCheckReachable
  <2>1. /\ tgc # None /\ UNCHANGED <<trow, tdb, filesVars, tup, tcreate, twork, tcrashes>>
        /\ tgc' = IF Reachable(tgc.obj) THEN None ELSE [tgc EXCEPT !.at = "unreachable"]
    BY <1>9, ZenonT(30) DEF GCCheckReachable
  <2>2. /\ tgc \in [obj : Objects, at : {"unforked", "unreachable"}]
        /\ tobj[tgc.obj] # "unborn" /\ tobj' = tobj /\ tsrc' = tsrc
    BY <2>1 DEF ForkInv, ForkTypeOK, GCHolds, filesVars
  <2>3. CASE tgc' = None
    BY <2>1, <2>3, GCChecksStep, ZenonT(30) DEF GCHolds
  <2>4. CASE ~Reachable(tgc.obj) /\ tgc' = [tgc EXCEPT !.at = "unreachable"]
    <3>1. tgc' \in [obj : Objects, at : {"unforked", "unreachable"}] /\ tgc'.obj = tgc.obj /\ tgc.obj \notin tsrc.refs
      BY <2>2, <2>4, ZenonT(30) DEF Reachable
    <3> QED
      BY <2>1, <2>2, <3>1, GCChecksStep DEF GCHolds
  <2> QED
    BY <2>1, <2>3, <2>4
<1>10. CASE UNCHANGED forkVars
  <2>1. UNCHANGED <<trow, tdb, filesVars, tup, tcreate, twork, tcrashes>> /\ tgc' = tgc /\ tobj' = tobj /\ tsrc' = tsrc
    BY <1>10, ZenonT(30) DEF forkVars, filesVars
  <2> QED
    BY <2>1, GCChecksStep, ZenonT(30) DEF ForkInv, ForkTypeOK, GCHolds
<1> QED
  BY <1>1, <1>2, <1>3, <1>4, <1>5, <1>6, <1>7, <1>8, <1>9, <1>10 DEF ForkNext

(* The rows of forks agree with what exists: an active fork has its live   *)
(* branch and its connection, a deleted one has none left, no object a     *)
(* file of the owner refers to is deleted and no object is orphaned,       *)
(* through every failure and restart of creation and cleanup.              *)
THEOREM ForksStayConsistent == ForkSpec => []ForksConsistent
<1>1. ForkInv => ForksConsistent
  <2> SUFFICES ASSUME ForkInv PROVE RowMatchesCloud
    BY ZenonT(30) DEF ForkInv, ForksConsistent
  <2> SUFFICES ASSUME NEW f \in Forks
               PROVE  /\ Status(f) = "active" =>
                            trow[f].branch # None /\ trow[f].host = "branch" /\ ForkDb(f).st = "live"
                      /\ Status(f) = "deleted" => ForkDb(f).st = "gone"
    BY ZenonT(30) DEF RowMatchesCloud
  <2>1. RowHolds(f)
    BY ZenonT(30) DEF ForkInv
  <2> QED
    BY <2>1, ZenonT(30) DEF RowHolds, Status
<1> QED
  BY ForkInitInv, ForkStep, <1>1, PTL DEF ForkSpec

-----------------------------------------------------------------------------
(* What steps do to the status of a fork.                                  *)

(* A step that changes the status of one fork, and neither activates it    *)
(* nor brings it back.                                                     *)
LEMMA StatusChanges ==
    ASSUME NEW f \in Forks, \A g \in Forks \ {f} : trow'[g] = trow[g],
           trow'[f] = trow[f] \/ Status(f)' # "active",
           Status(f) = "deleting" => Status(f)' \in {"deleting", "deleted"},
           Status(f) = "deleted" => Status(f)' = "deleted"
    PROVE  ActivatesClean /\ KeepsDeletion
<1>1. ASSUME NEW g \in Forks, g # f PROVE Status(g)' = Status(g)
  BY <1>1, ZenonT(30) DEF Status
<1>2. trow'[f] = trow[f] => Status(f)' = Status(f)
  BY ZenonT(30) DEF Status
<1>3. ActivatesClean
  BY <1>1, <1>2 DEF ActivatesClean
<1>4. KeepsDeletion
  BY <1>1, ZenonT(30) DEF KeepsDeletion
<1> QED
  BY <1>3, <1>4, ZenonT(30)

(* A step that changes no row.                                             *)
LEMMA RowsUnchanged ==
    ASSUME trow' = trow
    PROVE  ActivatesClean /\ KeepsDeletion
<1>1. \A g \in Forks : Status(g)' = Status(g)
  BY ZenonT(30) DEF Status
<1> QED
  BY <1>1, ZenonT(30) DEF ActivatesClean, KeepsDeletion

(* A fork that is being provisioned may fail.                              *)
LEMMA MayFail ==
    ASSUME ForkInv, NEW f \in Forks, trow[f] # None, trow[f].status = "provisioning",
           NEW row \in ForkRow, row.status = "provisioning", MarkForkFailed(f, row)
    PROVE  ActivatesClean /\ KeepsDeletion
<1>1. /\ trow'[f] # None /\ trow'[f].status \in {"failed", "provisioning"}
      /\ \A g \in Forks \ {f} : trow'[g] = trow[g]
  BY StatusUpdate DEF ForkInv, MarkForkFailed
<1>2. Status(f) = "provisioning" /\ Status(f)' # "active"
  BY <1>1, ZenonT(30) DEF Status
<1> QED
  BY <1>1, <1>2, StatusChanges, ZenonT(30)

(* The row of a fork that is being provisioned gets its branch.            *)
LEMMA MayConnect ==
    ASSUME ForkInv, NEW f \in Forks, trow[f] # None, trow[f].status = "provisioning",
           NEW row \in ForkRow, row.status = "provisioning", trow' = [trow EXCEPT ![f] = row]
    PROVE  ActivatesClean /\ KeepsDeletion
<1>1. trow'[f] = row /\ row # None /\ \A g \in Forks \ {f} : trow'[g] = trow[g]
  BY ForkAssumption DEF ForkInv, ForkTypeOK
<1>2. Status(f) = "provisioning" /\ Status(f)' # "active"
  BY <1>1, ZenonT(30) DEF Status
<1> QED
  BY <1>1, <1>2, StatusChanges

(* No step of provisioning activates a fork with the source's work in it   *)
(* or brings one back.                                                     *)
LEMMA ProvisionSteps ==
    ASSUME ForkInv, NEW f \in Forks,
           \/ ProvisionCheck(f) \/ EnsureForkBranchConnection(f) \/ ProvisionPrepare(f)
           \/ ProvisionActivate(f) \/ ProvisionError(f)
    PROVE  ActivatesClean /\ KeepsDeletion
<1>1. twork[f] # None /\ twork[f].kind = "provision"
  BY ZenonT(30) DEF ProvisionCheck, EnsureForkBranchConnection, ProvisionPrepare, ProvisionActivate, ProvisionError, Working
<1>2. /\ trow[f] # None /\ trow[f] \in ForkRow /\ trow[f].status = "provisioning" /\ Status(f) = "provisioning"
      /\ ProvisionHolds(f)
  BY <1>1, WorkerFacts, ZenonT(30) DEF ProvisionHolds
<1>3. CASE trow' = trow
  BY <1>3, RowsUnchanged, ZenonT(30)
<1>4. CASE MarkForkFailedAndCleanup(f)
  BY <1>2, <1>4, MayFail, ZenonT(30) DEF MarkForkFailedAndCleanup
<1>5. CASE EnsureForkBranchConnection(f)
  <2>1. twork[f].row = trow[f] /\ UNCHANGED filesVars
    BY <1>2, <1>5 DEF EnsureForkBranchConnection, Working, ProvisionHolds
  <2>2. PICK row : row = [trow[f] EXCEPT !.branch = trow[f].branch, !.host = "branch"]
    BY ZenonT(30)
  <2>3. row \in ForkRow /\ row.status = "provisioning"
    BY <1>2, <2>2, ZenonT(30) DEF ForkRow
  <2>4. CASE trow[f].branch # None
    <3>1. trow' = trow \/ trow' = [trow EXCEPT ![f] = row]
      BY <1>5, <2>1, <2>2, <2>4 DEF EnsureForkBranchConnection
    <3> QED
      BY <1>2, <1>3, <2>3, <3>1, MayConnect, ZenonT(30)
  <2>5. CASE trow[f].branch = None
    <3>1. PICK r \in CreateBranchOk(f) \cup CreateBranchFails(f) : trow' = [trow EXCEPT ![f] = r.row] /\ tdb' = r.db
      BY <1>5, <2>1, <2>5, ZenonT(30) DEF EnsureForkBranchConnection
    <3>2. r.row \in ForkRow /\ r.row.status = "provisioning"
      BY <1>2, <2>1, <2>5, <3>1, BranchTried, ZenonT(30)
    <3> QED
      BY <1>2, <3>1, <3>2, MayConnect, ZenonT(30)
  <2> QED
    BY <2>4, <2>5, ZenonT(30)
<1>6. CASE ProvisionActivate(f)
  <2>1. /\ tdb[trow[f].branch].tasks = {} /\ ~tdb[trow[f].branch].uploading /\ tdb' = tdb
        /\ trow' = [trow EXCEPT ![f] = [trow[f] EXCEPT !.status = "active"]]
    BY <1>2, <1>6, ZenonT(30) DEF ProvisionActivate, Working, ProvisionHolds, ForkDb
  <2>2. /\ trow'[f].branch = trow[f].branch
        /\ \A g \in Forks \ {f} : trow'[g] = trow[g]
    <3>1. trow'[f] = [trow[f] EXCEPT !.status = "active"]
      BY <2>1, ZenonT(30) DEF ForkInv, ForkTypeOK
    <3>2. trow'[f].branch = trow[f].branch
      BY <1>2, <3>1, ZenonT(30) DEF ForkRow
    <3> QED
      BY <2>1, <3>2 DEF ForkInv, ForkTypeOK
  <2>3. ASSUME NEW g \in Forks, g # f PROVE Status(g)' = Status(g)
    BY <2>2, <2>3, ZenonT(30) DEF Status
  <2>4. ActivatesClean
    BY <2>1, <2>2, <2>3 DEF ActivatesClean
  <2>5. KeepsDeletion
    BY <1>2, <2>3, ZenonT(30) DEF KeepsDeletion
  <2> QED
    BY <2>4, <2>5
<1>7. CASE ProvisionCheck(f)
  BY <1>2, <1>3, <1>7, ZenonT(30) DEF ProvisionCheck
<1>8. CASE ProvisionPrepare(f)
  BY <1>3, <1>4, <1>8, ZenonT(30) DEF ProvisionPrepare
<1>9. CASE ProvisionError(f)
  BY <1>3, <1>4, <1>9, ZenonT(30) DEF ProvisionError
<1> QED
  BY <1>5, <1>6, <1>7, <1>8, <1>9

(* No step of creation, deletion and cleanup does.                         *)
LEMMA CreateAndDeleteSteps ==
    ASSUME ForkInv, NEW f \in Forks, CreateForkInsert(f) \/ DeleteFork(f) \/ CleanupMark(f)
    PROVE  ActivatesClean /\ KeepsDeletion
<1>1. CASE CreateForkInsert(f)
  <2>1. PICK row : row = [status |-> "provisioning", branch |-> None, host |-> "source"]
    BY ZenonT(30)
  <2>2. row \in ForkRow /\ row # None /\ row.status = "provisioning"
    BY <2>1, ForkAssumption DEF ForkRow
  <2>3. trow[f] = None /\ trow'[f] = row /\ \A g \in Forks \ {f} : trow'[g] = trow[g]
    BY <1>1, <2>1, ZenonT(30) DEF CreateForkInsert, ForkInv, ForkTypeOK
  <2>4. Status(f) = "none" /\ Status(f)' = "provisioning"
    BY <2>2, <2>3, ZenonT(30) DEF Status
  <2> QED
    BY <2>3, <2>4, StatusChanges
<1>2. CASE DeleteFork(f)
  <2>1. /\ trow[f] # None /\ trow[f].status = "active" /\ Status(f) = "active"
        /\ trow' = [trow EXCEPT ![f] = [trow[f] EXCEPT !.status = "deleting"]]
    BY <1>2, ZenonT(30) DEF DeleteFork, Status
  <2>2. trow[f] \in ForkRow
    BY <2>1, RowType, ZenonT(30) DEF ForkInv
  <2>3. PICK row : row = [trow[f] EXCEPT !.status = "deleting"]
    BY ZenonT(30)
  <2>4. row \in ForkRow /\ row # None /\ row.status = "deleting"
    BY <2>2, <2>3, ForkAssumption DEF ForkRow
  <2>5. trow'[f] = row /\ \A g \in Forks \ {f} : trow'[g] = trow[g]
    BY <2>1, <2>3 DEF ForkInv, ForkTypeOK
  <2>6. Status(f)' = "deleting"
    BY <2>4, <2>5, ZenonT(30) DEF Status
  <2> QED
    BY <2>1, <2>5, <2>6, StatusChanges, ZenonT(30)
<1>3. CASE CleanupMark(f)
  <2>1. /\ twork[f] # None /\ twork[f].kind = "cleanup" /\ UpdateTenantStatus(f, trow[f], "deleted")
    BY <1>3, ZenonT(30) DEF CleanupMark, Working
  <2>2. /\ trow[f] # None /\ trow[f] \in ForkRow /\ Status(f) = trow[f].status
        /\ trow[f].status \in {"provisioning", "failed", "deleting"}
    BY <2>1, WorkerFacts, ZenonT(30) DEF CleanupHolds
  <2>3. /\ trow'[f] # None /\ (trow'[f].status = "deleted" \/ trow'[f].status = trow[f].status)
        /\ \A g \in Forks \ {f} : trow'[g] = trow[g]
    BY <2>1, <2>2, StatusUpdate, ZenonT(30) DEF ForkInv
  <2>4. Status(f)' = trow'[f].status
    BY <2>3, ZenonT(30) DEF Status
  <2> QED
    BY <2>2, <2>3, <2>4, StatusChanges, ZenonT(30)
<1> QED
  BY <1>1, <1>2, <1>3, ZenonT(30)

(* The request that creates a fork does not either.                        *)
LEMMA CreateRequestSteps ==
    ASSUME ForkInv, CreateForkBranch \/ CreateForkKey
    PROVE  ActivatesClean /\ KeepsDeletion
<1>0. PICK f : f = tcreate.fork
  BY ZenonT(30)
<1>1. f \in Forks /\ trow[f] # None /\ trow[f].status = "provisioning" /\ trow[f] \in ForkRow
  BY <1>0, RowType, ZenonT(30) DEF CreateForkBranch, CreateForkKey, ForkInv, ForkTypeOK, CreateHolds
<1>2. CASE CreateForkKey
  <2>1. trow' = trow \/ MarkForkFailed(f, trow[f])
    BY <1>0, <1>2, ZenonT(30) DEF CreateForkKey
  <2> QED
    BY <1>1, <2>1, RowsUnchanged, MayFail, ZenonT(30)
<1>3. CASE CreateForkBranch
  <2>1. trow[f].branch = None /\ UNCHANGED filesVars
    BY <1>0, <1>3, ZenonT(30) DEF CreateForkBranch, ForkInv, CreateHolds
  <2>2. PICK r \in CreateBranchOk(f) \cup CreateBranchFails(f) :
           /\ tdb' = r.db
           /\ trow' = [trow EXCEPT ![f] = r.row] \/ MarkForkFailed(f, r.row)
    BY <1>0, <1>3, ZenonT(30) DEF CreateForkBranch
  <2>3. r.row \in ForkRow /\ r.row.status = "provisioning"
    BY <1>1, <2>1, <2>2, BranchTried, ZenonT(30)
  <2> QED
    BY <1>1, <2>2, <2>3, MayConnect, MayFail, ZenonT(30)
<1> QED
  BY <1>2, <1>3

(* No step, of whichever worker, request or restart, activates a fork with *)
(* an upload or a GC task of the source in it, and none takes a fork out   *)
(* of deletion.                                                            *)
THEOREM ForksStepRight == ForkSpec => ForkSteps
<1>1. ForkInv /\ [ForkNext]_forkVars => [ActivatesClean /\ KeepsDeletion]_forkVars
  <2> SUFFICES ASSUME ForkInv, ForkNext PROVE ActivatesClean /\ KeepsDeletion
    BY ZenonT(30)
  <2>1. ASSUME NEW f \in Forks,
               \/ CreateForkInsert(f) \/ ProvisionCheck(f) \/ EnsureForkBranchConnection(f) \/ ProvisionPrepare(f)
               \/ ProvisionActivate(f) \/ ProvisionError(f) \/ DeleteFork(f) \/ CleanupMark(f)
        PROVE  ActivatesClean /\ KeepsDeletion
    BY <2>1, ProvisionSteps, CreateAndDeleteSteps, ZenonT(30)
  <2>2. ASSUME NEW f \in Forks,
               \/ CleanupDrain(f) \/ CleanupEnqueue(f) \/ CleanupDeleteBranch(f)
               \/ \E o \in Objects : ForkWrites(f, o) \/ ForkDeletes(f, o) \/ ForkFileGC(f, o)
        PROVE  trow' = trow
    BY <2>2, ZenonT(30) DEF CleanupDrain, CleanupEnqueue, CleanupDeleteBranch, ForkWrites, ForkDeletes, ForkFileGC
  <2>3. ASSUME \/ ServerCrash \/ ServerStart \/ SourceUploads \/ GCCheckReachable \/ GCDelete
               \/ \E o \in Objects : SourceWrites(o) \/ SourceDeletes(o) \/ SourceFileGC(o) \/ GCCheckForks(o)
        PROVE  trow' = trow
    BY <2>3, ZenonT(30) DEF ServerCrash, ServerStart, SourceUploads, GCCheckReachable, GCDelete, SourceWrites, SourceDeletes,
                SourceFileGC, GCCheckForks
  <2> QED
    BY <2>1, <2>2, <2>3, CreateRequestSteps, RowsUnchanged DEF ForkNext
<1> QED
  BY ForkInitInv, ForkStep, <1>1, PTL DEF ForkSpec, ForkSteps
=============================================================================
