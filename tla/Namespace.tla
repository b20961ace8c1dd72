----------------------------- MODULE Namespace -----------------------------
(***************************************************************************)
(* The namespace of one tenant: the dentries in file_nodes, the file       *)
(* entities they link to (inodes and contents), the objects in S3, and     *)
(* the way an object leaves S3 again: file_gc_tasks for deleted files,     *)
(* object_gc_candidates, the object GC worker.                             *)
(*                                                                         *)
(* A transaction runs on TiDB, pessimistic, at snapshot isolation: a       *)
(* locking read sees the committed rows and locks those it finds, a plain  *)
(* read sees the rows of the start of the transaction, a row that does     *)
(* not exist cannot be locked.  A transaction that locks all it depends on *)
(* with its first statement is one action, the others are split where      *)
(* another transaction may come in between.  Directories are one level     *)
(* deep; the split tables are modelled, not the legacy files table.        *)
(***************************************************************************)
EXTENDS Integers, FiniteSets, Functions

CONSTANTS
    Paths,          \* file paths
    Dirs,           \* directories
    DirOf,          \* [Paths -> parent directory]
    Files,          \* file ids
    Refs,           \* S3 keys
    Clients,        \* request goroutines
    Apart,          \* pairs of operations that clients never run at the same time
    MaxRev,         \* bound on the revision of a file
    MaxFaults       \* bound on crashes and failed statements

AllOps == {"write", "blindWrite", "copy", "rename", "delete", "deleteDir", "deleteEmptyDir", "mkdir"}

ASSUME NamespaceAssumption ==
    /\ DirOf \in [Paths -> Dirs]
    /\ Apart \subseteq SUBSET AllOps
    /\ MaxRev \in Nat /\ MaxFaults \in Nat

VARIABLES
    node,        \* [Paths -> file id of the dentry]
    dirs,        \* the directories that have a dentry
    inode,       \* [Files -> status, storage_ref and revision]
    tasks,       \* [Files -> storage_ref of the queued file GC task]
    candidates,  \* object_gc_candidates
    blobs,       \* the objects in S3
    used,        \* the S3 keys handed out so far
    lock,        \* [Paths -> the client whose transaction locks the dentry]
    req,         \* [Clients -> local state of the request]
    gc,          \* the candidate the object GC worker found unreachable
    faults       \* number of faults so far

dentries == <<node, dirs, lock>>
objects == <<candidates, blobs, used>>
vars == <<dentries, inode, tasks, objects, req, gc, faults>>

None == "none"
Inline == "inline"
Done == "done"

Idle == [pc |-> "idle"]

Local(op, pc, p, f) ==
    [op |-> op, pc |-> pc, path |-> p, file |-> f, to |-> p, replaced |-> None, old |-> Inline,
     ref |-> Inline, rev |-> 0, links |-> 0, snap |-> {}]

Begin(c, r) == req' = [req EXCEPT ![c] = r]
Goto(c, pc) == req' = [req EXCEPT ![c].pc = pc]
Return(c) == req' = [req EXCEPT ![c] = Idle]
IsIdle(c) == req[c].pc = "idle"

Running == {c \in Clients : ~IsIdle(c)}
MayStart(c, op) == IsIdle(c) /\ \A other \in Running : {op, req[other].op} \notin Apart

Fault ==
    /\ faults < MaxFaults
    /\ faults' = faults + 1

Links(f) == {p \in Paths : node[p] = f}
Under(d) == {p \in Paths : DirOf[p] = d}
Confirmed == {f \in Files : inode[f].status = "CONFIRMED"}

\* The client of the lock may go on, or nobody holds it.
Free(p, c) == lock[p] \in {None, c}
Unlocked(c) == [p \in Paths |-> IF lock[p] = c THEN None ELSE lock[p]]

Init ==
    /\ node = [p \in Paths |-> None]
    /\ dirs = {}
    /\ inode = [f \in Files |-> [status |-> None, ref |-> Inline, rev |-> 0]]
    /\ tasks = [f \in Files |-> None]
    /\ candidates = {} /\ blobs = {} /\ used = {}
    /\ lock = [p \in Paths |-> None]
    /\ req = [c \in Clients |-> Idle]
    /\ gc = None
    /\ faults = 0

-----------------------------------------------------------------------------
(* Write: stat, put the object, commit, leave the old object to object GC *)

\* A file id of genID: no file has it, no request is about to use it.
Fresh == {f \in Files : inode[f].status = None /\ \A c \in Clients : IsIdle(c) \/ req[c].file # f}

\* A blind write has no expected revision, which rev = 0 stands for.
Write(c, p, op) ==
    /\ op \in {"write", "blindWrite"}
    /\ MayStart(c, op)
    /\ \/ /\ node[p] = None
          /\ \E f \in Fresh : Begin(c, Local(op, "putNew", p, f))
       \/ /\ node[p] # None
          /\ LET i == inode[node[p]] IN
             /\ i.rev < MaxRev
             /\ Begin(c, [Local(op, "put", p, node[p]) EXCEPT !.old = i.ref, !.rev = IF op = "write" THEN i.rev ELSE 0])
    /\ UNCHANGED <<dentries, inode, tasks, objects, gc, faults>>

\* Mutant: the S3 key is the path's, not the write's.
PutObjectByPath(c) ==
    /\ req[c].pc \in {"putNew", "put"}
    /\ LET next == IF req[c].pc = "put" THEN "overwrite" ELSE "create" IN
       \/ /\ Goto(c, next)
          /\ UNCHANGED <<blobs, used>>
       \/ \E r \in Refs :
             /\ blobs' = blobs \cup {r}
             /\ used' = used \cup {r}
             /\ req' = [req EXCEPT ![c].pc = next, ![c].ref = r]
    /\ UNCHANGED <<dentries, inode, tasks, candidates, gc, faults>>

\* Small contents stay in the database, larger ones go to a new S3 key.
PutObject(c) ==
    /\ req[c].pc \in {"putNew", "put"}
    /\ LET next == IF req[c].pc = "put" THEN "overwrite" ELSE "create" IN
       \/ /\ Goto(c, next)
          /\ UNCHANGED <<blobs, used>>
       \/ \E r \in Refs \ used :
             /\ blobs' = blobs \cup {r}
             /\ used' = used \cup {r}
             /\ req' = [req EXCEPT ![c].pc = next, ![c].ref = r]
    /\ UNCHANGED <<dentries, inode, tasks, candidates, gc, faults>>

createAndWrite(c) ==
    LET r == req[c] IN
    /\ r.pc = "create"
    /\ Free(r.path, c)
    /\ \/ /\ node[r.path] = None
          /\ inode' = [inode EXCEPT ![r.file] = [status |-> "CONFIRMED", ref |-> r.ref, rev |-> 1]]
          /\ node' = [node EXCEPT ![r.path] = r.file]
          /\ dirs' = dirs \cup {DirOf[r.path]}
          /\ Return(c)
          /\ UNCHANGED faults
       \/ /\ (node[r.path] # None /\ UNCHANGED faults) \/ Fault
          /\ Goto(c, "undo")
          /\ UNCHANGED <<node, dirs, inode>>
    /\ UNCHANGED <<lock, tasks, objects, gc>>

\* By file id: the path may have been moved or replaced since the stat.
CanUpdate(r) ==
    /\ inode[r.file].status = "CONFIRMED"
    /\ r.rev \in {0, inode[r.file].rev}

overwriteFile(c) ==
    LET r == req[c] IN
    /\ r.pc = "overwrite"
    /\ \/ /\ CanUpdate(r)
          /\ inode' = [inode EXCEPT ![r.file] = [@ EXCEPT !.ref = r.ref, !.rev = @ + 1]]
          /\ Goto(c, "candidate")
          /\ UNCHANGED faults
       \/ /\ (~CanUpdate(r) /\ UNCHANGED faults) \/ Fault
          /\ Goto(c, "undo")
          /\ UNCHANGED inode
    /\ UNCHANGED <<dentries, tasks, objects, gc>>

\* The old object is the one the stat saw.
deleteBlobIfS3(c) ==
    /\ req[c].pc = "candidate"
    /\ \/ /\ candidates' = candidates \cup ({req[c].old} \ {Inline, req[c].ref})
          /\ UNCHANGED faults
       \/ /\ req[c].old # Inline
          /\ Fault
          /\ UNCHANGED candidates
    /\ Return(c)
    /\ UNCHANGED <<dentries, inode, tasks, blobs, used, gc>>

\* The object of a write that failed is deleted at once.
deleteBlob(c) ==
    /\ req[c].pc = "undo"
    /\ \/ /\ blobs' = blobs \ {req[c].ref}
          /\ UNCHANGED faults
       \/ /\ req[c].ref # Inline
          /\ Fault
          /\ UNCHANGED blobs
    /\ Return(c)
    /\ UNCHANGED <<dentries, inode, tasks, candidates, used, gc>>

-----------------------------------------------------------------------------
(* Copy: a second dentry for the same file *)

\* GetNode and EnsureParentDirs, a transaction of its own.
CopyFile(c, p, q) ==
    /\ MayStart(c, "copy")
    /\ node[p] # None
    /\ dirs' = dirs \cup {DirOf[q]}
    /\ Begin(c, [Local("copy", "attach", p, node[p]) EXCEPT !.to = q])
    /\ UNCHANGED <<node, lock, inode, tasks, objects, gc, faults>>

\* lockConfirmedFileForAttachTx locks the inode before the dentry goes in.
InsertNode(c) ==
    LET r == req[c] IN
    /\ r.pc = "attach"
    /\ Free(r.to, c)
    /\ node' = IF inode[r.file].status = "CONFIRMED" /\ node[r.to] = None
               THEN [node EXCEPT ![r.to] = r.file] ELSE node
    /\ Return(c)
    /\ UNCHANGED <<dirs, lock, inode, tasks, objects, gc, faults>>

-----------------------------------------------------------------------------
(* Delete *)

\* A task of the file that is already there wins.
Enqueued(f, ref) == [tasks EXCEPT ![f] = IF @ = None THEN ref ELSE @]

\* Mutant: the count of links is not a locking read.
DeleteFileUnlocked(c, p) ==
    LET f == node[p] IN
    /\ MayStart(c, "delete")
    /\ f # None
    /\ node' = [node EXCEPT ![p] = None]
    /\ IF Links(f) = {p}
       THEN /\ inode' = [inode EXCEPT ![f].status = "DELETED"]
            /\ tasks' = Enqueued(f, inode[f].ref)
       ELSE UNCHANGED <<inode, tasks>>
    /\ UNCHANGED <<dirs, lock, objects, req, gc, faults>>

\* The first statement locks dentry and inode; the count locks the other links.
DeleteFileWithRefCheck(c, p) ==
    LET f == node[p] IN
    /\ MayStart(c, "delete")
    /\ f # None
    /\ \A q \in Links(f) : Free(q, c)
    /\ node' = [node EXCEPT ![p] = None]
    /\ IF Links(f) = {p}
       THEN /\ inode' = [inode EXCEPT ![f].status = "DELETED"]
            /\ tasks' = Enqueued(f, inode[f].ref)
       ELSE UNCHANGED <<inode, tasks>>
    /\ UNCHANGED <<dirs, lock, objects, req, gc, faults>>

\* rm -r: the files of the directory, as of the start of the transaction.
DeleteDirRecursive(c, d) ==
    /\ MayStart(c, "deleteDir")
    /\ d \in dirs
    /\ \E p \in Under(d) :
          Begin(c, [Local("deleteDir", "deleteNodes", p, None)
                       EXCEPT !.snap = {[path |-> q, file |-> node[q], ref |-> inode[node[q]].ref] :
                                           q \in {x \in Paths : node[x] # None}}])
    /\ UNCHANGED <<dentries, inode, tasks, objects, gc, faults>>

\* The files the transaction finds without a link: it sees the dentries of
\* its snapshot but for those it has deleted itself.
scanOrphanedFiles(d, snap) ==
    {s.file : s \in {t \in snap : DirOf[t.path] = d}}
        \ {s.file : s \in {t \in snap : DirOf[t.path] # d \/ node[t.path] # t.file}}

\* It locks the inodes, deletes the dentries that are there by now, and marks
\* the files it finds without a link.
deleteNodes(c) ==
    LET snap == req[c].snap
        d == DirOf[req[c].path]
        orphaned == scanOrphanedFiles(d, snap)
    IN
    /\ req[c].pc = "deleteNodes"
    /\ \A p \in Under(d) : Free(p, c)
    /\ node' = [p \in Paths |-> IF p \in Under(d) THEN None ELSE node[p]]
    /\ dirs' = dirs \ {d}
    /\ inode' = [f \in Files |-> IF f \in orphaned THEN [inode[f] EXCEPT !.status = "DELETED"] ELSE inode[f]]
    /\ tasks' = [f \in Files |-> IF f \in orphaned /\ tasks[f] = None
                                 THEN (CHOOSE s \in snap : s.file = f).ref ELSE tasks[f]]
    /\ Return(c)
    /\ UNCHANGED <<lock, objects, gc, faults>>

-----------------------------------------------------------------------------
(* Rename, replacing the target *)

RenameFile(c, p, q) ==
    /\ MayStart(c, "rename")
    /\ p # q
    /\ node[p] # None
    /\ dirs' = dirs \cup {DirOf[q]}
    /\ Begin(c, [Local("rename", "renameLock", p, None) EXCEPT !.to = q])
    /\ UNCHANGED <<node, lock, inode, tasks, objects, gc, faults>>

Moved(r) == [node EXCEPT ![r.path] = None, ![r.to] = node[r.path]]

\* Both dentries are locked; without a target the rename commits here.
renameLock(c) ==
    LET r == req[c] IN
    /\ r.pc = "renameLock"
    /\ Free(r.path, c) /\ Free(r.to, c)
    /\ \/ /\ node[r.path] = None
          /\ Return(c)
          /\ UNCHANGED <<node, lock>>
       \/ /\ node[r.path] # None /\ node[r.to] = None
          /\ node' = Moved(r)
          /\ Return(c)
          /\ UNCHANGED lock
       \/ /\ node[r.path] # None /\ node[r.to] # None
          /\ lock' = [lock EXCEPT ![r.path] = c, ![r.to] = c]
          /\ req' = [req EXCEPT ![c] = [@ EXCEPT !.pc = "renameCount", !.replaced = node[r.to],
                                                 !.old = inode[node[r.to]].ref]]
          /\ UNCHANGED node
    /\ UNCHANGED <<dirs, inode, tasks, objects, gc, faults>>

\* SELECT COUNT(*) ... FOR UPDATE locks the links it finds, not the inode.
renameCount(c) ==
    LET others == Links(req[c].replaced) \ {req[c].to} IN
    /\ req[c].pc = "renameCount"
    /\ \A p \in others : Free(p, c)
    /\ lock' = [p \in Paths |-> IF p \in others THEN c ELSE lock[p]]
    /\ req' = [req EXCEPT ![c].pc = "renameCommit", ![c].links = Cardinality(others)]
    /\ UNCHANGED <<node, dirs, inode, tasks, objects, gc, faults>>

renameCommit(c) ==
    LET r == req[c] IN
    /\ r.pc = "renameCommit"
    /\ node' = Moved(r)
    /\ IF r.links = 0
       THEN /\ inode' = [inode EXCEPT ![r.replaced].status = "DELETED"]
            /\ tasks' = Enqueued(r.replaced, r.old)
       ELSE UNCHANGED <<inode, tasks>>
    /\ lock' = Unlocked(c)
    /\ Return(c)
    /\ UNCHANGED <<dirs, objects, gc, faults>>

-----------------------------------------------------------------------------
(* Directories *)

Mkdir(c, d) ==
    /\ MayStart(c, "mkdir")
    /\ d \notin dirs
    /\ dirs' = dirs \cup {d}
    /\ UNCHANGED <<node, lock, inode, tasks, objects, req, gc, faults>>

\* dirHasChildrenTx finds no row, so there is none to lock.
DeleteEmptyDir(c, d) ==
    /\ MayStart(c, "deleteEmptyDir")
    /\ d \in dirs
    /\ \A p \in Under(d) : node[p] = None
    /\ \E p \in Under(d) : Begin(c, Local("deleteEmptyDir", "deleteDentry", p, None))
    /\ UNCHANGED <<dentries, inode, tasks, objects, gc, faults>>

deleteDentry(c) ==
    /\ req[c].pc = "deleteDentry"
    /\ dirs' = dirs \ {DirOf[req[c].path]}
    /\ Return(c)
    /\ UNCHANGED <<node, lock, inode, tasks, objects, gc, faults>>

-----------------------------------------------------------------------------
(* Garbage collection *)

\* The file GC worker; its leases are the subject of module FileGC.
processFileGCTask(f) ==
    /\ tasks[f] \notin {None, Done}
    /\ candidates' = candidates \cup ({tasks[f]} \ {Inline})
    /\ tasks' = [tasks EXCEPT ![f] = Done]
    /\ UNCHANGED <<dentries, inode, blobs, used, req, gc, faults>>

HasConfirmedS3StorageRef(r) == \E f \in Confirmed : inode[f].ref = r

\* A candidate that is still reachable is postponed.
processCandidate(r) ==
    /\ gc = None
    /\ r \in candidates
    /\ ~HasConfirmedS3StorageRef(r)
    /\ gc' = r
    /\ UNCHANGED <<dentries, inode, tasks, objects, req, faults>>

DeleteS3ObjectForGC ==
    /\ gc # None
    /\ blobs' = blobs \ {gc}
    /\ candidates' = candidates \ {gc}
    /\ gc' = None
    /\ UNCHANGED <<dentries, inode, tasks, used, req, faults>>

-----------------------------------------------------------------------------
(* The specification *)

\* The process of a request dies, or two renames wait for each other's links and
\* the database picks this one: the open transaction is rolled back.
Crash(c) ==
    /\ ~IsIdle(c)
    /\ Fault
    /\ lock' = Unlocked(c)
    /\ Return(c)
    /\ UNCHANGED <<node, dirs, inode, tasks, objects, gc>>

Request(c) ==
    \/ \E p \in Paths, op \in AllOps : Write(c, p, op)
    \/ \E p \in Paths : DeleteFileWithRefCheck(c, p)
    \/ \E p, q \in Paths : CopyFile(c, p, q) \/ RenameFile(c, p, q)
    \/ \E d \in Dirs : DeleteDirRecursive(c, d) \/ Mkdir(c, d) \/ DeleteEmptyDir(c, d)

Step(c) ==
    \/ PutObject(c) \/ createAndWrite(c) \/ overwriteFile(c) \/ deleteBlobIfS3(c) \/ deleteBlob(c)
    \/ InsertNode(c) \/ deleteNodes(c) \/ deleteDentry(c)
    \/ renameLock(c) \/ renameCount(c) \/ renameCommit(c)

Collect ==
    \/ \E f \in Files : processFileGCTask(f)
    \/ \E r \in Refs : processCandidate(r)
    \/ DeleteS3ObjectForGC

Next ==
    \/ \E c \in Clients : Request(c) \/ Step(c) \/ Crash(c)
    \/ Collect

Spec == Init /\ [][Next]_vars

-----------------------------------------------------------------------------
(* Properties *)

\* Dentries, inodes, garbage-collection rows, locks and objects keep their types, and only
\* references that were handed out have objects.
TypeOK ==
    /\ node \in [Paths -> Files \cup {None}]
    /\ dirs \subseteq Dirs
    /\ inode \in [Files -> [status : {None, "CONFIRMED", "DELETED"}, ref : Refs \cup {Inline}, rev : 0..MaxRev]]
    /\ tasks \in [Files -> Refs \cup {Inline, None, Done}]
    /\ candidates \subseteq Refs
    /\ blobs \subseteq used
    /\ used \subseteq Refs
    /\ lock \in [Paths -> Clients \cup {None}]
    /\ gc \in Refs \cup {None}
    /\ faults \in 0..MaxFaults

\* "the file entity is only removed when no paths reference it": every dentry
\* leads to a confirmed file, whatever deletes, renames and copies run at once.
NodeHasLiveFile == \A p \in Paths : node[p] # None => node[p] \in Confirmed

\* The FOR UPDATE of the delete path "serializes concurrent deletions": no
\* file that lost its last dentry stays confirmed.
NoOrphanFile == \A f \in Confirmed : Links(f) # {}

\* No cleanup and no garbage collection removes the object of a confirmed file.
ConfirmedHasObject == \A f \in Confirmed : inode[f].ref # Inline => inode[f].ref \in blobs

\* While nothing fails, an object that no confirmed file refers to is known
\* to some garbage collector or in the hands of a request.
NoOrphanObject ==
    \A r \in blobs :
        \/ HasConfirmedS3StorageRef(r)
        \/ r \in candidates
        \/ \E f \in Files : tasks[f] = r
        \/ \E c \in Clients : ~IsIdle(c) /\ r \in {req[c].ref, req[c].old}
        \/ faults > 0

\* "Write to a path auto-creates parent directories": the directory of a
\* dentry has a dentry.
ParentExists == \A p \in Paths : node[p] # None => DirOf[p] \in dirs

\* The tree is whole between transactions: every dentry has a live inode, every
\* live inode has a dentry, and every path has the directories above it.
TreeWhole == NodeHasLiveFile /\ NoOrphanFile /\ ParentExists

\* Objects and rows account for each other: what a confirmed inode refers to is
\* stored, and no object is left that nothing will ever delete.
ObjectsAccounted == ConfirmedHasObject /\ NoOrphanObject
=============================================================================
