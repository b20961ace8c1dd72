---------------------------- MODULE SplitTables ----------------------------
(* The online migration of a tenant database from the legacy `files` table   *)
(* to `inodes`, `contents` and `semantic` (pkg/migrate), run by every server *)
(* that opens the tenant, while servers that have finished it already serve  *)
(* requests and write both layouts (pkg/datastore).  A statement is a step,  *)
(* a transaction is a step, and a server may fail between any two of them.   *)
EXTENDS Common, Naturals, FiniteSets

CONSTANTS
    LegacyFiles,     \* file ids
    LegacyDirs,      \* paths of directories
    Migrators,       \* server processes
    SplitMaxRev      \* bound on the revision of a file

VARIABLES
    splitSchema,     \* the split tables exist
    files,           \* the rows of the legacy table: None, or status, revision, hash, description_embedding_revision
    inodes,          \* the rows of inodes, of files: None, or status, revision, mode
    contents,        \* the rows of contents: None, or the revision the bytes are of, hash
    semantic,        \* the rows of semantic: None, or the revisions its description
                     \* embedding and its extracted text are of (0: none)
    shared,          \* the rows of the shared tables about a file: none, linked ("own"), or
                     \* inode_id NULL, written by the old binary or by the new one
    dnode,           \* directories: "absent", "null" (inode_id is NULL), or linked to the id
                     \* of the dentry ("node") or to one of its own ("inode")
    dinodes,         \* the inodes rows of directories, by id
    mstep,           \* what a server is about to do
    mtask,           \* the file and revision a serving server works on between two statements
    chmodded         \* the mode the last successful chmod of a file asked for

splitVars == <<splitSchema, files, inodes, contents, semantic, shared, dnode, dinodes, mstep, mtask, chmodded>>

rowVars == <<splitSchema, files, inodes, contents, semantic, shared, dnode, dinodes, chmodded>>

FileStatus == {"PENDING", "CONFIRMED", "DELETED"}
Modes == {"0644", "0600"}

\* The dentries, and the three other tables the backfill updates in turn:
\* file_tags, uploads and file_gc_tasks.
SharedTables == {"file_nodes", "others"}

\* The steps of an opening server, in the order Run takes them.
NextStep == [detect |-> "tables", tables |-> "check1", check1 |-> "check2", check2 |-> "check3",
             check3 |-> "check4", check4 |-> "check5", check5 |-> "serving",
             inodes |-> "contents", contents |-> "semantic", semantic |-> "dirs",
             dirs |-> "link", link |-> "file_nodes", file_nodes |-> "others", others |-> "serving"]

SplitTypeOK ==
    /\ splitSchema \in BOOLEAN
    /\ \A f \in LegacyFiles :
        /\ files[f] = None \/ files[f] \in [st : FileStatus, rev : 1..SplitMaxRev, hash : BOOLEAN, emb : 0..SplitMaxRev]
        /\ inodes[f] = None \/ inodes[f] \in [st : FileStatus, rev : 1..SplitMaxRev, mode : Modes]
        /\ contents[f] = None \/ contents[f] \in [rev : 1..SplitMaxRev, hash : BOOLEAN]
        /\ semantic[f] = None \/ semantic[f] \in [emb : 0..SplitMaxRev, text : 0..SplitMaxRev]
    /\ shared \in [SharedTables -> [LegacyFiles -> {"none", "old", "new", "own"}]]
    /\ dnode \in [LegacyDirs -> {"absent", "null", "node", "inode"}]
    /\ dinodes \subseteq LegacyDirs \X {"node", "inode"}
    /\ mstep \in [Migrators -> DOMAIN NextStep \cup {"closed", "serving"}]
    /\ \A s \in Migrators : mtask[s] = None \/ mtask[s] \in [op : {"delete", "embed", "embed2", "text"}, f : LegacyFiles, rev : 0..SplitMaxRev]
    /\ chmodded \in [LegacyFiles -> Modes]

\* What a binary from before the split left behind: rows of `files` only, some
\* from before storage_ref_hash existed, and dentries without inode_id.
LegacyRow == [st : {"PENDING", "DELETED"}, rev : {1}, hash : {TRUE}, emb : {0}]
             \cup [st : {"CONFIRMED"}, rev : {1}, hash : BOOLEAN, emb : {0, 1}]

SplitInit ==
    /\ splitSchema = FALSE
    /\ files \in [LegacyFiles -> LegacyRow \cup {None}]
    /\ inodes = [f \in LegacyFiles |-> None] /\ contents = inodes /\ semantic = inodes
    /\ shared = [t \in SharedTables |-> [f \in LegacyFiles |->
                    IF files[f] = None \/ (t = "file_nodes" /\ files[f].st # "CONFIRMED") THEN "none" ELSE "old"]]
    /\ dnode \in [LegacyDirs -> {"absent", "null"}] /\ dinodes = {}
    /\ mstep = [s \in Migrators |-> "closed"]
    /\ mtask = [s \in Migrators |-> None]
    /\ chmodded = [f \in LegacyFiles |-> "0644"]

Step(s, to) == mstep' = [mstep EXCEPT ![s] = to] /\ UNCHANGED mtask

\* datastore.Open sees the files table, so the pool runs the migration before
\* it hands the backend out.
detectLegacyFiles(s) ==
    /\ mstep[s] = "closed" /\ Step(s, "detect") /\ UNCHANGED rowVars

\* The schema step of createBackend comes before the migration; it is skipped
\* by configuration, and then the tables may still be missing.
EnsureSplitSchema(s) ==
    /\ mstep[s] = "detect" /\ Step(s, "tables")
    /\ splitSchema' \in {splitSchema, TRUE}
    /\ UNCHANGED <<files, inodes, contents, semantic, shared, dnode, dinodes, chmodded>>

requiredTablesExist(s) ==
    /\ mstep[s] = "tables"
    /\ Step(s, IF splitSchema THEN "check1" ELSE "closed")
    /\ UNCHANGED rowVars

\* A statement of the migration fails, or the server dies: the open fails and
\* the next request opens the tenant again.
OpenFails(s) ==
    /\ mstep[s] # "closed"
    /\ mstep' = [mstep EXCEPT ![s] = "closed"] /\ mtask' = [mtask EXCEPT ![s] = None]
    /\ UNCHANGED rowVars

Live == {f \in LegacyFiles : files[f] # None /\ files[f].st # "DELETED"}

isMigrationComplete(k) ==
    CASE k = "check1" -> \A f \in Live : inodes[f] # None
      [] k = "check2" -> \A f \in Live : contents[f] # None
      [] k = "check3" -> \A f \in Live : semantic[f] # None
      [] k = "check4" -> \A d \in LegacyDirs : dnode[d] # "null"
      [] k = "check5" -> \A t \in SharedTables, f \in LegacyFiles : shared[t][f] \in {"none", "own"}

\* The five counts of isMigrationComplete are five queries; the first one that
\* finds work starts the migration, and passing all of them serves at once.
Run(s) ==
    /\ mstep[s] \in {"check1", "check2", "check3", "check4", "check5"}
    /\ Step(s, IF isMigrationComplete(mstep[s]) THEN NextStep[mstep[s]] ELSE "inodes")
    /\ UNCHANGED rowVars

\* INSERT IGNORE ... SELECT: the rows that exist are left alone.
insertIgnore(table, new) ==
    [f \in LegacyFiles |-> IF table[f] = None /\ f \in Live THEN new[f] ELSE table[f]]

migrateInodes(s) ==
    /\ mstep[s] = "inodes" /\ Step(s, NextStep["inodes"])
    /\ inodes' = insertIgnore(inodes, [f \in LegacyFiles |->
                    IF files[f] = None THEN None ELSE [st |-> files[f].st, rev |-> files[f].rev, mode |-> "0644"]])
    /\ UNCHANGED <<splitSchema, files, contents, semantic, shared, dnode, dinodes, chmodded>>

\* An empty legacy hash is computed on the way.
migrateContents(s) ==
    /\ mstep[s] = "contents" /\ Step(s, NextStep["contents"])
    /\ contents' = insertIgnore(contents, [f \in LegacyFiles |->
                    IF files[f] = None THEN None ELSE [rev |-> files[f].rev, hash |-> TRUE]])
    /\ UNCHANGED <<splitSchema, files, inodes, semantic, shared, dnode, dinodes, chmodded>>

migrateSemantic(s) ==
    /\ mstep[s] = "semantic" /\ Step(s, NextStep["semantic"])
    /\ semantic' = insertIgnore(semantic, [f \in LegacyFiles |->
                    IF files[f] = None THEN None ELSE [emb |-> files[f].emb, text |-> files[f].rev]])
    /\ UNCHANGED <<splitSchema, files, inodes, contents, shared, dnode, dinodes, chmodded>>

\* Every directory gets an inode under the id of its dentry, then the dentries
\* that have none are linked to it: two statements.
createDirInodes(s) ==
    \/ /\ mstep[s] = "dirs" /\ Step(s, NextStep["dirs"])
       /\ dinodes' = dinodes \cup {<<d, "node">> : d \in {e \in LegacyDirs : dnode[e] # "absent"}}
       /\ UNCHANGED <<splitSchema, files, inodes, contents, semantic, shared, dnode, chmodded>>
    \/ /\ mstep[s] = "link" /\ Step(s, NextStep["link"])
       /\ dnode' = [d \in LegacyDirs |-> IF dnode[d] = "null" THEN "node" ELSE dnode[d]]
       /\ UNCHANGED <<splitSchema, files, inodes, contents, semantic, shared, dinodes, chmodded>>

backfillSharedInodeID(s) ==
    /\ mstep[s] \in SharedTables /\ Step(s, NextStep[mstep[s]])
    /\ shared' = [shared EXCEPT ![mstep[s]] = [f \in LegacyFiles |-> IF @[f] = "none" THEN "none" ELSE "own"]]
    /\ UNCHANGED <<splitSchema, files, inodes, contents, semantic, dnode, dinodes, chmodded>>

(***************************************************************************)
(* The writers of a server that serves the tenant.  They keep both layouts. *)
(***************************************************************************)
Serving == \E s \in Migrators : mstep[s] = "serving"

insertSplitTablesTx(f, st) ==
    /\ inodes' = [inodes EXCEPT ![f] = [st |-> st, rev |-> 1, mode |-> "0644"]]
    /\ contents' = [contents EXCEPT ![f] = [rev |-> 1, hash |-> TRUE]]
    /\ semantic' = [semantic EXCEPT ![f] = [emb |-> 0, text |-> 0]]

\* A new file: confirmed by a small write, with its dentry, or pending, with
\* its upload.  The shared rows are inserted without inode_id.
InsertFileTx(f, st) ==
    /\ Serving /\ files[f] = None /\ inodes[f] = None /\ contents[f] = None /\ semantic[f] = None
    /\ files' = [files EXCEPT ![f] = [st |-> st, rev |-> 1, hash |-> TRUE, emb |-> 0]]
    /\ insertSplitTablesTx(f, st)
    /\ shared' = [shared EXCEPT !["file_nodes"][f] = IF st = "CONFIRMED" THEN "new" ELSE "none",
                                !["others"][f] = IF st = "PENDING" THEN "new" ELSE "none"]
    /\ UNCHANGED <<splitSchema, dnode, dinodes, mstep, mtask, chmodded>>

\* An overwrite, with or without an expected revision.  Without a contents row
\* it fails and rolls back.  The legacy row keeps its description embedding when
\* the overwrite brings no new description; the semantic row drops it.
updateFileContentTx(f, expected) ==
    /\ Serving /\ files[f] # None /\ files[f].rev < SplitMaxRev /\ shared["file_nodes"][f] # "none"
    /\ expected > 0 => files[f].rev = expected /\ files[f].st = "CONFIRMED"
    /\ inodes[f] # None /\ contents[f] # None
    /\ \E emb \in {0, files[f].emb} :
        files' = [files EXCEPT ![f] = [st |-> "CONFIRMED", rev |-> @.rev + 1, hash |-> TRUE, emb |-> emb]]
    /\ inodes' = [inodes EXCEPT ![f].rev = files[f].rev + 1, ![f].st = "CONFIRMED"]
    /\ contents' = [contents EXCEPT ![f] = [rev |-> files[f].rev + 1, hash |-> TRUE]]
    /\ semantic' = [semantic EXCEPT ![f] = IF @ = None THEN None ELSE [emb |-> 0, text |-> 0]]
    /\ shared' = [shared EXCEPT !["others"][f] = "new"]
    /\ UNCHANGED <<splitSchema, dnode, dinodes, mstep, mtask, chmodded>>

\* The completion of an upload: the pending rows are confirmed and the dentry
\* is attached.
confirmPending(f) ==
    /\ Serving /\ files[f] # None /\ files[f].st = "PENDING" /\ inodes[f] # None
    /\ files' = [files EXCEPT ![f].st = "CONFIRMED", ![f].hash = TRUE]
    /\ inodes' = [inodes EXCEPT ![f].st = "CONFIRMED", ![f].rev = 1]
    /\ contents' = [contents EXCEPT ![f] = IF @ = None THEN None ELSE [rev |-> 1, hash |-> TRUE]]
    /\ shared' = [shared EXCEPT !["file_nodes"][f] = "new"]
    /\ UNCHANGED <<splitSchema, dnode, dinodes, mstep, mtask, chmodded>>

ConfirmPendingFileTx(f) ==
    /\ confirmPending(f)
    /\ semantic' = [semantic EXCEPT ![f] = IF @ = None THEN None ELSE [emb |-> 0, text |-> 0]]

\* Where the database computes the embeddings, they are left alone.
ConfirmPendingFileAutoEmbeddingTx(f) == confirmPending(f) /\ UNCHANGED semantic

DeletePendingFileTx(f) ==
    /\ Serving /\ files[f] # None /\ files[f].st = "PENDING" /\ inodes[f] # None /\ inodes[f].st = "PENDING"
    /\ files' = [files EXCEPT ![f].st = "DELETED", ![f].hash = FALSE]
    /\ inodes' = [inodes EXCEPT ![f].st = "DELETED"]
    /\ contents' = [contents EXCEPT ![f] = IF @ = None THEN None ELSE [@ EXCEPT !.hash = FALSE]]
    /\ UNCHANGED <<splitSchema, semantic, shared, dnode, dinodes, mstep, mtask, chmodded>>

\* Mutant: the delete reaches the legacy row alone.
markLegacyDeleted(f) ==
    /\ Serving /\ files[f] # None /\ files[f].st = "CONFIRMED" /\ inodes[f] # None
    /\ files' = [files EXCEPT ![f].st = "DELETED"]
    /\ shared' = [shared EXCEPT !["file_nodes"][f] = "none", !["others"][f] = "new"]
    /\ UNCHANGED <<splitSchema, inodes, contents, semantic, dnode, dinodes, mstep, mtask, chmodded>>

\* A delete of a confirmed file: its dentry goes and a GC task comes.
markFilesDeletedTx(f) ==
    /\ Serving /\ files[f] # None /\ files[f].st = "CONFIRMED" /\ inodes[f] # None
    /\ files' = [files EXCEPT ![f].st = "DELETED"]
    /\ inodes' = [inodes EXCEPT ![f].st = "DELETED"]
    /\ shared' = [shared EXCEPT !["file_nodes"][f] = "none", !["others"][f] = "new"]
    /\ UNCHANGED <<splitSchema, contents, semantic, dnode, dinodes, mstep, mtask, chmodded>>

\* An aborted upload gives its pending file up outside a transaction: the
\* legacy row first, the inode second.
MarkFileDeleted(s) ==
    \/ /\ mstep[s] = "serving" /\ mtask[s] = None
       /\ \E f \in LegacyFiles :
            /\ files[f] # None /\ files[f].st = "PENDING"
            /\ files' = [files EXCEPT ![f].st = "DELETED"]
            /\ mtask' = [mtask EXCEPT ![s] = [op |-> "delete", f |-> f, rev |-> 0]]
       /\ UNCHANGED <<splitSchema, inodes, contents, semantic, shared, dnode, dinodes, mstep, chmodded>>
    \/ /\ mtask[s] # None /\ mtask[s].op = "delete"
       /\ inodes' = [inodes EXCEPT ![mtask[s].f] = IF @ = None THEN None ELSE [@ EXCEPT !.st = "DELETED"]]
       /\ mtask' = [mtask EXCEPT ![s] = None]
       /\ UNCHANGED <<splitSchema, files, contents, semantic, shared, dnode, dinodes, mstep, chmodded>>

\* A worker computes the description embedding, or extracts the text, of the
\* revision it has read.  The embedding goes to each layout in a statement of
\* its own.
ClaimRevision(s, f, op) ==
    /\ mstep[s] = "serving" /\ mtask[s] = None /\ inodes[f] # None /\ inodes[f].st = "CONFIRMED"
    /\ mtask' = [mtask EXCEPT ![s] = [op |-> op, f |-> f, rev |-> inodes[f].rev]]
    /\ UNCHANGED <<rowVars, mstep>>

InodeHasRevision(f, rev) == inodes[f] # None /\ inodes[f].st = "CONFIRMED" /\ inodes[f].rev = rev

UpdateFileDescriptionEmbedding(s) ==
    LET t == mtask[s] IN
    \/ /\ t # None /\ t.op = "embed" /\ mtask' = [mtask EXCEPT ![s].op = "embed2"]
       /\ files' = [files EXCEPT ![t.f] = IF @ # None /\ @.st = "CONFIRMED" /\ @.rev = t.rev
                                            THEN [@ EXCEPT !.emb = t.rev] ELSE @]
       /\ UNCHANGED <<splitSchema, inodes, contents, semantic, shared, dnode, dinodes, mstep, chmodded>>
    \/ /\ t # None /\ t.op = "embed2" /\ mtask' = [mtask EXCEPT ![s] = None]
       /\ semantic' = [semantic EXCEPT ![t.f] = IF @ # None /\ InodeHasRevision(t.f, t.rev)
                                                  THEN [@ EXCEPT !.emb = t.rev] ELSE @]
       /\ UNCHANGED <<splitSchema, files, inodes, contents, shared, dnode, dinodes, mstep, chmodded>>

\* The text extracted from an image or a recording, written in a transaction.
updateFileSearchTextExec(s) ==
    LET t == mtask[s] IN
    /\ t # None /\ t.op = "text" /\ mtask' = [mtask EXCEPT ![s] = None]
    /\ semantic' = [semantic EXCEPT ![t.f] = IF @ # None /\ InodeHasRevision(t.f, t.rev)
                                               THEN [@ EXCEPT !.text = t.rev] ELSE @]
    /\ UNCHANGED <<splitSchema, files, inodes, contents, shared, dnode, dinodes, mstep, chmodded>>

Chmod(f, mode) ==
    /\ Serving /\ inodes[f] # None /\ inodes[f].st = "CONFIRMED" /\ shared["file_nodes"][f] # "none"
    /\ inodes' = [inodes EXCEPT ![f].mode = mode]
    /\ chmodded' = [chmodded EXCEPT ![f] = mode]
    /\ UNCHANGED <<splitSchema, files, contents, semantic, shared, dnode, dinodes, mstep, mtask>>

\* A parent directory made on the way shares the id of its dentry; one that
\* was there without inode gets an inode of its own.
ensureParentDirsWithExecer(d) ==
    LET id == IF dnode[d] = "null" THEN "inode" ELSE "node" IN
    /\ Serving /\ dnode[d] \in {"absent", "null"}
    /\ dinodes' = dinodes \cup {<<d, id>>}
    /\ dnode' = [dnode EXCEPT ![d] = id]
    /\ UNCHANGED <<splitSchema, files, inodes, contents, semantic, shared, mstep, mtask, chmodded>>

MkdirCtx(d) ==
    /\ Serving /\ dnode[d] = "absent"
    /\ dinodes' = dinodes \cup {<<d, "inode">>}
    /\ dnode' = [dnode EXCEPT ![d] = "inode"]
    /\ UNCHANGED <<splitSchema, files, inodes, contents, semantic, shared, mstep, mtask, chmodded>>

SplitWrites ==
    \/ \E f \in LegacyFiles :
        \/ \E st \in {"CONFIRMED", "PENDING"} : InsertFileTx(f, st)
        \/ \E expected \in 0..SplitMaxRev : updateFileContentTx(f, expected)
        \/ ConfirmPendingFileTx(f) \/ ConfirmPendingFileAutoEmbeddingTx(f)
        \/ DeletePendingFileTx(f)
        \/ markFilesDeletedTx(f)
        \/ \E mode \in Modes : Chmod(f, mode)
    \/ \E d \in LegacyDirs : ensureParentDirsWithExecer(d) \/ MkdirCtx(d)

SplitNext ==
    \/ SplitWrites
    \/ \E s \in Migrators :
        \/ detectLegacyFiles(s) \/ EnsureSplitSchema(s) \/ requiredTablesExist(s) \/ Run(s)
        \/ migrateInodes(s) \/ migrateContents(s) \/ migrateSemantic(s)
        \/ createDirInodes(s) \/ backfillSharedInodeID(s)
        \/ OpenFails(s)
        \/ MarkFileDeleted(s)
        \/ \E f \in LegacyFiles, op \in {"embed", "text"} : ClaimRevision(s, f, op)
        \/ UpdateFileDescriptionEmbedding(s) \/ updateFileSearchTextExec(s)

SplitSpec == SplitInit /\ [][SplitNext]_splitVars

\* Once some server serves the tenant, the split tables hold every file the
\* legacy table has, at its revision and in its status, and no inode is deleted
\* whose legacy row is alive: readers use the split tables only, so anything
\* else is a file lost or brought back by an interrupted or repeated migration.
SplitMatchesLegacy ==
    Serving => \A f \in LegacyFiles :
        /\ f \in Live => /\ inodes[f] # None /\ contents[f] # None /\ semantic[f] # None
                         /\ inodes[f].st = files[f].st /\ inodes[f].rev = files[f].rev
                         /\ contents[f].rev = files[f].rev
        /\ inodes[f] # None => files[f] # None /\ (inodes[f].st = "CONFIRMED" => files[f].st = "CONFIRMED")

\* Once some server serves, every directory is linked to an inode that exists
\* and no row of the old binary waits for its inode_id: a run that died between
\* two backfills is taken up again (check 5 of isMigrationComplete).
LegacyLinked ==
    Serving => /\ \A d \in LegacyDirs : dnode[d] # "absent" => <<d, dnode[d]>> \in dinodes
               /\ \A t \in SharedTables, f \in LegacyFiles : shared[t][f] # "old"

\* The mode of a file is the one its last chmod set.  New rows carry no
\* inode_id, so the next open of a busy tenant runs the whole migration again,
\* which must not put the default mode back.
ModeSurvivesReopen == \A f \in LegacyFiles : inodes[f] # None => inodes[f].mode = chmodded[f]

\* Once some server serves, a confirmed file's contents row has the hash of its
\* storage reference: HasConfirmedS3StorageRef looks references up by it before
\* an object is collected, and a row without it would not protect its object.
HashesFilled ==
    Serving => \A f \in LegacyFiles :
        inodes[f] # None /\ inodes[f].st = "CONFIRMED" /\ contents[f] # None => contents[f].hash

\* The embedding and the text in semantic are of the current revision, although
\* they are computed outside any transaction and written after overwrites and
\* migrations may have come between.
SearchDataOfRevision ==
    \A f \in LegacyFiles :
        inodes[f] # None /\ semantic[f] # None /\ inodes[f].st = "CONFIRMED" =>
            {semantic[f].emb, semantic[f].text} \subseteq {0, inodes[f].rev}

\* The two layouts of a tenant agree while both exist: the split tables say of
\* every file what the legacy row says, links survive the migration, a mode
\* change survives a reopen, every hash is filled in at the end, and search
\* data belong to the revision they were made from.
LayoutsAgree ==
    SplitMatchesLegacy /\ LegacyLinked /\ ModeSurvivesReopen /\ HashesFilled /\ SearchDataOfRevision
=============================================================================
