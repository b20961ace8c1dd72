----------------------------- MODULE MetaSchema -----------------------------
(* The migration of the control-plane database that every server runs when   *)
(* it starts (meta.Open): under a named lock, held by a connection of its    *)
(* own, it drops an obsolete index, repairs what is safe to repair and       *)
(* starts only if nothing is left to repair.  The repairs use other          *)
(* connections, so they go on when the one that holds the lock is lost.      *)
EXTENDS Common, Naturals, FiniteSets

CONSTANT MetaServers   \* server processes

ASSUME MetaAssumption == None \notin MetaServers

VARIABLES
    mschema,    \* what exists of the schema
    mlock,      \* the server whose connection holds the named lock
    msrv,       \* what each server does
    mflaw       \* a reason for a start to fail: a failed statement, a wait that timed out, a lost
                \* lock connection, or a database beyond repair to begin with

metaVars == <<mschema, mlock, msrv, mflaw>>

\* A table, a nullable and a required column, a plain and a unique index, and
\* tenants.schema_version widened to unsigned.
metaInitSchemaStatements == {"table", "column", "required", "index", "unique", "wide"}

MetaColumns == {"table", "column", "required", "wide"}

\* Databases that servers start on: empty, current, or left by older binaries;
\* some lack what no repair may add to a live table.
OldMetaSchemas ==
    {{}, metaInitSchemaStatements, {"table", "required", "unique", "obsolete"},
     {"table", "required", "index", "wide"}, {"table", "unique", "obsolete", "wide"}}

Repairable(old) == old = {} \/ {"required", "unique"} \subseteq old

MetaWork(pc) == [pc |-> pc, cols |-> {}, plan |-> {}, again |-> FALSE, ok |-> FALSE]

MetaSteps == {"down", "wait", "count", "drop", "cols", "idx", "exec", "release", "started"}

MetaRecord ==
    [pc : MetaSteps,
     cols : SUBSET MetaColumns, plan : SUBSET metaInitSchemaStatements,
     again : BOOLEAN, ok : BOOLEAN]

\* The schema has known parts and every server is at a step of its start.
MetaTypeOK ==
    /\ mschema \subseteq metaInitSchemaStatements \cup {"obsolete"}
    /\ mlock \in MetaServers \cup {None} /\ mflaw \in BOOLEAN
    /\ msrv \in [MetaServers -> MetaRecord]

MetaInit ==
    /\ mschema \in OldMetaSchemas /\ mlock = None
    /\ msrv = [s \in MetaServers |-> MetaWork("down")]
    /\ mflaw = ~Repairable(mschema)

MetaGo(s, pc) == msrv' = [msrv EXCEPT ![s].pc = pc]

OpenMeta(s) ==
    /\ msrv[s].pc = "down" /\ msrv' = [msrv EXCEPT ![s] = MetaWork("wait")]
    /\ UNCHANGED <<mschema, mlock, mflaw>>

\* GET_LOCK answers 1, or 0 when the wait times out; then the start fails.
acquireMetaSchemaMigrationLock(s) ==
    /\ msrv[s].pc = "wait"
    /\ \/ mlock = None /\ mlock' = s /\ MetaGo(s, "count") /\ UNCHANGED mflaw
       \/ mlock # None /\ MetaGo(s, "down") /\ mflaw' = TRUE /\ UNCHANGED mlock
    /\ UNCHANGED mschema

\* RELEASE_LOCK runs whatever became of the migration, and a lock that is not
\* held any more fails a start that had succeeded.
releaseLock(s) ==
    /\ msrv[s].pc = "release"
    /\ MetaGo(s, IF msrv[s].ok /\ mlock = s THEN "started" ELSE "down")
    /\ mlock' = IF mlock = s THEN None ELSE mlock
    /\ UNCHANGED <<mschema, mflaw>>

LockConnectionLost ==
    /\ mlock # None /\ mlock' = None /\ mflaw' = TRUE
    /\ UNCHANGED <<mschema, msrv>>

\* The obsolete index is looked up, then dropped; a drop of an index that is
\* gone fails the migration.
dropMetaIndexIfExists(s) ==
    \/ /\ msrv[s].pc = "count" /\ MetaGo(s, IF "obsolete" \in mschema THEN "drop" ELSE "cols")
       /\ UNCHANGED <<mschema, mlock, mflaw>>
    \/ /\ msrv[s].pc = "drop" /\ MetaGo(s, IF "obsolete" \in mschema THEN "cols" ELSE "release")
       /\ mschema' = mschema \ {"obsolete"} /\ UNCHANGED <<mlock, mflaw>>

loadMetaTableMeta(s) ==
    /\ msrv[s].pc = "cols"
    /\ msrv' = [msrv EXCEPT ![s].pc = "idx", ![s].cols = mschema \cap MetaColumns]
    /\ UNCHANGED <<mschema, mlock, mflaw>>

\* The columns of the first read, the indexes of the second; a missing table
\* is one difference.
loadMetaIndexNames == mschema \cap {"index", "unique"}

diffMetaTableMetaWithObservedIndexes(cols, observed) == metaInitSchemaStatements \ (cols \cup observed)

diffMetaTable(s) ==
    IF "table" \notin msrv[s].cols THEN {"table"}
    ELSE diffMetaTableMetaWithObservedIndexes(msrv[s].cols, loadMetaIndexNames)

\* A unique index is not added to a live table, nor a required column.
isSafeMetaRepairDiff(e) == e \in {"table", "column", "index", "wide"}

plannedMetaSchemaRepairs(diffs) == {e \in diffs : isSafeMetaRepairDiff(e)}

\* Mutant: the repairs are trusted, and what cannot be repaired is passed over.
NoSecondDiff(s) ==
    /\ msrv[s].pc = "idx"
    /\ LET plan == plannedMetaSchemaRepairs(diffMetaTable(s)) IN
       msrv' = [msrv EXCEPT ![s] = IF @.again \/ plan = {} THEN [MetaWork("release") EXCEPT !.ok = TRUE]
                                   ELSE [MetaWork("exec") EXCEPT !.plan = plan]]
    /\ UNCHANGED <<mschema, mlock, mflaw>>

\* The first diff is repaired; the second must be empty.
migrate(s) ==
    /\ msrv[s].pc = "idx"
    /\ LET plan == plannedMetaSchemaRepairs(diffMetaTable(s)) IN
       msrv' = [msrv EXCEPT ![s] =
                  IF @.again THEN [MetaWork("release") EXCEPT !.ok = (diffMetaTable(s) = {})]
                  ELSE IF plan = {} THEN [MetaWork("cols") EXCEPT !.again = TRUE]
                  ELSE [MetaWork("exec") EXCEPT !.plan = plan]]
    /\ UNCHANGED <<mschema, mlock, mflaw>>

\* One repair; what exists already is skipped.
applyMetaSchemaRepairs(s, e) ==
    /\ msrv[s].pc = "exec" /\ e \in msrv[s].plan
    /\ mschema' = mschema \cup (IF e # "table" THEN {e} ELSE IF "table" \in mschema THEN {} ELSE metaInitSchemaStatements)
    /\ msrv' = [msrv EXCEPT ![s] = IF msrv[s].plan = {e} THEN [MetaWork("cols") EXCEPT !.again = TRUE]
                                   ELSE [msrv[s] EXCEPT !.plan = msrv[s].plan \ {e}]]
    /\ UNCHANGED <<mlock, mflaw>>

MetaStatementFails(s) ==
    /\ msrv[s].pc \in {"count", "drop", "cols", "idx", "exec"}
    /\ msrv' = [msrv EXCEPT ![s] = MetaWork("release")] /\ mflaw' = TRUE
    /\ UNCHANGED <<mschema, mlock>>

\* A server stops or dies; its connections close and the lock is free.
CloseMeta(s) ==
    /\ msrv[s].pc # "down" /\ msrv' = [msrv EXCEPT ![s] = MetaWork("down")]
    /\ mlock' = IF mlock = s THEN None ELSE mlock
    /\ UNCHANGED <<mschema, mflaw>>

MetaNext ==
    \/ LockConnectionLost
    \/ \E s \in MetaServers :
        \/ OpenMeta(s) \/ acquireMetaSchemaMigrationLock(s) \/ releaseLock(s) \/ CloseMeta(s)
        \/ dropMetaIndexIfExists(s) \/ loadMetaTableMeta(s) \/ migrate(s) \/ MetaStatementFails(s)
        \/ \E e \in msrv[s].plan : applyMetaSchemaRepairs(s, e)

MetaSpec == MetaInit /\ [][MetaNext]_metaVars

\* A server that has started finds the whole schema and not the obsolete
\* index, on any database an older binary or an interrupted start left.
StartedMeansMetaSchema ==
    \A s \in MetaServers :
        msrv[s].pc = "started" => metaInitSchemaStatements \subseteq mschema /\ "obsolete" \notin mschema

\* On a repairable database a start fails only for a reason of its own: without
\* failed statements, timed-out waits and lost lock connections, servers that
\* start together do not fail each other's start.
UndisturbedStarts ==
    \A s \in MetaServers : msrv[s].pc = "release" /\ ~msrv[s].ok => mflaw

\* A server starts right: on the whole schema of the control plane, and not
\* failed by another server that starts at the same time.
MetaStartsRight == StartedMeansMetaSchema /\ UndisturbedStarts
=============================================================================
