---------------------------- MODULE TenantSchema ----------------------------
(* The schema of a tenant database: provisioning creates it in the           *)
(* background, every open of the tenant brings it up to the binary's version *)
(* (a diff of the live tables against the statements, then one safe repair   *)
(* at a time), and the control plane records the version a tenant is at so   *)
(* that later opens skip the work.  Servers of two versions run side by side *)
(* during a deployment, on one database, and any statement may fail.         *)
EXTENDS Common, Naturals, FiniteSets

CONSTANT SchemaServers   \* server processes

VARIABLES
    tadds,      \* what version 2 of the schema adds to version 1
    tvector,    \* the cluster supports vector and full-text indexes
    tprov,      \* how the provider initialises: "zero" runs the statements, "starter" ensures
    tschema,    \* the elements of the schema that exist
    tdups,      \* rows exist that a unique index would refuse
    trec,       \* the tenants row: None, or status, recorded schema version, key, activating version
    tsrv,       \* what each server does
    tflaw       \* a statement has failed, or rows are duplicated

schemaVars == <<tadds, tvector, tprov, tschema, tdups, trec, tsrv, tflaw>>

givenVars == <<tadds, tvector, tprov>>

Columns == {"column", "required"}
Indexes == {"index", "cindex", "unique", "vector"}
Elements == {"table"} \cup Columns \cup Indexes

\* The statements of a version: a table, an index, and what version 2 adds; a
\* column may be nullable or required, an index plain, on the added column,
\* unique, or a vector index.
tidbSchemaSpec(v) == {"table", "index"} \cup (IF v = 2 THEN tadds ELSE {})

\* A table created from the statements of a version comes with its columns.
parseCreateTableSpec(v) == {"table"} \cup (tidbSchemaSpec(v) \cap Columns)

\* The order of the repairs: the table, its columns, its indexes.
First(plan) == IF "table" \in plan THEN {"table"} ELSE IF plan \cap Columns # {} THEN plan \cap Columns ELSE plan

At(pc, v) == [pc |-> pc, ver |-> v, op |-> "none", pass |-> 0, cols |-> {}, plan |-> {}]

SchemaSteps == {"down", "idle", "cluster", "row", "cols", "idx", "check", "exec", "backfill", "ok", "err", "serving"}

SchemaRecord ==
    [pc : SchemaSteps, ver : 1..2, op : {"none", "open", "validate", "init"}, pass : Nat,
     cols : SUBSET Elements, plan : SUBSET Elements]

TenantRecord == [st : {"provisioning", "active", "failed", "deleted"}, ver : 0..2, key : BOOLEAN, by : 0..2]

ASSUME NoRowAssumption == None \notin TenantRecord

\* The additions of version 2 that the models look at: what is safe to add,
\* an index a cluster may not support, and a column no repair may add.
SchemaAdditions == {{"column", "cindex", "unique"}, {"column", "vector"}, {"required"}}

\* The schema has known elements and every server is at a step of its work.
SchemaTypeOK ==
    /\ tadds \in SchemaAdditions /\ tvector \in BOOLEAN /\ tprov \in {"zero", "starter"}
    /\ tschema \subseteq Elements /\ tdups \in BOOLEAN /\ tflaw \in BOOLEAN
    /\ trec = None \/ trec \in TenantRecord
    /\ tsrv \in [SchemaServers -> SchemaRecord]

SchemaInit ==
    /\ tadds \in SchemaAdditions
    /\ tvector \in BOOLEAN /\ ("vector" \notin tadds => tvector)
    /\ tprov \in {"zero", "starter"}
    /\ \/ trec = None /\ tschema = {}
       \/ trec = [st |-> "active", ver |-> 1, key |-> TRUE, by |-> 1] /\ tschema = {"table", "index"}
       \/ trec = [st |-> "active", ver |-> 0, key |-> TRUE, by |-> 0] /\ tschema = {"table"}
    /\ tdups = FALSE /\ tflaw = FALSE
    /\ tsrv = [s \in SchemaServers |-> At("down", 1)]

Go(s, pc) == tsrv' = [tsrv EXCEPT ![s].pc = pc]

Rest(s) == tsrv' = [tsrv EXCEPT ![s] = At("idle", @.ver)]

\* The first schema of a tenant: tidbcloud zero runs the statements and then
\* validates, starter ensures.
initTiDBAutoEmbeddingSchema(v) == [At("exec", v) EXCEPT !.op = "init", !.pass = 3, !.plan = tidbSchemaSpec(v) \ Columns]

InitSchema(v) == [At("cols", v) EXCEPT !.op = "init", !.pass = 1]

initWork(v) == IF tprov = "zero" THEN initTiDBAutoEmbeddingSchema(v) ELSE InitSchema(v)

\* A server starts, of either version, and takes up the tenants it finds
\* provisioning, whoever is at work on them.
resumeProvisioningTenants(s) ==
    /\ tsrv[s].pc = "down"
    /\ \E v \in 1..2 :
        tsrv' = [tsrv EXCEPT ![s] = IF trec # None /\ trec.st = "provisioning" THEN initWork(v) ELSE At("idle", v)]
    /\ UNCHANGED <<givenVars, tschema, tdups, trec, tflaw>>

StopServer(s) ==
    /\ tsrv[s].pc # "down"
    /\ tsrv' = [tsrv EXCEPT ![s] = At("down", @.ver)]
    /\ UNCHANGED <<givenVars, tschema, tdups, trec, tflaw>>

\* handleProvision: a cluster, the tenants row, the key, the answer; the
\* schema is left to the background.
Provision(s) ==
    /\ tsrv[s].pc = "idle" /\ trec = None /\ \A r \in SchemaServers : tsrv[r].pc # "cluster"
    /\ Go(s, "cluster")
    /\ UNCHANGED <<givenVars, tschema, tdups, trec, tflaw>>

InsertTenant(s) ==
    /\ tsrv[s].pc = "cluster"
    /\ \/ /\ trec' = [st |-> "provisioning", ver |-> 0, key |-> FALSE, by |-> 0]
          /\ Go(s, "row") /\ UNCHANGED tflaw
       \/ Rest(s) /\ tflaw' = TRUE /\ UNCHANGED trec
    /\ UNCHANGED <<givenVars, tschema, tdups>>

\* Without its key the tenant is given up, unless that update fails as well.
InsertAPIKey(s) ==
    /\ tsrv[s].pc = "row"
    /\ \/ /\ trec' = [trec EXCEPT !.key = TRUE]
          /\ tsrv' = [tsrv EXCEPT ![s] = initWork(@.ver)] /\ UNCHANGED tflaw
       \/ /\ trec' \in {trec, [trec EXCEPT !.st = "deleted"]}
          /\ Rest(s) /\ tflaw' = TRUE
    /\ UNCHANGED <<givenVars, tschema, tdups>>

\* The end of one attempt of initTenantSchemaAsync: activate, try again, or
\* give up at the deadline.  The status is written whatever it is by now.
initTenantSchemaAsync(s) ==
    /\ tsrv[s].op = "init"
    /\ \/ /\ tsrv[s].pc = "ok" /\ Rest(s)
          /\ \/ trec' = [trec EXCEPT !.st = "active", !.by = tsrv[s].ver] /\ UNCHANGED tflaw
             \/ tflaw' = TRUE /\ UNCHANGED trec
       \/ /\ tsrv[s].pc = "err" /\ UNCHANGED <<trec, tflaw>>
          /\ tsrv' = [tsrv EXCEPT ![s] = initWork(@.ver)]
       \/ /\ tsrv[s].pc = "err" /\ Rest(s)
          /\ trec' \in {trec, [trec EXCEPT !.st = "failed"]} /\ tflaw' = TRUE
    /\ UNCHANGED <<givenVars, tschema, tdups>>

\* An open of the tenant for a request.  The recorded version decides: equal
\* to the binary's, the schema is trusted, or only validated from time to
\* time; different, older or newer, it is ensured.
SchemaCurrent(s) == trec.ver = tsrv[s].ver

createBackendSchema(s) ==
    /\ tsrv[s].pc = "idle" /\ trec # None /\ trec.st = "active" /\ trec.key
    /\ \/ SchemaCurrent(s) /\ Go(s, "serving")
       \/ /\ SchemaCurrent(s)
          /\ tsrv' = [tsrv EXCEPT ![s] = [At("cols", @.ver) EXCEPT !.op = "validate", !.pass = 4]]
       \/ /\ ~SchemaCurrent(s)
          /\ tsrv' = [tsrv EXCEPT ![s] = [At("cols", @.ver) EXCEPT !.op = "open", !.pass = 1]]
    /\ UNCHANGED <<givenVars, tschema, tdups, trec, tflaw>>

\* After an ensure the version is recorded, best effort, and the backend is
\* served.  After a failure the open fails.
UpdateTenantSchemaVersion(s) ==
    /\ tsrv[s].op \in {"open", "validate"}
    /\ \/ /\ tsrv[s].pc = "ok"
          /\ tsrv' = [tsrv EXCEPT ![s] = At("serving", @.ver)]
          /\ \/ tsrv[s].op = "validate" /\ UNCHANGED <<trec, tflaw>>
             \/ tsrv[s].op = "open" /\ trec' = [trec EXCEPT !.ver = tsrv[s].ver] /\ UNCHANGED tflaw
             \/ tsrv[s].op = "open" /\ tflaw' = TRUE /\ UNCHANGED trec
       \/ tsrv[s].pc = "err" /\ Rest(s) /\ UNCHANGED <<trec, tflaw>>
    /\ UNCHANGED <<givenVars, tschema, tdups>>

CloseTenant(s) ==
    /\ tsrv[s].pc = "serving" /\ Rest(s)
    /\ UNCHANGED <<givenVars, tschema, tdups, trec, tflaw>>

\* Requests write rows, and without the unique index two may be the same.
DuplicateRows ==
    /\ "unique" \notin tschema /\ ~tdups /\ \E s \in SchemaServers : tsrv[s].pc = "serving"
    /\ tdups' = TRUE /\ tflaw' = TRUE
    /\ UNCHANGED <<givenVars, tschema, trec, tsrv>>

(***************************************************************************)
(* EnsureTiDBSchemaForMode and ValidateTiDBSchemaForMode: at most three     *)
(* passes of a diff and its repairs, then a diff that must be empty.  The   *)
(* diff of a table reads its columns and its indexes one after the other.   *)
(***************************************************************************)
loadTiDBColumnMeta(s) ==
    /\ tsrv[s].pc = "cols"
    /\ tsrv' = [tsrv EXCEPT ![s].cols = tschema \ Indexes, ![s].pc = "idx"]
    /\ UNCHANGED <<givenVars, tschema, tdups, trec, tflaw>>

\* A missing table reports its statement and its indexes, not its columns.
missingTableAndIndexDiffs(v) == tidbSchemaSpec(v) \ Columns

loadObservedTiDBIndexes == tschema \cap Indexes

diffTiDBTableMetaWithObservedIndexes(v, cols, observed) == tidbSchemaSpec(v) \ (cols \cup observed)

diffTiDBTable(s) ==
    IF "table" \notin tsrv[s].cols THEN missingTableAndIndexDiffs(tsrv[s].ver)
    ELSE diffTiDBTableMetaWithObservedIndexes(tsrv[s].ver, tsrv[s].cols, loadObservedTiDBIndexes)

\* A required column without a default is never added to a live table.
isSafeAddColumnRepairSQL(e) == e = "column"

isSafeAddIndexRepairSQL(e) == e \in Indexes

isSafeTiDBRepairDiff(e) == e = "table" \/ isSafeAddColumnRepairSQL(e) \/ isSafeAddIndexRepairSQL(e)

plannedTiDBSchemaRepairs(diffs) == {e \in diffs : isSafeTiDBRepairDiff(e)}

\* Mutant: the diff after the last repairs is not looked at.
TrustRepairs(diffs, pass) ==
    IF diffs = {} \/ pass = 4 THEN "ok" ELSE IF plannedTiDBSchemaRepairs(diffs) = {} THEN "cols" ELSE "exec"

\* What follows a diff: done, repairs, or the final validation, whose diff
\* must be empty.
AfterDiff(diffs, pass) ==
    IF diffs = {} THEN "ok" ELSE IF pass = 4 THEN "err" ELSE IF plannedTiDBSchemaRepairs(diffs) = {} THEN "cols" ELSE "exec"

EnsureTiDBSchemaForMode(s) ==
    LET after == AfterDiff(diffTiDBTable(s), tsrv[s].pass)
        ensures == tsrv[s].op = "open" \/ (tsrv[s].op = "init" /\ tprov = "starter")
        next == IF after = "ok" /\ ensures THEN "backfill" ELSE after IN
    /\ tsrv[s].pc = "idx"
    /\ tsrv' = [tsrv EXCEPT ![s] =
                   [tsrv[s] EXCEPT !.pc = next, !.cols = {},
                                   !.pass = IF next = "cols" THEN 4 ELSE tsrv[s].pass,
                                   !.plan = IF next = "exec" THEN plannedTiDBSchemaRepairs(diffTiDBTable(s)) ELSE {}]]
    /\ UNCHANGED <<givenVars, tschema, tdups, trec, tflaw>>

\* An ensure ends with the hashes of the storage references.
BackfillStorageRefHashes(s) ==
    /\ tsrv[s].pc = "backfill" /\ Go(s, "ok")
    /\ UNCHANGED <<givenVars, tschema, tdups, trec, tflaw>>

\* Before a unique index is added to a live table, its rows are searched for
\* duplicates.
ensureUniqueIndexRepairSafe(s, e) ==
    /\ tsrv[s].pc = "exec" /\ e = "unique" /\ ~(tsrv[s].op = "init" /\ tprov = "zero")
    /\ Go(s, IF "table" \in tschema /\ ~tdups THEN "check" ELSE "err")
    /\ UNCHANGED <<givenVars, tschema, tdups, trec, tflaw>>

\* What the database makes of a statement.
Refused(s, e) ==
    \/ e # "table" /\ "table" \notin tschema
    \/ e = "cindex" /\ "column" \notin tschema
    \/ e = "unique" /\ "unique" \notin tschema /\ tdups
    \/ e = "vector" /\ ~tvector /\ tsrv[s].op = "init" /\ tprov = "zero"

AddsElement(s, e) ==
    IF e \in tschema \/ (e = "vector" /\ ~tvector) THEN {}
    ELSE IF e = "table" THEN parseCreateTableSpec(tsrv[s].ver) ELSE {e}

\* One statement: an element that exists is skipped, like a vector index the
\* cluster does not support, except where the statements are run strictly.
DoneStatement(s, e) ==
    LET last == tsrv[s].plan = {e} IN
    tsrv' = [tsrv EXCEPT ![s] = [tsrv[s] EXCEPT !.plan = tsrv[s].plan \ {e},
                                                !.pc = IF last THEN "cols" ELSE "exec",
                                                !.pass = IF last THEN tsrv[s].pass + 1 ELSE tsrv[s].pass]]

\* The errors of a statement whose element is there already.
AlreadyExists(e) == IF e = "table" THEN 1050 ELSE IF e \in Columns THEN 1060 ELSE 1061

isIgnorableTiDBSchemaError(code) == code \in {1050, 1060, 1061}

applyTiDBSchemaRepairs(s, e) ==
    LET fails == Refused(s, e) \/ (e \in tschema /\ ~isIgnorableTiDBSchemaError(AlreadyExists(e))) IN
    /\ \/ tsrv[s].pc = "exec" /\ (e = "unique" => tsrv[s].op = "init" /\ tprov = "zero")
       \/ tsrv[s].pc = "check" /\ e = "unique"
    /\ \/ fails /\ Go(s, "err") /\ UNCHANGED tschema
       \/ ~fails /\ DoneStatement(s, e) /\ tschema' = tschema \cup AddsElement(s, e)
    /\ UNCHANGED <<givenVars, tdups, trec, tflaw>>

\* A query or a statement fails for a reason of its own.
StatementFails(s) ==
    /\ tsrv[s].pc \in {"cols", "idx", "exec", "check", "backfill"} /\ Go(s, "err") /\ tflaw' = TRUE
    /\ UNCHANGED <<givenVars, tschema, tdups, trec>>

SchemaNext ==
    \/ DuplicateRows
    \/ \E s \in SchemaServers :
        \/ resumeProvisioningTenants(s) \/ StopServer(s)
        \/ Provision(s) \/ InsertTenant(s) \/ InsertAPIKey(s) \/ initTenantSchemaAsync(s)
        \/ createBackendSchema(s) \/ UpdateTenantSchemaVersion(s) \/ CloseTenant(s)
        \/ loadTiDBColumnMeta(s) \/ EnsureTiDBSchemaForMode(s)
        \/ BackfillStorageRefHashes(s) \/ StatementFails(s)
        \/ \E e \in First(tsrv[s].plan) : ensureUniqueIndexRepairSafe(s, e) \/ applyTiDBSchemaRepairs(s, e)

SchemaSpec == SchemaInit /\ [][SchemaNext]_schemaVars

\* A server that serves the tenant finds every table, column and index its
\* version was written for, whatever the other version's servers do: the last
\* diff of an ensure saw them, or the recorded version says so.
ServingMeansSchema ==
    \A s \in SchemaServers : tsrv[s].pc = "serving" => tidbSchemaSpec(tsrv[s].ver) \subseteq tschema

\* The version recorded for a tenant is one its database has reached: the
\* gate of createBackend trusts it without a look at the database.
RecordedMeansSchema == trec # None /\ trec.ver > 0 => tidbSchemaSpec(trec.ver) \subseteq tschema

\* A tenant is active only with the whole schema of the version that activated
\* it, also when an earlier attempt of another version left half of it behind.
ActiveMeansSchema == trec # None /\ trec.st = "active" /\ trec.by > 0 => tidbSchemaSpec(trec.by) \subseteq tschema

\* Opening an active tenant does not fail for a server that merely races
\* another one to the same repairs: an error has its cause in a failed
\* statement, in duplicate rows, in an index the cluster cannot have or in a
\* column that is not safe to add.
UndisturbedOpens ==
    \A s \in SchemaServers :
        tsrv[s].pc = "err" /\ tsrv[s].op \in {"open", "validate"} =>
            tflaw \/ ("vector" \in tadds /\ ~tvector) \/ "required" \in tadds

\* A tenant is opened right: it is served, recorded at a version or activated
\* only on a database that has the schema of that version, and servers that
\* open it together do not fail each other.
OpensRight == ServingMeansSchema /\ RecordedMeansSchema /\ ActiveMeansSchema /\ UndisturbedOpens
=============================================================================
