---------------------------- MODULE SchemaProofs ----------------------------
(* Proofs about the two schema migrations, for any number of servers.        *)
(*                                                                           *)
(* MetaSchema: a start is right because nothing but the obsolete index ever  *)
(* leaves the schema, so what a server read stays true, and because the      *)
(* named lock keeps servers apart as long as no connection that holds it is  *)
(* lost.                                                                     *)
(*                                                                           *)
(* TenantSchema: nothing ever leaves the schema of a tenant, so an empty     *)
(* diff, once seen, stays true; no lock is needed.                           *)
EXTENDS MetaSchema, TenantSchema, TLAPS

-----------------------------------------------------------------------------
(* The control plane *)

\* The schema is complete and the obsolete index is gone.
MetaComplete == metaInitSchemaStatements \subseteq mschema /\ "obsolete" \notin mschema

\* What a server knows of the database from where it is: read columns stay,
\* a dropped index stays away, and a migration that succeeded saw everything.
MetaKnows(s) ==
    /\ msrv[s].pc \in {"cols", "idx", "exec"} => "obsolete" \notin mschema
    /\ msrv[s].pc = "idx" => msrv[s].cols \subseteq mschema
    /\ msrv[s].ok => msrv[s].pc \in {"release", "started", "down"}
    /\ msrv[s].pc = "started" => MetaComplete
    /\ msrv[s].pc = "release" /\ msrv[s].ok => MetaComplete

\* Between taking the lock and giving it back.
Migrating == {"count", "drop", "cols", "idx", "exec", "release"}

\* Without a flaw, a server that migrates holds the lock and is alone: what it
\* read is exact, and what its repairs have not reached yet is in its plan.
MetaAlone(s) ==
    /\ msrv[s].pc \in Migrating => mlock = s
    /\ msrv[s].pc \in {"wait", "count", "drop"} => ~msrv[s].again
    /\ msrv[s].pc = "drop" => "obsolete" \in mschema
    /\ msrv[s].pc \in {"cols", "idx"} /\ msrv[s].again => metaInitSchemaStatements \subseteq mschema
    /\ msrv[s].pc = "idx" => msrv[s].cols = mschema \cap MetaColumns
    /\ msrv[s].pc = "exec" =>
          \/ msrv[s].plan = {"table"} /\ mschema = {}
          \/ "table" \in mschema /\ metaInitSchemaStatements \ msrv[s].plan \subseteq mschema
    /\ msrv[s].pc = "release" => msrv[s].ok

\* What a database lacks that cannot be repaired, no step takes away.
MetaRepairable == mschema = {} \/ {"table", "required", "unique"} \subseteq mschema

MetaInv ==
    /\ MetaTypeOK
    /\ \A s \in MetaServers : MetaKnows(s)
    /\ ~mflaw => MetaRepairable /\ \A s \in MetaServers : MetaAlone(s)

-----------------------------------------------------------------------------
(* Lemmas for the control plane *)

\* A server that begins a step anew has a record of its type.
LEMMA MetaWorkType ==
    ASSUME NEW pc \in MetaSteps,
           NEW plan \in SUBSET metaInitSchemaStatements, NEW b \in BOOLEAN
    PROVE  /\ MetaWork(pc) \in MetaRecord
           /\ [MetaWork(pc) EXCEPT !.ok = b] \in MetaRecord
           /\ [MetaWork(pc) EXCEPT !.again = b] \in MetaRecord
           /\ [MetaWork(pc) EXCEPT !.plan = plan] \in MetaRecord
BY ZenonT(30) DEF MetaWork, MetaRecord

\* A server that goes on to another step keeps its type.
LEMMA MetaGoType ==
    ASSUME MetaTypeOK, NEW s \in MetaServers, NEW pc \in MetaSteps
    PROVE  [msrv EXCEPT ![s].pc = pc] \in [MetaServers -> MetaRecord]
BY DEF MetaTypeOK, MetaRecord

\* The statements are the columns and the two indexes.
LEMMA MetaParts ==
    /\ metaInitSchemaStatements = MetaColumns \cup {"index", "unique"}
    /\ "table" \in MetaColumns /\ "obsolete" \notin metaInitSchemaStatements
    /\ {"table", "required", "unique"} \subseteq metaInitSchemaStatements
BY DEF metaInitSchemaStatements, MetaColumns

\* Every repair is one of the statements.
LEMMA MetaPlanned ==
    ASSUME NEW diffs
    PROVE  plannedMetaSchemaRepairs(diffs) \subseteq metaInitSchemaStatements \cap diffs
BY DEF plannedMetaSchemaRepairs, isSafeMetaRepairDiff, metaInitSchemaStatements

-----------------------------------------------------------------------------
(* Types and knowledge *)

\* Every step keeps the types of the control plane's migration.
LEMMA MetaTypeStep == MetaTypeOK /\ [MetaNext]_metaVars => MetaTypeOK'
<1> SUFFICES ASSUME MetaTypeOK, [MetaNext]_metaVars PROVE MetaTypeOK'
  OBVIOUS
<1> USE DEF MetaTypeOK
<1>1. CASE LockConnectionLost
  BY <1>1 DEF LockConnectionLost
<1>2. ASSUME NEW s \in MetaServers, OpenMeta(s) PROVE MetaTypeOK'
  BY <1>2, MetaWorkType, ZenonT(30) DEF OpenMeta, MetaSteps
<1>3. ASSUME NEW s \in MetaServers, acquireMetaSchemaMigrationLock(s) PROVE MetaTypeOK'
  <2>1. {"count", "down"} \subseteq MetaSteps
    BY DEF MetaSteps
  <2>2. msrv' \in [MetaServers -> MetaRecord]
    BY <1>3, <2>1, MetaGoType DEF acquireMetaSchemaMigrationLock, MetaGo
  <2> QED
    BY <1>3, <2>2, ZenonT(30) DEF acquireMetaSchemaMigrationLock
<1>4. ASSUME NEW s \in MetaServers, releaseLock(s) PROVE MetaTypeOK'
  BY <1>4, MetaGoType, ZenonT(30) DEF releaseLock, MetaGo, MetaSteps
<1>5. ASSUME NEW s \in MetaServers, CloseMeta(s) PROVE MetaTypeOK'
  BY <1>5, MetaWorkType, ZenonT(30) DEF CloseMeta, MetaSteps
<1>6. ASSUME NEW s \in MetaServers, dropMetaIndexIfExists(s) PROVE MetaTypeOK'
  <2>1. {"drop", "cols", "release"} \subseteq MetaSteps
    BY DEF MetaSteps
  <2>2. msrv' \in [MetaServers -> MetaRecord]
    BY <1>6, <2>1, MetaGoType DEF dropMetaIndexIfExists, MetaGo
  <2> QED
    BY <1>6, <2>2 DEF dropMetaIndexIfExists
<1>7. ASSUME NEW s \in MetaServers, loadMetaTableMeta(s) PROVE MetaTypeOK'
  <2>1. [msrv[s] EXCEPT !.pc = "idx", !.cols = mschema \cap MetaColumns] \in MetaRecord
    BY ZenonT(30) DEF MetaRecord, MetaSteps
  <2> QED
    BY <1>7, <2>1 DEF loadMetaTableMeta
<1>8. ASSUME NEW s \in MetaServers, migrate(s) PROVE MetaTypeOK'
  <2> DEFINE plan == plannedMetaSchemaRepairs(diffMetaTable(s))
  <2>1. plan \in SUBSET metaInitSchemaStatements
    BY MetaPlanned
  <2>2. (diffMetaTable(s) = {}) \in BOOLEAN
    OBVIOUS
  <2>3. \E r \in MetaRecord : msrv' = [msrv EXCEPT ![s] = r]
    BY <1>8, <2>1, <2>2, MetaWorkType, ZenonT(30) DEF migrate, MetaSteps
  <2> QED
    BY <1>8, <2>3, ZenonT(30) DEF migrate
<1>9. ASSUME NEW s \in MetaServers, MetaStatementFails(s) PROVE MetaTypeOK'
  BY <1>9, MetaWorkType, ZenonT(30) DEF MetaStatementFails, MetaSteps
<1>10. ASSUME NEW s \in MetaServers, NEW e \in msrv[s].plan, applyMetaSchemaRepairs(s, e) PROVE MetaTypeOK'
  <2>1. e \in metaInitSchemaStatements /\ [msrv[s] EXCEPT !.plan = @ \ {e}] \in MetaRecord
    BY DEF MetaRecord
  <2> QED
    <3>1. \E r \in MetaRecord : msrv' = [msrv EXCEPT ![s] = r]
      <4>1. [MetaWork("cols") EXCEPT !.again = TRUE] \in MetaRecord
        BY MetaWorkType, ZenonT(30) DEF MetaSteps
      <4>2. CASE msrv[s].plan = {e}
        BY <1>10, <4>1, <4>2, ZenonT(30) DEF applyMetaSchemaRepairs
      <4>3. CASE msrv[s].plan # {e}
        BY <1>10, <2>1, <4>3, ZenonT(30) DEF applyMetaSchemaRepairs
      <4> QED
        BY <4>2, <4>3
    <3>2. mschema' \subseteq metaInitSchemaStatements \cup {"obsolete"}
      BY <1>10, <2>1 DEF applyMetaSchemaRepairs
    <3> QED
      BY <1>10, <3>1, <3>2, ZenonT(30) DEF applyMetaSchemaRepairs
<1>11. CASE UNCHANGED metaVars
  BY <1>11 DEF metaVars
<1> QED
  BY <1>1, <1>2, <1>3, <1>4, <1>5, <1>6, <1>7, <1>8, <1>9, <1>10, <1>11 DEF MetaNext

\* The schema only grows, but for the obsolete index, which never comes back.
LEMMA MetaGrows ==
    ASSUME MetaTypeOK, [MetaNext]_metaVars
    PROVE  /\ mschema \ {"obsolete"} \subseteq mschema'
           /\ "obsolete" \notin mschema => "obsolete" \notin mschema'
           /\ MetaComplete => MetaComplete'
<1>1. ASSUME NEW s \in MetaServers, NEW e \in msrv[s].plan, applyMetaSchemaRepairs(s, e)
      PROVE  mschema \subseteq mschema' /\ mschema' \subseteq mschema \cup metaInitSchemaStatements
  <2>1. e \in metaInitSchemaStatements
    BY DEF MetaTypeOK, MetaRecord
  <2> QED
    BY <1>1, <2>1 DEF applyMetaSchemaRepairs
<1>2. ASSUME NEW s \in MetaServers, dropMetaIndexIfExists(s)
      PROVE  mschema' \in {mschema, mschema \ {"obsolete"}}
  BY <1>2 DEF dropMetaIndexIfExists
<1>3. \/ mschema' \in {mschema, mschema \ {"obsolete"}}
      \/ mschema \subseteq mschema' /\ mschema' \subseteq mschema \cup metaInitSchemaStatements
  BY <1>1, <1>2, ZenonT(30) DEF MetaNext, metaVars, LockConnectionLost, OpenMeta, acquireMetaSchemaMigrationLock,
     releaseLock, CloseMeta, loadMetaTableMeta, migrate, MetaStatementFails
<1> QED
  BY <1>3, MetaParts DEF MetaComplete

\* What a server knows stays true, whatever the others do without the lock.
LEMMA MetaKnowsStep ==
    ASSUME MetaInv, [MetaNext]_metaVars, NEW r \in MetaServers
    PROVE  MetaKnows(r)'
<1> DEFINE Same(s) == msrv'[s] = msrv[s]
<1>0. MetaTypeOK /\ MetaKnows(r)
  BY DEF MetaInv
<1>1. CASE Same(r)
  <2>1. msrv[r].cols \subseteq MetaColumns
    BY <1>0 DEF MetaTypeOK, MetaRecord
  <2> QED
    BY <1>0, <1>1, <2>1, MetaGrows, MetaParts DEF MetaKnows
<1>2. ASSUME OpenMeta(r) \/ CloseMeta(r) \/ MetaStatementFails(r) PROVE MetaKnows(r)'
  BY <1>0, <1>2 DEF OpenMeta, CloseMeta, MetaStatementFails, MetaWork, MetaKnows, MetaTypeOK
<1>3. ASSUME acquireMetaSchemaMigrationLock(r) PROVE MetaKnows(r)'
  BY <1>0, <1>3 DEF acquireMetaSchemaMigrationLock, MetaGo, MetaKnows, MetaTypeOK, MetaRecord
<1>4. ASSUME releaseLock(r) PROVE MetaKnows(r)'
  BY <1>0, <1>4, MetaGrows DEF releaseLock, MetaGo, MetaKnows, MetaTypeOK, MetaRecord
<1>5. ASSUME dropMetaIndexIfExists(r) PROVE MetaKnows(r)'
  BY <1>0, <1>5 DEF dropMetaIndexIfExists, MetaGo, MetaKnows, MetaTypeOK, MetaRecord
<1>6. ASSUME loadMetaTableMeta(r) PROVE MetaKnows(r)'
  BY <1>0, <1>6 DEF loadMetaTableMeta, MetaKnows, MetaTypeOK, MetaRecord
<1>7. ASSUME migrate(r) PROVE MetaKnows(r)'
  <2>1. ASSUME diffMetaTable(r) = {} PROVE metaInitSchemaStatements \subseteq mschema
    BY <1>0, <1>7, <2>1 DEF migrate, MetaKnows, diffMetaTable, diffMetaTableMetaWithObservedIndexes, loadMetaIndexNames
  <2>2. \/ msrv'[r] = [MetaWork("release") EXCEPT !.ok = (diffMetaTable(r) = {})]
        \/ msrv'[r] = [MetaWork("cols") EXCEPT !.again = TRUE]
        \/ msrv'[r] = [MetaWork("exec") EXCEPT !.plan = plannedMetaSchemaRepairs(diffMetaTable(r))]
    BY <1>0, <1>7 DEF migrate, MetaTypeOK
  <2>3. mschema' = mschema /\ "obsolete" \notin mschema
    BY <1>0, <1>7 DEF migrate, MetaKnows
  <2> QED
    BY <2>1, <2>2, <2>3, ZenonT(30) DEF MetaKnows, MetaWork, MetaComplete
<1>8. ASSUME NEW e \in msrv[r].plan, applyMetaSchemaRepairs(r, e) PROVE MetaKnows(r)'
  <2>1. msrv'[r] \in {[MetaWork("cols") EXCEPT !.again = TRUE], [msrv[r] EXCEPT !.plan = msrv[r].plan \ {e}]}
    BY <1>0, <1>8 DEF applyMetaSchemaRepairs, MetaTypeOK
  <2>2. msrv'[r].pc \in {"cols", "exec"} /\ ~msrv'[r].ok
    BY <1>0, <1>8, <2>1 DEF applyMetaSchemaRepairs, MetaWork, MetaKnows, MetaTypeOK, MetaRecord
  <2> QED
    BY <1>0, <1>8, <2>2, MetaGrows DEF applyMetaSchemaRepairs, MetaKnows
<1>9. ASSUME NEW s \in MetaServers, s # r,
             \/ OpenMeta(s) \/ acquireMetaSchemaMigrationLock(s) \/ releaseLock(s) \/ CloseMeta(s)
             \/ dropMetaIndexIfExists(s) \/ loadMetaTableMeta(s) \/ migrate(s) \/ MetaStatementFails(s)
             \/ \E e \in msrv[s].plan : applyMetaSchemaRepairs(s, e)
      PROVE  Same(r)
  BY <1>0, <1>9 DEF OpenMeta, acquireMetaSchemaMigrationLock, releaseLock, CloseMeta, dropMetaIndexIfExists,
     loadMetaTableMeta, migrate, MetaStatementFails, applyMetaSchemaRepairs, MetaGo, MetaTypeOK
<1>10. CASE LockConnectionLost \/ UNCHANGED metaVars
  BY <1>1, <1>10 DEF LockConnectionLost, metaVars
<1> QED
  BY <1>1, <1>2, <1>3, <1>4, <1>5, <1>6, <1>7, <1>8, <1>9, <1>10 DEF MetaNext

\* A flaw is remembered, and no step makes a repairable database irreparable.
LEMMA MetaFlawStep ==
    ASSUME MetaInv, [MetaNext]_metaVars, ~mflaw'
    PROVE  ~mflaw /\ MetaRepairable'
<1>1. ~mflaw
  BY ZenonT(30) DEF MetaNext, metaVars, LockConnectionLost, OpenMeta, acquireMetaSchemaMigrationLock, releaseLock,
     CloseMeta, dropMetaIndexIfExists, loadMetaTableMeta, migrate, applyMetaSchemaRepairs, MetaStatementFails
<1>2. MetaTypeOK /\ MetaRepairable
  BY <1>1 DEF MetaInv
<1>3. ASSUME NEW s \in MetaServers, NEW e \in msrv[s].plan, applyMetaSchemaRepairs(s, e)
      PROVE  MetaRepairable'
  <2>1. MetaAlone(s) /\ msrv[s].pc = "exec"
    BY <1>1, <1>3 DEF MetaInv, applyMetaSchemaRepairs
  <2>2. CASE msrv[s].plan = {"table"} /\ mschema = {}
    BY <1>3, <2>2 DEF applyMetaSchemaRepairs, MetaRepairable, metaInitSchemaStatements
  <2>3. CASE "table" \in mschema
    BY <1>2, <1>3, <2>3 DEF applyMetaSchemaRepairs, MetaRepairable
  <2> QED
    BY <2>1, <2>2, <2>3 DEF MetaAlone
<1>4. ASSUME NEW s \in MetaServers, dropMetaIndexIfExists(s)
      PROVE  MetaRepairable'
  BY <1>2, <1>4 DEF dropMetaIndexIfExists, MetaRepairable
<1>5. ASSUME mschema' = mschema PROVE MetaRepairable'
  BY <1>2, <1>5 DEF MetaRepairable
<1>6. ASSUME NEW s \in MetaServers,
             \/ OpenMeta(s) \/ acquireMetaSchemaMigrationLock(s) \/ releaseLock(s) \/ CloseMeta(s)
             \/ loadMetaTableMeta(s) \/ migrate(s) \/ MetaStatementFails(s)
      PROVE  mschema' = mschema
  BY <1>6 DEF OpenMeta, acquireMetaSchemaMigrationLock, releaseLock, CloseMeta, loadMetaTableMeta, migrate,
     MetaStatementFails
<1>7. LockConnectionLost \/ UNCHANGED metaVars => mschema' = mschema
  BY DEF LockConnectionLost, metaVars
<1> QED
  BY <1>1, <1>3, <1>4, <1>5, <1>6, <1>7 DEF MetaNext

\* A server that does not hold the lock is at no step of a migration, so what
\* the holder does says nothing about it.
LEMMA MetaOthersIdle ==
    ASSUME MetaInv, ~mflaw, NEW r \in MetaServers, msrv'[r] = msrv[r],
           (mlock' = mlock /\ mschema' = mschema) \/ mlock # r
    PROVE  MetaAlone(r)'
<1>1. MetaAlone(r)
  BY DEF MetaInv
<1>2. CASE mlock' = mlock /\ mschema' = mschema
  BY <1>1, <1>2 DEF MetaAlone
<1>3. CASE mlock # r
  BY <1>1, <1>3 DEF MetaAlone, Migrating
<1> QED
  BY <1>2, <1>3

\* The holder of the lock repairs alone.
LEMMA MetaAloneStep ==
    ASSUME MetaInv, [MetaNext]_metaVars, ~mflaw', NEW r \in MetaServers
    PROVE  MetaAlone(r)'
<1>0. /\ ~mflaw /\ MetaTypeOK /\ MetaRepairable /\ MetaKnows(r) /\ MetaAlone(r)
      /\ \A s \in MetaServers : MetaAlone(s)
  BY MetaFlawStep DEF MetaInv
<1>a. None \notin MetaServers
  BY MetaAssumption
<1>1. ASSUME OpenMeta(r) \/ CloseMeta(r) PROVE MetaAlone(r)'
  BY <1>0, <1>1 DEF OpenMeta, CloseMeta, MetaWork, MetaAlone, MetaTypeOK, Migrating
<1>2. ASSUME acquireMetaSchemaMigrationLock(r) PROVE MetaAlone(r)'
  <2>1. mlock' = r /\ msrv'[r].pc = "count" /\ msrv'[r].again = msrv[r].again /\ msrv[r].pc = "wait"
    BY <1>0, <1>2 DEF acquireMetaSchemaMigrationLock, MetaGo, MetaTypeOK, MetaRecord
  <2> QED
    BY <1>0, <2>1 DEF MetaAlone
<1>3. ASSUME releaseLock(r) PROVE MetaAlone(r)'
  <2>1. msrv'[r].pc \in {"started", "down"}
    BY <1>0, <1>3 DEF releaseLock, MetaGo, MetaTypeOK, MetaRecord
  <2> QED
    BY <2>1 DEF MetaAlone, Migrating
<1>4. ASSUME dropMetaIndexIfExists(r) PROVE MetaAlone(r)'
  BY <1>0, <1>4 DEF dropMetaIndexIfExists, MetaGo, MetaAlone, MetaTypeOK, MetaRecord, Migrating
<1>5. ASSUME loadMetaTableMeta(r) PROVE MetaAlone(r)'
  BY <1>0, <1>5 DEF loadMetaTableMeta, MetaAlone, MetaTypeOK, MetaRecord, Migrating
<1>6. ASSUME migrate(r) PROVE MetaAlone(r)'
  <2>1. /\ mlock' = r /\ mschema' = mschema /\ msrv[r].cols = mschema \cap MetaColumns
        /\ msrv[r].again => metaInitSchemaStatements \subseteq mschema
    BY <1>0, <1>6 DEF migrate, MetaAlone, Migrating
  <2>2. diffMetaTable(r) = IF "table" \notin mschema THEN {"table"} ELSE metaInitSchemaStatements \ mschema
    BY <1>0, <2>1 DEF diffMetaTable, diffMetaTableMetaWithObservedIndexes, loadMetaIndexNames, MetaColumns,
       metaInitSchemaStatements
  <2>3. CASE msrv[r].again
    <3>1. msrv'[r] = [MetaWork("release") EXCEPT !.ok = (diffMetaTable(r) = {})]
      BY <1>0, <1>6, <2>3 DEF migrate, MetaTypeOK
    <3>2. diffMetaTable(r) = {}
      BY <2>1, <2>2, <2>3 DEF metaInitSchemaStatements
    <3> QED
      BY <2>1, <3>1, <3>2, ZenonT(30) DEF MetaAlone, MetaWork, Migrating
  <2>4. CASE ~msrv[r].again /\ plannedMetaSchemaRepairs(diffMetaTable(r)) = {}
    <3>1. msrv'[r] = [MetaWork("cols") EXCEPT !.again = TRUE]
      BY <1>0, <1>6, <2>4 DEF migrate, MetaTypeOK
    <3>2. "table" \in mschema
      BY <2>2, <2>4 DEF plannedMetaSchemaRepairs, isSafeMetaRepairDiff
    <3>3. metaInitSchemaStatements \subseteq mschema
      BY <1>0, <2>2, <2>4, <3>2 DEF plannedMetaSchemaRepairs, isSafeMetaRepairDiff, MetaRepairable,
         metaInitSchemaStatements
    <3> QED
      BY <2>1, <3>1, <3>3 DEF MetaAlone, MetaWork, Migrating
  <2>5. CASE ~msrv[r].again /\ plannedMetaSchemaRepairs(diffMetaTable(r)) # {}
    <3>1. msrv'[r] = [MetaWork("exec") EXCEPT !.plan = plannedMetaSchemaRepairs(diffMetaTable(r))]
      BY <1>0, <1>6, <2>5 DEF migrate, MetaTypeOK
    <3>2. CASE mschema = {}
      BY <2>1, <2>2, <3>1, <3>2 DEF MetaAlone, MetaWork, Migrating, plannedMetaSchemaRepairs, isSafeMetaRepairDiff
    <3>3. CASE {"table", "required", "unique"} \subseteq mschema
      <4>1. metaInitSchemaStatements \ plannedMetaSchemaRepairs(diffMetaTable(r)) \subseteq mschema
        BY <2>2, <3>3 DEF plannedMetaSchemaRepairs, isSafeMetaRepairDiff, metaInitSchemaStatements
      <4> QED
        BY <2>1, <3>1, <3>3, <4>1 DEF MetaAlone, MetaWork, Migrating
    <3> QED
      BY <1>0, <3>2, <3>3 DEF MetaRepairable
  <2> QED
    BY <2>3, <2>4, <2>5
<1>7. ASSUME NEW e \in msrv[r].plan, applyMetaSchemaRepairs(r, e) PROVE MetaAlone(r)'
  <2>1. mlock' = r /\ msrv[r].pc = "exec" /\ msrv[r].plan \subseteq metaInitSchemaStatements
    BY <1>0, <1>7 DEF applyMetaSchemaRepairs, MetaAlone, Migrating, MetaTypeOK, MetaRecord
  <2>2. CASE msrv[r].plan = {e}
    <3>1. msrv'[r] = [MetaWork("cols") EXCEPT !.again = TRUE]
      BY <1>0, <1>7, <2>2 DEF applyMetaSchemaRepairs, MetaTypeOK
    <3>2. metaInitSchemaStatements \subseteq mschema'
      BY <1>0, <1>7, <2>1, <2>2 DEF applyMetaSchemaRepairs, MetaAlone
    <3> QED
      BY <2>1, <3>1, <3>2 DEF MetaAlone, MetaWork, Migrating
  <2>3. CASE msrv[r].plan # {e}
    <3>1. msrv'[r] = [msrv[r] EXCEPT !.plan = msrv[r].plan \ {e}]
      BY <1>0, <1>7, <2>3 DEF applyMetaSchemaRepairs, MetaTypeOK
    <3>2. msrv'[r].pc = "exec" /\ msrv'[r].plan = msrv[r].plan \ {e}
      BY <1>0, <2>1, <3>1 DEF MetaTypeOK, MetaRecord
    <3>3. "table" \in mschema /\ metaInitSchemaStatements \ msrv[r].plan \subseteq mschema
      BY <1>0, <2>1, <2>3 DEF MetaAlone
    <3>4. mschema' = mschema \cup (IF e = "table" THEN {} ELSE {e})
      BY <1>7, <3>3 DEF applyMetaSchemaRepairs
    <3>5. "table" \in mschema' /\ metaInitSchemaStatements \ msrv'[r].plan \subseteq mschema'
      BY <3>2, <3>3, <3>4
    <3> QED
      BY <2>1, <3>2, <3>5 DEF MetaAlone, Migrating
  <2> QED
    BY <2>2, <2>3
<1>8. ASSUME NEW s \in MetaServers, s # r,
             \/ OpenMeta(s) \/ acquireMetaSchemaMigrationLock(s) \/ releaseLock(s) \/ CloseMeta(s)
             \/ dropMetaIndexIfExists(s) \/ loadMetaTableMeta(s) \/ migrate(s)
             \/ \E e \in msrv[s].plan : applyMetaSchemaRepairs(s, e)
      PROVE  MetaAlone(r)'
  <2>1. msrv'[r] = msrv[r]
    BY <1>0, <1>8 DEF OpenMeta, acquireMetaSchemaMigrationLock, releaseLock, CloseMeta, dropMetaIndexIfExists,
       loadMetaTableMeta, migrate, applyMetaSchemaRepairs, MetaGo, MetaTypeOK
  <2>2. \/ mlock' = mlock /\ mschema' = mschema
        \/ mlock # r
    <3>1. CASE acquireMetaSchemaMigrationLock(s) \/ releaseLock(s) \/ CloseMeta(s)
      BY <1>0, <1>8, <1>a, <3>1 DEF acquireMetaSchemaMigrationLock, releaseLock, CloseMeta, OpenMeta
    <3>2. CASE dropMetaIndexIfExists(s) \/ \E e \in msrv[s].plan : applyMetaSchemaRepairs(s, e)
      BY <1>0, <1>8, <3>2 DEF dropMetaIndexIfExists, applyMetaSchemaRepairs, MetaAlone, Migrating
    <3> QED
      BY <1>8, <3>1, <3>2 DEF OpenMeta, loadMetaTableMeta, migrate
  <2> QED
    BY <1>0, <2>1, <2>2, MetaOthersIdle
<1>9. ASSUME NEW s \in MetaServers, MetaStatementFails(s) PROVE FALSE
  BY <1>9 DEF MetaStatementFails
<1>10. CASE UNCHANGED metaVars
  BY <1>0, <1>10, MetaOthersIdle DEF metaVars
<1>11. CASE LockConnectionLost
  BY <1>11 DEF LockConnectionLost
<1> QED
  BY <1>1, <1>2, <1>3, <1>4, <1>5, <1>6, <1>7, <1>8, <1>9, <1>10, <1>11 DEF MetaNext

-----------------------------------------------------------------------------
(* The theorem for the control plane *)

\* Every start of a server is right, however many start together: a started
\* server has the whole schema, and a start fails only for a reason of its own
\* (meta.Open).
THEOREM MetaStarts == MetaSpec => []MetaStartsRight
<1>1. MetaInit => MetaInv
  <2> SUFFICES ASSUME MetaInit PROVE MetaInv
    OBVIOUS
  <2>1. MetaTypeOK
    BY MetaWorkType, ZenonT(30) DEF MetaInit, MetaTypeOK, OldMetaSchemas, metaInitSchemaStatements, MetaSteps
  <2>2. ASSUME NEW s \in MetaServers PROVE MetaKnows(s) /\ MetaAlone(s)
    BY <2>2 DEF MetaInit, MetaKnows, MetaAlone, MetaWork, Migrating
  <2>3. ~mflaw => MetaRepairable
    BY ZenonT(30) DEF MetaInit, Repairable, MetaRepairable, OldMetaSchemas, metaInitSchemaStatements
  <2> QED
    BY <2>1, <2>2, <2>3 DEF MetaInv
<1>2. MetaInv /\ [MetaNext]_metaVars => MetaInv'
  <2> SUFFICES ASSUME MetaInv, [MetaNext]_metaVars PROVE MetaInv'
    OBVIOUS
  <2>1. MetaTypeOK'
    BY MetaTypeStep DEF MetaInv
  <2> QED
    BY <2>1, MetaKnowsStep, MetaFlawStep, MetaAloneStep DEF MetaInv
<1>3. MetaInv => MetaStartsRight
  BY DEF MetaInv, MetaKnows, MetaComplete, MetaAlone, MetaStartsRight, StartedMeansMetaSchema, UndisturbedStarts,
     MetaTypeOK, MetaRecord
<1> QED
  BY <1>1, <1>2, <1>3, PTL DEF MetaSpec

-----------------------------------------------------------------------------
(* Tenants *)

Wants(s) == tidbSchemaSpec(tsrv[s].ver)

\* What a server knows of the tenant from where it is: columns it read stay,
\* and an empty diff says the whole schema of its version is there.
TenantKnows(s) ==
    /\ tsrv[s].pc = "idx" => tsrv[s].cols \subseteq tschema
    /\ tsrv[s].pc \in {"ok", "backfill", "serving"} => Wants(s) \subseteq tschema
    /\ tsrv[s].op # "none" \/ tsrv[s].pc = "row" => trec \in TenantRecord
    /\ tsrv[s].op \in {"open", "validate"} => "table" \in tschema

\* Nothing has gone wrong, and what version 2 adds can be had.
Quiet == ~tflaw /\ ("vector" \in tadds => tvector) /\ "required" \notin tadds

\* When all is quiet an open gets through: its repairs, its own or those of a
\* server that came first, leave nothing for the second diff.
OpensQuietly(s) ==
    tsrv[s].op \in {"open", "validate"} =>
        /\ tsrv[s].pc # "err"
        /\ tsrv[s].op = "validate" \/ tsrv[s].pass >= 2 => Wants(s) \subseteq tschema
        /\ tsrv[s].pc = "idx" =>
              /\ "table" \in tsrv[s].cols
              /\ tsrv[s].op = "validate" \/ tsrv[s].pass >= 2 => Wants(s) \ Indexes \subseteq tsrv[s].cols
              /\ tsrv[s].op = "validate" \/ tsrv[s].pass \in 1..3
        /\ tsrv[s].pc = "cols" => tsrv[s].op = "validate" \/ tsrv[s].pass \in 1..3
        /\ tsrv[s].pc \in {"exec", "check"} =>
              /\ tsrv[s].plan \subseteq Wants(s) /\ tsrv[s].plan # {}
              /\ Wants(s) \ tsrv[s].plan \subseteq tschema
              /\ tsrv[s].pass = 1

TenantInv ==
    /\ SchemaTypeOK /\ RecordedMeansSchema /\ ActiveMeansSchema
    /\ trec # None /\ trec.st = "active" => "table" \in tschema
    /\ tdups => tflaw
    /\ \A s \in SchemaServers : TenantKnows(s)
    /\ Quiet => \A s \in SchemaServers : OpensQuietly(s)

-----------------------------------------------------------------------------
(* Lemmas for tenants *)

\* The records a server begins a piece of work with.
LEMMA WorkType ==
    ASSUME SchemaTypeOK, NEW v \in 1..2
    PROVE  /\ \A pc \in SchemaSteps : At(pc, v) \in SchemaRecord
           /\ initWork(v) \in SchemaRecord /\ initWork(v).op = "init" /\ initWork(v).pc \in {"exec", "cols"}
           /\ tidbSchemaSpec(v) \subseteq Elements
<1>1. tidbSchemaSpec(v) \subseteq Elements
  BY DEF tidbSchemaSpec, SchemaTypeOK, SchemaAdditions, Elements, Columns, Indexes
<1>2. ASSUME NEW pc \in SchemaSteps PROVE At(pc, v) \in SchemaRecord
  BY DEF At, SchemaRecord
<1>3. initTiDBAutoEmbeddingSchema(v) \in SchemaRecord
  BY <1>1, ZenonT(30) DEF initTiDBAutoEmbeddingSchema, At, SchemaRecord, SchemaSteps
<1>4. InitSchema(v) \in SchemaRecord
  BY ZenonT(30) DEF InitSchema, At, SchemaRecord, SchemaSteps
<1> QED
  BY <1>1, <1>2, <1>3, <1>4 DEF initWork, initTiDBAutoEmbeddingSchema, InitSchema, At

\* A diff and the repairs planned for it are elements of the schema.
LEMMA DiffType ==
    ASSUME SchemaTypeOK, NEW s \in SchemaServers
    PROVE  /\ diffTiDBTable(s) \subseteq Wants(s)
           /\ plannedTiDBSchemaRepairs(diffTiDBTable(s)) \subseteq diffTiDBTable(s)
           /\ Wants(s) \subseteq Elements
<1>1. tsrv[s].ver \in 1..2
  BY DEF SchemaTypeOK, SchemaRecord
<1> QED
  BY <1>1, WorkType DEF diffTiDBTable, missingTableAndIndexDiffs, diffTiDBTableMetaWithObservedIndexes,
     plannedTiDBSchemaRepairs, Wants

\* What a step may do to the tenant: its schema only grows, its row stays a
\* row, a flaw is remembered and what was given stays.
TenantGrows ==
    /\ tadds' = tadds /\ tvector' = tvector /\ tprov' = tprov
    /\ tschema \subseteq tschema' /\ tschema' \subseteq Elements
    /\ trec \in TenantRecord => trec' \in TenantRecord
    /\ tflaw => tflaw'

\* No repair or create statement takes anything out of a tenant schema.
LEMMA TenantGrowsStep ==
    ASSUME TenantInv, [SchemaNext]_schemaVars
    PROVE  TenantGrows
<1>0. SchemaTypeOK
  BY DEF TenantInv
<1>1. ASSUME NEW s \in SchemaServers, NEW e \in First(tsrv[s].plan), applyTiDBSchemaRepairs(s, e)
      PROVE  TenantGrows
  <2>1. e \in Elements
    BY <1>0 DEF First, SchemaTypeOK, SchemaRecord
  <2>2. tsrv[s].ver \in 1..2
    BY <1>0 DEF SchemaTypeOK, SchemaRecord
  <2>3. parseCreateTableSpec(tsrv[s].ver) \subseteq Elements
    BY <1>0, <2>2, WorkType DEF parseCreateTableSpec, Elements
  <2>4. tschema' = tschema \/ tschema' = tschema \cup AddsElement(s, e)
    BY <1>1 DEF applyTiDBSchemaRepairs
  <2>5. AddsElement(s, e) \subseteq Elements
    BY <2>1, <2>3 DEF AddsElement
  <2> QED
    BY <1>0, <1>1, <2>4, <2>5 DEF applyTiDBSchemaRepairs, TenantGrows, givenVars, SchemaTypeOK
<1>2. ASSUME NEW s \in SchemaServers,
             InsertTenant(s) \/ InsertAPIKey(s) \/ initTenantSchemaAsync(s) \/ UpdateTenantSchemaVersion(s)
      PROVE  TenantGrows
  <2>1. tsrv[s].ver \in 1..2
    BY <1>0 DEF SchemaTypeOK, SchemaRecord
  <2>2. ASSUME trec \in TenantRecord PROVE trec' \in TenantRecord
    <3>1. ASSUME NEW q \in TenantRecord, NEW st \in {"active", "failed", "deleted"} PROVE [q EXCEPT !.st = st] \in TenantRecord
      BY DEF TenantRecord
    <3>2. ASSUME NEW q \in TenantRecord, NEW v \in 1..2 PROVE [q EXCEPT !.by = v] \in TenantRecord
      BY DEF TenantRecord
    <3>3. [trec EXCEPT !.key = TRUE] \in TenantRecord
      BY <2>2 DEF TenantRecord
    <3>4. [trec EXCEPT !.ver = tsrv[s].ver] \in TenantRecord
      BY <2>1, <2>2 DEF TenantRecord
    <3>5. [st |-> "provisioning", ver |-> 0, key |-> FALSE, by |-> 0] \in TenantRecord
      BY DEF TenantRecord
    <3>6. CASE InsertTenant(s)
      BY <2>2, <3>5, <3>6 DEF InsertTenant
    <3>7. CASE InsertAPIKey(s)
      BY <2>2, <3>1, <3>3, <3>7 DEF InsertAPIKey
    <3>8. CASE UpdateTenantSchemaVersion(s)
      BY <2>2, <3>4, <3>8 DEF UpdateTenantSchemaVersion
    <3>9. CASE initTenantSchemaAsync(s)
      <4>1. \/ trec' \in {trec, [trec EXCEPT !.st = "failed"]}
            \/ trec' = [[trec EXCEPT !.st = "active"] EXCEPT !.by = tsrv[s].ver]
        BY <3>9 DEF initTenantSchemaAsync
      <4>2. [trec EXCEPT !.st = "active"] \in TenantRecord /\ [trec EXCEPT !.st = "failed"] \in TenantRecord
        BY <2>2, <3>1
      <4> QED
        BY <2>1, <2>2, <3>2, <4>1, <4>2
    <3> QED
      BY <1>2, <3>6, <3>7, <3>8, <3>9
  <2> QED
    BY <1>0, <1>2, <2>2 DEF InsertTenant, InsertAPIKey, initTenantSchemaAsync, UpdateTenantSchemaVersion,
       TenantGrows, givenVars, SchemaTypeOK
<1>3. ASSUME NEW s \in SchemaServers,
             \/ resumeProvisioningTenants(s) \/ StopServer(s) \/ Provision(s) \/ createBackendSchema(s)
             \/ CloseTenant(s) \/ loadTiDBColumnMeta(s) \/ EnsureTiDBSchemaForMode(s)
             \/ BackfillStorageRefHashes(s) \/ StatementFails(s)
             \/ \E e \in First(tsrv[s].plan) : ensureUniqueIndexRepairSafe(s, e)
      PROVE  TenantGrows
  BY <1>0, <1>3 DEF resumeProvisioningTenants, StopServer, Provision, createBackendSchema, CloseTenant,
     loadTiDBColumnMeta, EnsureTiDBSchemaForMode, BackfillStorageRefHashes, StatementFails,
     ensureUniqueIndexRepairSafe, TenantGrows, givenVars, SchemaTypeOK
<1>4. CASE DuplicateRows \/ UNCHANGED schemaVars
  BY <1>0, <1>4 DEF DuplicateRows, schemaVars, TenantGrows, givenVars, SchemaTypeOK
<1> QED
  BY <1>1, <1>2, <1>3, <1>4 DEF SchemaNext

\* The steps of a server that touch nobody else's work.
ServerStep(s) ==
    \/ resumeProvisioningTenants(s) \/ StopServer(s)
    \/ Provision(s) \/ InsertTenant(s) \/ InsertAPIKey(s) \/ initTenantSchemaAsync(s)
    \/ createBackendSchema(s) \/ UpdateTenantSchemaVersion(s) \/ CloseTenant(s)
    \/ loadTiDBColumnMeta(s) \/ EnsureTiDBSchemaForMode(s)
    \/ BackfillStorageRefHashes(s) \/ StatementFails(s)
    \/ \E e \in First(tsrv[s].plan) : ensureUniqueIndexRepairSafe(s, e) \/ applyTiDBSchemaRepairs(s, e)

\* A step of a server leaves the records of the others alone, and its own is
\* of its type.
LEMMA OneServerSteps ==
    ASSUME TenantInv, NEW s \in SchemaServers, ServerStep(s)
    PROVE  /\ tsrv' \in [SchemaServers -> SchemaRecord]
           /\ \A r \in SchemaServers \ {s} : tsrv'[r] = tsrv[r]
<1> DEFINE Result == /\ tsrv' \in [SchemaServers -> SchemaRecord]
                     /\ \A r \in SchemaServers \ {s} : tsrv'[r] = tsrv[r]
<1>0. SchemaTypeOK /\ tsrv \in [SchemaServers -> SchemaRecord] /\ tsrv[s].ver \in 1..2
  BY DEF TenantInv, SchemaTypeOK, SchemaRecord
<1>1. ASSUME NEW w \in SchemaRecord, tsrv' = [tsrv EXCEPT ![s] = w] PROVE Result
  BY <1>0, <1>1
<1>2. ASSUME NEW pc \in SchemaSteps, Go(s, pc) PROVE Result
  <2>1. [tsrv[s] EXCEPT !.pc = pc] \in SchemaRecord
    BY <1>0 DEF SchemaRecord
  <2>2. tsrv' = [tsrv EXCEPT ![s] = [tsrv[s] EXCEPT !.pc = pc]]
    BY <1>0, <1>2 DEF Go
  <2> QED
    BY <1>1, <2>1, <2>2, ZenonT(30)
<1>3. ASSUME NEW pc \in SchemaSteps, tsrv' = [tsrv EXCEPT ![s] = At(pc, tsrv[s].ver)] PROVE Result
  BY <1>0, <1>1, <1>3, WorkType
<1>4. ASSUME Rest(s) PROVE Result
  BY <1>3, <1>4 DEF Rest, SchemaSteps
<1>5. CASE resumeProvisioningTenants(s)
  <2>1. PICK v \in 1..2 : tsrv' = [tsrv EXCEPT ![s] = IF trec # None /\ trec.st = "provisioning" THEN initWork(v) ELSE At("idle", v)]
    BY <1>5, ZenonT(30) DEF resumeProvisioningTenants
  <2>2. initWork(v) \in SchemaRecord /\ At("idle", v) \in SchemaRecord
    BY <1>0, WorkType DEF SchemaSteps
  <2> QED
    BY <1>1, <2>1, <2>2, ZenonT(30)
<1>6. CASE StopServer(s)
  BY <1>3, <1>6 DEF StopServer, SchemaSteps
<1>7. CASE Provision(s) \/ InsertTenant(s) \/ BackfillStorageRefHashes(s) \/ StatementFails(s) \/ CloseTenant(s)
  BY <1>2, <1>4, <1>7 DEF Provision, InsertTenant, BackfillStorageRefHashes, StatementFails, CloseTenant, SchemaSteps
<1>8. CASE InsertAPIKey(s) \/ initTenantSchemaAsync(s)
  <2>1. Rest(s) \/ tsrv' = [tsrv EXCEPT ![s] = initWork(tsrv[s].ver)]
    BY <1>8 DEF InsertAPIKey, initTenantSchemaAsync
  <2>2. initWork(tsrv[s].ver) \in SchemaRecord
    BY <1>0, WorkType
  <2> QED
    BY <1>1, <1>4, <2>1, <2>2
<1>9. CASE createBackendSchema(s)
  <2>1. \A op \in {"open", "validate"}, p \in Nat :
            [At("cols", tsrv[s].ver) EXCEPT !.op = op, !.pass = p] \in SchemaRecord
    BY <1>0, ZenonT(30) DEF At, SchemaRecord, SchemaSteps
  <2>2. \/ Go(s, "serving")
        \/ tsrv' = [tsrv EXCEPT ![s] = [At("cols", tsrv[s].ver) EXCEPT !.op = "validate", !.pass = 4]]
        \/ tsrv' = [tsrv EXCEPT ![s] = [At("cols", tsrv[s].ver) EXCEPT !.op = "open", !.pass = 1]]
    BY <1>9 DEF createBackendSchema
  <2> QED
    BY <1>1, <1>2, <2>1, <2>2, ZenonT(30) DEF SchemaSteps
<1>10. CASE UpdateTenantSchemaVersion(s)
  BY <1>3, <1>4, <1>10 DEF UpdateTenantSchemaVersion, SchemaSteps
<1>11. CASE loadTiDBColumnMeta(s)
  <2>1. [tsrv[s] EXCEPT !.cols = tschema \ Indexes, !.pc = "idx"] \in SchemaRecord
    BY <1>0, ZenonT(30) DEF SchemaTypeOK, SchemaRecord, SchemaSteps
  <2>2. tsrv' = [tsrv EXCEPT ![s] = [tsrv[s] EXCEPT !.cols = tschema \ Indexes, !.pc = "idx"]]
    BY <1>0, <1>11, ZenonT(30) DEF loadTiDBColumnMeta
  <2> QED
    BY <1>1, <2>1, <2>2, ZenonT(30)
<1>12. CASE EnsureTiDBSchemaForMode(s)
  <2>1. plannedTiDBSchemaRepairs(diffTiDBTable(s)) \subseteq Elements
    BY <1>0, DiffType
  <2>2. ASSUME NEW pc \in SchemaSteps, NEW pass \in Nat, NEW plan \in SUBSET Elements
        PROVE  [tsrv[s] EXCEPT !.pc = pc, !.cols = {}, !.pass = pass, !.plan = plan] \in SchemaRecord
    BY <1>0, ZenonT(30) DEF SchemaRecord
  <2>3. tsrv[s].pass \in Nat /\ AfterDiff(diffTiDBTable(s), tsrv[s].pass) \in {"ok", "err", "cols", "exec"}
    BY <1>0 DEF AfterDiff, SchemaRecord
  <2> DEFINE after == AfterDiff(diffTiDBTable(s), tsrv[s].pass)
             ensures == tsrv[s].op = "open" \/ (tsrv[s].op = "init" /\ tprov = "starter")
             next == IF after = "ok" /\ ensures THEN "backfill" ELSE after
             pass == IF next = "cols" THEN 4 ELSE tsrv[s].pass
             plan == IF next = "exec" THEN plannedTiDBSchemaRepairs(diffTiDBTable(s)) ELSE {}
  <2>4. tsrv' = [tsrv EXCEPT ![s] = [tsrv[s] EXCEPT !.pc = next, !.cols = {}, !.pass = pass, !.plan = plan]]
    BY <1>12 DEF EnsureTiDBSchemaForMode
  <2>5. next \in SchemaSteps /\ pass \in Nat /\ plan \in SUBSET Elements
    BY <2>1, <2>3 DEF SchemaSteps
  <2> HIDE DEF next, pass, plan
  <2> QED
    BY <1>1, <2>2, <2>4, <2>5, ZenonT(30)
<1>13. ASSUME NEW e \in First(tsrv[s].plan), ensureUniqueIndexRepairSafe(s, e) PROVE Result
  BY <1>2, <1>13 DEF ensureUniqueIndexRepairSafe, SchemaSteps
<1>14. ASSUME NEW e \in First(tsrv[s].plan), applyTiDBSchemaRepairs(s, e) PROVE Result
  <2>1. CASE Go(s, "err")
    BY <1>2, <2>1 DEF SchemaSteps
  <2>2. CASE DoneStatement(s, e)
    <3>1. ASSUME NEW pc \in SchemaSteps, NEW pass \in Nat
          PROVE  [tsrv[s] EXCEPT !.plan = tsrv[s].plan \ {e}, !.pc = pc, !.pass = pass] \in SchemaRecord
      BY <1>0, ZenonT(30) DEF SchemaRecord
    <3> DEFINE pc == IF tsrv[s].plan = {e} THEN "cols" ELSE "exec"
               pass == IF tsrv[s].plan = {e} THEN tsrv[s].pass + 1 ELSE tsrv[s].pass
    <3>2. tsrv' = [tsrv EXCEPT ![s] = [tsrv[s] EXCEPT !.plan = tsrv[s].plan \ {e}, !.pc = pc, !.pass = pass]]
      BY <2>2 DEF DoneStatement
    <3>3. pc \in SchemaSteps /\ pass \in Nat
      BY <1>0 DEF SchemaRecord, SchemaSteps
    <3> HIDE DEF pc, pass
    <3> QED
      BY <1>1, <3>1, <3>2, <3>3, ZenonT(30)
  <2> QED
    BY <1>14, <2>1, <2>2 DEF applyTiDBSchemaRepairs
<1> QED
  BY <1>5, <1>6, <1>7, <1>8, <1>9, <1>10, <1>11, <1>12, <1>13, <1>14 DEF ServerStep

\* An empty diff of columns read earlier and indexes read now is the schema.
LEMMA EmptyDiff ==
    ASSUME SchemaTypeOK, NEW s \in SchemaServers, tsrv[s].cols \subseteq tschema, diffTiDBTable(s) = {}
    PROVE  Wants(s) \subseteq tschema
<1>1. "table" \in tsrv[s].cols
  BY DEF diffTiDBTable, missingTableAndIndexDiffs, tidbSchemaSpec, Columns
<1> QED
  BY <1>1 DEF diffTiDBTable, diffTiDBTableMetaWithObservedIndexes, loadObservedTiDBIndexes, Wants

\* What the others do leaves a server's knowledge true.
LEMMA TenantKnowsStays ==
    ASSUME TenantGrows, NEW r \in SchemaServers, TenantKnows(r), tsrv'[r] = tsrv[r]
    PROVE  TenantKnows(r)'
<1>1. Wants(r)' = Wants(r)
  BY DEF Wants, tidbSchemaSpec, TenantGrows
<1> QED
  BY <1>1 DEF TenantKnows, TenantGrows

\* So do its own steps.
LEMMA TenantKnowsStep ==
    ASSUME TenantInv, [SchemaNext]_schemaVars, NEW r \in SchemaServers
    PROVE  TenantKnows(r)'
<1>0. /\ SchemaTypeOK /\ TenantKnows(r) /\ TenantGrows /\ RecordedMeansSchema
      /\ tsrv[r] \in SchemaRecord /\ tsrv[r].ver \in 1..2
      /\ trec # None => trec \in TenantRecord
  BY TenantGrowsStep DEF TenantInv, SchemaTypeOK, SchemaRecord
<1>a. tsrv \in [SchemaServers -> SchemaRecord]
  BY <1>0 DEF SchemaTypeOK
<1>b. ASSUME NEW w, tsrv' = [tsrv EXCEPT ![r] = w] PROVE tsrv'[r] = w
  BY <1>a, <1>b
<1>1. ASSUME tsrv'[r].pc \notin {"idx", "ok", "backfill", "serving", "row"}, tsrv'[r].op = "none" PROVE TenantKnows(r)'
  BY <1>1 DEF TenantKnows
<1>2. ASSUME NEW pc, Rest(r) \/ tsrv' = [tsrv EXCEPT ![r] = At("down", tsrv[r].ver)] PROVE TenantKnows(r)'
  BY <1>b, <1>1, <1>2 DEF Rest, At
<1>3. ASSUME NEW v \in 1..2, tsrv' = [tsrv EXCEPT ![r] = initWork(v)], trec' \in TenantRecord PROVE TenantKnows(r)'
  <2>1. tsrv'[r].op = "init" /\ tsrv'[r].pc \in {"exec", "cols"}
    BY <1>0, <1>b, <1>3, WorkType, ZenonT(30)
  <2> QED
    BY <1>3, <2>1 DEF TenantKnows
<1>4. CASE resumeProvisioningTenants(r)
  <2>1. PICK v \in 1..2 : tsrv' = [tsrv EXCEPT ![r] = IF trec # None /\ trec.st = "provisioning" THEN initWork(v) ELSE At("idle", v)]
    BY <1>4, ZenonT(30) DEF resumeProvisioningTenants
  <2>2. CASE trec # None /\ trec.st = "provisioning"
    BY <1>0, <1>3, <1>4, <2>1, <2>2, ZenonT(30) DEF resumeProvisioningTenants
  <2>3. CASE ~(trec # None /\ trec.st = "provisioning")
    <3>1. tsrv'[r] = At("idle", v)
      BY <1>b, <2>1, <2>3, ZenonT(30)
    <3> QED
      BY <1>1, <3>1 DEF At
  <2> QED
    BY <2>2, <2>3
<1>5. CASE StopServer(r) \/ CloseTenant(r)
  BY <1>2, <1>5 DEF StopServer, CloseTenant
<1>6. ASSUME NEW pc, Go(r, pc) PROVE tsrv'[r] = [tsrv[r] EXCEPT !.pc = pc] /\ tsrv'[r].pc = pc /\ tsrv'[r].op = tsrv[r].op /\ tsrv'[r].ver = tsrv[r].ver
  BY <1>0, <1>a, <1>6 DEF Go, SchemaRecord
<1>7. Wants(r)' = tidbSchemaSpec(tsrv'[r].ver)
  BY <1>0 DEF Wants, tidbSchemaSpec, TenantGrows
<1>8. CASE Provision(r) \/ StatementFails(r)
  <2>1. tsrv'[r].pc \in {"cluster", "err"} /\ tsrv'[r].op = tsrv[r].op
    BY <1>6, <1>8, ZenonT(30) DEF Provision, StatementFails
  <2> QED
    BY <1>0, <2>1 DEF TenantKnows, TenantGrows
<1>9. CASE InsertTenant(r)
  <2>1. CASE Rest(r)
    BY <1>2, <2>1
  <2>2. CASE Go(r, "row") /\ trec' = [st |-> "provisioning", ver |-> 0, key |-> FALSE, by |-> 0]
    <3>1. trec' \in TenantRecord
      BY <2>2 DEF TenantRecord
    <3>2. tsrv'[r].pc = "row" /\ tsrv'[r].op = tsrv[r].op
      BY <1>6, <2>2, ZenonT(30)
    <3> QED
      BY <1>0, <3>1, <3>2 DEF TenantKnows, TenantGrows
  <2> QED
    BY <1>9, <2>1, <2>2 DEF InsertTenant
<1>10. CASE InsertAPIKey(r) \/ initTenantSchemaAsync(r)
  <2>1. trec \in TenantRecord
    BY <1>0, <1>10 DEF InsertAPIKey, initTenantSchemaAsync, TenantKnows
  <2>2. Rest(r) \/ tsrv' = [tsrv EXCEPT ![r] = initWork(tsrv[r].ver)]
    BY <1>10 DEF InsertAPIKey, initTenantSchemaAsync
  <2> QED
    BY <1>0, <1>2, <1>3, <2>1, <2>2 DEF TenantGrows
<1>11. CASE createBackendSchema(r)
  <2>1. trec \in TenantRecord /\ trec' = trec /\ "table" \in tschema
    BY <1>0, <1>11 DEF createBackendSchema, TenantInv
  <2>2. CASE Go(r, "serving") /\ SchemaCurrent(r)
    <3>1. Wants(r) \subseteq tschema
      BY <1>0, <1>11, <2>2 DEF createBackendSchema, SchemaCurrent, RecordedMeansSchema, Wants
    <3>2. tsrv'[r].pc = "serving" /\ tsrv'[r].op = tsrv[r].op /\ tsrv'[r].ver = tsrv[r].ver
      BY <1>6, <2>2, ZenonT(30)
    <3> QED
      BY <1>0, <1>7, <2>1, <3>1, <3>2 DEF TenantKnows, TenantGrows, Wants
  <2>3. CASE \E op \in {"open", "validate"}, p \in Nat :
                tsrv' = [tsrv EXCEPT ![r] = [At("cols", tsrv[r].ver) EXCEPT !.op = op, !.pass = p]]
    <3>1. tsrv'[r].pc = "cols"
      BY <1>b, <2>3, ZenonT(30) DEF At
    <3> QED
      BY <1>0, <2>1, <3>1 DEF TenantKnows, TenantGrows
  <2> QED
    BY <1>11, <2>2, <2>3, ZenonT(30) DEF createBackendSchema
<1>12. CASE UpdateTenantSchemaVersion(r)
  <2>1. CASE Rest(r)
    BY <1>2, <2>1
  <2>2. CASE tsrv[r].pc = "ok" /\ tsrv' = [tsrv EXCEPT ![r] = At("serving", tsrv[r].ver)]
    <3>1. tsrv'[r] = At("serving", tsrv[r].ver)
      BY <1>b, <2>2, ZenonT(30)
    <3>2. tsrv'[r].pc = "serving" /\ tsrv'[r].op = "none" /\ tsrv'[r].ver = tsrv[r].ver
      BY <3>1 DEF At
    <3> QED
      BY <1>0, <1>7, <2>2, <3>2 DEF TenantKnows, TenantGrows, Wants
  <2> QED
    BY <1>12, <2>1, <2>2 DEF UpdateTenantSchemaVersion
<1>13. CASE loadTiDBColumnMeta(r)
  <2>1. tsrv'[r].pc = "idx" /\ tsrv'[r].op = tsrv[r].op /\ tsrv'[r].cols \subseteq tschema
    BY <1>0, <1>a, <1>13 DEF loadTiDBColumnMeta, SchemaRecord
  <2> QED
    BY <1>0, <2>1 DEF TenantKnows, TenantGrows
<1>14. CASE EnsureTiDBSchemaForMode(r)
  <2> DEFINE after == AfterDiff(diffTiDBTable(r), tsrv[r].pass)
  <2>1. /\ tsrv'[r].pc \in {after, "backfill"} /\ (tsrv'[r].pc = "backfill" => after = "ok")
        /\ tsrv'[r].op = tsrv[r].op /\ tsrv'[r].ver = tsrv[r].ver
    <3> DEFINE ensures == tsrv[r].op = "open" \/ (tsrv[r].op = "init" /\ tprov = "starter")
               next == IF after = "ok" /\ ensures THEN "backfill" ELSE after
               pass == IF next = "cols" THEN 4 ELSE tsrv[r].pass
               plan == IF next = "exec" THEN plannedTiDBSchemaRepairs(diffTiDBTable(r)) ELSE {}
    <3>1. tsrv' = [tsrv EXCEPT ![r] = [tsrv[r] EXCEPT !.pc = next, !.cols = {}, !.pass = pass, !.plan = plan]]
      BY <1>14 DEF EnsureTiDBSchemaForMode
    <3>2. next \in {after, "backfill"} /\ (next = "backfill" => after = "ok")
      BY DEF AfterDiff
    <3> HIDE DEF after, next, pass, plan
    <3>3. tsrv'[r] = [tsrv[r] EXCEPT !.pc = next, !.cols = {}, !.pass = pass, !.plan = plan]
      BY <1>b, <3>1, ZenonT(30)
    <3>4. tsrv'[r].pc = next /\ tsrv'[r].op = tsrv[r].op /\ tsrv'[r].ver = tsrv[r].ver
      BY <1>0, <3>3 DEF SchemaRecord
    <3> QED
      BY <3>2, <3>4
  <2>2. after \in {"ok", "err", "cols", "exec"} /\ (after = "ok" => diffTiDBTable(r) = {})
    BY DEF AfterDiff
  <2>3. after = "ok" => Wants(r) \subseteq tschema
    BY <1>0, <1>14, <2>2, EmptyDiff DEF EnsureTiDBSchemaForMode, TenantKnows
  <2> HIDE DEF after
  <2> QED
    BY <1>0, <1>7, <2>1, <2>2, <2>3 DEF TenantKnows, TenantGrows, Wants
<1>15. CASE BackfillStorageRefHashes(r)
  <2>1. tsrv[r].pc = "backfill" /\ tsrv'[r].pc = "ok" /\ tsrv'[r].op = tsrv[r].op /\ tsrv'[r].ver = tsrv[r].ver
    BY <1>6, <1>15, ZenonT(30) DEF BackfillStorageRefHashes
  <2> QED
    BY <1>0, <1>7, <2>1 DEF TenantKnows, TenantGrows, Wants
<1>16. ASSUME NEW e, ensureUniqueIndexRepairSafe(r, e) PROVE TenantKnows(r)'
  <2>1. tsrv'[r].pc \in {"check", "err"} /\ tsrv'[r].op = tsrv[r].op
    BY <1>6, <1>16, ZenonT(30) DEF ensureUniqueIndexRepairSafe
  <2> QED
    BY <1>0, <2>1 DEF TenantKnows, TenantGrows
<1>17. ASSUME NEW e, applyTiDBSchemaRepairs(r, e) PROVE TenantKnows(r)'
  <2>1. CASE Go(r, "err")
    <3>1. tsrv'[r].pc = "err" /\ tsrv'[r].op = tsrv[r].op
      BY <1>6, <2>1, ZenonT(30)
    <3> QED
      BY <1>0, <3>1 DEF TenantKnows, TenantGrows
  <2>2. CASE DoneStatement(r, e)
    <3> DEFINE pc == IF tsrv[r].plan = {e} THEN "cols" ELSE "exec"
               pass == IF tsrv[r].plan = {e} THEN tsrv[r].pass + 1 ELSE tsrv[r].pass
    <3>1. tsrv' = [tsrv EXCEPT ![r] = [tsrv[r] EXCEPT !.plan = tsrv[r].plan \ {e}, !.pc = pc, !.pass = pass]]
      BY <2>2 DEF DoneStatement
    <3>2. pc \in {"cols", "exec"}
      OBVIOUS
    <3> HIDE DEF pc, pass
    <3>3. tsrv'[r] = [tsrv[r] EXCEPT !.plan = tsrv[r].plan \ {e}, !.pc = pc, !.pass = pass]
      BY <1>b, <3>1, ZenonT(30)
    <3>4. tsrv'[r].pc \in {"cols", "exec"} /\ tsrv'[r].op = tsrv[r].op
      BY <1>0, <3>2, <3>3 DEF SchemaRecord
    <3> QED
      BY <1>0, <3>4 DEF TenantKnows, TenantGrows
  <2> QED
    BY <1>17, <2>1, <2>2 DEF applyTiDBSchemaRepairs
<1>18. ASSUME NEW s \in SchemaServers, s # r, ServerStep(s) PROVE TenantKnows(r)'
  BY <1>0, <1>18, OneServerSteps, TenantKnowsStays
<1>19. CASE DuplicateRows \/ UNCHANGED schemaVars
  BY <1>0, <1>19, TenantKnowsStays DEF DuplicateRows, schemaVars
<1> QED
  BY <1>4, <1>5, <1>8, <1>9, <1>10, <1>11, <1>12, <1>13, <1>14, <1>15, <1>16, <1>17, <1>18, <1>19
     DEF SchemaNext, ServerStep

\* The row of the tenant promises only what the database has.
LEMMA TenantRowStep ==
    ASSUME TenantInv, [SchemaNext]_schemaVars
    PROVE  /\ RecordedMeansSchema' /\ ActiveMeansSchema'
           /\ (trec # None /\ trec.st = "active" => "table" \in tschema)'
           /\ (tdups => tflaw)'
           /\ (trec = None \/ trec \in TenantRecord)'
<1> DEFINE Result == /\ RecordedMeansSchema' /\ ActiveMeansSchema'
                     /\ (trec # None /\ trec.st = "active" => "table" \in tschema)'
                     /\ (tdups => tflaw)'
                     /\ (trec = None \/ trec \in TenantRecord)'
<1>0. /\ SchemaTypeOK /\ TenantGrows /\ RecordedMeansSchema /\ ActiveMeansSchema
      /\ trec # None /\ trec.st = "active" => "table" \in tschema
      /\ tdups => tflaw
      /\ trec = None \/ trec \in TenantRecord
      /\ \A s \in SchemaServers : TenantKnows(s) /\ tsrv[s].ver \in 1..2
  BY TenantGrowsStep DEF TenantInv, SchemaTypeOK, SchemaRecord
<1>1. \A v : tidbSchemaSpec(v)' = tidbSchemaSpec(v)
  BY <1>0 DEF tidbSchemaSpec, TenantGrows
<1>2. (tdups => tflaw)'
  BY <1>0, ZenonT(30) DEF SchemaNext, schemaVars, DuplicateRows, resumeProvisioningTenants, StopServer, Provision, InsertTenant,
     InsertAPIKey, initTenantSchemaAsync, createBackendSchema, UpdateTenantSchemaVersion, CloseTenant,
     loadTiDBColumnMeta, EnsureTiDBSchemaForMode, BackfillStorageRefHashes, StatementFails,
     ensureUniqueIndexRepairSafe, applyTiDBSchemaRepairs
<1>3. ASSUME trec' = trec PROVE Result
  BY <1>0, <1>1, <1>2, <1>3 DEF RecordedMeansSchema, ActiveMeansSchema, TenantGrows
<1>4. ASSUME trec' \in TenantRecord,
             trec'.ver > 0 => tidbSchemaSpec(trec'.ver) \subseteq tschema,
             trec'.st = "active" => "table" \in tschema,
             trec'.st = "active" /\ trec'.by > 0 => tidbSchemaSpec(trec'.by) \subseteq tschema
      PROVE  Result
  BY <1>0, <1>1, <1>2, <1>4 DEF RecordedMeansSchema, ActiveMeansSchema, TenantGrows
<1>5. ASSUME NEW s \in SchemaServers, InsertTenant(s) PROVE Result
  <2>1. CASE trec' = [st |-> "provisioning", ver |-> 0, key |-> FALSE, by |-> 0]
    <3>1. trec' \in TenantRecord /\ trec'.ver = 0 /\ trec'.st = "provisioning"
      BY <2>1 DEF TenantRecord
    <3> QED
      BY <1>4, <3>1
  <2> QED
    BY <1>3, <1>5, <2>1 DEF InsertTenant
<1>6. ASSUME trec \in TenantRecord, trec.ver > 0 => tidbSchemaSpec(trec.ver) \subseteq tschema,
             NEW st \in {"deleted", "failed"}, trec' = [trec EXCEPT !.st = st]
      PROVE  Result
  <2>1. trec' \in TenantRecord /\ trec'.ver = trec.ver /\ trec'.st = st
    BY <1>6 DEF TenantRecord
  <2> QED
    BY <1>4, <1>6, <2>1
<1>7. ASSUME NEW s \in SchemaServers, InsertAPIKey(s) PROVE Result
  <2>1. trec \in TenantRecord
    BY <1>0, <1>7 DEF InsertAPIKey, TenantKnows
  <2>2. CASE trec' = [trec EXCEPT !.key = TRUE]
    <3>1. trec' \in TenantRecord /\ trec'.ver = trec.ver /\ trec'.st = trec.st /\ trec'.by = trec.by
      BY <2>1, <2>2, ZenonT(30) DEF TenantRecord
    <3> QED
      BY <1>0, <1>4, <2>1, <3>1, NoRowAssumption DEF RecordedMeansSchema, ActiveMeansSchema
  <2> QED
    BY <1>0, <1>3, <1>6, <1>7, <2>1, <2>2, NoRowAssumption DEF InsertAPIKey, RecordedMeansSchema
<1>8. ASSUME NEW s \in SchemaServers, initTenantSchemaAsync(s) PROVE Result
  <2>1. trec \in TenantRecord
    BY <1>0, <1>8 DEF initTenantSchemaAsync, TenantKnows
  <2>2. CASE tsrv[s].pc = "ok" /\ trec' = [trec EXCEPT !.st = "active", !.by = tsrv[s].ver]
    <3>0. tsrv[s].ver \in 1..2
      BY <1>0
    <3>1. trec' \in TenantRecord /\ trec'.ver = trec.ver /\ trec'.by = tsrv[s].ver
      <4>1. trec' = [[trec EXCEPT !.st = "active"] EXCEPT !.by = tsrv[s].ver]
        BY <2>2
      <4>2. [trec EXCEPT !.st = "active"] \in TenantRecord /\ [trec EXCEPT !.st = "active"].ver = trec.ver
        BY <2>1 DEF TenantRecord
      <4>3. ASSUME NEW q \in TenantRecord, NEW v \in 1..2
            PROVE  LET new == [q EXCEPT !.by = v] IN new \in TenantRecord /\ new.ver = q.ver /\ new.by = v
        BY DEF TenantRecord
      <4> QED
        BY <3>0, <4>1, <4>2, <4>3, ZenonT(30)
    <3>2. tidbSchemaSpec(tsrv[s].ver) \subseteq tschema
      BY <1>0, <2>2 DEF TenantKnows, Wants
    <3>3. "table" \in tschema
      BY <3>2 DEF tidbSchemaSpec
    <3> QED
      BY <1>0, <1>4, <2>1, <3>1, <3>2, <3>3, NoRowAssumption DEF RecordedMeansSchema
  <2> QED
    BY <1>0, <1>3, <1>6, <1>8, <2>1, <2>2, NoRowAssumption DEF initTenantSchemaAsync, RecordedMeansSchema
<1>9. ASSUME NEW s \in SchemaServers, UpdateTenantSchemaVersion(s) PROVE Result
  <2>1. CASE tsrv[s].pc = "ok" /\ trec' = [trec EXCEPT !.ver = tsrv[s].ver]
    <3>1. trec \in TenantRecord
      BY <1>0, <1>9 DEF UpdateTenantSchemaVersion, TenantKnows
    <3>2. trec' \in TenantRecord /\ trec'.ver = tsrv[s].ver /\ trec'.by = trec.by /\ trec'.st = trec.st
      BY <1>0, <2>1, <3>1 DEF TenantRecord
    <3>3. tidbSchemaSpec(tsrv[s].ver) \subseteq tschema
      BY <1>0, <2>1 DEF TenantKnows, Wants
    <3> QED
      BY <1>0, <1>4, <3>1, <3>2, <3>3, NoRowAssumption DEF ActiveMeansSchema
  <2> QED
    BY <1>3, <1>9, <2>1 DEF UpdateTenantSchemaVersion
<1>10. ASSUME NEW s \in SchemaServers,
             \/ resumeProvisioningTenants(s) \/ StopServer(s) \/ Provision(s) \/ createBackendSchema(s)
             \/ CloseTenant(s) \/ loadTiDBColumnMeta(s) \/ EnsureTiDBSchemaForMode(s)
             \/ BackfillStorageRefHashes(s) \/ StatementFails(s)
             \/ \E e \in First(tsrv[s].plan) : ensureUniqueIndexRepairSafe(s, e) \/ applyTiDBSchemaRepairs(s, e)
      PROVE  trec' = trec
  BY <1>10 DEF resumeProvisioningTenants, StopServer, Provision, createBackendSchema, CloseTenant,
     loadTiDBColumnMeta, EnsureTiDBSchemaForMode, BackfillStorageRefHashes, StatementFails,
     ensureUniqueIndexRepairSafe, applyTiDBSchemaRepairs
<1>11. DuplicateRows \/ UNCHANGED schemaVars => trec' = trec
  BY DEF DuplicateRows, schemaVars
<1> QED
  BY <1>3, <1>5, <1>7, <1>8, <1>9, <1>10, <1>11 DEF SchemaNext

\* What version 2 adds, when all is quiet, is safe to add, and an index on an
\* added column comes with its column.
LEMMA QuietAdditions ==
    ASSUME SchemaTypeOK, Quiet, NEW s \in SchemaServers
    PROVE  /\ plannedTiDBSchemaRepairs(diffTiDBTable(s)) = diffTiDBTable(s)
           /\ "cindex" \in Wants(s) => "column" \in Wants(s)
           /\ "vector" \in Wants(s) => tvector
           /\ "table" \in Wants(s)
<1>1. Wants(s) \subseteq {"table", "index", "column", "cindex", "unique", "vector"}
  BY DEF Wants, tidbSchemaSpec, Quiet, SchemaTypeOK, SchemaAdditions
<1>2. diffTiDBTable(s) \subseteq Wants(s)
  BY DiffType
<1>3. \A e \in Wants(s) : isSafeTiDBRepairDiff(e)
  BY <1>1 DEF isSafeTiDBRepairDiff, isSafeAddColumnRepairSQL, isSafeAddIndexRepairSQL, Indexes
<1> QED
  BY <1>2, <1>3 DEF plannedTiDBSchemaRepairs, Wants, tidbSchemaSpec, Quiet, SchemaTypeOK, SchemaAdditions

\* A schema that is quiet after a step was quiet before it: nothing is dropped.
LEMMA QuietStays ==
    ASSUME TenantGrows, Quiet'
    PROVE  Quiet
BY DEF TenantGrows, Quiet

\* Steps of other servers do not disturb an open.
LEMMA OpensQuietlyStays ==
    ASSUME TenantGrows, NEW r \in SchemaServers, OpensQuietly(r), tsrv'[r] = tsrv[r]
    PROVE  OpensQuietly(r)'
<1>1. Wants(r)' = Wants(r)
  BY DEF Wants, tidbSchemaSpec, TenantGrows
<1> QED
  BY <1>1 DEF OpensQuietly, TenantGrows

\* A repair that an open runs when all is quiet is not refused, and its element
\* is there afterwards.
LEMMA QuietRepair ==
    ASSUME TenantInv, Quiet, NEW r \in SchemaServers, tsrv[r].op \in {"open", "validate"},
           NEW e \in First(tsrv[r].plan), applyTiDBSchemaRepairs(r, e)
    PROVE  /\ DoneStatement(r, e) /\ e \in tschema' /\ tschema \subseteq tschema'
           /\ tsrv[r].pc \in {"exec", "check"} /\ e \in tsrv[r].plan
<1>0. /\ SchemaTypeOK /\ OpensQuietly(r) /\ TenantKnows(r) /\ ~tdups
      /\ tsrv[r].plan \subseteq Elements
  BY DEF TenantInv, Quiet, SchemaTypeOK, SchemaRecord
<1>1. tsrv[r].pc \in {"exec", "check"} /\ e \in tsrv[r].plan
  BY DEF applyTiDBSchemaRepairs, First
<1>2. e \in Wants(r) /\ "table" \in tschema /\ Wants(r) \ tsrv[r].plan \subseteq tschema
  BY <1>0, <1>1 DEF OpensQuietly, TenantKnows
<1>3. ASSUME e = "cindex" PROVE "column" \in tschema
  <2>1. "column" \in Wants(r)
    BY <1>0, <1>2, <1>3, QuietAdditions
  <2>2. "column" \notin tsrv[r].plan
    BY <1>3 DEF First, Columns
  <2> QED
    BY <1>2, <2>1, <2>2
<1>4. ~Refused(r, e)
  BY <1>0, <1>2, <1>3 DEF Refused
<1>5. isIgnorableTiDBSchemaError(AlreadyExists(e))
  BY DEF isIgnorableTiDBSchemaError, AlreadyExists
<1>6. DoneStatement(r, e) /\ tschema' = tschema \cup AddsElement(r, e)
  BY <1>4, <1>5 DEF applyTiDBSchemaRepairs
<1>7. e = "vector" => tvector
  BY <1>0, <1>2, QuietAdditions
<1>8. e \in tschema \/ e \in AddsElement(r, e)
  BY <1>7 DEF AddsElement, parseCreateTableSpec
<1> QED
  BY <1>1, <1>6, <1>8

\* An open that is not disturbed goes on without an error.
LEMMA OpensQuietlyStep ==
    ASSUME TenantInv, [SchemaNext]_schemaVars, Quiet', NEW r \in SchemaServers
    PROVE  OpensQuietly(r)'
<1>0. /\ SchemaTypeOK /\ TenantKnows(r) /\ TenantGrows /\ RecordedMeansSchema /\ Quiet /\ OpensQuietly(r)
      /\ tsrv[r] \in SchemaRecord /\ tsrv[r].ver \in 1..2 /\ tsrv[r].pass \in Nat
      /\ tsrv \in [SchemaServers -> SchemaRecord] /\ ~tdups
  <2>1. TenantGrows
    BY TenantGrowsStep
  <2>2. Quiet
    BY <2>1, QuietStays
  <2> QED
    BY <2>1, <2>2 DEF TenantInv, SchemaTypeOK, SchemaRecord, Quiet
<1>a. ASSUME NEW w, tsrv' = [tsrv EXCEPT ![r] = w] PROVE tsrv'[r] = w
  BY <1>0, <1>a
<1>b. ASSUME NEW pc, Go(r, pc)
      PROVE  /\ tsrv'[r] = [tsrv[r] EXCEPT !.pc = pc] /\ tsrv'[r].pc = pc /\ tsrv'[r].op = tsrv[r].op
             /\ tsrv'[r].ver = tsrv[r].ver /\ tsrv'[r].pass = tsrv[r].pass /\ tsrv'[r].plan = tsrv[r].plan
  BY <1>0, <1>b DEF Go, SchemaRecord
<1>c. Wants(r)' = tidbSchemaSpec(tsrv'[r].ver)
  BY <1>0 DEF Wants, tidbSchemaSpec, TenantGrows
<1>1. ASSUME tsrv'[r].op \notin {"open", "validate"} PROVE OpensQuietly(r)'
  BY <1>1 DEF OpensQuietly
<1>2. ASSUME Rest(r) PROVE OpensQuietly(r)'
  <2>1. tsrv'[r] = At("idle", tsrv[r].ver)
    BY <1>a, <1>2, ZenonT(30) DEF Rest
  <2> QED
    BY <1>1, <2>1 DEF At
<1>3. ASSUME NEW v \in 1..2, tsrv' = [tsrv EXCEPT ![r] = initWork(v)] PROVE OpensQuietly(r)'
  BY <1>0, <1>a, <1>1, <1>3, WorkType
<1>4. CASE resumeProvisioningTenants(r)
  <2>1. PICK v \in 1..2 : tsrv' = [tsrv EXCEPT ![r] = IF trec # None /\ trec.st = "provisioning" THEN initWork(v) ELSE At("idle", v)]
    BY <1>4, ZenonT(30) DEF resumeProvisioningTenants
  <2>2. CASE trec # None /\ trec.st = "provisioning"
    BY <1>3, <2>1, <2>2, ZenonT(30)
  <2>3. CASE ~(trec # None /\ trec.st = "provisioning")
    <3>1. tsrv'[r] = At("idle", v)
      BY <1>a, <2>1, <2>3, ZenonT(30)
    <3> QED
      BY <1>1, <3>1 DEF At
  <2> QED
    BY <2>2, <2>3
<1>5. CASE StopServer(r) \/ CloseTenant(r) \/ InsertAPIKey(r) \/ initTenantSchemaAsync(r)
  <2>1. Rest(r) \/ tsrv' = [tsrv EXCEPT ![r] = initWork(tsrv[r].ver)] \/ tsrv' = [tsrv EXCEPT ![r] = At("down", tsrv[r].ver)]
    BY <1>5 DEF StopServer, CloseTenant, InsertAPIKey, initTenantSchemaAsync
  <2>2. At("down", tsrv[r].ver).op = "none"
    BY DEF At
  <2> QED
    BY <1>0, <1>a, <1>1, <1>2, <1>3, <2>1, <2>2
<1>6. ASSUME NEW pc \in {"cluster", "row", "serving"}, Go(r, pc), tsrv[r].pc # "err" PROVE OpensQuietly(r)'
  <2>1. tsrv'[r].pc = pc /\ tsrv'[r].op = tsrv[r].op /\ tsrv'[r].ver = tsrv[r].ver /\ tsrv'[r].pass = tsrv[r].pass
    BY <1>b, <1>6, ZenonT(30)
  <2> QED
    BY <1>0, <1>6, <1>c, <2>1 DEF OpensQuietly, TenantGrows, Wants
<1>7. CASE Provision(r) \/ InsertTenant(r)
  BY <1>2, <1>6, <1>7, ZenonT(30) DEF Provision, InsertTenant
<1>8. CASE StatementFails(r)
  BY <1>8 DEF StatementFails, Quiet
<1>9. CASE createBackendSchema(r)
  <2>1. SchemaCurrent(r) => Wants(r) \subseteq tschema
    BY <1>0, <1>9 DEF createBackendSchema, SchemaCurrent, RecordedMeansSchema, Wants
  <2>2. CASE Go(r, "serving")
    BY <1>6, <1>9, <2>2 DEF createBackendSchema
  <2>3. CASE SchemaCurrent(r) /\ tsrv' = [tsrv EXCEPT ![r] = [At("cols", tsrv[r].ver) EXCEPT !.op = "validate", !.pass = 4]]
    <3>1. tsrv'[r].pc = "cols" /\ tsrv'[r].op = "validate" /\ tsrv'[r].ver = tsrv[r].ver
      BY <1>a, <2>3, ZenonT(30) DEF At
    <3> QED
      BY <1>0, <1>c, <2>1, <2>3, <3>1 DEF OpensQuietly, TenantGrows, Wants
  <2>4. CASE tsrv' = [tsrv EXCEPT ![r] = [At("cols", tsrv[r].ver) EXCEPT !.op = "open", !.pass = 1]]
    <3>1. tsrv'[r].pc = "cols" /\ tsrv'[r].op = "open" /\ tsrv'[r].pass = 1
      BY <1>a, <2>4, ZenonT(30) DEF At
    <3> QED
      BY <3>1 DEF OpensQuietly
  <2> QED
    BY <1>9, <2>2, <2>3, <2>4 DEF createBackendSchema
<1>10. CASE UpdateTenantSchemaVersion(r)
  <2>1. CASE Rest(r)
    BY <1>2, <2>1
  <2>2. CASE tsrv' = [tsrv EXCEPT ![r] = At("serving", tsrv[r].ver)]
    <3>1. tsrv'[r] = At("serving", tsrv[r].ver)
      BY <1>a, <2>2, ZenonT(30)
    <3> QED
      BY <1>1, <3>1 DEF At
  <2> QED
    BY <1>10, <2>1, <2>2 DEF UpdateTenantSchemaVersion
<1>11. CASE loadTiDBColumnMeta(r)
  <2>1. /\ tsrv[r].pc = "cols" /\ tsrv'[r].pc = "idx" /\ tsrv'[r].op = tsrv[r].op /\ tsrv'[r].ver = tsrv[r].ver
        /\ tsrv'[r].pass = tsrv[r].pass /\ tsrv'[r].cols = tschema \ Indexes
    BY <1>0, <1>11 DEF loadTiDBColumnMeta, SchemaRecord
  <2>2. "table" \notin Indexes
    BY DEF Indexes
  <2>3. tidbSchemaSpec(tsrv[r].ver) = Wants(r)
    BY DEF Wants
  <2> QED
    BY <1>0, <1>c, <2>1, <2>2, <2>3 DEF OpensQuietly, TenantGrows, TenantKnows
<1>12. CASE EnsureTiDBSchemaForMode(r) /\ tsrv[r].op \in {"open", "validate"}
  <2> DEFINE after == AfterDiff(diffTiDBTable(r), tsrv[r].pass)
             ensures == tsrv[r].op = "open" \/ (tsrv[r].op = "init" /\ tprov = "starter")
             next == IF after = "ok" /\ ensures THEN "backfill" ELSE after
             pass == IF next = "cols" THEN 4 ELSE tsrv[r].pass
             plan == IF next = "exec" THEN plannedTiDBSchemaRepairs(diffTiDBTable(r)) ELSE {}
             diffs == diffTiDBTable(r)
  <2>1. tsrv' = [tsrv EXCEPT ![r] = [tsrv[r] EXCEPT !.pc = next, !.cols = {}, !.pass = pass, !.plan = plan]]
    BY <1>12 DEF EnsureTiDBSchemaForMode
  <2>2. /\ tsrv[r].pc = "idx" /\ "table" \in tsrv[r].cols /\ tsrv[r].cols \subseteq tschema
        /\ tsrv[r].op = "validate" \/ tsrv[r].pass >= 2 =>
              Wants(r) \subseteq tschema /\ Wants(r) \ Indexes \subseteq tsrv[r].cols
        /\ tsrv[r].op = "validate" \/ tsrv[r].pass \in 1..3
    BY <1>0, <1>12 DEF EnsureTiDBSchemaForMode, OpensQuietly, TenantKnows
  <2>3. diffs = Wants(r) \ (tsrv[r].cols \cup (tschema \cap Indexes))
    BY <2>2 DEF diffTiDBTable, diffTiDBTableMetaWithObservedIndexes, loadObservedTiDBIndexes, Wants
  <2>4. tsrv[r].op = "validate" \/ tsrv[r].pass >= 2 => diffs = {}
    BY <2>2, <2>3
  <2>5. plannedTiDBSchemaRepairs(diffs) = diffs
    BY <1>0, QuietAdditions
  <2>6. CASE diffs = {}
    <3>1. next \in {"ok", "backfill"} /\ pass = tsrv[r].pass
      BY <2>6 DEF AfterDiff
    <3> HIDE DEF next, pass, plan
    <3>2. tsrv'[r] = [tsrv[r] EXCEPT !.pc = next, !.cols = {}, !.pass = pass, !.plan = plan]
      BY <1>a, <2>1, ZenonT(30)
    <3>3. tsrv'[r].pc = next /\ tsrv'[r].op = tsrv[r].op /\ tsrv'[r].ver = tsrv[r].ver /\ tsrv'[r].pass = pass
      BY <1>0, <3>2 DEF SchemaRecord
    <3>4. Wants(r)' = Wants(r)
      BY <1>c, <3>3 DEF Wants
    <3> QED
      BY <1>0, <2>2, <3>1, <3>3, <3>4 DEF OpensQuietly, TenantGrows
  <2>7. CASE diffs # {}
    <3>1. tsrv[r].pass = 1
      BY <1>0, <2>2, <2>4, <2>7
    <3>2. next = "exec" /\ pass = tsrv[r].pass /\ plan = diffs
      BY <2>5, <2>7, <3>1 DEF AfterDiff
    <3> HIDE DEF next, pass, plan, diffs
    <3>3. tsrv'[r] = [tsrv[r] EXCEPT !.pc = next, !.cols = {}, !.pass = pass, !.plan = plan]
      BY <1>a, <2>1, ZenonT(30)
    <3>4. /\ tsrv'[r].pc = "exec" /\ tsrv'[r].op = tsrv[r].op /\ tsrv'[r].ver = tsrv[r].ver
          /\ tsrv'[r].pass = 1 /\ tsrv'[r].plan = diffs
      BY <1>0, <3>1, <3>2, <3>3 DEF SchemaRecord
    <3>5. Wants(r)' = Wants(r) /\ diffs \subseteq Wants(r) /\ Wants(r) \ diffs \subseteq tschema
      BY <1>c, <2>2, <2>3, <3>4 DEF Wants
    <3>6. tsrv[r].op # "validate"
      BY <2>4, <2>7
    <3> QED
      BY <1>0, <2>7, <3>4, <3>5, <3>6 DEF OpensQuietly, TenantGrows
  <2> QED
    BY <2>6, <2>7
<1>13. CASE EnsureTiDBSchemaForMode(r) /\ tsrv[r].op \notin {"open", "validate"}
  <2>1. tsrv'[r].op = tsrv[r].op
    BY <1>0, <1>13 DEF EnsureTiDBSchemaForMode, SchemaRecord
  <2> QED
    BY <1>1, <1>13, <2>1
<1>14. CASE BackfillStorageRefHashes(r)
  <2>1. /\ tsrv'[r].pc = "ok" /\ tsrv'[r].op = tsrv[r].op /\ tsrv'[r].ver = tsrv[r].ver
        /\ tsrv'[r].pass = tsrv[r].pass
    BY <1>b, <1>14, ZenonT(30) DEF BackfillStorageRefHashes
  <2>2. Wants(r)' = Wants(r)
    BY <1>c, <2>1 DEF Wants
  <2> QED
    BY <1>0, <2>1, <2>2 DEF OpensQuietly, TenantGrows
<1>15. ASSUME NEW e, ensureUniqueIndexRepairSafe(r, e) PROVE OpensQuietly(r)'
  <2>1. CASE tsrv[r].op \in {"open", "validate"}
    <3>1. Go(r, "check") /\ tsrv[r].pc = "exec"
      BY <1>0, <1>15, <2>1 DEF ensureUniqueIndexRepairSafe, TenantKnows
    <3>2. /\ tsrv'[r].pc = "check" /\ tsrv'[r].op = tsrv[r].op /\ tsrv'[r].ver = tsrv[r].ver
          /\ tsrv'[r].pass = tsrv[r].pass /\ tsrv'[r].plan = tsrv[r].plan
      BY <1>b, <3>1, ZenonT(30)
    <3>3. Wants(r)' = Wants(r)
      BY <1>c, <3>2 DEF Wants
    <3> QED
      BY <1>0, <3>1, <3>2, <3>3 DEF OpensQuietly, TenantGrows
  <2>2. CASE tsrv[r].op \notin {"open", "validate"}
    BY <1>1, <1>b, <1>15, <2>2, ZenonT(30) DEF ensureUniqueIndexRepairSafe
  <2> QED
    BY <2>1, <2>2
<1>16. ASSUME NEW e \in First(tsrv[r].plan), applyTiDBSchemaRepairs(r, e), tsrv[r].op \in {"open", "validate"}
       PROVE  OpensQuietly(r)'
  <2>1. /\ DoneStatement(r, e) /\ e \in tschema' /\ tschema \subseteq tschema'
        /\ tsrv[r].pc \in {"exec", "check"} /\ e \in tsrv[r].plan
    BY <1>0, <1>16, QuietRepair
  <2>2. tsrv[r].plan \subseteq Wants(r) /\ Wants(r) \ tsrv[r].plan \subseteq tschema /\ tsrv[r].pass = 1
    BY <1>0, <1>16, <2>1 DEF OpensQuietly
  <2> DEFINE pc == IF tsrv[r].plan = {e} THEN "cols" ELSE "exec"
             pass == IF tsrv[r].plan = {e} THEN tsrv[r].pass + 1 ELSE tsrv[r].pass
  <2>3. tsrv' = [tsrv EXCEPT ![r] = [tsrv[r] EXCEPT !.plan = tsrv[r].plan \ {e}, !.pc = pc, !.pass = pass]]
    BY <2>1 DEF DoneStatement
  <2>4. /\ tsrv[r].plan = {e} => pc = "cols" /\ pass = 2
        /\ tsrv[r].plan # {e} => pc = "exec" /\ pass = 1
    BY <2>2
  <2> HIDE DEF pc, pass
  <2>5. tsrv'[r] = [tsrv[r] EXCEPT !.plan = tsrv[r].plan \ {e}, !.pc = pc, !.pass = pass]
    BY <1>a, <2>3, ZenonT(30)
  <2>6. /\ tsrv'[r].plan = tsrv[r].plan \ {e} /\ tsrv'[r].pc = pc /\ tsrv'[r].pass = pass
        /\ tsrv'[r].op = tsrv[r].op /\ tsrv'[r].ver = tsrv[r].ver
    BY <1>0, <2>5 DEF SchemaRecord
  <2>7. Wants(r)' = Wants(r) /\ Wants(r) \ (tsrv[r].plan \ {e}) \subseteq tschema'
    BY <1>c, <2>1, <2>2, <2>6 DEF Wants
  <2>8. CASE tsrv[r].plan = {e}
    <3>1. Wants(r) \subseteq tschema'
      BY <2>7, <2>8
    <3> QED
      BY <2>4, <2>6, <2>7, <2>8, <3>1 DEF OpensQuietly
  <2>9. CASE tsrv[r].plan # {e}
    <3>1. tsrv[r].plan \ {e} # {} /\ tsrv[r].plan \ {e} \subseteq Wants(r)
      BY <2>1, <2>2, <2>9
    <3>2. tsrv[r].op # "validate" \/ Wants(r) \subseteq tschema'
      BY <1>0, <1>16, <2>1 DEF OpensQuietly
    <3> QED
      BY <2>4, <2>6, <2>7, <2>9, <3>1, <3>2 DEF OpensQuietly
  <2> QED
    BY <2>8, <2>9
<1>17. ASSUME NEW e, applyTiDBSchemaRepairs(r, e), tsrv[r].op \notin {"open", "validate"} PROVE OpensQuietly(r)'
  <2>1. tsrv'[r].op = tsrv[r].op
    <3>1. CASE Go(r, "err")
      BY <1>b, <3>1, ZenonT(30)
    <3>2. CASE DoneStatement(r, e)
      BY <1>0, <3>2 DEF DoneStatement, SchemaRecord
    <3> QED
      BY <1>17, <3>1, <3>2 DEF applyTiDBSchemaRepairs
  <2> QED
    BY <1>1, <1>17, <2>1
<1>18. ASSUME NEW s \in SchemaServers, s # r, ServerStep(s) PROVE OpensQuietly(r)'
  BY <1>0, <1>18, OneServerSteps, OpensQuietlyStays
<1>19. CASE DuplicateRows \/ UNCHANGED schemaVars
  BY <1>0, <1>19, OpensQuietlyStays DEF DuplicateRows, schemaVars
<1> QED
  BY <1>4, <1>5, <1>7, <1>8, <1>9, <1>10, <1>11, <1>12, <1>13, <1>14, <1>15, <1>16, <1>17, <1>18, <1>19
     DEF SchemaNext, ServerStep

-----------------------------------------------------------------------------
(* The theorem for tenants *)

\* However many servers of two versions open a tenant together, it is served,
\* recorded or activated only with its schema, and they do not fail each other
\* (createBackend, EnsureTiDBSchemaForMode, initTenantSchemaAsync).
THEOREM TenantOpens == SchemaSpec => []OpensRight
<1>1. SchemaInit => TenantInv
  <2> SUFFICES ASSUME SchemaInit PROVE TenantInv
    OBVIOUS
  <2>1. tschema \subseteq Elements /\ (trec = None \/ trec \in TenantRecord)
    <3>1. tschema \in {{}, {"table", "index"}, {"table"}}
      BY DEF SchemaInit
    <3>2. [st |-> "active", ver |-> 1, key |-> TRUE, by |-> 1] \in TenantRecord
      BY DEF TenantRecord
    <3>3. [st |-> "active", ver |-> 0, key |-> TRUE, by |-> 0] \in TenantRecord
      BY DEF TenantRecord
    <3> QED
      BY <3>1, <3>2, <3>3, ZenonT(30) DEF SchemaInit, Elements, Indexes
  <2>2. At("down", 1) \in SchemaRecord
    BY DEF At, SchemaRecord, SchemaSteps
  <2>3. SchemaTypeOK
    BY <2>1, <2>2, ZenonT(30) DEF SchemaInit, SchemaTypeOK
  <2>4. ASSUME NEW s \in SchemaServers PROVE TenantKnows(s) /\ OpensQuietly(s)
    BY <2>4 DEF SchemaInit, At, TenantKnows, OpensQuietly
  <2>5. RecordedMeansSchema /\ ActiveMeansSchema /\ (trec # None /\ trec.st = "active" => "table" \in tschema)
    BY DEF SchemaInit, RecordedMeansSchema, ActiveMeansSchema, tidbSchemaSpec
  <2> QED
    BY <2>3, <2>4, <2>5 DEF TenantInv, SchemaInit
<1>2. TenantInv /\ [SchemaNext]_schemaVars => TenantInv'
  <2> SUFFICES ASSUME TenantInv, [SchemaNext]_schemaVars PROVE TenantInv'
    OBVIOUS
  <2>1. tsrv' \in [SchemaServers -> SchemaRecord]
    <3>1. CASE DuplicateRows \/ UNCHANGED schemaVars
      BY <3>1 DEF DuplicateRows, schemaVars, TenantInv, SchemaTypeOK
    <3> QED
      BY <3>1, OneServerSteps DEF SchemaNext, ServerStep
  <2>2. tdups' \in BOOLEAN /\ tflaw' \in BOOLEAN
    <3>0. tdups \in BOOLEAN /\ tflaw \in BOOLEAN
      BY DEF TenantInv, SchemaTypeOK
    <3>1. ASSUME NEW s \in SchemaServers, ServerStep(s)
          PROVE  tdups' = tdups /\ (tflaw' = tflaw \/ tflaw' = TRUE)
      BY <3>1 DEF ServerStep, resumeProvisioningTenants, StopServer, Provision, InsertTenant, InsertAPIKey,
         initTenantSchemaAsync, createBackendSchema, UpdateTenantSchemaVersion, CloseTenant, loadTiDBColumnMeta,
         EnsureTiDBSchemaForMode, BackfillStorageRefHashes, StatementFails, ensureUniqueIndexRepairSafe,
         applyTiDBSchemaRepairs
    <3>2. CASE DuplicateRows \/ UNCHANGED schemaVars
      BY <3>0, <3>2, Zenon DEF DuplicateRows, schemaVars
    <3>3. CASE \E s \in SchemaServers : ServerStep(s)
      BY <3>0, <3>1, <3>3, Zenon
    <3> QED
      BY <3>2, <3>3 DEF SchemaNext, ServerStep
  <2>3. SchemaTypeOK'
    BY <2>1, <2>2, TenantGrowsStep, TenantRowStep DEF TenantInv, SchemaTypeOK, TenantGrows
  <2> QED
    BY <2>3, TenantRowStep, TenantKnowsStep, OpensQuietlyStep DEF TenantInv
<1>3. TenantInv => OpensRight
  BY DEF TenantInv, TenantKnows, Wants, OpensQuietly, Quiet, OpensRight, ServingMeansSchema, UndisturbedOpens
<1> QED
  BY <1>1, <1>2, <1>3, PTL DEF SchemaSpec
=============================================================================
