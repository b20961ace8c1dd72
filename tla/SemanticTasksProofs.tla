------------------------ MODULE SemanticTasksProofs ------------------------
(***************************************************************************)
(* TypeOK, OneOwner, VectorOfCurrentRevision and SucceededIsIndexed hold   *)
(* in every behaviour of SemanticTasks, for all values of its constants.   *)
(***************************************************************************)
EXTENDS SemanticTasks, TLAPS

USE DEF NoReceipt, NoLease, NoText, WrittenText, ExtractedText, Revs

-----------------------------------------------------------------------------
(* Lemmas about the operators *)

\* A task id is a pair of a file and a revision (the unique key of semantic_tasks).
LEMMA TaskIdParts ==
    ASSUME NEW t \in TaskIds
    PROVE  t[1] \in Files /\ t[2] \in Revs /\ t = <<t[1], t[2]>>
BY DEF TaskIds

\* Every pair of a file and a revision is a task id.
LEMMA TaskIdMade ==
    ASSUME NEW f \in Files, NEW r \in Revs
    PROVE  <<f, r>> \in TaskIds /\ <<f, r>>[1] = f /\ <<f, r>>[2] = r
BY DEF TaskIds

\* The rows INSERT writes, and the initial rows, are well typed.
LEMMA RowTypes ==
    /\ NoTask \in TaskRow
    /\ NewTask \in TaskRow
    /\ NewTask.status = "queued" /\ NewTask.receipt = 0 /\ NewTask.attempt_count = 0
    /\ NoFile \in FileRow
    /\ NoVector \in Vectors
BY ConstantsAssumption DEF NoTask, NewTask, TaskRow, NoFile, FileRow, NoVector, Vectors, Texts

\* Giving up a lease clears the receipt and keeps the attempt count.
LEMMA ReleasedType ==
    ASSUME NEW row \in TaskRow,
           NEW s \in {"queued", "succeeded", "dead_lettered"}, NEW d \in Nat
    PROVE  /\ Released(row, s, d) \in TaskRow
           /\ Released(row, s, d).status = s
           /\ Released(row, s, d).receipt = 0
           /\ Released(row, s, d).attempt_count = row.attempt_count
<1>1. Released(row, s, d) \in TaskRow
  BY ConstantsAssumption DEF Released, TaskRow
<1>2. Released(row, s, d).status = s
  BY DEF Released, TaskRow
<1>3. Released(row, s, d).receipt = 0
  BY DEF Released, TaskRow
<1>4. Released(row, s, d).attempt_count = row.attempt_count
  BY DEF Released, TaskRow
<1> QED
  BY <1>1, <1>2, <1>3, <1>4

\* ensureSemanticTaskQueuedTx inserts, releases or leaves the row alone.
LEMMA EnsureQueuedType ==
    ASSUME NEW row \in TaskRow
    PROVE  /\ EnsureQueued(row) \in TaskRow
           /\ \/ EnsureQueued(row) = row
              \/ EnsureQueued(row) = Released(row, "queued", 0)
              \/ EnsureQueued(row) = NewTask /\ row.status = "absent"
<1>1. Released(row, "queued", 0) \in TaskRow
  BY ReleasedType
<1>2. NewTask \in TaskRow
  BY RowTypes
<1>3. CASE row.status = "absent"
  BY <1>2, <1>3 DEF EnsureQueued
<1>4. CASE row.status # "absent" /\ row.status = "processing" /\ row.lease > 0
  BY <1>4 DEF EnsureQueued
<1>5. CASE row.status # "absent" /\ ~(row.status = "processing" /\ row.lease > 0)
  BY <1>1, <1>5 DEF EnsureQueued
<1> QED
  BY <1>3, <1>4, <1>5

\* A tick of the clock changes only the lease and the delay of a row.
LEMMA AgedType ==
    ASSUME NEW row \in TaskRow
    PROVE  /\ Aged(row) \in TaskRow
           /\ Aged(row).status = row.status
           /\ Aged(row).receipt = row.receipt
           /\ Aged(row).attempt_count = row.attempt_count
<1> DEFINE l == IF row.lease >= 0 THEN row.lease - 1 ELSE row.lease
           d == IF row.delay > 0 THEN row.delay - 1 ELSE row.delay
<1>1. Aged(row) = [row EXCEPT !.lease = l, !.delay = d]
  BY DEF Aged, TaskRow
<1>2. l \in NoLease..LeaseTicks /\ d \in Nat
  BY ConstantsAssumption DEF TaskRow
<1> HIDE DEF l, d
<1> QED
  BY <1>1, <1>2, ZenonT(30) DEF TaskRow

\* A worker record is either Idle or one with all the fields of Running.
LEMMA RunningIsNotIdle ==
    ASSUME NEW s \in Running \cup {Idle}
    PROVE  s # Idle <=> s \in Running
BY DEF Running, Idle, HandlerSteps

\* What every handler step of a worker leaves of its record.
LEMMA WorkerUpdates ==
    ASSUME TypeOK, NEW w \in Workers, worker[w].pc # "idle"
    PROVE  /\ worker[w] \in Running
           /\ \A p \in HandlerSteps \cup {"stop", "commit"} :
                 [worker[w] EXCEPT !.pc = p] \in Running
           /\ \A p \in HandlerSteps \cup {"stop", "commit"}, o \in {"ack", "retry"} :
                 [worker[w] EXCEPT !.pc = p, !.outcome = o] \in Running
           /\ \A p \in HandlerSteps, v \in Vectors :
                 [worker[w] EXCEPT !.pc = p, !.vector = v] \in Running
           /\ [worker[w] EXCEPT !.lost = TRUE] \in Running
<1>1. worker[w] \in Running
  BY RunningIsNotIdle DEF TypeOK, Idle
<1> QED
  BY <1>1, ZenonT(30) DEF Running

-----------------------------------------------------------------------------
(* Type correctness *)

\* Every step keeps rows, worker records and counters well typed.
LEMMA TypeStep == TypeOK /\ [Next]_vars => TypeOK'
<1> SUFFICES ASSUME TypeOK, [Next]_vars PROVE TypeOK'
  OBVIOUS
<1>1. ASSUME NEW f \in Files, WriteFile(f) PROVE TypeOK'
  <2> DEFINE rev == file[f].rev + 1
             row == [status |-> "CONFIRMED", rev |-> rev,
                     text |-> IF f \in Images THEN NoText ELSE WrittenText,
                     embedding |-> NoVector, embedding_revision |-> 0]
  <2>1. rev \in Revs /\ <<f, rev>> \in TaskIds
    BY <1>1, TaskIdMade DEF WriteFile
  <2>2. row \in FileRow
    BY <2>1, RowTypes, ConstantsAssumption DEF FileRow, Texts
  <2>3. file' \in [Files -> FileRow]
    BY <1>1, <2>2 DEF WriteFile, TypeOK
  <2>4. task' \in [TaskIds -> TaskRow]
    BY <1>1, <2>1, RowTypes DEF WriteFile, TypeOK
  <2>5. extract' \subseteq TaskIds
    BY <1>1, <2>1 DEF WriteFile, TypeOK
  <2> QED
    BY <1>1, <2>3, <2>4, <2>5 DEF WriteFile, TypeOK
<1>2. ASSUME NEW f \in Files, DeleteFile(f) PROVE TypeOK'
  BY <1>2 DEF DeleteFile, TypeOK, FileRow
<1>3. ASSUME NEW t \in TaskIds, ExtractWriteback(t) PROVE TypeOK'
  <2>1. t[1] \in Files
    BY TaskIdParts
  <2>2. EnsureQueued(task[t]) \in TaskRow
    BY EnsureQueuedType DEF TypeOK
  <2>3. [file[t[1]] EXCEPT !.text = ExtractedText] \in FileRow
    BY <2>1 DEF TypeOK, FileRow, Texts
  <2> QED
    BY <1>3, <2>1, <2>2, <2>3 DEF ExtractWriteback, TypeOK
<1>4. ASSUME NEW t \in TaskIds, ExtractFail(t) PROVE TypeOK'
  BY <1>4 DEF ExtractFail, TypeOK
<1>5. ASSUME NEW w \in Workers, NEW t \in TaskIds, Claim(w, t) PROVE TypeOK'
  <2>1. task' \in [TaskIds -> TaskRow]
    BY <1>5, ConstantsAssumption DEF Claim, TypeOK, TaskRow
  <2>2. [pc |-> "getInode", task |-> t, receipt |-> task[t].attempt_count + 1,
         vector |-> NoVector, outcome |-> "ack", lost |-> FALSE] \in Running
    BY RowTypes DEF TypeOK, TaskRow, Running, HandlerSteps
  <2> QED
    BY <1>5, <2>1, <2>2 DEF Claim, TypeOK
<1>6. ASSUME NEW w \in Workers, GetInode(w) PROVE TypeOK'
  <2>1. worker[w].pc # "idle"
    BY <1>6 DEF GetInode
  <2>2. \/ worker' = [worker EXCEPT ![w].pc = "getSemantic"]
        \/ worker' = [worker EXCEPT ![w].pc = "stop", ![w].outcome = "ack"]
    BY <1>6 DEF GetInode, Goto, Decide
  <2>3. CASE worker' = [worker EXCEPT ![w].pc = "getSemantic"]
    BY <1>6, <2>1, <2>3, WorkerUpdates, ZenonT(30) DEF GetInode, TypeOK, HandlerSteps
  <2>4. CASE worker' = [worker EXCEPT ![w].pc = "stop", ![w].outcome = "ack"]
    BY <1>6, <2>1, <2>4, WorkerUpdates, ZenonT(30) DEF GetInode, TypeOK, HandlerSteps
  <2> QED
    BY <2>2, <2>3, <2>4
<1>7. ASSUME NEW w \in Workers, GetSemantic(w) PROVE TypeOK'
  <2>1. worker[w] \in Running
    BY <1>7, WorkerUpdates, ZenonT(30) DEF GetSemantic
  <2>2. file[worker[w].task[1]] \in FileRow
    BY <2>1, TaskIdParts DEF TypeOK, Running
  <2>3. [rev |-> file[worker[w].task[1]].rev, text |-> file[worker[w].task[1]].text]
            \in Vectors
    BY <2>2 DEF FileRow, Vectors
  <2> QED
    <3> DEFINE v == [rev |-> file[worker[w].task[1]].rev,
                     text |-> file[worker[w].task[1]].text]
    <3>1. \/ worker' = [worker EXCEPT ![w].pc = "embed", ![w].vector = v]
          \/ worker' = [worker EXCEPT ![w].pc = "stop", ![w].outcome = "ack"]
      BY <1>7 DEF GetSemantic, Decide
    <3>2. worker[w].pc # "idle" /\ v \in Vectors
      BY <1>7, <2>3 DEF GetSemantic
    <3> HIDE DEF v
    <3>3. CASE worker' = [worker EXCEPT ![w].pc = "embed", ![w].vector = v]
      BY <1>7, <3>2, <3>3, WorkerUpdates, ZenonT(30) DEF GetSemantic, TypeOK, HandlerSteps
    <3>4. CASE worker' = [worker EXCEPT ![w].pc = "stop", ![w].outcome = "ack"]
      BY <1>7, <3>2, <3>4, WorkerUpdates, ZenonT(30) DEF GetSemantic, TypeOK, HandlerSteps
    <3> QED
      BY <3>1, <3>3, <3>4
<1>8. ASSUME NEW w \in Workers, Embed(w) PROVE TypeOK'
  BY <1>8, WorkerUpdates, ZenonT(30) DEF Embed, Goto, TypeOK, HandlerSteps
<1>9. ASSUME NEW w \in Workers, HandlerError(w) PROVE TypeOK'
  BY <1>9, WorkerUpdates, ZenonT(30) DEF HandlerError, Decide, TypeOK, HandlerSteps
<1>10. ASSUME NEW w \in Workers, UpdateFileEmbedding(w) PROVE TypeOK'
  <2> DEFINE t == worker[w].task
  <2>1. worker[w] \in Running
    BY <1>10, WorkerUpdates, ZenonT(30) DEF UpdateFileEmbedding
  <2>2. t[1] \in Files /\ t[2] \in Revs /\ worker[w].vector \in Vectors
    BY <2>1, TaskIdParts DEF Running
  <2>3. file' \in [Files -> FileRow]
    BY <1>10, <2>2, ConstantsAssumption DEF UpdateFileEmbedding, TypeOK, FileRow
  <2> QED
    BY <1>10, <2>3, WorkerUpdates, ZenonT(30) DEF UpdateFileEmbedding, Decide, TypeOK, HandlerSteps
<1>11. ASSUME NEW w \in Workers, Renew(w) PROVE TypeOK'
  <2>1. worker[w].pc # "idle" /\ worker[w] \in Running
    BY <1>11, WorkerUpdates, ZenonT(30) DEF Renew, HandlerSteps
  <2>2. worker[w].task \in TaskIds
    BY <2>1 DEF Running
  <2>3. [task[worker[w].task] EXCEPT !.lease = LeaseTicks] \in TaskRow
    BY <2>2, ConstantsAssumption DEF TypeOK, TaskRow
  <2> QED
    BY <1>11, <2>1, <2>2, <2>3, WorkerUpdates, ZenonT(30) DEF Renew, TypeOK
<1>12. ASSUME NEW w \in Workers, StopLease(w) PROVE TypeOK'
  <2>1. \/ worker' = [worker EXCEPT ![w].pc = "commit"]
        \/ worker' = [worker EXCEPT ![w] = Idle]
    BY <1>12 DEF StopLease, Goto
  <2>2. worker[w].pc # "idle"
    BY <1>12 DEF StopLease
  <2>3. CASE worker' = [worker EXCEPT ![w].pc = "commit"]
    BY <1>12, <2>2, <2>3, WorkerUpdates, ZenonT(30) DEF StopLease, TypeOK, HandlerSteps
  <2>4. CASE worker' = [worker EXCEPT ![w] = Idle]
    BY <1>12, <2>4 DEF StopLease, TypeOK
  <2> QED
    BY <2>1, <2>3, <2>4
<1>13. ASSUME NEW w \in Workers, AckTask(w) PROVE TypeOK'
  <2>1. worker[w].task \in TaskIds
    BY <1>13, WorkerUpdates, ZenonT(30) DEF AckTask, Running
  <2>2. Released(task[worker[w].task], "succeeded", 0) \in TaskRow
    BY <2>1, ReleasedType DEF TypeOK
  <2> QED
    BY <1>13, <2>1, <2>2 DEF AckTask, TypeOK
<1>14. ASSUME NEW w \in Workers, RetryTask(w) PROVE TypeOK'
  <2>1. worker[w].task \in TaskIds
    BY <1>14, WorkerUpdates, ZenonT(30) DEF RetryTask, Running
  <2>2. \A d \in RetryDelays : Released(task[worker[w].task], "queued", d) \in TaskRow
    BY <2>1, ReleasedType, ConstantsAssumption DEF TypeOK
  <2>3. Released(task[worker[w].task], "dead_lettered", 0) \in TaskRow
    BY <2>1, ReleasedType DEF TypeOK
  <2> QED
    BY <1>14, <2>1, <2>2, <2>3 DEF RetryTask, TypeOK
<1>15. ASSUME NEW w \in Workers, Crash(w) PROVE TypeOK'
  BY <1>15, ConstantsAssumption DEF Crash, TypeOK
<1>16. ASSUME RecoverExpired PROVE TypeOK'
  <2>1. \A t \in TaskIds : Released(task[t], "queued", 0) \in TaskRow
    BY ReleasedType DEF TypeOK
  <2> QED
    BY <1>16, <2>1 DEF RecoverExpired, TypeOK
<1>17. ASSUME Tick PROVE TypeOK'
  <2>1. task' \in [TaskIds -> TaskRow]
    BY <1>17, AgedType DEF Tick, TypeOK
  <2>2. faults' \in 0..MaxFaults
    BY <1>17, ConstantsAssumption DEF Tick, TypeOK
  <2> QED
    BY <1>17, <2>1, <2>2 DEF Tick, TypeOK
<1>18. ASSUME UNCHANGED vars PROVE TypeOK'
  BY <1>18 DEF vars, TypeOK
<1> QED
  BY <1>1, <1>2, <1>3, <1>4, <1>5, <1>6, <1>7, <1>8, <1>9, <1>10, <1>11, <1>12,
     <1>13, <1>14, <1>15, <1>16, <1>17, <1>18 DEF Next, WorkerStep

-----------------------------------------------------------------------------
(* What a step does to the rows, to the workers and to the files *)

Same(t) ==
    /\ task'[t].status = task[t].status
    /\ task'[t].receipt = task[t].receipt
    /\ task'[t].attempt_count = task[t].attempt_count

Unleased(t) ==
    /\ task[t].status # "absent"
    /\ task'[t].status \in {"queued", "succeeded", "dead_lettered"}
    /\ task'[t].receipt = 0
    /\ task'[t].attempt_count = task[t].attempt_count

Created(t) ==
    /\ task[t].status = "absent"
    /\ task'[t].status = "queued"
    /\ task'[t].receipt = 0

Claimed(t) ==
    /\ task[t].status = "queued"
    /\ task'[t].status = "processing"
    /\ task'[t].attempt_count = task[t].attempt_count + 1
    /\ task'[t].receipt = task'[t].attempt_count

\* A row is created once, claimed from the queue or released; every statement
\* on semantic_tasks does one of these to a row or leaves its receipt alone.
LEMMA RowStep ==
    ASSUME IInv, [Next]_vars, NEW t \in TaskIds
    PROVE  Same(t) \/ Unleased(t) \/ Created(t) \/ Claimed(t)
<1>0. task \in [TaskIds -> TaskRow] /\ task[t] \in TaskRow
  BY DEF IInv, TypeOK
<1>1. ASSUME NEW f \in Files, WriteFile(f) PROVE Same(t) \/ Created(t)
  <2> DEFINE u == <<f, file[f].rev + 1>>
  <2>1. u \in TaskIds /\ u[1] = f /\ u[2] = file[f].rev + 1 /\ file[f].rev \in Int
    BY <1>1, TaskIdMade DEF WriteFile, IInv, TypeOK, FileRow
  <2>2. task[u].status = "absent"
    BY <2>1 DEF IInv, TasksOfReachedRevisions
  <2>3. task' = [task EXCEPT ![u] = NewTask]
    BY <1>1 DEF WriteFile
  <2> HIDE DEF u
  <2> QED
    BY <1>0, <2>1, <2>2, <2>3, RowTypes DEF Same, Created
<1>2. ASSUME NEW u \in TaskIds, ExtractWriteback(u)
      PROVE  Same(t) \/ Unleased(t) \/ Created(t)
  <2>1. CASE t # u \/ task' = task
    BY <1>0, <1>2, <2>1 DEF ExtractWriteback, Same
  <2>2. CASE t = u /\ task' = [task EXCEPT ![u] = EnsureQueued(task[u])]
    <3>1. task'[t] = EnsureQueued(task[t])
      BY <1>0, <2>2
    <3>2. CASE EnsureQueued(task[t]) = task[t]
      BY <3>1, <3>2 DEF Same
    <3>3. CASE EnsureQueued(task[t]) = Released(task[t], "queued", 0) /\ task[t].status # "absent"
      BY <1>0, <3>1, <3>3, ReleasedType DEF Unleased
    <3>4. CASE EnsureQueued(task[t]) = NewTask /\ task[t].status = "absent"
      BY <3>1, <3>4, RowTypes DEF Created
    <3> QED
      BY <1>0, <3>2, <3>3, <3>4, EnsureQueuedType DEF EnsureQueued
  <2> QED
    BY <1>2, <2>1, <2>2 DEF ExtractWriteback
<1>3. ASSUME NEW w \in Workers, NEW u \in TaskIds, Claim(w, u)
      PROVE  Same(t) \/ Claimed(t)
  BY <1>0, <1>3 DEF Claim, Same, Claimed, TaskRow
<1>4. ASSUME NEW w \in Workers, Renew(w) PROVE Same(t)
  BY <1>0, <1>4 DEF Renew, Same, TaskRow
<1>5. ASSUME NEW w \in Workers, AckTask(w) PROVE Same(t) \/ Unleased(t)
  <2>1. CASE task' = task
    BY <2>1 DEF Same
  <2>2. CASE task' # task
    <3>1. /\ task[worker[w].task].status = "processing"
          /\ task' = [task EXCEPT ![worker[w].task] = Released(task[worker[w].task], "succeeded", 0)]
      BY <1>5, <2>2, <1>0 DEF AckTask, Owned
    <3> QED
      BY <1>0, <3>1, ReleasedType DEF Same, Unleased
  <2> QED
    BY <2>1, <2>2
<1>6. ASSUME NEW w \in Workers, RetryTask(w) PROVE Same(t) \/ Unleased(t)
  <2>1. CASE task' = task
    BY <2>1 DEF Same
  <2>2. CASE task' # task
    <3>1. PICK s \in {"queued", "dead_lettered"}, d \in Nat :
             /\ task[worker[w].task].status = "processing"
             /\ task' = [task EXCEPT ![worker[w].task] = Released(task[worker[w].task], s, d)]
      BY <1>6, <2>2, <1>0, ConstantsAssumption, ZenonT(30) DEF RetryTask, Owned
    <3>2. CASE t # worker[w].task
      BY <1>0, <3>1, <3>2 DEF Same
    <3>3. CASE t = worker[w].task
      <4>1. task'[t] = Released(task[t], s, d) /\ task[t].status = "processing"
        BY <1>0, <3>1, <3>3
      <4>2. /\ task'[t].status = s /\ task'[t].receipt = 0
            /\ task'[t].attempt_count = task[t].attempt_count
        BY <4>1 DEF Released
      <4> QED
        BY <3>1, <4>1, <4>2 DEF Unleased
    <3> QED
      BY <3>2, <3>3
  <2> QED
    BY <2>1, <2>2
<1>7. ASSUME RecoverExpired PROVE Same(t) \/ Unleased(t)
  <2>1. \/ task'[t] = task[t]
        \/ task[t].status = "processing" /\ task'[t] = Released(task[t], "queued", 0)
    BY <1>7 DEF RecoverExpired
  <2> QED
    BY <1>0, <2>1, ReleasedType DEF Same, Unleased
<1>8. ASSUME Tick PROVE Same(t)
  BY <1>0, <1>8, AgedType DEF Tick, Same
<1>9. ASSUME UNCHANGED task PROVE Same(t)
  BY <1>9 DEF Same
<1> QED
  BY <1>1, <1>2, <1>3, <1>4, <1>5, <1>6, <1>7, <1>8, <1>9, ZenonT(30)
     DEF Next, WorkerStep, vars, DeleteFile, ExtractFail, GetInode, GetSemantic, Embed,
         HandlerError, UpdateFileEmbedding, StopLease, Crash

Kept(w) ==
    /\ worker[w] # Idle
    /\ worker'[w] # Idle
    /\ worker'[w].task = worker[w].task
    /\ worker'[w].receipt = worker[w].receipt

\* Only Claim gives a worker a task; every other step leaves a worker its task
\* and its receipt, or frees it.
LEMMA WorkersStep ==
    ASSUME IInv, [Next]_vars, ~ \E w \in Workers, t \in TaskIds : Claim(w, t),
           NEW w \in Workers
    PROVE  Kept(w) \/ worker'[w] = Idle
<1>0. TypeOK /\ TypeOK'
  BY TypeStep DEF IInv
<1>1. CASE UNCHANGED worker
  BY <1>1 DEF Kept
<1>2. ASSUME NEW v \in Workers,
             \/ GetInode(v) \/ GetSemantic(v) \/ Embed(v) \/ HandlerError(v)
             \/ UpdateFileEmbedding(v) \/ Renew(v) \/ StopLease(v)
             \/ AckTask(v) \/ RetryTask(v) \/ Crash(v)
      PROVE  Kept(w) \/ worker'[w] = Idle
  <2>1. CASE v # w
    <3>1. worker'[w] = worker[w]
      BY <1>0, <1>2, <2>1, ZenonT(30) DEF GetInode, GetSemantic, Embed, HandlerError,
         UpdateFileEmbedding, Renew, StopLease, AckTask, RetryTask, Crash, Goto, Decide, TypeOK
    <3> QED
      BY <3>1 DEF Kept
  <2>2. CASE v = w /\ worker[w].pc = "idle"
    <3>1. worker'[w] = Idle
      BY <1>0, <1>2, <2>2 DEF GetInode, GetSemantic, Embed, HandlerError, HandlerSteps,
         UpdateFileEmbedding, Renew, StopLease, AckTask, RetryTask, Crash, TypeOK
    <3> QED
      BY <3>1
  <2>3. CASE v = w /\ worker[w].pc # "idle"
    <3>1. worker[w] \in Running
      BY <1>0, <2>3, WorkerUpdates, ZenonT(30)
    <3>2. CASE GetInode(w) \/ Embed(w) \/ HandlerError(w) \/ UpdateFileEmbedding(w)
      <4>1. \/ worker' = [worker EXCEPT ![w].pc = "getSemantic"]
            \/ worker' = [worker EXCEPT ![w].pc = "writeback"]
            \/ worker' = [worker EXCEPT ![w].pc = "stop", ![w].outcome = "ack"]
            \/ worker' = [worker EXCEPT ![w].pc = "stop", ![w].outcome = "retry"]
        BY <3>2, ZenonT(30) DEF GetInode, Embed, HandlerError, UpdateFileEmbedding, Goto, Decide
      <4>2. /\ worker'[w].task = worker[w].task
            /\ worker'[w].receipt = worker[w].receipt
            /\ worker'[w].lost = worker[w].lost
        BY <1>0, <3>1, <4>1 DEF TypeOK, Running
      <4>3. worker'[w] # Idle
        BY <1>0, <3>1, <4>1 DEF TypeOK, Running, Idle
      <4> QED
        BY <1>0, <2>3, <4>2, <4>3 DEF Kept, Idle
    <3>3. CASE GetSemantic(w)
      BY <1>0, <2>3, <3>1, <3>3 DEF GetSemantic, Decide, Kept, TypeOK, Running, Idle
    <3>4. CASE Renew(w)
      BY <1>0, <2>3, <3>1, <3>4 DEF Renew, Kept, TypeOK, Running, Idle
    <3>5. CASE StopLease(w)
      BY <1>0, <2>3, <3>1, <3>5 DEF StopLease, Goto, Kept, TypeOK, Running, Idle
    <3>6. CASE AckTask(w) \/ RetryTask(w) \/ Crash(w)
      BY <1>0, <3>6 DEF AckTask, RetryTask, Crash, TypeOK
    <3> QED
      BY <1>2, <2>3, <3>2, <3>3, <3>4, <3>5, <3>6
  <2> QED
    BY <2>1, <2>2, <2>3
<1> QED
  BY <1>1, <1>2, ZenonT(30) DEF Next, WorkerStep, vars, WriteFile, DeleteFile, ExtractWriteback,
     ExtractFail, RecoverExpired, Tick

-----------------------------------------------------------------------------
(* The conjuncts of the inductive invariant *)

\* Every row written by a statement keeps its receipt in step with its attempt.
LEMMA ReceiptsOfRowsStep == IInv /\ [Next]_vars => ReceiptsOfRows'
<1> SUFFICES ASSUME IInv, [Next]_vars, NEW t \in TaskIds
             PROVE  task'[t].receipt = IF task'[t].status = "processing"
                                       THEN task'[t].attempt_count ELSE NoReceipt
  BY DEF ReceiptsOfRows
<1>1. task[t].receipt = IF task[t].status = "processing"
                        THEN task[t].attempt_count ELSE NoReceipt
  BY DEF IInv, ReceiptsOfRows
<1> QED
  BY <1>1, RowStep DEF Same, Unleased, Created, Claimed

\* The attempt number claimed is beyond every receipt handed out before.
LEMMA ReceiptsOfWorkersStep == IInv /\ [Next]_vars => ReceiptsOfWorkers'
<1> SUFFICES ASSUME IInv, [Next]_vars, NEW w \in Workers, worker'[w] # Idle
             PROVE  /\ worker'[w].receipt \in 1..task'[worker'[w].task].attempt_count
                    /\ \A v \in Workers \ {w} :
                          worker'[v] # Idle /\ worker'[v].task = worker'[w].task
                          => worker'[v].receipt # worker'[w].receipt
  BY DEF ReceiptsOfWorkers
<1>0. TypeOK /\ TypeOK'
  BY TypeStep DEF IInv
<1>1. ASSUME NEW v \in Workers, worker[v] # Idle
      PROVE  /\ worker[v].task \in TaskIds
             /\ worker[v].receipt \in 1..task[worker[v].task].attempt_count
             /\ worker[v].receipt \in 1..task'[worker[v].task].attempt_count
  <2>1. worker[v].task \in TaskIds /\ task[worker[v].task] \in TaskRow
    BY <1>0, <1>1, RunningIsNotIdle DEF TypeOK, Running
  <2>2. /\ worker[v].receipt \in 1..task[worker[v].task].attempt_count
        /\ task[worker[v].task].status # "absent"
    BY <1>1 DEF IInv, ReceiptsOfWorkers, WorkerKnowledge
  <2>3. \/ task'[worker[v].task].attempt_count = task[worker[v].task].attempt_count
        \/ task'[worker[v].task].attempt_count = task[worker[v].task].attempt_count + 1
    BY <2>1, <2>2, RowStep DEF Same, Unleased, Created, Claimed
  <2> QED
    BY <2>1, <2>2, <2>3 DEF TaskRow
<1>2. CASE \E x \in Workers, t \in TaskIds : Claim(x, t)
  <2>1. PICK x \in Workers, t \in TaskIds : Claim(x, t)
    BY <1>2
  <2>2. /\ worker[x] = Idle /\ worker'[x] # Idle /\ worker'[x].task = t
        /\ worker'[x].receipt = task[t].attempt_count + 1
        /\ task'[t].attempt_count = task[t].attempt_count + 1
        /\ task[t].attempt_count \in Nat
        /\ \A v \in Workers \ {x} : worker'[v] = worker[v]
    BY <1>0, <2>1 DEF Claim, TypeOK, TaskRow, Idle
  <2>3. CASE w = x
    BY <1>1, <2>1, <2>2, <2>3
  <2>4. CASE w # x
    <3>1. worker[w] # Idle /\ worker'[w] = worker[w]
      BY <2>2, <2>4
    <3>2. \A v \in Workers \ {w, x} :
             worker'[v] # Idle /\ worker'[v].task = worker'[w].task
             => worker'[v].receipt # worker'[w].receipt
      BY <2>2, <3>1 DEF IInv, ReceiptsOfWorkers
    <3> QED
      BY <1>1, <2>1, <2>2, <3>1, <3>2
  <2> QED
    BY <2>3, <2>4
<1>3. CASE ~ \E x \in Workers, t \in TaskIds : Claim(x, t)
  <2>1. \A v \in Workers : Kept(v) \/ worker'[v] = Idle
    BY <1>3, WorkersStep
  <2> QED
    BY <1>1, <2>1 DEF Kept, IInv, ReceiptsOfWorkers
<1> QED
  BY <1>2, <1>3

Written(f) ==
    /\ file'[f].status = "CONFIRMED"
    /\ file'[f].rev = file[f].rev + 1
    /\ file'[f].text = IF f \in Images THEN NoText ELSE WrittenText
    /\ file'[f].embedding_revision = 0

\* The conditional write of w reached f.
Embedded(f, w) ==
    /\ worker[w] # Idle
    /\ worker[w].pc = "writeback"
    /\ worker[w].task[1] = f
    /\ file[f].rev = worker[w].task[2]
    /\ file'[f].embedding = worker[w].vector
    /\ file'[f].embedding_revision = worker[w].task[2]

Touched(f) ==
    /\ file[f].status = "CONFIRMED"
    /\ file'[f].status \in {"CONFIRMED", "DELETED"}
    /\ file'[f].rev = file[f].rev
    /\ file'[f].text = file[f].text \/ file'[f].text = ExtractedText
    /\ \/ /\ file'[f].embedding = file[f].embedding
          /\ file'[f].embedding_revision = file[f].embedding_revision
       \/ \E w \in Workers : Embedded(f, w)

\* What a step does to a file: nothing, a write of the next revision, or, to a
\* confirmed file, a deletion, the text of an extraction or a gated writeback.
LEMMA FileStep ==
    ASSUME IInv, [Next]_vars, NEW f \in Files
    PROVE  file'[f] = file[f] \/ Written(f) \/ Touched(f)
<1>0. file \in [Files -> FileRow] /\ file[f] \in FileRow
  BY DEF IInv, TypeOK
<1>1. ASSUME NEW g \in Files, WriteFile(g) PROVE file'[f] = file[f] \/ Written(f)
  BY <1>0, <1>1 DEF WriteFile, Written
<1>2. ASSUME NEW g \in Files, DeleteFile(g) PROVE file'[f] = file[f] \/ Touched(f)
  BY <1>0, <1>2 DEF DeleteFile, Touched, FileRow
<1>3. ASSUME NEW t \in TaskIds, ExtractWriteback(t) PROVE file'[f] = file[f] \/ Touched(f)
  BY <1>0, <1>3 DEF ExtractWriteback, Touched, FileRow
<1>4. ASSUME NEW w \in Workers, UpdateFileEmbedding(w)
      PROVE  file'[f] = file[f] \/ Touched(f)
  <2>1. worker[w] # Idle
    BY <1>4 DEF UpdateFileEmbedding, Idle
  <2>2. CASE file'[f] # file[f]
    <3>1. /\ worker[w].task[1] = f
          /\ file[f].status = "CONFIRMED"
          /\ file[f].rev = worker[w].task[2]
          /\ worker[w].pc = "writeback"
          /\ file'[f] = [file[f] EXCEPT !.embedding = worker[w].vector,
                                        !.embedding_revision = worker[w].task[2]]
      BY <1>0, <1>4, <2>2, ZenonT(30) DEF UpdateFileEmbedding
    <3>2. Embedded(f, w)
      BY <1>0, <2>1, <3>1 DEF Embedded, FileRow
    <3> QED
      BY <1>0, <3>1, <3>2 DEF Touched, FileRow
  <2> QED
    BY <2>2
<1>5. CASE UNCHANGED file
  BY <1>5
<1> QED
  BY <1>1, <1>2, <1>3, <1>4, <1>5, ZenonT(30)
     DEF Next, WorkerStep, vars, ExtractFail, Claim, GetInode, GetSemantic, Embed,
         HandlerError, Renew, StopLease, AckTask, RetryTask, Crash, RecoverExpired, Tick

\* Revisions only grow, and a file that exists goes on existing (overwrite
\* increments inodes.revision; delete marks the row).
LEMMA RevisionsGrow ==
    ASSUME IInv, [Next]_vars, NEW f \in Files
    PROVE  /\ file[f].rev \in Nat /\ file'[f].rev \in Nat
           /\ file'[f].rev >= file[f].rev
           /\ file[f].status # "absent" => file'[f].status # "absent"
           /\ file'[f].status = "CONFIRMED" /\ file'[f].rev = file[f].rev
              => file[f].status = "CONFIRMED"
<1>1. file[f].rev \in Nat
  BY DEF IInv, TypeOK, FileRow
<1> QED
  BY <1>1, FileStep DEF Written, Touched

\* Tasks are registered with the revision they are for, or for a revision that
\* is still current.
LEMMA TasksOfReachedRevisionsStep == IInv /\ [Next]_vars => TasksOfReachedRevisions'
<1> SUFFICES ASSUME IInv, [Next]_vars, NEW t \in TaskIds, task'[t].status # "absent"
             PROVE  file'[t[1]].status # "absent" /\ file'[t[1]].rev >= t[2]
  BY DEF TasksOfReachedRevisions
<1>0. t[1] \in Files /\ t[2] \in Revs /\ t = <<t[1], t[2]>>
  BY TaskIdParts
<1>1. CASE task[t].status # "absent"
  BY <1>0, <1>1, RevisionsGrow, ConstantsAssumption DEF IInv, TasksOfReachedRevisions
<1>2. CASE task[t].status = "absent"
  <2>1. task[t] # task'[t] /\ Created(t)
    BY <1>2, RowStep DEF Same, Unleased, Claimed
  <2>2. ASSUME NEW f \in Files, WriteFile(f)
        PROVE  file'[t[1]].status # "absent" /\ file'[t[1]].rev >= t[2]
    <3>1. t = <<f, file[f].rev + 1>>
      BY <2>1, <2>2 DEF WriteFile, IInv, TypeOK
    <3> QED
      BY <1>0, <2>2, <3>1, ConstantsAssumption DEF WriteFile, IInv, TypeOK, FileRow
  <2>3. ASSUME NEW u \in TaskIds, ExtractWriteback(u)
        PROVE  file'[t[1]].status # "absent" /\ file'[t[1]].rev >= t[2]
    <3>1. t = u /\ file[t[1]].status = "CONFIRMED" /\ file[t[1]].rev = t[2]
      BY <2>1, <2>3 DEF ExtractWriteback, IInv, TypeOK
    <3> QED
      BY <1>0, <3>1, RevisionsGrow
  <2>4. CASE UNCHANGED task
    BY <2>1, <2>4
  <2>5. \/ \E f \in Files : WriteFile(f)
        \/ \E u \in TaskIds : ExtractWriteback(u)
        \/ UNCHANGED task
    <3>1. ASSUME NEW w \in Workers, \/ \E u \in TaskIds : Claim(w, u)
                                    \/ Renew(w) \/ AckTask(w) \/ RetryTask(w)
          PROVE  FALSE
      BY <1>2, <2>1, <3>1, ZenonT(30)
         DEF Claim, Renew, AckTask, RetryTask, Owned, IInv, TypeOK
    <3>2. ASSUME RecoverExpired PROVE FALSE
      BY <1>2, <2>1, <3>2 DEF RecoverExpired
    <3>3. ASSUME Tick PROVE FALSE
      BY <1>2, <2>1, <3>3, AgedType DEF Tick, Created, IInv, TypeOK
    <3> QED
      BY <3>1, <3>2, <3>3, ZenonT(30)
         DEF Next, WorkerStep, vars, DeleteFile, ExtractFail, GetInode, GetSemantic,
             Embed, HandlerError, UpdateFileEmbedding, StopLease, Crash
  <2> QED
    BY <2>2, <2>3, <2>4, <2>5
<1> QED
  BY <1>1, <1>2

\* A write of a file that is no image stores its text, and nothing empties it.
LEMMA TextOfWrittenFilesStep == IInv /\ [Next]_vars => TextOfWrittenFiles'
<1> SUFFICES ASSUME IInv, [Next]_vars, NEW f \in Files \ Images, file'[f].status # "absent"
             PROVE  file'[f].text # NoText
  BY DEF TextOfWrittenFiles
<1>1. file[f].status # "absent" => file[f].text # NoText
  BY DEF IInv, TextOfWrittenFiles
<1> QED
  BY <1>1, FileStep DEF Written, Touched

\* A vector that passes the revision gate was computed from text read between
\* the revision of the task and the current one, which are then equal.
LEMMA VectorStep == IInv /\ [Next]_vars => VectorOfCurrentRevision'
<1> SUFFICES ASSUME IInv, [Next]_vars, NEW f \in Files, file'[f].embedding_revision # 0
             PROVE  /\ file'[f].embedding_revision = file'[f].rev
                    /\ file'[f].embedding.rev = file'[f].rev
  BY DEF VectorOfCurrentRevision
<1>1. /\ file[f].rev \in Nat
      /\ file[f].embedding_revision # 0 =>
            /\ file[f].embedding_revision = file[f].rev
            /\ file[f].embedding.rev = file[f].rev
  BY DEF IInv, TypeOK, FileRow, VectorOfCurrentRevision
<1>2. ASSUME NEW w \in Workers, Embedded(f, w)
      PROVE  file'[f].embedding_revision = file[f].rev /\ file'[f].embedding.rev = file[f].rev
  <2>1. worker[w].vector.rev \in file[f].rev..file[f].rev
    BY <1>2, ZenonT(30) DEF IInv, WorkerKnowledge, Embedded
  <2> QED
    BY <1>1, <1>2, <2>1 DEF Embedded
<1> QED
  BY <1>1, <1>2, FileStep DEF Written, Touched

\* What was indexed for a revision stays indexed while that revision is current:
\* only a write clears embedding_revision, and a write moves the revision on.
LEMMA IndexedStaysIndexed ==
    ASSUME IInv, [Next]_vars, NEW t \in TaskIds, task[t].status # "absent",
           Current(t)', Current(t) => file[t[1]].embedding_revision = t[2]
    PROVE  file'[t[1]].embedding_revision = t[2]
<1>1. t[1] \in Files /\ t[2] \in Nat /\ file[t[1]].rev \in Nat
  BY TaskIdParts, ConstantsAssumption DEF IInv, TypeOK, FileRow
<1>2. file[t[1]].rev >= t[2]
  BY DEF IInv, TasksOfReachedRevisions
<1>3. /\ file'[t[1]].rev = t[2] /\ file[t[1]].rev = t[2]
      /\ file[t[1]].status = "CONFIRMED"
  BY <1>1, <1>2, RevisionsGrow DEF Current
<1>4. file[t[1]].embedding_revision = t[2]
  BY <1>3 DEF Current
<1> QED
  BY <1>1, <1>3, <1>4, FileStep DEF Written, Touched, Embedded

\* A row once registered is never removed by the queue.
LEMMA RowsStay ==
    ASSUME IInv, [Next]_vars, NEW t \in TaskIds, task[t].status # "absent"
    PROVE  task'[t].status # "absent"
BY RowStep DEF Same, Unleased, Created, Claimed

\* What one worker knows of its task.
Knows(w) ==
    /\ task[worker[w].task].status # "absent"
    /\ worker[w].pc \in {"embed", "writeback"} =>
          worker[w].vector.rev \in worker[w].task[2]..file[worker[w].task[1]].rev
    /\ worker[w].pc \in {"stop", "commit"} /\ worker[w].outcome = "ack"
       /\ worker[w].task[1] \notin Images /\ Current(worker[w].task)
          => file[worker[w].task[1]].embedding_revision = worker[w].task[2]

\* A worker that does not move keeps its knowledge whatever the others do: the
\* revision it compares with only grows.
LEMMA KnowledgeKept ==
    ASSUME IInv, [Next]_vars, NEW w \in Workers, worker[w] # Idle, worker'[w] = worker[w]
    PROVE  Knows(w)'
<1> DEFINE t == worker[w].task
<1>1. t \in TaskIds /\ t[1] \in Files /\ t[2] \in Nat
  BY RunningIsNotIdle, TaskIdParts, ConstantsAssumption DEF IInv, TypeOK, Running
<1>2. Knows(w)
  BY DEF IInv, WorkerKnowledge, Knows
<1>3. task'[t].status # "absent"
  BY <1>1, <1>2, RowsStay DEF Knows
<1>4. ASSUME worker[w].pc \in {"embed", "writeback"}
      PROVE  worker[w].vector.rev \in t[2]..file'[t[1]].rev
  BY <1>1, <1>2, <1>4, RevisionsGrow DEF Knows
<1>5. ASSUME worker[w].pc \in {"stop", "commit"}, worker[w].outcome = "ack",
             t[1] \notin Images, Current(t)'
      PROVE  file'[t[1]].embedding_revision = t[2]
  BY <1>1, <1>2, <1>5, IndexedStaysIndexed DEF Knows
<1>6. worker'[w].task = t /\ worker'[w].pc = worker[w].pc /\ worker'[w].vector = worker[w].vector
      /\ worker'[w].outcome = worker[w].outcome
  OBVIOUS
<1> QED
  BY <1>3, <1>4, <1>5, <1>6 DEF Knows, Current

\* The steps of processEmbedTask learn what they then rely on.
LEMMA KnowledgeStep == IInv /\ [Next]_vars => WorkerKnowledge'
<1> SUFFICES ASSUME IInv, [Next]_vars, NEW w \in Workers, worker'[w] # Idle
             PROVE  Knows(w)'
  BY DEF WorkerKnowledge, Knows
<1>0. TypeOK
  BY DEF IInv
<1>1. CASE worker'[w] = worker[w]
  BY <1>1, KnowledgeKept
<1>2. ASSUME NEW t \in TaskIds, Claim(w, t) PROVE Knows(w)'
  <2>1. /\ worker'[w].task = t /\ worker'[w].pc = "getInode"
        /\ task'[t].status = "processing"
    BY <1>0, <1>2 DEF Claim, TypeOK, TaskRow
  <2> QED
    BY <2>1 DEF Knows
<1>3. CASE worker[w] # Idle /\ worker'[w] # worker[w]
  <2> DEFINE t == worker[w].task
  <2>0. /\ worker[w] \in Running /\ worker[w].pc # "idle" /\ t \in TaskIds
        /\ t[1] \in Files /\ t[2] \in Nat
        /\ task[t] \in TaskRow /\ file[t[1]] \in FileRow
    BY <1>0, <1>3, RunningIsNotIdle, TaskIdParts, ConstantsAssumption
       DEF TypeOK, Running, HandlerSteps
  <2>1. Knows(w) /\ task[t].status # "absent"
    BY <1>3 DEF IInv, WorkerKnowledge, Knows
  <2>2. task'[t].status # "absent"
    BY <2>0, <2>1, RowsStay
  <2>3. file[t[1]].status # "absent" /\ file[t[1]].rev >= t[2]
    BY <2>0, <2>1 DEF IInv, TasksOfReachedRevisions
  <2>4. CASE GetInode(w)
    <3>1. CASE Current(t)
      <4>1. worker'[w].task = t /\ worker'[w].pc = "getSemantic"
        BY <1>0, <2>0, <2>4, <3>1 DEF GetInode, Goto, Current, TypeOK, Running
      <4> QED
        BY <2>2, <4>1 DEF Knows
    <3>2. CASE ~Current(t)
      <4>1. worker'[w].task = t /\ worker'[w].pc = "stop"
        BY <1>0, <2>0, <2>4, <3>2 DEF GetInode, Decide, Current, TypeOK, Running
      <4>2. ~Current(t)' /\ task' = task
        BY <2>4, <3>2, <4>1 DEF GetInode, Current
      <4> QED
        BY <2>2, <4>1, <4>2 DEF Knows, Current
    <3> QED
      BY <3>1, <3>2
  <2>5. CASE GetSemantic(w)
    <3>1. CASE file[t[1]].text = NoText
      <4>1. worker'[w].task = t /\ worker'[w].pc = "stop"
        BY <1>0, <2>0, <2>5, <3>1 DEF GetSemantic, Decide, TypeOK, Running
      <4>2. t[1] \in Images
        BY <2>0, <2>3, <3>1 DEF IInv, TextOfWrittenFiles
      <4> QED
        BY <2>2, <4>1, <4>2 DEF Knows
    <3>2. CASE file[t[1]].text # NoText
      <4>1. /\ worker'[w].task = t /\ worker'[w].pc = "embed"
            /\ worker'[w].vector.rev = file[t[1]].rev /\ file' = file
        BY <1>0, <2>0, <2>5, <3>2 DEF GetSemantic, TypeOK, Running
      <4>2. worker'[w].vector.rev \in t[2]..file'[t[1]].rev
        BY <2>0, <2>3, <4>1, SMTT(30) DEF FileRow
      <4> QED
        BY <2>2, <4>1, <4>2 DEF Knows
    <3> QED
      BY <3>1, <3>2
  <2>6. CASE Embed(w)
    <3>1. /\ worker'[w].task = t /\ worker'[w].pc = "writeback" /\ worker[w].pc = "embed"
          /\ worker'[w].vector = worker[w].vector /\ file' = file
      BY <1>0, <2>0, <2>6 DEF Embed, Goto, TypeOK, Running
    <3> QED
      BY <2>1, <2>2, <3>1 DEF Knows
  <2>7. CASE HandlerError(w)
    <3>1. /\ worker'[w].task = t /\ worker'[w].pc = "stop" /\ worker'[w].outcome = "retry"
      BY <1>0, <2>0, <2>7 DEF HandlerError, Decide, TypeOK, Running
    <3> QED
      BY <2>2, <3>1 DEF Knows
  <2>8. CASE UpdateFileEmbedding(w)
    <3>1. worker'[w].task = t /\ worker'[w].pc = "stop"
      BY <1>0, <2>0, <2>8 DEF UpdateFileEmbedding, Decide, TypeOK, Running
    <3>2. ASSUME Current(t)' PROVE file'[t[1]].embedding_revision = t[2]
      <4>1. Current(t)
        BY <1>0, <2>0, <2>8, <3>1, <3>2 DEF UpdateFileEmbedding, Current, TypeOK, FileRow
      <4> QED
        BY <1>0, <2>0, <2>8, <4>1 DEF UpdateFileEmbedding, Current, TypeOK, FileRow
    <3> QED
      BY <2>2, <3>1, <3>2 DEF Knows, Current
  <2>9. CASE Renew(w)
    <3>1. /\ worker'[w].task = t /\ worker'[w].pc = worker[w].pc
          /\ worker'[w].vector = worker[w].vector /\ file' = file
          /\ worker[w].pc \in HandlerSteps
      BY <1>0, <2>0, <2>9 DEF Renew, TypeOK, Running
    <3> QED
      BY <2>1, <2>2, <3>1 DEF Knows, HandlerSteps
  <2>10. CASE StopLease(w)
    <3>1. /\ worker'[w].task = t /\ worker'[w].pc = "commit" /\ worker[w].pc = "stop"
          /\ worker'[w].outcome = worker[w].outcome /\ file' = file
      BY <1>0, <2>0, <2>10 DEF StopLease, Goto, TypeOK, Running
    <3> QED
      BY <2>1, <2>2, <3>1 DEF Knows, Current
  <2>11. \/ GetInode(w) \/ GetSemantic(w) \/ Embed(w) \/ HandlerError(w)
         \/ UpdateFileEmbedding(w) \/ Renew(w) \/ StopLease(w)
    <3>1. ASSUME NEW v \in Workers, v # w, WorkerStep(v) \/ Renew(v) \/ Crash(v)
          PROVE  worker'[w] = worker[w]
      BY <1>0, <3>1, ZenonT(30)
         DEF WorkerStep, Claim, GetInode, GetSemantic, Embed, HandlerError, Goto, Decide,
             UpdateFileEmbedding, Renew, StopLease, AckTask, RetryTask, Crash, TypeOK
    <3>2. ~(AckTask(w) \/ RetryTask(w) \/ Crash(w) \/ \E u \in TaskIds : Claim(w, u))
      BY <1>0, <1>3, ZenonT(30) DEF AckTask, RetryTask, Crash, Claim, TypeOK
    <3>3. \E v \in Workers : WorkerStep(v) \/ Renew(v) \/ Crash(v)
      BY <1>3, ZenonT(30) DEF Next, vars, WriteFile, DeleteFile, ExtractWriteback, ExtractFail,
                  RecoverExpired, Tick
    <3> QED
      BY <1>3, <3>1, <3>2, <3>3 DEF WorkerStep
  <2> QED
    BY <2>4, <2>5, <2>6, <2>7, <2>8, <2>9, <2>10, <2>11
<1>4. ASSUME worker[w] = Idle, worker'[w] # worker[w]
      PROVE  \E t \in TaskIds : Claim(w, t)
  <2>1. CASE ~ \E v \in Workers, t \in TaskIds : Claim(v, t)
    BY <1>4, <2>1, WorkersStep DEF Kept
  <2>2. CASE \E v \in Workers, t \in TaskIds : Claim(v, t)
    BY <1>0, <1>4, <2>2, ZenonT(30) DEF Claim, TypeOK
  <2> QED
    BY <2>1, <2>2
<1> QED
  BY <1>1, <1>2, <1>3, <1>4

\* A task becomes succeeded only by the ack of a worker that knows why.
LEMMA SucceededStep == IInv /\ [Next]_vars => SucceededIsIndexed'
<1> SUFFICES ASSUME IInv, [Next]_vars, NEW t \in TaskIds, task'[t].status = "succeeded",
                    t[1] \notin Images, Current(t)'
             PROVE  file'[t[1]].embedding_revision = t[2]
  BY DEF SucceededIsIndexed, Current
<1>0. task \in [TaskIds -> TaskRow] /\ task[t] \in TaskRow /\ worker \in [Workers -> Running \cup {Idle}]
  BY DEF IInv, TypeOK
<1>1. CASE task[t].status = "succeeded"
  BY <1>1, IndexedStaysIndexed DEF IInv, SucceededIsIndexed, Current
<1>2. CASE task[t].status # "succeeded"
  <2>1. ASSUME NEW w \in Workers, AckTask(w) PROVE file'[t[1]].embedding_revision = t[2]
    <3>1. worker[w].task = t /\ worker[w] # Idle
      BY <1>0, <1>2, <2>1 DEF AckTask, Idle
    <3>2. Current(t) /\ file' = file
      BY <2>1 DEF AckTask, Current
    <3> QED
      BY <2>1, <3>1, <3>2 DEF IInv, WorkerKnowledge, AckTask
  <2>2. ASSUME NEW f \in Files, WriteFile(f) PROVE FALSE
    <3>1. task'[t] = task[t] \/ task'[t] = NewTask
      BY <1>0, <2>2 DEF WriteFile
    <3> QED
      BY <1>2, <3>1, RowTypes
  <2>3. ASSUME NEW u \in TaskIds, ExtractWriteback(u) PROVE FALSE
    <3>1. task'[t] = task[t] \/ task'[t] = EnsureQueued(task[t])
      BY <1>0, <2>3 DEF ExtractWriteback
    <3>2. Released(task[t], "queued", 0).status = "queued"
      BY DEF Released
    <3>3. EnsureQueued(task[t]).status # "succeeded"
      BY <1>0, <1>2, <3>2, EnsureQueuedType, RowTypes
    <3> QED
      BY <1>2, <3>1, <3>3
  <2>4. ASSUME NEW w \in Workers, \/ \E u \in TaskIds : Claim(w, u)
                                  \/ Renew(w) \/ RetryTask(w)
        PROVE  FALSE
    <3>1. ~RetryTask(w)
      <4>1. ASSUME NEW d \in RetryDelays
            PROVE  /\ Released(task[t], "queued", d).status = "queued"
                   /\ Released(task[t], "dead_lettered", 0).status = "dead_lettered"
        BY DEF Released
      <4>2. ASSUME RetryTask(w)
            PROVE  \/ task'[t] = task[t]
                   \/ task'[t] = Released(task[t], "dead_lettered", 0)
                   \/ \E d \in RetryDelays : task'[t] = Released(task[t], "queued", d)
        BY <1>0, <4>2 DEF RetryTask
      <4> QED
        BY <1>2, <4>1, <4>2, ConstantsAssumption, ZenonT(30)
    <3>2. ~Renew(w)
      BY <1>0, <1>2 DEF Renew, TaskRow
    <3>3. ASSUME NEW u \in TaskIds PROVE ~Claim(w, u)
      BY <1>0, <1>2 DEF Claim, TaskRow
    <3> QED
      BY <2>4, <3>1, <3>2, <3>3
  <2>5. ASSUME RecoverExpired PROVE FALSE
    <3>1. task'[t] = task[t] \/ task'[t] = Released(task[t], "queued", 0)
      BY <2>5 DEF RecoverExpired
    <3> QED
      BY <1>0, <1>2, <3>1, ReleasedType
  <2>6. ASSUME Tick PROVE FALSE
    BY <1>0, <1>2, <2>6, AgedType DEF Tick
  <2>7. CASE UNCHANGED task
    BY <1>2, <2>7
  <2> QED
    BY <2>1, <2>2, <2>3, <2>4, <2>5, <2>6, <2>7, ZenonT(30)
       DEF Next, WorkerStep, vars, DeleteFile, ExtractFail, GetInode, GetSemantic, Embed,
           HandlerError, UpdateFileEmbedding, StopLease, Crash
<1> QED
  BY <1>1, <1>2

\* A finished task holds no lease: neither a worker nor the sweep can change it, and a write creates
\* the task of a revision that has none yet.
LEMMA FinishedStep == IInv /\ [Next]_vars => LeavesFinished
<1> SUFFICES ASSUME IInv, [Next]_vars, NEW t \in TaskIds,
                    task[t].status \in Terminal, task'[t].status # task[t].status
             PROVE  /\ task'[t].status = "queued"
                    /\ t \in extract /\ t \notin extract'
                    /\ file'[t[1]].text = ExtractedText
  BY DEF LeavesFinished
<1>0. /\ task \in [TaskIds -> TaskRow] /\ task[t] \in TaskRow /\ file \in [Files -> FileRow]
      /\ task[t].status \notin {"absent", "queued", "processing"} /\ t[1] \in Files /\ t[2] \in Revs
  BY TaskIdParts DEF IInv, TypeOK, Terminal
<1>1. ASSUME NEW f \in Files, WriteFile(f) PROVE FALSE
  <2>1. t = <<f, file[f].rev + 1>>
    BY <1>0, <1>1 DEF WriteFile
  <2>2. t[2] <= file[t[1]].rev
    BY <1>0 DEF IInv, TasksOfReachedRevisions
  <2> QED
    BY <1>0, <2>1, <2>2 DEF FileRow
<1>2. ASSUME NEW u \in TaskIds, ExtractWriteback(u)
      PROVE  /\ task'[t].status = "queued"
             /\ t \in extract /\ t \notin extract'
             /\ file'[t[1]].text = ExtractedText
  <2>1. /\ u = t /\ task'[t] = EnsureQueued(task[t])
        /\ file' = [file EXCEPT ![t[1]].text = ExtractedText]
    BY <1>0, <1>2 DEF ExtractWriteback
  <2>2. EnsureQueued(task[t]).status = "queued"
    BY <1>0 DEF EnsureQueued, Released
  <2> QED
    BY <1>0, <1>2, <2>1, <2>2 DEF ExtractWriteback, FileRow
<1>3. ASSUME NEW w \in Workers, WorkerStep(w) \/ Renew(w) \/ Crash(w) PROVE FALSE
  <2>1. ASSUME NEW u \in TaskIds, Claim(w, u) PROVE FALSE
    BY <1>0, <2>1 DEF Claim, TaskRow
  <2>2. CASE AckTask(w) \/ RetryTask(w) \/ Renew(w)
    BY <1>0, <2>2, ZenonT(30) DEF AckTask, RetryTask, Renew, Owned, TaskRow
  <2> QED
    BY <1>3, <2>1, <2>2, ZenonT(30) DEF WorkerStep, GetInode, GetSemantic, Embed, HandlerError,
       UpdateFileEmbedding, StopLease, Crash
<1>4. ASSUME RecoverExpired PROVE FALSE
  BY <1>0, <1>4 DEF RecoverExpired
<1>5. ASSUME Tick PROVE FALSE
  BY <1>0, <1>5, AgedType DEF Tick
<1>6. CASE UNCHANGED task
  BY <1>6
<1> QED
  BY <1>1, <1>2, <1>3, <1>4, <1>5, <1>6 DEF Next, vars, DeleteFile, ExtractFail

-----------------------------------------------------------------------------
(* The theorems *)

\* The empty tenant satisfies the inductive invariant.
LEMMA InitIInv == Init => IInv
<1> SUFFICES ASSUME Init PROVE IInv
  OBVIOUS
<1>1. TypeOK
  BY RowTypes, ConstantsAssumption DEF Init, TypeOK
<1>2. TasksOfReachedRevisions /\ ReceiptsOfRows /\ SucceededIsIndexed
  BY DEF Init, NoTask, TasksOfReachedRevisions, ReceiptsOfRows, SucceededIsIndexed
<1>3. TextOfWrittenFiles /\ VectorOfCurrentRevision
  BY DEF Init, NoFile, TextOfWrittenFiles, VectorOfCurrentRevision
<1>4. ReceiptsOfWorkers /\ WorkerKnowledge
  BY DEF Init, ReceiptsOfWorkers, WorkerKnowledge
<1> QED
  BY <1>1, <1>2, <1>3, <1>4 DEF IInv

\* Every step of writers, workers, recovery, time and crashes preserves it.
LEMMA NextIInv == IInv /\ [Next]_vars => IInv'
<1>1. IInv /\ [Next]_vars => TypeOK'
  BY TypeStep DEF IInv
<1> QED
  BY <1>1, ReceiptsOfRowsStep, ReceiptsOfWorkersStep, TasksOfReachedRevisionsStep,
     TextOfWrittenFilesStep, KnowledgeStep, VectorStep, SucceededStep DEF IInv

\* The inductive invariant holds in every reachable state of the queue.
THEOREM Invariance == Spec => []IInv
  BY InitIInv, NextIInv, PTL DEF Spec

\* Rows, worker records and counters keep their types.
THEOREM TypeCorrectness == Spec => []TypeOK
<1>1. IInv => TypeOK
  BY DEF IInv
<1> QED
  BY <1>1, Invariance, PTL

\* Mutual exclusion of lease owners, for any number of workers, files, lapsed
\* leases and crashes (claimSemanticTask, RecoverExpiredSemanticTasks).
THEOREM MutualExclusion == Spec => []OneOwner
<1>1. IInv => OneOwner
  BY DEF IInv, ReceiptsOfWorkers, OneOwner
<1> QED
  BY <1>1, Invariance, PTL

\* The vector stored with a file is of its current revision (UpdateFileEmbedding).
THEOREM VectorFreshness == Spec => []VectorOfCurrentRevision
<1>1. IInv => VectorOfCurrentRevision
  BY DEF IInv
<1> QED
  BY <1>1, Invariance, PTL

\* No write of a file with text of its own is acked without its vector
\* (processTask, AckSemanticTask).
THEOREM NoWriteForgotten == Spec => []SucceededIsIndexed
<1>1. IInv => SucceededIsIndexed
  BY DEF IInv
<1> QED
  BY <1>1, Invariance, PTL

\* A finished task stays finished until image extraction queues it again: no
\* late ack, retry, renewal or sweep touches it (AckSemanticTask,
\* RetrySemanticTask, RecoverExpiredSemanticTasks).
THEOREM FinishedForGood == Spec => FinishedStaysFinished
  BY Invariance, FinishedStep, PTL DEF Spec, FinishedStaysFinished
=============================================================================
