--------------------------- MODULE SemanticTasks ---------------------------
(***************************************************************************)
(* The durable semantic_tasks queue of one tenant, the workers that lease  *)
(* its embed tasks, and the two producers of text: the write path and the  *)
(* in-memory image extraction queue (app-managed embedding mode).          *)
(*                                                                         *)
(* Time is kept relative: a lease is the number of ticks by which          *)
(* lease_until lies ahead of now (0: equal to now, -1: past), a delay the  *)
(* number of ticks until available_at.  The statements of the code compare *)
(* these columns with now and with nothing else.                           *)
(***************************************************************************)
EXTENDS Integers

CONSTANTS
    Files,        \* file ids of the tenant
    Images,       \* the files whose text comes from image extraction
    Workers,      \* worker goroutines of all the server processes
    MaxRev,       \* bound on the revisions of a file
    MaxAttempts,  \* semantic_tasks.max_attempts
    LeaseTicks,   \* LeaseDuration
    RetryDelays,  \* the values of retryDelay
    MaxFaults     \* bound on crashes, failed statements and missed renewals

ASSUME ConstantsAssumption ==
    /\ Images \subseteq Files
    /\ MaxRev \in Nat \ {0}
    /\ MaxAttempts \in Nat \ {0}
    /\ LeaseTicks \in Nat \ {0}
    /\ RetryDelays \subseteq Nat
    /\ RetryDelays # {}
    /\ MaxFaults \in Nat

VARIABLES
    file,     \* [Files -> the inodes and semantic rows of the file]
    task,     \* [TaskIds -> the row of semantic_tasks]
    worker,   \* [Workers -> the local state of processTask]
    extract,  \* image extractions held in the memory of some process
    faults    \* number of faults so far

vars == <<file, task, worker, extract, faults>>

-----------------------------------------------------------------------------
(* State *)

Revs == 1..MaxRev

\* The unique key (task_type, resource_id, resource_version) with task_type = embed.
TaskIds == Files \X Revs

NoReceipt == 0
NoLease == -2

\* content_text: empty, the text of the written bytes, the text extracted later.
NoText == 0
WrittenText == 1
ExtractedText == 2
Texts == {NoText, WrittenText, ExtractedText}

\* A vector is known by the revision and the text it was computed from.
Vectors == [rev : 0..MaxRev, text : Texts]
NoVector == [rev |-> 0, text |-> NoText]

FileRow == [status : {"absent", "CONFIRMED", "DELETED"}, rev : 0..MaxRev,
            text : Texts, embedding : Vectors, embedding_revision : 0..MaxRev]

NoFile == [status |-> "absent", rev |-> 0, text |-> NoText,
           embedding |-> NoVector, embedding_revision |-> 0]

TaskRow == [status : {"absent", "queued", "processing", "succeeded", "dead_lettered"},
            attempt_count : Nat, receipt : Nat,
            lease : NoLease..LeaseTicks, delay : Nat]

NoTask == [status |-> "absent", attempt_count |-> 0, receipt |-> NoReceipt,
           lease |-> NoLease, delay |-> 0]

\* The steps of processTask during which the renewal goroutine runs.
HandlerSteps == {"getInode", "getSemantic", "embed", "writeback"}

Idle == [pc |-> "idle"]

Running == [pc : HandlerSteps \cup {"stop", "commit"},
            task : TaskIds, receipt : Nat, vector : Vectors,
            outcome : {"ack", "retry"}, lost : BOOLEAN]

\* The rows of inodes, semantic and semantic_tasks, the local variables of processTask and the
\* counters keep their types.
TypeOK ==
    /\ file \in [Files -> FileRow]
    /\ task \in [TaskIds -> TaskRow]
    /\ worker \in [Workers -> Running \cup {Idle}]
    /\ extract \subseteq TaskIds
    /\ faults \in 0..MaxFaults

Init ==
    /\ file = [f \in Files |-> NoFile]
    /\ task = [t \in TaskIds |-> NoTask]
    /\ worker = [w \in Workers |-> Idle]
    /\ extract = {}
    /\ faults = 0

-----------------------------------------------------------------------------
(* Rows of semantic_tasks *)

\* The ownership test of ack, retry, dead-letter and renew.
Owned(t, r) ==
    /\ task[t].status = "processing"
    /\ task[t].receipt = r
    /\ task[t].lease > 0

NewTask == [NoTask EXCEPT !.status = "queued"]

\* The row once its lease is given up: receipt, leased_at and lease_until NULL.
Released(row, status, delay) ==
    [status |-> status, attempt_count |-> row.attempt_count,
     receipt |-> NoReceipt, lease |-> NoLease, delay |-> delay]

\* ensureSemanticTaskQueuedTx: a task that is being processed is left alone.
EnsureQueued(row) ==
    IF row.status = "absent" THEN NewTask
    ELSE IF row.status = "processing" /\ row.lease > 0 THEN row
    ELSE Released(row, "queued", 0)

-----------------------------------------------------------------------------
(* Producers *)

\* Create or overwrite: the new revision, the cleared embedding and the embed
\* task commit in one transaction.  An image is then offered to the bounded
\* in-memory extraction queue, which may be full and drop it.
WriteFile(f) ==
    LET rev == file[f].rev + 1
        row == [status |-> "CONFIRMED", rev |-> rev,
                text |-> IF f \in Images THEN NoText ELSE WrittenText,
                embedding |-> NoVector, embedding_revision |-> 0]
    IN /\ file[f].status # "DELETED"
       /\ rev \in Revs
       /\ file' = [file EXCEPT ![f] = row]
       /\ task' = [task EXCEPT ![<<f, rev>>] = NewTask]
       /\ extract' \in {extract} \cup
             (IF f \in Images THEN {extract \cup {<<f, rev>>}} ELSE {})
       /\ UNCHANGED <<worker, faults>>

\* The last link to the file is removed; its tasks stay in the queue.
DeleteFile(f) ==
    /\ file[f].status = "CONFIRMED"
    /\ file' = [file EXCEPT ![f].status = "DELETED"]
    /\ UNCHANGED <<task, worker, extract, faults>>

\* ProcessImageExtractTask: the text is written only to the revision it was
\* extracted from, and the embed task of that revision is ensured with it.
ExtractWriteback(t) ==
    LET f == t[1]
        updated == file[f].status = "CONFIRMED" /\ file[f].rev = t[2]
    IN /\ t \in extract
       /\ extract' = extract \ {t}
       /\ IF updated
          THEN /\ file' = [file EXCEPT ![f].text = ExtractedText]
               /\ task' = [task EXCEPT ![t] = EnsureQueued(task[t])]
          ELSE UNCHANGED <<file, task>>
       /\ UNCHANGED <<worker, faults>>

\* The extraction fails or yields no text: there is no retry.
ExtractFail(t) ==
    /\ t \in extract
    /\ extract' = extract \ {t}
    /\ UNCHANGED <<file, task, worker, faults>>

-----------------------------------------------------------------------------
(* Workers *)

\* Mutant: the receipt is a name of the task, not of the claim.
ClaimWithTaskReceipt(w, t) ==
    /\ worker[w] = Idle
    /\ task[t].status = "queued"
    /\ task[t].delay = 0
    /\ task' = [task EXCEPT ![t].status = "processing",
                            ![t].attempt_count = @ + 1,
                            ![t].receipt = 1,
                            ![t].lease = LeaseTicks]
    /\ worker' = [worker EXCEPT ![w] =
                    [pc |-> "getInode", task |-> t, receipt |-> 1,
                     vector |-> NoVector, outcome |-> "ack", lost |-> FALSE]]
    /\ UNCHANGED <<file, extract, faults>>

\* ClaimSemanticTask.  FOR UPDATE SKIP LOCKED passes over locked rows, so any
\* task that is due can be the one claimed.  The receipt, a fresh uuid, is
\* modelled by the number of the attempt, which no statement ever reuses.
Claim(w, t) ==
    /\ worker[w] = Idle
    /\ task[t].status = "queued"
    /\ task[t].delay = 0
    /\ task' = [task EXCEPT ![t].status = "processing",
                            ![t].attempt_count = @ + 1,
                            ![t].receipt = task[t].attempt_count + 1,
                            ![t].lease = LeaseTicks]
    /\ worker' = [worker EXCEPT ![w] =
                    [pc |-> "getInode", task |-> t,
                     receipt |-> task[t].attempt_count + 1,
                     vector |-> NoVector, outcome |-> "ack", lost |-> FALSE]]
    /\ UNCHANGED <<file, extract, faults>>

Goto(w, pc) == worker' = [worker EXCEPT ![w].pc = pc]

Decide(w, outcome) ==
    worker' = [worker EXCEPT ![w].pc = "stop", ![w].outcome = outcome]

\* GetFile reads the inode row first: a missing, deleted or newer file makes
\* the task obsolete.
GetInode(w) ==
    LET t == worker[w].task
        current == file[t[1]].status = "CONFIRMED" /\ file[t[1]].rev = t[2]
    IN /\ worker[w].pc = "getInode"
       /\ IF current THEN Goto(w, "getSemantic") ELSE Decide(w, "ack")
       /\ UNCHANGED <<file, task, extract, faults>>

\* The semantic row is read by a second statement, outside any transaction.
\* An empty text makes the task obsolete.
GetSemantic(w) ==
    LET row == file[worker[w].task[1]]
    IN /\ worker[w].pc = "getSemantic"
       /\ IF row.text = NoText
          THEN Decide(w, "ack")
          ELSE worker' = [worker EXCEPT
                            ![w].pc = "embed",
                            ![w].vector = [rev |-> row.rev, text |-> row.text]]
       /\ UNCHANGED <<file, task, extract, faults>>

\* EmbedText answers.
Embed(w) ==
    /\ worker[w].pc = "embed"
    /\ Goto(w, "writeback")
    /\ UNCHANGED <<file, task, extract, faults>>

\* Mutant: an error of the handler is swallowed.
HandlerErrorAcked(w) ==
    /\ worker[w].pc \in HandlerSteps
    /\ Decide(w, "ack")
    /\ UNCHANGED <<file, task, extract, faults>>

\* Any call of the handler may fail, and does once its context is cancelled.
HandlerError(w) ==
    /\ worker[w].pc \in HandlerSteps
    /\ Decide(w, "retry")
    /\ UNCHANGED <<file, task, extract, faults>>

\* Mutant: the writeback is not conditional on the revision.
UpdateFileEmbeddingUngated(w) ==
    LET t == worker[w].task
    IN /\ worker[w].pc = "writeback"
       /\ file' = [file EXCEPT ![t[1]].embedding = worker[w].vector,
                               ![t[1]].embedding_revision = t[2]]
       /\ Decide(w, "ack")
       /\ UNCHANGED <<task, extract, faults>>

\* UpdateFileEmbedding: written only to the confirmed revision of the task; a
\* conditional write that misses is acked as obsolete.
UpdateFileEmbedding(w) ==
    LET t == worker[w].task
        f == t[1]
        updated == file[f].status = "CONFIRMED" /\ file[f].rev = t[2]
    IN /\ worker[w].pc = "writeback"
       /\ IF updated
          THEN file' = [file EXCEPT ![f].embedding = worker[w].vector,
                                    ![f].embedding_revision = t[2]]
          ELSE file' = file
       /\ Decide(w, "ack")
       /\ UNCHANGED <<task, extract, faults>>

\* One tick of the renewal goroutine: the lease is extended, or found lost.
Renew(w) ==
    LET t == worker[w].task
    IN /\ worker[w].pc \in HandlerSteps
       /\ ~worker[w].lost
       /\ IF Owned(t, worker[w].receipt)
          THEN /\ task' = [task EXCEPT ![t].lease = LeaseTicks]
               /\ worker' = worker
          ELSE /\ worker' = [worker EXCEPT ![w].lost = TRUE]
               /\ task' = task
       /\ UNCHANGED <<file, extract, faults>>

\* The renewal is stopped, then the ownership is read again before any
\* statement that finishes the task; an unreadable row counts as owned.
StopLease(w) ==
    /\ worker[w].pc = "stop"
    /\ \/ worker[w].lost /\ worker' = [worker EXCEPT ![w] = Idle]
       \/ ~worker[w].lost /\ Goto(w, "commit")
       \/ /\ ~worker[w].lost
          /\ ~Owned(worker[w].task, worker[w].receipt)
          /\ worker' = [worker EXCEPT ![w] = Idle]
    /\ UNCHANGED <<file, task, extract, faults>>

\* AckSemanticTask.
AckTask(w) ==
    LET t == worker[w].task
    IN /\ worker[w].pc = "commit"
       /\ worker[w].outcome = "ack"
       /\ task' = IF Owned(t, worker[w].receipt)
                  THEN [task EXCEPT ![t] = Released(@, "succeeded", 0)]
                  ELSE task
       /\ worker' = [worker EXCEPT ![w] = Idle]
       /\ UNCHANGED <<file, extract, faults>>

\* RetrySemanticTask: dead-letters the last attempt, else requeues with a delay.
RetryTask(w) ==
    LET t == worker[w].task
        last == task[t].attempt_count >= MaxAttempts
    IN /\ worker[w].pc = "commit"
       /\ worker[w].outcome = "retry"
       /\ \E d \in RetryDelays :
             task' = IF ~Owned(t, worker[w].receipt) THEN task
                     ELSE [task EXCEPT ![t] =
                             IF last THEN Released(@, "dead_lettered", 0)
                             ELSE Released(@, "queued", d)]
       /\ worker' = [worker EXCEPT ![w] = Idle]
       /\ UNCHANGED <<file, extract, faults>>

-----------------------------------------------------------------------------
(* Recovery, time and faults *)

\* Mutant: the sweep does not test the status.
RecoverAnyStatus ==
    LET expired(t) == task[t].status # "absent" /\ task[t].lease < 0
    IN /\ \E t \in TaskIds : expired(t)
       /\ task' = [t \in TaskIds |-> IF expired(t) THEN Released(task[t], "queued", 0)
                                     ELSE task[t]]
       /\ UNCHANGED <<file, worker, extract, faults>>

\* RecoverExpiredSemanticTasks: every expired lease is swept back to the queue.
RecoverExpired ==
    LET expired(t) == task[t].status = "processing" /\ task[t].lease < 0
    IN /\ \E t \in TaskIds : expired(t)
       /\ task' = [t \in TaskIds |-> IF expired(t) THEN Released(task[t], "queued", 0)
                                     ELSE task[t]]
       /\ UNCHANGED <<file, worker, extract, faults>>

\* The leases that would run out at the next tick under a worker still alive.
Lapsing == {w \in Workers : /\ worker[w] # Idle
                            /\ Owned(worker[w].task, worker[w].receipt)
                            /\ task[worker[w].task].lease = 1}

\* The row one tick later.
Aged(row) ==
    [row EXCEPT !.lease = IF @ >= 0 THEN @ - 1 ELSE @,
                !.delay = IF @ > 0 THEN @ - 1 ELSE @]

Tick ==
    /\ IF Lapsing = {} THEN faults' = faults
       ELSE faults < MaxFaults /\ faults' = faults + 1
    /\ task' = [t \in TaskIds |-> Aged(task[t])]
    /\ UNCHANGED <<file, worker, extract>>

\* The process of a worker dies, with extractions in its memory; or the
\* finishing statement fails, which the worker only logs.
Crash(w) ==
    /\ worker[w] # Idle
    /\ faults < MaxFaults
    /\ faults' = faults + 1
    /\ worker' = [worker EXCEPT ![w] = Idle]
    /\ extract' \in SUBSET extract
    /\ UNCHANGED <<file, task>>

-----------------------------------------------------------------------------
WorkerStep(w) ==
    \/ \E t \in TaskIds : Claim(w, t)
    \/ GetInode(w) \/ GetSemantic(w) \/ Embed(w) \/ HandlerError(w)
    \/ UpdateFileEmbedding(w) \/ StopLease(w) \/ AckTask(w) \/ RetryTask(w)

Next ==
    \/ \E f \in Files : WriteFile(f) \/ DeleteFile(f)
    \/ \E t \in TaskIds : ExtractWriteback(t) \/ ExtractFail(t)
    \/ \E w \in Workers : WorkerStep(w) \/ Renew(w) \/ Crash(w)
    \/ RecoverExpired
    \/ Tick

\* The worker loops poll on a ticker, the recovery loop sweeps on another, and
\* time passes; nothing is assumed of writers, extraction or renewal.
Fairness ==
    /\ \A w \in Workers : WF_vars(WorkerStep(w))
    /\ WF_vars(RecoverExpired)
    /\ WF_vars(Tick)

Spec == Init /\ [][Next]_vars /\ Fairness

-----------------------------------------------------------------------------
(* Properties *)

Terminal == {"succeeded", "dead_lettered"}

\* Mutual exclusion of lease owners: whatever lapses, crashes and recoveries
\* happened, at most one worker holds the receipt stored in a row being
\* processed, so at most one can ack, retry or renew it (claimSemanticTask
\* against RecoverExpiredSemanticTasks).
OneOwner ==
    \A t \in TaskIds : \A v, w \in Workers :
        /\ task[t].status = "processing"
        /\ worker[v] # Idle /\ worker[v].task = t /\ worker[v].receipt = task[t].receipt
        /\ worker[w] # Idle /\ worker[w].task = t /\ worker[w].receipt = task[t].receipt
        => v = w

\* A stored vector was computed from the text of the very revision the file now
\* has, although GetFile reads inode and text by two statements, the provider is
\* called outside any transaction and several workers may hold the task one
\* after the other (UpdateFileEmbedding's revision gate).
VectorOfCurrentRevision ==
    \A f \in Files :
        file[f].embedding_revision # 0 =>
            /\ file[f].embedding_revision = file[f].rev
            /\ file[f].embedding.rev = file[f].rev

\* No write is forgotten: a task reported succeeded for the current revision of
\* a live file with text of its own left that revision's vector behind
\* (processTask acks only what was written or is obsolete).
SucceededIsIndexed ==
    \A t \in TaskIds :
        /\ task[t].status = "succeeded"
        /\ t[1] \notin Images
        /\ file[t[1]].status = "CONFIRMED"
        /\ file[t[1]].rev = t[2]
        => file[t[1]].embedding_revision = t[2]

\* A step that changes the status of a finished task is the writeback of the
\* text of an image, which queues it again.
LeavesFinished ==
    \A t \in TaskIds :
        task[t].status \in Terminal /\ task'[t].status # task[t].status
        => /\ task'[t].status = "queued"
           /\ t \in extract /\ t \notin extract'
           /\ file'[t[1]].text = ExtractedText

\* A finished task is reopened only by the text that image extraction has just
\* written: no late ack, retry, renewal or sweep revives or refails it.
FinishedStaysFinished == [][LeavesFinished]_vars

\* Every registered revision is eventually finished, one way or the other, once
\* crashes and missed renewals stop (worker loop and RecoverExpired).
EveryTaskFinishes ==
    \A t \in TaskIds :
        task[t].status \in {"queued", "processing"} ~> task[t].status \in Terminal

-----------------------------------------------------------------------------
(* The inductive invariant behind the safety properties *)

\* A receipt is stored exactly while the task is processed, and it is the number
\* of its last attempt.
ReceiptsOfRows ==
    \A t \in TaskIds :
        task[t].receipt = IF task[t].status = "processing"
                          THEN task[t].attempt_count ELSE NoReceipt

\* No two workers hold the same receipt, and none holds one not yet issued.
ReceiptsOfWorkers ==
    \A w \in Workers : worker[w] # Idle =>
        /\ worker[w].receipt \in 1..task[worker[w].task].attempt_count
        /\ \A v \in Workers \ {w} :
              worker[v] # Idle /\ worker[v].task = worker[w].task
              => worker[v].receipt # worker[w].receipt

\* Tasks exist only for revisions their file has reached.
TasksOfReachedRevisions ==
    \A t \in TaskIds : task[t].status # "absent" =>
        file[t[1]].status # "absent" /\ file[t[1]].rev >= t[2]

\* A file written with text of its own always has some.
TextOfWrittenFiles ==
    \A f \in Files \ Images : file[f].status # "absent" => file[f].text # NoText

Current(t) == file[t[1]].status = "CONFIRMED" /\ file[t[1]].rev = t[2]

\* What a worker has learnt of its file: the text it read is not older than the
\* inode it read, and an ack it decided on is justified for good.
WorkerKnowledge ==
    \A w \in Workers : worker[w] # Idle =>
        LET t == worker[w].task
        IN /\ task[t].status # "absent"
           /\ worker[w].pc \in {"embed", "writeback"} =>
                 worker[w].vector.rev \in t[2]..file[t[1]].rev
           /\ worker[w].pc \in {"stop", "commit"} /\ worker[w].outcome = "ack"
              /\ t[1] \notin Images /\ Current(t)
                 => file[t[1]].embedding_revision = t[2]

IInv ==
    /\ TypeOK
    /\ ReceiptsOfRows
    /\ ReceiptsOfWorkers
    /\ TasksOfReachedRevisions
    /\ TextOfWrittenFiles
    /\ WorkerKnowledge
    /\ VectorOfCurrentRevision
    /\ SucceededIsIndexed
=============================================================================
