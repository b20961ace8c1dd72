---------------------------- MODULE CentralQuota ----------------------------
(***************************************************************************)
(* The quota tables of one tenant in the central server database: the      *)
(* counters of tenant_quota_usage, the rows of tenant_upload_reservations, *)
(* the outbox quota_mutation_log and tenant_file_meta, with the two        *)
(* background workers that read them, the expiry sweep and the mutation    *)
(* replay.  An action is one transaction of pkg/meta; the modules that     *)
(* extend this one call them from the handlers of the tenant backend.      *)
(*                                                                         *)
(* media_file_count follows storage_bytes statement by statement and is    *)
(* left out, as are the llm_cost_record entries, which touch other tables. *)
(***************************************************************************)
EXTENDS Integers, Sequences, FiniteSetsExt

CONSTANTS
    Uploads,          \* upload ids
    QuotaFiles,            \* file ids
    Size,             \* [Uploads -> total_size of the upload]
    MaxStorageBytes,  \* max_storage_bytes of the tenant
    MaxRetries,       \* replayMaxRetries
    MaxQuotaFaults         \* bound on crashes and failed statements

ASSUME QuotaAssumption ==
    /\ Size \in [Uploads -> Nat \ {0}]
    /\ MaxStorageBytes \in Nat
    /\ MaxRetries \in Nat \ {0}
    /\ MaxQuotaFaults \in Nat

VARIABLES
    usage,     \* storage_bytes and reserved_bytes
    resv,      \* [Uploads -> status of the reservation row]
    log,       \* quota_mutation_log, by id
    fileMeta,  \* [QuotaFiles -> size_bytes of the tenant_file_meta row]
    expired,   \* the uploads past expires_at
    sweep,     \* the reservations a running sweep has summed up
    batch,     \* the log ids a running replay has still to apply
    quotaFaults     \* number of faults so far

quotaVars == <<usage, resv, log, fileMeta, expired, sweep, batch, quotaFaults>>

NoMeta == -1
NoReservation == "none"

EntryTypes == {"file_create", "file_overwrite", "upload_complete"}

TotalSize(us) == MapThenSumSet(LAMBDA u : Size[u], us)

Active == {u \in Uploads : resv[u] = "active"}

Pending == {i \in DOMAIN log : log[i].status = "pending"}

QuotaInit ==
    /\ usage = [storage |-> 0, reserved |-> 0]
    /\ resv = [u \in Uploads |-> NoReservation]
    /\ log = <<>>
    /\ fileMeta = [f \in QuotaFiles |-> NoMeta]
    /\ expired = {}
    /\ sweep = {}
    /\ batch = <<>>
    /\ quotaFaults = 0

\* A statement fails or a process dies.
Fault ==
    /\ quotaFaults < MaxQuotaFaults
    /\ quotaFaults' = quotaFaults + 1

-----------------------------------------------------------------------------
(* The transactions the handlers of the backend run *)

FitsQuota(u) == usage.storage + usage.reserved + Size[u] <= MaxStorageBytes

AtomicReserveAndInsertUpload(u) ==
    /\ FitsQuota(u)
    /\ resv[u] = NoReservation
    /\ usage' = [usage EXCEPT !.reserved = @ + Size[u]]
    /\ resv' = [resv EXCEPT ![u] = "active"]
    /\ UNCHANGED <<log, fileMeta, expired, sweep, batch>>

\* The counter is adjusted whatever the row says by now; the row is guarded.
ReleaseReservation(u) ==
    /\ usage' = [usage EXCEPT !.reserved = @ - Size[u]]
    /\ resv' = [resv EXCEPT ![u] = IF @ = "active" THEN "aborted" ELSE @]
    /\ UNCHANGED <<log, fileMeta, expired, sweep, batch>>

LogEntry(type, u, f, old, new) ==
    [type |-> type, upload |-> u, file |-> f, old |-> old, new |-> new,
     status |-> "pending", retries |-> 0]

InsertMutationLog(e) ==
    /\ log' = Append(log, e)
    /\ UNCHANGED <<usage, resv, fileMeta, expired, sweep, batch>>

\* SettleActiveReservationTx decides inside the transaction: an active
\* reservation moves from reserved to storage, otherwise storage is charged.
SettlesReservation(e) ==
    e.type = "upload_complete" /\ resv[e.upload] = "active"

Delta(e) == e.new - e.old

\* Mutant: an overwrite adds the new size and keeps the old.
ApplyKeepingOldSize(e) ==
    /\ usage' = [storage  |-> usage.storage + e.new,
                 reserved |-> usage.reserved - (IF SettlesReservation(e) THEN e.new ELSE 0)]
    /\ resv' = IF SettlesReservation(e) THEN [resv EXCEPT ![e.upload] = "completed"] ELSE resv
    /\ fileMeta' = [fileMeta EXCEPT ![e.file] = e.new]

applyMutation(e) ==
    /\ usage' = [storage  |-> usage.storage + Delta(e),
                 reserved |-> usage.reserved - (IF SettlesReservation(e) THEN e.new ELSE 0)]
    /\ resv' = IF SettlesReservation(e) THEN [resv EXCEPT ![e.upload] = "completed"] ELSE resv
    /\ fileMeta' = [fileMeta EXCEPT ![e.file] = e.new]

\* Mutant: the entry is applied whatever its status has become.
ApplyLoggedUnguarded(i) ==
    /\ applyMutation(log[i])
    /\ log' = [log EXCEPT ![i].status = "applied"]

\* One transaction: the entry's effects and MarkMutationAppliedTx, whose
\* guard rolls everything back when the entry is no longer pending.
ApplyLogged(i) ==
    /\ log[i].status = "pending"
    /\ applyMutation(log[i])
    /\ log' = [log EXCEPT ![i].status = "applied"]

-----------------------------------------------------------------------------
(* MutationReplayWorker *)

\* replayMinAge only delays an entry; the inline attempt may still be running.
ListPendingMutations ==
    /\ batch = <<>>
    /\ Pending # {}
    /\ batch' = SelectSeq([i \in DOMAIN log |-> i], LAMBDA i : i \in Pending)
    /\ UNCHANGED <<usage, resv, log, fileMeta, expired, sweep, quotaFaults>>

IncrMutationRetry(i) ==
    log' = [log EXCEPT
              ![i].retries = @ + 1,
              ![i].status = IF log[i].retries + 1 >= MaxRetries THEN "failed" ELSE @]

replayOne ==
    /\ batch # <<>>
    /\ ApplyLogged(Head(batch))
    /\ batch' = Tail(batch)
    /\ UNCHANGED <<expired, sweep, quotaFaults>>

\* A failed entry counts a retry and the rest of the tenant's batch is skipped.
replayFails ==
    /\ batch # <<>>
    /\ log[Head(batch)].status = "pending"
    /\ Fault
    /\ IncrMutationRetry(Head(batch))
    /\ batch' = <<>>
    /\ UNCHANGED <<usage, resv, fileMeta, expired, sweep>>

\* The inline attempt was faster: the transaction rolls back, the retry
\* counter of the applied row is left alone, the barrier still falls.
replayTooLate ==
    /\ batch # <<>>
    /\ log[Head(batch)].status # "pending"
    /\ batch' = <<>>
    /\ UNCHANGED <<usage, resv, log, fileMeta, expired, sweep, quotaFaults>>

replayBatch == ListPendingMutations \/ replayOne \/ replayFails \/ replayTooLate

-----------------------------------------------------------------------------
(* ExpirySweepWorker *)

\* expires_at passes.
Expire(u) ==
    /\ u \notin expired
    /\ expired' = expired \cup {u}
    /\ UNCHANGED <<usage, resv, log, fileMeta, sweep, batch, quotaFaults>>

\* Mutant: the sweep selects reservations that have not expired.
SweepUnexpired ==
    /\ sweep = {}
    /\ Active \ expired # {}
    /\ sweep' = Active \ expired
    /\ UNCHANGED <<usage, resv, log, fileMeta, expired, batch, quotaFaults>>

\* The SELECT of the sweep transaction reads a snapshot and takes no lock.
SweepSelect ==
    /\ sweep = {}
    /\ Active \cap expired # {}
    /\ sweep' = Active \cap expired
    /\ UNCHANGED <<usage, resv, log, fileMeta, expired, batch, quotaFaults>>

\* Its UPDATEs see the current rows: the summed bytes leave the counter, the
\* rows that are still active become aborted.
SweepUpdate ==
    /\ sweep # {}
    /\ usage' = [usage EXCEPT !.reserved = @ - TotalSize(sweep)]
    /\ resv' = [u \in Uploads |-> IF u \in sweep /\ resv[u] = "active" THEN "aborted" ELSE resv[u]]
    /\ sweep' = {}
    /\ UNCHANGED <<log, fileMeta, expired, batch, quotaFaults>>

ExpireActiveReservations == SweepSelect \/ SweepUpdate

\* The process of the background workers dies, or the sweep's transaction fails.
WorkersStop ==
    /\ sweep # {} \/ batch # <<>>
    /\ Fault
    /\ sweep' = {}
    /\ batch' = <<>>
    /\ UNCHANGED <<usage, resv, log, fileMeta, expired>>

QuotaWorkers ==
    \/ replayBatch
    \/ ExpireActiveReservations
    \/ WorkersStop

-----------------------------------------------------------------------------
(* Properties *)

Reservations == {NoReservation, "active", "completed", "aborted"}

QuotaTypeOK ==
    /\ usage \in [storage : Int, reserved : Int]
    /\ resv \in [Uploads -> Reservations]
    /\ \A i \in DOMAIN log :
          /\ log[i].type \in EntryTypes
          /\ log[i].file \in QuotaFiles
          /\ log[i].status \in {"pending", "applied", "failed"}
          /\ log[i].retries \in 0..MaxRetries
    /\ fileMeta \in [QuotaFiles -> Nat \cup {NoMeta}]
    /\ expired \subseteq Uploads
    /\ sweep \subseteq Uploads
    /\ \A k \in DOMAIN batch : batch[k] \in DOMAIN log
    /\ quotaFaults \in 0..MaxQuotaFaults

\* No interleaving of initiate, complete, abort, sweep and replay leaks
\* reserved bytes: what is reserved is backed by active reservation rows.
ReservedIsBacked == usage.reserved <= TotalSize(Active)

\* The inline attempt and the replay worker race for an entry, yet its delta
\* reaches storage_bytes exactly once, when it becomes applied.
AppliedExactlyOnce ==
    usage.storage = MapThenSumSet(LAMBDA i : Delta(log[i]),
                                  {i \in DOMAIN log : log[i].status = "applied"})

\* The ledger of the central quota is exact: what is reserved is backed by
\* active reservations, and a logged mutation has counted once if it is marked
\* applied and not at all otherwise (ApplyMutation, replayBatch, the sweep).
LedgerExact == ReservedIsBacked /\ AppliedExactlyOnce
=============================================================================
