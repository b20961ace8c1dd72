---------------------------- MODULE JournalLog ----------------------------
(***************************************************************************)
(* What the agent journal promises: a journal, once created, is a sequence *)
(* of entries that only ever grows at its end, and an append request adds  *)
(* its entries at most once, however often it is sent.                     *)
(***************************************************************************)
EXTENDS Naturals, Sequences

CONSTANTS
    Journals,   \* journal ids
    AppendIds   \* idempotency keys

VARIABLES
    created,    \* the journals that exist
    log,        \* [Journals -> the sequence of entries]
    applied     \* [Journals -> the idempotency keys whose entries are in the log]

logVars == <<created, log, applied>>

LogInit ==
    /\ created = {}
    /\ log = [j \in Journals |-> <<>>]
    /\ applied = [j \in Journals |-> {}]

CreateLog(j) ==
    /\ j \notin created
    /\ created' = created \cup {j}
    /\ UNCHANGED <<log, applied>>

\* The old log is a proper prefix of the new one.
AppendTo(j, id) ==
    /\ j \in created
    /\ id \notin applied[j]
    /\ applied' = [applied EXCEPT ![j] = @ \cup {id}]
    /\ Len(log'[j]) > Len(log[j])
    /\ SubSeq(log'[j], 1, Len(log[j])) = log[j]
    /\ \A k \in Journals \ {j} : log'[k] = log[k]
    /\ UNCHANGED created

LogNext == \E j \in Journals : CreateLog(j) \/ \E id \in AppendIds : AppendTo(j, id)

LogSpec == LogInit /\ [][LogNext]_logVars
=============================================================================
