----------------------------- MODULE MCRecords -----------------------------
(* The agent journals and the vault of a tenant: a behaviour belongs to one  *)
(* of them, and the other stays in its initial state.                        *)
EXTENDS AgentJournal, Vault, TLC

VARIABLE rmode

rvars == <<journalVars, vaultVars, rmode>>

ScopesDef == {{<<"s", "a">>}, {<<"*">>}}
FieldSetsDef == {{"a"}, {"a", "b"}}

MCPermissions == [w \in Writers |-> {"create", "append"} \cup (IF w = "w1" THEN {"source:gateway"} ELSE {})]
MCCanonical == [n \in RawNames |-> IF n \in {"Job", "job"} THEN "job" ELSE IF n = "%%" THEN Invalid ELSE n]
MCCreateLabels == {{}, {"Job"}}
MCBatches == {
    <<[subjects |-> {"job"}, source |-> ""]>>,
    <<[subjects |-> {"Job"}, source |-> "gateway"], [subjects |-> {"run"}, source |-> ""]>>,
    <<[subjects |-> {"%%"}, source |-> "self"]>> }

RInit == rmode \in {"journal", "vault"} /\ JournalInit /\ VaultInit

RNext ==
    \/ rmode = "journal" /\ JournalNext /\ UNCHANGED <<vaultVars, rmode>>
    \/ rmode = "vault" /\ VaultNext /\ UNCHANGED <<journalVars, rmode>>

RSpec == RInit /\ [][RNext]_rvars

\* Clients of the vault and idempotency keys share their identifiers, so that
\* one symmetry serves either component.
RecordSymmetry == Permutations(Clients)
=============================================================================
