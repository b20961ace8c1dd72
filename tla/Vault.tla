------------------------------- MODULE Vault -------------------------------
(***************************************************************************)
(* The vault of one tenant: secrets with encrypted fields, the data        *)
(* encryption key they share, capability tokens and grants that let agents *)
(* read some of them, and the read-only file system that shows the secrets *)
(* a token can read.                                                       *)
(*                                                                         *)
(* A field value is the number of the write that made it, with the key it  *)
(* is encrypted under.  Tokens are the ones the server signed; one expires *)
(* at any time, a grant's leeway included.                                 *)
(***************************************************************************)
EXTENDS Common, Integers, Sequences

CONSTANTS
    Secrets,        \* names of secrets
    Fields,         \* names of fields
    FieldSets,      \* the sets of fields a write carries
    Clients,        \* requests that can run at a time
    Tokens,         \* ids of tokens and grants
    MountToken,     \* the one the mount was started with
    Scopes,         \* the scopes asked for: sets of <<secret>> and <<secret, field>>
    Handles,        \* open files of the mount
    MaxWrites       \* bound on writes of secrets

ASSUME VaultAssumption ==
    /\ MountToken \in Tokens
    /\ FieldSets \subseteq (SUBSET Fields) \ {{}}
    /\ MaxWrites \in Nat

SecretRow == [id : 1..MaxWrites, rev : Nat]

TokenRecord == [kind : {"cap", "grant"}, scope : Scopes, perm : {"read", "write"}, ended : 0..MaxWrites \cup {None}]

\* NULL is no value of a column, and a missing row is no row.
ASSUME VaultNoneAssumption ==
    /\ None \notin Clients /\ None \notin Tokens /\ None \notin 0..MaxWrites
    /\ None \notin {"list", "open"}
    /\ None \notin SecretRow /\ None \notin TokenRecord

VARIABLES
    vdek,       \* wrapped_dek of the tenant, or None
    vsecret,    \* [Secrets -> row of vault_secrets, or None]
    vfield,     \* [1..MaxWrites -> rows of vault_secret_fields, by secret_id]
    vtoken,     \* [Tokens -> row of vault_tokens or vault_grants, or None]
    vreq,       \* [Clients -> the request and how far it has come]
    vino,       \* paths the mount has given an inode: <<secret>>, <<secret, field>>
    vhandle,    \* [Handles -> the snapshot of an open file, or None]
    vanswer,    \* the answer the last step gave, or None
    vwrites     \* writes so far

mountVars == <<vino, vhandle>>

vaultVars == <<vdek, vsecret, vfield, vtoken, vreq, vino, vhandle, vanswer, vwrites>>

Idle == [op |-> "idle", st |-> "idle"]

VaultInit ==
    /\ vdek = None
    /\ vsecret = [n \in Secrets |-> None]
    /\ vfield = [id \in 1..MaxWrites |-> {}]
    /\ vtoken = [k \in Tokens |-> None]
    /\ vreq = [c \in Clients |-> Idle]
    /\ vino = {}
    /\ vhandle = [h \in Handles |-> None]
    /\ vanswer = None
    /\ vwrites = 0

Step(c, r) == vreq' = [vreq EXCEPT ![c] = r]

Done(c) == Step(c, Idle)

NoAnswer == vanswer' = None

-----------------------------------------------------------------------------
(* The data encryption key *)

\* INSERT IGNORE, then read again: the key of whoever inserted first.
RereadKey(c, dek) == dek

\* Every write asks for the key first; with none yet, it generates one.
GetOrCreateDEK(c, r) ==
    Step(c, [r EXCEPT !.st = IF vdek = None THEN "insert" ELSE "begin", !.key = vdek])

InsertDEK(c) ==
    /\ vreq[c].st = "insert"
    /\ vdek' = IF vdek = None THEN c ELSE vdek
    /\ Step(c, [vreq[c] EXCEPT !.st = "begin", !.key = RereadKey(c, vdek')])
    /\ UNCHANGED <<vsecret, vfield, vtoken, mountVars, vwrites>>
    /\ NoAnswer

Encrypted(fs, key) == {[f |-> f, key |-> key, at |-> vwrites + 1] : f \in fs}

-----------------------------------------------------------------------------
(* Secrets.  A transaction shows what it did when it commits. *)

\* What SecretPut says: it sends one PUT, and only a 4xx answer proves that nothing was written.
PutOutcome(status) ==
    IF status = 200 THEN "ok" ELSE IF status = 404 THEN "refused" ELSE "status unknown"

PutAnswer(status, applied) == vanswer' = [op |-> "put", says |-> PutOutcome(status), applied |-> applied]

handleVaultSecretCreate(c, n, fs) ==
    /\ vreq[c] = Idle
    /\ GetOrCreateDEK(c, [op |-> "create", st |-> "dek", n |-> n, fs |-> fs, key |-> None])
    /\ UNCHANGED <<vdek, vsecret, vfield, vtoken, mountVars, vwrites>>
    /\ NoAnswer

\* The unique key on the name decides; a conflict changes nothing.
CreateSecret(c) ==
    LET r == vreq[c]
    IN  /\ r.op = "create" /\ r.st = "begin"
        /\ IF vsecret[r.n] = None
           THEN /\ vwrites < MaxWrites
                /\ vwrites' = vwrites + 1
                /\ vsecret' = [vsecret EXCEPT ![r.n] = [id |-> vwrites + 1, rev |-> 1]]
                /\ vfield' = [vfield EXCEPT ![vwrites + 1] = Encrypted(r.fs, r.key)]
           ELSE UNCHANGED <<vsecret, vfield, vwrites>>
        /\ Done(c)
        /\ UNCHANGED <<vdek, vtoken, mountVars>>
        /\ NoAnswer

handleVaultSecretUpdate(c, n, fs) ==
    /\ vreq[c] = Idle
    /\ GetOrCreateDEK(c, [op |-> "update", st |-> "dek", n |-> n, fs |-> fs, key |-> None, row |-> None])
    /\ UNCHANGED <<vdek, vsecret, vfield, vtoken, mountVars, vwrites>>
    /\ NoAnswer

\* The lock on the row of a secret, held from the locking read, or the DELETE, to the commit.
RowFree(n) == \A c \in Clients : ~(vreq[c].op = "update" /\ vreq[c].st = "locked" /\ vreq[c].n = n)

UpdateSelects(c) ==
    LET r == vreq[c]
    IN  /\ r.op = "update" /\ r.st = "begin" /\ RowFree(r.n)
        /\ IF vsecret[r.n] = None
           THEN Done(c) /\ PutAnswer(404, FALSE)
           ELSE Step(c, [r EXCEPT !.st = "locked", !.row = vsecret[r.n]]) /\ NoAnswer
        /\ UNCHANGED <<vdek, vsecret, vfield, vtoken, mountVars, vwrites>>

\* The rows of the fields are locked by a DELETE that has not committed.
FieldsFree(id) == \A c \in Clients : ~(vreq[c].op = "delete" /\ vreq[c].st = "row" /\ vreq[c].id = id)

\* Mutant: fields the update does not name stay.
FieldsMerged(old, new) == new \cup {w \in old : \A x \in new : x.f # w.f}

FieldsReplaced(old, new) == new

\* The old fields go, the new ones come, the revision grows.  The answer may be lost (status 0).
UpdateSecret(c) ==
    LET r == vreq[c]
        id == r.row.id
    IN  /\ r.op = "update" /\ r.st = "locked" /\ FieldsFree(id)
        /\ vwrites < MaxWrites
        /\ vwrites' = vwrites + 1
        /\ vsecret' = IF vsecret[r.n] # None /\ vsecret[r.n].id = id
                      THEN [vsecret EXCEPT ![r.n].rev = r.row.rev + 1] ELSE vsecret
        /\ vfield' = [vfield EXCEPT ![id] = FieldsReplaced(@, Encrypted(r.fs, r.key))]
        /\ Done(c)
        /\ \E status \in {200, 0} : PutAnswer(status, TRUE)
        /\ UNCHANGED <<vdek, vtoken, mountVars>>

\* The secret_id is read without a lock; then the fields are deleted, then the row.
DeleteSelects(c, n) ==
    /\ vreq[c] = Idle /\ vsecret[n] # None
    /\ Step(c, [op |-> "delete", st |-> "fields", n |-> n, id |-> vsecret[n].id])
    /\ UNCHANGED <<vdek, vsecret, vfield, vtoken, mountVars, vwrites>>
    /\ NoAnswer

DeleteFields(c) ==
    /\ vreq[c].op = "delete" /\ vreq[c].st = "fields" /\ FieldsFree(vreq[c].id)
    /\ Step(c, [vreq[c] EXCEPT !.st = "row"])
    /\ UNCHANGED <<vdek, vsecret, vfield, vtoken, mountVars, vwrites>>
    /\ NoAnswer

SameSecret(row, id) == row # None /\ row.id = id

DeleteSecret(c) ==
    LET r == vreq[c]
    IN  /\ r.op = "delete" /\ r.st = "row" /\ RowFree(r.n)
        /\ vfield' = [vfield EXCEPT ![r.id] = {}]
        /\ vsecret' = IF SameSecret(vsecret[r.n], r.id) THEN [vsecret EXCEPT ![r.n] = None] ELSE vsecret
        /\ Done(c)
        /\ UNCHANGED <<vdek, vtoken, mountVars, vwrites>>
        /\ NoAnswer

\* An update holds the row and waits for the fields, a delete the other way round: the database ends
\* one of them.  A request may also end early because its statement or its client fails.
RequestFails(c) ==
    /\ vreq[c] # Idle
    /\ Done(c)
    /\ IF vreq[c].op = "update" THEN PutAnswer(500, FALSE) ELSE NoAnswer
    /\ UNCHANGED <<vdek, vsecret, vfield, vtoken, mountVars, vwrites>>

-----------------------------------------------------------------------------
(* Tokens and grants *)

\* A scope names secrets, or fields of secrets, one by one: wildcards are refused.
ValidateScope(scope) == scope # {} /\ \A e \in scope : e[1] # "*"

TokenRow(kind, scope, perm) == [kind |-> kind, scope |-> scope, perm |-> perm, ended |-> None]

IssueCapToken(k, scope) ==
    /\ vtoken[k] = None
    /\ vtoken' = [vtoken EXCEPT ![k] = TokenRow("cap", scope, "read")]
    /\ UNCHANGED <<vdek, vsecret, vfield, vreq, mountVars, vwrites>>
    /\ NoAnswer

IssueGrant(k, scope, perm) ==
    /\ vtoken[k] = None
    /\ vtoken' = [vtoken EXCEPT ![k] = TokenRow("grant", scope, perm)]
    /\ UNCHANGED <<vdek, vsecret, vfield, vreq, mountVars, vwrites>>
    /\ NoAnswer

handleVaultTokenIssue(k, scope) == ValidateScope(scope) /\ IssueCapToken(k, scope)

handleVaultGrantIssue(k, scope, perm) == ValidateScope(scope) /\ IssueGrant(k, scope, perm)

\* A token ends once: a second revocation finds nothing.  The end is dated by the writes before it.
TokenEnds(k) ==
    /\ vtoken[k] # None /\ vtoken[k].ended = None
    /\ vtoken' = [vtoken EXCEPT ![k].ended = vwrites]
    /\ UNCHANGED <<vdek, vsecret, vfield, vreq, mountVars, vwrites>>
    /\ NoAnswer

RevokeCapToken(k) == vtoken[k] # None /\ vtoken[k].kind = "cap" /\ TokenEnds(k)

RevokeGrant(k) == vtoken[k] # None /\ vtoken[k].kind = "grant" /\ TokenEnds(k)

handleVaultTokenRevoke(k) == RevokeCapToken(k)

handleVaultGrantRevoke(k) == RevokeGrant(k)

\* exp passed: at once for a capability token, after the leeway for a grant.
TokenExpires(k) == TokenEnds(k)

\* Neither expired nor revoked.
VerifyAndResolveCapToken(k) == vtoken[k].ended = None

\* Mutant: a good signature is enough.
VerifySignature(k) == TRUE

VerifyAndResolveGrant(k) == vtoken[k].ended = None

verifyGrantReadToken(k) == VerifyAndResolveGrant(k) /\ vtoken[k].perm = "read"

verifyVaultReadToken(k) ==
    /\ vtoken[k] # None
    /\ IF vtoken[k].kind = "grant" THEN verifyGrantReadToken(k) ELSE VerifyAndResolveCapToken(k)

CheckScope(scope, n, f) == <<n>> \in scope \/ <<n, f>> \in scope

AllowedFields(scope, n) == {f \in Fields : CheckScope(scope, n, f)}

-----------------------------------------------------------------------------
(* Reads: by the owner, by a token, and by the mount that opens a file *)

Answer(r, got, code) ==
    [op |-> "read", k |-> r.k, n |-> r.n, got |-> got, code |-> code, since |-> r.since, id |-> r.id]

\* A read of the fields asked for that are allowed; file is the mount's use of the answer.
ReadStarts(c, k, n, file, one, allowed) ==
    LET r == [op |-> "read", st |-> "meta", k |-> k, n |-> n, file |-> file, one |-> one,
              allowed |-> allowed, since |-> vwrites, id |-> None]
    IN  /\ vreq[c] = Idle
        /\ IF allowed = {} THEN vanswer' = Answer(r, {}, 404) /\ UNCHANGED vreq
           ELSE Step(c, r) /\ NoAnswer
        /\ UNCHANGED <<vdek, vsecret, vfield, vtoken, mountVars, vwrites>>

\* The owner needs no scope.
handleVaultSecretReadValue(c, n) == ReadStarts(c, None, n, None, FALSE, Fields)

handleVaultSecretReadField(c, n, f) == ReadStarts(c, None, n, None, TRUE, {f})

handleVaultReadSecret(c, k, n, file) ==
    verifyVaultReadToken(k) /\ ReadStarts(c, k, n, file, FALSE, AllowedFields(vtoken[k].scope, n))

handleVaultReadField(c, k, n, f) ==
    /\ verifyVaultReadToken(k)
    /\ ReadStarts(c, k, n, None, TRUE, IF CheckScope(vtoken[k].scope, n, f) THEN {f} ELSE {})

\* The secret's row is read on its own, before its fields.
GetSecret(c) ==
    LET r == vreq[c]
    IN  /\ r.op = "read" /\ r.st = "meta"
        /\ IF vsecret[r.n] = None
           THEN Done(c) /\ vanswer' = Answer(r, {}, 404)
           ELSE Step(c, [r EXCEPT !.st = "fields", !.id = vsecret[r.n].id]) /\ NoAnswer
        /\ UNCHANGED <<vdek, vsecret, vfield, vtoken, mountVars, vwrites>>

\* What the mount does with the answer: a listing gives its fields inodes, an open file keeps the value.
MountUses(r, rows) ==
    \/ r.file = None /\ UNCHANGED mountVars
    \/ /\ r.file = "list"
       /\ vino' = vino \cup {<<r.n, w.f>> : w \in rows}
       /\ UNCHANGED vhandle
    \/ /\ r.file = "open"
       /\ \E h \in Handles, x \in rows :
             /\ <<r.n, x.f>> \in vino /\ vhandle[h] = None
             /\ vhandle' = [vhandle EXCEPT ![h] = [k |-> r.k, data |-> x, since |-> r.since]]
       /\ UNCHANGED vino

\* One query fetches the fields of the secret_id read before, and the scope filters them.
ReadSecretFields(c) ==
    LET r == vreq[c]
        rows == {w \in vfield[r.id] : w.f \in r.allowed}
    IN  /\ r.op = "read" /\ r.st = "fields"
        /\ Done(c)
        /\ vanswer' = Answer(r, rows, IF r.one /\ rows = {} THEN 404 ELSE 200)
        /\ MountUses(r, rows) \/ (r.file = "open" /\ UNCHANGED mountVars)
        /\ UNCHANGED <<vdek, vsecret, vfield, vtoken, vwrites>>

-----------------------------------------------------------------------------
(* The mount: every operation asks the server; only the inode table and the open files stay *)

\* The secrets the token's scope names that exist.
handleVaultReadEnumerate(k) ==
    {n \in Secrets : vsecret[n] # None /\ AllowedFields(vtoken[k].scope, n) # {}}

\* The root: each secret listed gets an inode.
ReadDirRoot ==
    /\ verifyVaultReadToken(MountToken)
    /\ vino' = vino \cup {<<n>> : n \in handleVaultReadEnumerate(MountToken)}
    /\ UNCHANGED <<vdek, vsecret, vfield, vtoken, vreq, vhandle, vwrites>>
    /\ NoAnswer

\* A directory with an inode, or a name in it: the fields are read afresh.
ReadDir(c, n) == <<n>> \in vino /\ handleVaultReadSecret(c, MountToken, n, "list")

\* A file with an inode: the value is read once, now.
Open(c, n, f) == <<n, f>> \in vino /\ handleVaultReadSecret(c, MountToken, n, "open")

Release(h) ==
    /\ vhandle[h] # None
    /\ vhandle' = [vhandle EXCEPT ![h] = None]
    /\ UNCHANGED <<vdek, vsecret, vfield, vtoken, vreq, vino, vwrites>>
    /\ NoAnswer

-----------------------------------------------------------------------------

WriteNext(c) ==
    \/ \E n \in Secrets, fs \in FieldSets :
          handleVaultSecretCreate(c, n, fs) \/ handleVaultSecretUpdate(c, n, fs)
    \/ \E n \in Secrets : DeleteSelects(c, n)
    \/ InsertDEK(c) \/ CreateSecret(c)
    \/ UpdateSelects(c) \/ UpdateSecret(c)
    \/ DeleteFields(c) \/ DeleteSecret(c)
    \/ RequestFails(c)

ReadNext(c) ==
    \/ \E n \in Secrets :
          \/ handleVaultSecretReadValue(c, n) \/ ReadDir(c, n)
          \/ \E k \in Tokens : handleVaultReadSecret(c, k, n, None)
          \/ \E f \in Fields :
                \/ handleVaultSecretReadField(c, n, f) \/ Open(c, n, f)
                \/ \E k \in Tokens : handleVaultReadField(c, k, n, f)
    \/ GetSecret(c) \/ ReadSecretFields(c)

VaultNext ==
    \/ \E c \in Clients : WriteNext(c) \/ ReadNext(c)
    \/ \E k \in Tokens, scope \in Scopes :
          handleVaultTokenIssue(k, scope) \/ \E perm \in {"read", "write"} : handleVaultGrantIssue(k, scope, perm)
    \/ \E k \in Tokens : handleVaultTokenRevoke(k) \/ handleVaultGrantRevoke(k) \/ TokenExpires(k)
    \/ ReadDirRoot
    \/ \E h \in Handles : Release(h)

VaultSpec == VaultInit /\ [][VaultNext]_vaultVars

-----------------------------------------------------------------------------

Stored == [f : Fields, key : Clients, at : 1..MaxWrites]

\* The state keeps its types: the tables, the requests under way and the open files.
VaultTypeOK ==
    /\ vdek \in Clients \cup {None}
    /\ \A n \in Secrets : vsecret[n] # None => vsecret[n] \in [id : 1..MaxWrites, rev : 1..MaxWrites]
    /\ vfield \in [1..MaxWrites -> SUBSET Stored]
    /\ \A k \in Tokens : vtoken[k] # None => vtoken[k].scope \in Scopes /\ vtoken[k].perm \in {"read", "write"}
    /\ \A c \in Clients : vreq[c].op \in {"idle", "create", "update", "delete", "read"}
    /\ vino \subseteq {<<n>> : n \in Secrets} \cup (Secrets \X Fields)
    /\ \A h \in Handles : vhandle[h] # None => vhandle[h].data \in Stored
    /\ vwrites \in 0..MaxWrites

\* Every stored field is encrypted under the tenant's one key, however many first writes raced to
\* create it: a value can always be decrypted (GetOrCreateDEK reads the key again after INSERT IGNORE).
FieldsDecrypt == \A id \in 1..MaxWrites : \A w \in vfield[id] : w.key = vdek

\* Create, update and delete, however they interleave, leave no field without its secret, no secret
\* without fields, and at most one write's fields (CreateSecret, UpdateSecret, DeleteSecret).
FieldsHaveSecret ==
    /\ \A id \in 1..MaxWrites : vfield[id] # {} => \E n \in Secrets : vsecret[n] # None /\ vsecret[n].id = id
    /\ \A n \in Secrets : vsecret[n] # None => vfield[vsecret[n].id] # {}

\* A read that succeeds shows the fields one write left, never a mix of two; it shows none only if the
\* secret it looked up was deleted meanwhile (ReadSecretFields).
ReadIsOneWrite ==
    vanswer # None /\ vanswer.op = "read" /\ vanswer.code = 200 =>
        /\ \A w, x \in vanswer.got : w.at = x.at
        /\ vanswer.got = {} /\ vanswer.k = None =>
               \A n \in Secrets : vsecret[n] # None => vsecret[n].id # vanswer.id

\* What a token's request delivers, and every file the mount ever showed for it, is within the scope
\* signed into it (AllowedFields, CheckScope, readDirCommon).
DeliveredInScope ==
    /\ vanswer # None /\ vanswer.op = "read" /\ vanswer.k # None =>
           \A w \in vanswer.got : CheckScope(vtoken[vanswer.k].scope, vanswer.n, w.f)
    /\ \A p \in vino : Len(p) = 2 => CheckScope(vtoken[MountToken].scope, p[1], p[2])

\* Once a token is revoked or expired, it shows a value written after its end to no request that was not
\* already verified before that write; an open file never shows one (VerifyAndResolveGrant, Open).
NothingNewAfterEnd ==
    LET Fair(k, w, since) == k # None /\ vtoken[k].ended # None /\ w.at > vtoken[k].ended => since <= vtoken[k].ended
    IN  /\ vanswer # None /\ vanswer.op = "read" => \A w \in vanswer.got : Fair(vanswer.k, w, vanswer.since)
        /\ \A h \in Handles : vhandle[h] # None => Fair(vhandle[h].k, vhandle[h].data, vhandle[h].since)

\* "server refused" means that nothing was written, and success that it was; only "status unknown"
\* leaves the question open (SecretPut).
PutHonest ==
    vanswer # None /\ vanswer.op = "put" =>
        (vanswer.says = "ok" => vanswer.applied) /\ (vanswer.says = "refused" => ~vanswer.applied)

\* A secret is whole: every stored field can be decrypted and belongs to a
\* secret, a read returns the fields of one write, and the answer of a put is
\* what became of it.
SecretsWhole == FieldsDecrypt /\ FieldsHaveSecret /\ ReadIsOneWrite /\ PutHonest

\* A capability token is confined: it delivers fields of its scope alone, and
\* nothing that was written after it had ended.
TokensConfined == DeliveredInScope /\ NothingNewAfterEnd
=============================================================================
