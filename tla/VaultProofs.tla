---------------------------- MODULE VaultProofs ----------------------------
(***************************************************************************)
(* Proofs about the vault, for any secrets, fields, tokens and number of   *)
(* concurrent requests: a secret is whole, and a token is confined to its  *)
(* scope and to its life.                                                  *)
(*                                                                         *)
(* The argument for the first: a secret_id belongs to one name for ever,   *)
(* and an update that holds the lock on the row still finds its secret.    *)
(* For the second: what a request may read is settled when its token is    *)
(* verified, and neither the scope nor the end of a token changes later.   *)
(***************************************************************************)
EXTENDS Vault, TLAPS

CreateRequest == [op : {"create"}, st : {"insert", "begin"}, n : Secrets, fs : FieldSets, key : Clients \cup {None}]

UpdateRequest == [op : {"update"}, st : {"insert", "begin", "locked"}, n : Secrets, fs : FieldSets,
                  key : Clients \cup {None}, row : SecretRow \cup {None}]

DeleteRequest == [op : {"delete"}, st : {"fields", "row"}, n : Secrets, id : 1..MaxWrites]

ReadRequest == [op : {"read"}, st : {"meta", "fields"}, k : Tokens \cup {None}, n : Secrets,
                file : {None, "list", "open"}, one : BOOLEAN, allowed : SUBSET Fields, since : 0..MaxWrites,
                id : 1..MaxWrites \cup {None}]

Requests == {Idle} \cup CreateRequest \cup UpdateRequest \cup DeleteRequest \cup ReadRequest

OpenFile == [k : Tokens \cup {None}, data : Stored, since : 0..MaxWrites]

\* Tables, requests and open files have their columns.
VaultShape ==
    /\ vdek \in Clients \cup {None}
    /\ vsecret \in [Secrets -> SecretRow \cup {None}]
    /\ vfield \in [1..MaxWrites -> SUBSET Stored]
    /\ vtoken \in [Tokens -> TokenRecord \cup {None}]
    /\ vreq \in [Clients -> Requests]
    /\ vhandle \in [Handles -> OpenFile \cup {None}]
    /\ vwrites \in 0..MaxWrites

\* A write that has asked for the key has the one that is stored.
KeyKnown(c) ==
    vreq[c].op \in {"create", "update"} /\ vreq[c].st # "insert" => vdek # None /\ vreq[c].key = vdek

\* A secret_id is used once, for one name.
IdsUsedOnce ==
    /\ \A n \in Secrets : vsecret[n] # None => vsecret[n].id <= vwrites
    /\ \A id \in 1..MaxWrites : id > vwrites => vfield[id] = {}
    /\ \A n, m \in Secrets : vsecret[n] # None /\ vsecret[m] # None /\ vsecret[n].id = vsecret[m].id => n = m

\* What an update has locked is still there; what a delete has looked up is
\* of its name or gone.
WriteHolds(c) ==
    /\ vreq[c].op = "update" /\ vreq[c].st = "locked" =>
        vsecret[vreq[c].n] # None /\ vreq[c].row # None /\ vsecret[vreq[c].n].id = vreq[c].row.id
    /\ vreq[c].op = "delete" =>
        /\ vreq[c].id <= vwrites
        /\ \A m \in Secrets : vsecret[m] # None /\ vsecret[m].id = vreq[c].id => m = vreq[c].n

\* The fields of a secret are one write's.
OneWriteEach == \A id \in 1..MaxWrites : \A w, x \in vfield[id] : w.at = x.at

\* A token that was good after since writes was issued, and has not ended before.
GoodAt(k, since) ==
    k \in Tokens /\ vtoken[k] # None /\ since <= vwrites /\ (vtoken[k].ended # None => since <= vtoken[k].ended)

\* What a read under way may deliver.
ReadHolds(c) ==
    vreq[c].op = "read" =>
        /\ vreq[c].st = "fields" => vreq[c].id \in 1..MaxWrites
        /\ vreq[c].file # None => vreq[c].k = MountToken
        /\ vreq[c].k = None /\ ~vreq[c].one => vreq[c].allowed = Fields
        /\ vreq[c].k # None =>
            /\ GoodAt(vreq[c].k, vreq[c].since)
            /\ \A f \in vreq[c].allowed : CheckScope(vtoken[vreq[c].k].scope, vreq[c].n, f)

HandleHolds(h) == vhandle[h] # None => vhandle[h].k # None /\ GoodAt(vhandle[h].k, vhandle[h].since)

InodesInScope ==
    \A p \in vino :
        \/ \E n \in Secrets : p = <<n>>
        \/ \E n \in Secrets, f \in Fields :
            p = <<n, f>> /\ vtoken[MountToken] # None /\ CheckScope(vtoken[MountToken].scope, n, f)

\* What the properties say of the latest answer.
AnswerRight ==
    /\ ReadIsOneWrite /\ PutHonest
    /\ vanswer # None /\ vanswer.op = "read" /\ vanswer.k # None /\ vanswer.got # {} =>
        /\ GoodAt(vanswer.k, vanswer.since)
        /\ \A w \in vanswer.got : CheckScope(vtoken[vanswer.k].scope, vanswer.n, w.f)

VaultInv ==
    /\ VaultShape /\ FieldsDecrypt /\ FieldsHaveSecret /\ IdsUsedOnce /\ OneWriteEach
    /\ \A c \in Clients : KeyKnown(c) /\ WriteHolds(c) /\ ReadHolds(c)
    /\ \A h \in Handles : HandleHolds(h)
    /\ InodesInScope
    /\ AnswerRight

\* The types of the tables, as the steps use them.
LEMMA VaultTypes ==
    ASSUME VaultInv
    PROVE  /\ vsecret \in [Secrets -> SecretRow \cup {None}] /\ vfield \in [1..MaxWrites -> SUBSET Stored]
           /\ vtoken \in [Tokens -> TokenRecord \cup {None}] /\ vreq \in [Clients -> Requests]
           /\ vhandle \in [Handles -> OpenFile \cup {None}]
           /\ vwrites \in Nat /\ vwrites \in 0..MaxWrites
  BY VaultAssumption DEF VaultInv, VaultShape

\* A step that changes neither secrets nor fields nor the key keeps what is
\* known of them.
LEMMA TablesKept ==
    ASSUME VaultInv, vdek' = vdek, vsecret' = vsecret, vfield' = vfield, vwrites' = vwrites
    PROVE  FieldsDecrypt' /\ FieldsHaveSecret' /\ IdsUsedOnce' /\ OneWriteEach'
  BY DEF VaultInv, FieldsDecrypt, FieldsHaveSecret, IdsUsedOnce, OneWriteEach

\* A write under way that nothing touches goes on holding what it held.
LEMMA WriteKept ==
    ASSUME NEW c, KeyKnown(c), WriteHolds(c), vreq'[c] = vreq[c], vdek' = vdek, vsecret' = vsecret, vwrites' = vwrites
    PROVE  KeyKnown(c)' /\ WriteHolds(c)'
  BY ZenonT(30) DEF KeyKnown, WriteHolds

\* So does a read.
LEMMA ReadKept ==
    ASSUME NEW c, ReadHolds(c), vreq'[c] = vreq[c], vtoken' = vtoken, vwrites' = vwrites
    PROVE  ReadHolds(c)'
  BY ZenonT(30) DEF ReadHolds, GoodAt

-----------------------------------------------------------------------------
(* Requests *)

\* What a request is, its op says.
LEMMA RequestKinds ==
    ASSUME NEW r \in Requests
    PROVE  /\ r.op = "create" => r \in CreateRequest
           /\ r.op = "update" => r \in UpdateRequest
           /\ r.op = "delete" => r \in DeleteRequest
           /\ r.op = "read" => r \in ReadRequest
           /\ r.op = "idle" => r = Idle
           /\ r.st = "insert" => r.op \in {"create", "update"}
<1>1. Idle.op = "idle" /\ Idle.st = "idle"
  BY ZenonT(30) DEF Idle
<1>2. /\ \A q \in CreateRequest : q.op = "create"
      /\ \A q \in UpdateRequest : q.op = "update"
      /\ \A q \in DeleteRequest : q.op = "delete" /\ q.st # "insert"
      /\ \A q \in ReadRequest : q.op = "read" /\ q.st # "insert"
  BY ZenonT(30) DEF CreateRequest, UpdateRequest, DeleteRequest, ReadRequest
<1> QED
  BY <1>1, <1>2, ZenonT(30) DEF Requests

\* No answer, and nothing wrong with it.
LEMMA NoAnswerRight == ASSUME NoAnswer PROVE AnswerRight'
BY ZenonT(30) DEF NoAnswer, AnswerRight, ReadIsOneWrite, PutHonest

\* A request that is no write under way owes nothing.
LEMMA IdleHolds ==
    ASSUME NEW c, vreq'[c] = Idle
    PROVE  KeyKnown(c)' /\ WriteHolds(c)' /\ ReadHolds(c)'
<1>1. vreq'[c].op = "idle"
  BY DEF Idle
<1> QED
  BY <1>1, ZenonT(30) DEF KeyKnown, WriteHolds, ReadHolds

\* A step of one request that leaves the tables, the tokens and the mount.
LEMMA RequestStep ==
    ASSUME VaultInv, NEW c \in Clients, NEW r \in Requests, vreq' = [vreq EXCEPT ![c] = r],
           UNCHANGED <<vdek, vsecret, vfield, vtoken, mountVars, vwrites>>,
           KeyKnown(c)', WriteHolds(c)', ReadHolds(c)', AnswerRight'
    PROVE  VaultInv'
<1>1. /\ vdek' = vdek /\ vsecret' = vsecret /\ vfield' = vfield /\ vtoken' = vtoken
      /\ vino' = vino /\ vhandle' = vhandle /\ vwrites' = vwrites
  BY ZenonT(30) DEF mountVars
<1>2. vreq \in [Clients -> Requests]
  BY ZenonT(30) DEF VaultInv, VaultShape
<1>3. vreq' \in [Clients -> Requests] /\ \A d \in Clients \ {c} : vreq'[d] = vreq[d]
  BY <1>2, ZenonT(30)
<1>4. VaultShape'
  BY <1>1, <1>3, ZenonT(30) DEF VaultInv, VaultShape
<1>5. FieldsDecrypt' /\ FieldsHaveSecret' /\ IdsUsedOnce' /\ OneWriteEach'
  BY <1>1, TablesKept, ZenonT(30)
<1>6. ASSUME NEW d \in Clients PROVE KeyKnown(d)' /\ WriteHolds(d)' /\ ReadHolds(d)'
  <2>1. CASE d = c
    BY <2>1, ZenonT(30)
  <2>2. CASE d # c
    <3>1. KeyKnown(d) /\ WriteHolds(d) /\ ReadHolds(d) /\ vreq'[d] = vreq[d]
      BY <1>3, <2>2, ZenonT(30) DEF VaultInv
    <3> QED
      BY <1>1, <3>1, WriteKept, ReadKept, ZenonT(30)
  <2> QED
    BY <2>1, <2>2, ZenonT(30)
<1>7. ASSUME NEW h \in Handles PROVE HandleHolds(h)'
  BY <1>1, ZenonT(30) DEF VaultInv, HandleHolds, GoodAt
<1>8. InodesInScope'
  BY <1>1, ZenonT(30) DEF VaultInv, InodesInScope
<1> QED
  BY <1>4, <1>5, <1>6, <1>7, <1>8, ZenonT(30) DEF VaultInv

\* A request ends.
LEMMA DoneStep ==
    ASSUME VaultInv, NEW c \in Clients, Done(c), AnswerRight',
           UNCHANGED <<vdek, vsecret, vfield, vtoken, mountVars, vwrites>>
    PROVE  VaultInv'
<1>1. vreq' = [vreq EXCEPT ![c] = Idle] /\ Idle \in Requests
  BY ZenonT(30) DEF Done, Step, Requests
<1>2. vreq'[c] = Idle
  BY <1>1, ZenonT(30) DEF VaultInv, VaultShape
<1> QED
  BY <1>1, <1>2, IdleHolds, RequestStep, ZenonT(30)

\* CreateSecret begins a request; no row changes.
LEMMA CreateStarts ==
    ASSUME VaultInv, NEW c \in Clients, NEW n \in Secrets, NEW fs \in FieldSets, handleVaultSecretCreate(c, n, fs)
    PROVE  VaultInv'
<1> DEFINE q == [op |-> "create", st |-> "dek", n |-> n, fs |-> fs, key |-> None]
           r == [q EXCEPT !.st = IF vdek = None THEN "insert" ELSE "begin", !.key = vdek]
<1>1. vreq' = [vreq EXCEPT ![c] = r]
  BY ZenonT(30) DEF handleVaultSecretCreate, GetOrCreateDEK, Step
<1>2. r \in CreateRequest /\ r.op = "create" /\ (r.st # "insert" => vdek # None) /\ r.key = vdek
  <2>1. q \in [op : {"create"}, st : {"dek"}, n : Secrets, fs : FieldSets, key : {None}]
    BY ZenonT(30)
  <2> HIDE DEF q
  <2> QED
    BY <2>1, ZenonT(30) DEF VaultInv, VaultShape, CreateRequest
<1>3. UNCHANGED <<vdek, vsecret, vfield, vtoken, mountVars, vwrites>> /\ NoAnswer
  BY ZenonT(30) DEF handleVaultSecretCreate
<1> HIDE DEF r
<1>4. r \in Requests /\ vreq'[c] = r /\ vdek' = vdek
  BY <1>1, <1>2, <1>3, ZenonT(30) DEF VaultInv, VaultShape, Requests
<1>5. KeyKnown(c)' /\ WriteHolds(c)' /\ ReadHolds(c)'
  BY <1>2, <1>4, ZenonT(30) DEF KeyKnown, WriteHolds, ReadHolds
<1> QED
  BY <1>1, <1>3, <1>4, <1>5, NoAnswerRight, RequestStep, ZenonT(30)

\* UpdateSecret begins a request; no row changes.
LEMMA UpdateStarts ==
    ASSUME VaultInv, NEW c \in Clients, NEW n \in Secrets, NEW fs \in FieldSets, handleVaultSecretUpdate(c, n, fs)
    PROVE  VaultInv'
<1> DEFINE q == [op |-> "update", st |-> "dek", n |-> n, fs |-> fs, key |-> None, row |-> None]
           r == [q EXCEPT !.st = IF vdek = None THEN "insert" ELSE "begin", !.key = vdek]
<1>1. vreq' = [vreq EXCEPT ![c] = r]
  BY ZenonT(30) DEF handleVaultSecretUpdate, GetOrCreateDEK, Step
<1>2. /\ r \in UpdateRequest /\ r.op = "update" /\ r.st # "locked" /\ (r.st # "insert" => vdek # None)
      /\ r.key = vdek
  <2>1. q \in [op : {"update"}, st : {"dek"}, n : Secrets, fs : FieldSets, key : {None}, row : {None}]
    BY ZenonT(30)
  <2> HIDE DEF q
  <2> QED
    BY <2>1, ZenonT(30) DEF VaultInv, VaultShape, UpdateRequest
<1>3. UNCHANGED <<vdek, vsecret, vfield, vtoken, mountVars, vwrites>> /\ NoAnswer
  BY ZenonT(30) DEF handleVaultSecretUpdate
<1> HIDE DEF r
<1>4. r \in Requests /\ vreq'[c] = r /\ vdek' = vdek
  BY <1>1, <1>2, <1>3, ZenonT(30) DEF VaultInv, VaultShape, Requests
<1>5. KeyKnown(c)' /\ WriteHolds(c)' /\ ReadHolds(c)'
  BY <1>2, <1>4, ZenonT(30) DEF KeyKnown, WriteHolds, ReadHolds
<1> QED
  BY <1>1, <1>3, <1>4, <1>5, NoAnswerRight, RequestStep, ZenonT(30)

\* An update locks the row it is about to replace, or answers 404.
LEMMA UpdateSelectsStep ==
    ASSUME VaultInv, NEW c \in Clients, UpdateSelects(c)
    PROVE  VaultInv'
<1>0. PICK q : q = vreq[c]
  BY ZenonT(30)
<1>1. q \in UpdateRequest /\ KeyKnown(c) /\ q.op = "update" /\ q.st = "begin" /\ q.n \in Secrets
  <2>1. q \in Requests /\ q.op = "update" /\ q.st = "begin" /\ KeyKnown(c)
    BY <1>0, ZenonT(30) DEF UpdateSelects, VaultInv, VaultShape
  <2>2. q \in UpdateRequest
    BY <2>1, RequestKinds, ZenonT(30)
  <2> QED
    BY <2>1, <2>2, ZenonT(30) DEF UpdateRequest
<1>2. UNCHANGED <<vdek, vsecret, vfield, vtoken, mountVars, vwrites>>
  BY ZenonT(30) DEF UpdateSelects
<1>3. CASE vsecret[q.n] = None
  <2>1. Done(c) /\ PutAnswer(404, FALSE)
    BY <1>0, <1>3, ZenonT(30) DEF UpdateSelects
  <2>2. vanswer'.op = "put" /\ vanswer'.says = "refused" /\ vanswer'.applied = FALSE
    BY <2>1 DEF PutAnswer, PutOutcome
  <2>3. AnswerRight'
    BY <2>2, ZenonT(30) DEF AnswerRight, ReadIsOneWrite, PutHonest
  <2> QED
    BY <1>2, <2>1, <2>3, DoneStep
<1>4. CASE vsecret[q.n] # None
  <2>0. PICK row : row = vsecret[q.n]
    BY ZenonT(30)
  <2> DEFINE r == [q EXCEPT !.st = "locked", !.row = row]
  <2>1. row \in SecretRow /\ row # None
    BY <1>1, <1>4, <2>0, ZenonT(30) DEF VaultInv, VaultShape
  <2>2. vreq' = [vreq EXCEPT ![c] = r] /\ NoAnswer
    BY <1>0, <1>4, <2>0, ZenonT(30) DEF UpdateSelects, Step
  <2>3. /\ r \in UpdateRequest /\ r.op = "update" /\ r.st = "locked" /\ r.row = row
        /\ r.n = q.n /\ r.key = q.key
    BY <1>1, <2>1, ZenonT(30) DEF UpdateRequest
  <2> HIDE DEF r
  <2>4. r \in Requests /\ vreq'[c] = r
    BY <2>2, <2>3, ZenonT(30) DEF VaultInv, VaultShape, Requests
  <2>5. KeyKnown(c)' /\ ReadHolds(c)'
    BY <1>0, <1>1, <1>2, <2>3, <2>4, ZenonT(30) DEF KeyKnown, ReadHolds
  <2>6. WriteHolds(c)'
    BY <1>2, <2>0, <2>1, <2>3, <2>4, ZenonT(30) DEF WriteHolds
  <2> QED
    BY <1>2, <2>2, <2>4, <2>5, <2>6, NoAnswerRight, RequestStep, ZenonT(30)
<1> QED
  BY <1>3, <1>4, ZenonT(30)

\* A delete reads the secret_id of the row it is about to remove.
LEMMA DeleteSelectsStep ==
    ASSUME VaultInv, NEW c \in Clients, NEW n \in Secrets, DeleteSelects(c, n)
    PROVE  VaultInv'
<1>0. PICK id : id = vsecret[n].id
  BY ZenonT(30)
<1> DEFINE r == [op |-> "delete", st |-> "fields", n |-> n, id |-> id]
<1>1. vsecret[n] # None /\ vsecret[n] \in SecretRow /\ id <= vwrites /\ id \in 1..MaxWrites
  BY <1>0, ZenonT(30) DEF DeleteSelects, VaultInv, VaultShape, IdsUsedOnce, SecretRow
<1>2. vreq' = [vreq EXCEPT ![c] = r]
  BY <1>0, ZenonT(30) DEF DeleteSelects, Step
<1>3. r \in DeleteRequest /\ r.op = "delete" /\ r.n = n /\ r.id = id
  BY <1>1, ZenonT(30) DEF DeleteRequest
<1>4. UNCHANGED <<vdek, vsecret, vfield, vtoken, mountVars, vwrites>> /\ NoAnswer
  BY ZenonT(30) DEF DeleteSelects
<1> HIDE DEF r
<1>5. r \in Requests /\ vreq'[c] = r
  BY <1>2, <1>3, ZenonT(30) DEF VaultInv, VaultShape, Requests
<1>6. KeyKnown(c)' /\ ReadHolds(c)'
  BY <1>3, <1>5, ZenonT(30) DEF KeyKnown, ReadHolds
<1>7. WriteHolds(c)'
  <2>1. \A m \in Secrets : vsecret[m] # None /\ vsecret[m].id = id => m = n
    BY <1>0, <1>1, ZenonT(30) DEF VaultInv, IdsUsedOnce
  <2> QED
    BY <1>1, <1>3, <1>4, <1>5, <2>1, ZenonT(30) DEF WriteHolds
<1> QED
  BY <1>2, <1>4, <1>5, <1>6, <1>7, NoAnswerRight, RequestStep, ZenonT(30)

\* A delete locks the rows of the fields inside its transaction.
LEMMA DeleteFieldsStep ==
    ASSUME VaultInv, NEW c \in Clients, DeleteFields(c)
    PROVE  VaultInv'
<1>0. PICK q : q = vreq[c]
  BY ZenonT(30)
<1> DEFINE r == [q EXCEPT !.st = "row"]
<1>1. q \in DeleteRequest
  BY <1>0, RequestKinds, ZenonT(30) DEF DeleteFields, VaultInv, VaultShape
<1>2. vreq' = [vreq EXCEPT ![c] = r]
  BY <1>0, ZenonT(30) DEF DeleteFields, Step
<1>3. r \in DeleteRequest /\ r.op = "delete" /\ r.n = q.n /\ r.id = q.id
  BY <1>1, ZenonT(30) DEF DeleteRequest
<1>4. UNCHANGED <<vdek, vsecret, vfield, vtoken, mountVars, vwrites>> /\ NoAnswer
  BY ZenonT(30) DEF DeleteFields
<1> HIDE DEF r
<1>5. r \in Requests /\ vreq'[c] = r
  BY <1>2, <1>3, ZenonT(30) DEF VaultInv, VaultShape, Requests
<1>6. KeyKnown(c)' /\ ReadHolds(c)'
  BY <1>3, <1>5, ZenonT(30) DEF KeyKnown, ReadHolds
<1>7. WriteHolds(c)'
  <2>1. q.id <= vwrites /\ \A m \in Secrets : vsecret[m] # None /\ vsecret[m].id = q.id => m = q.n
    BY <1>0, ZenonT(30) DEF VaultInv, WriteHolds, DeleteFields
  <2> QED
    BY <1>3, <1>4, <1>5, <2>1, ZenonT(30) DEF WriteHolds
<1> QED
  BY <1>2, <1>4, <1>5, <1>6, <1>7, NoAnswerRight, RequestStep, ZenonT(30)

\* A request that fails leaves every row as it was.
LEMMA RequestFailsStep ==
    ASSUME VaultInv, NEW c \in Clients, RequestFails(c)
    PROVE  VaultInv'
<1>1. Done(c) /\ UNCHANGED <<vdek, vsecret, vfield, vtoken, mountVars, vwrites>>
  BY ZenonT(30) DEF RequestFails
<1>2. CASE vreq[c].op = "update"
  <2>1. vanswer'.op = "put" /\ vanswer'.says = "status unknown"
    <3>1. PutAnswer(500, FALSE)
      BY <1>2, ZenonT(30) DEF RequestFails
    <3>2. PutOutcome(500) = "status unknown"
      BY DEF PutOutcome
    <3> QED
      BY <3>1, <3>2, ZenonT(30) DEF PutAnswer
  <2>2. AnswerRight'
    BY <2>1, ZenonT(30) DEF AnswerRight, ReadIsOneWrite, PutHonest
  <2> QED
    BY <1>1, <2>2, DoneStep, ZenonT(30)
<1>3. CASE vreq[c].op # "update"
  BY <1>1, <1>3, NoAnswerRight, DoneStep DEF RequestFails
<1> QED
  BY <1>2, <1>3, ZenonT(30)

-----------------------------------------------------------------------------
(* Writes of the tables *)

\* What the steps of the writers leave alone keeps holding: tokens, open files
\* and inodes.
LEMMA MountStays ==
    ASSUME VaultInv, UNCHANGED <<vtoken, mountVars>>, vwrites' \in 0..MaxWrites, vwrites <= vwrites'
    PROVE  /\ \A h \in Handles : HandleHolds(h)'
           /\ InodesInScope'
           /\ \A k, since : since \in 0..MaxWrites /\ GoodAt(k, since) => GoodAt(k, since)'
<1>1. vtoken' = vtoken /\ vino' = vino /\ vhandle' = vhandle
  BY ZenonT(30) DEF mountVars
<1>2. vwrites \in 0..MaxWrites /\ MaxWrites \in Nat
  BY VaultAssumption, ZenonT(30) DEF VaultInv, VaultShape
<1>3. ASSUME NEW k, NEW since \in 0..MaxWrites, GoodAt(k, since) PROVE GoodAt(k, since)'
  <2>1. since <= vwrites'
    BY <1>2, <1>3 DEF GoodAt
  <2> QED
    BY <1>1, <1>3, <2>1, ZenonT(30) DEF GoodAt
<1>4. ASSUME NEW h \in Handles PROVE HandleHolds(h)'
  <2> SUFFICES ASSUME vhandle[h] # None
               PROVE  vhandle[h].k # None /\ GoodAt(vhandle[h].k, vhandle[h].since)'
    BY <1>1, ZenonT(30) DEF HandleHolds
  <2>1. vhandle[h].since \in 0..MaxWrites /\ vhandle[h].k # None /\ GoodAt(vhandle[h].k, vhandle[h].since)
    BY ZenonT(30) DEF VaultInv, VaultShape, HandleHolds, OpenFile
  <2>2. PICK k, since : k = vhandle[h].k /\ since = vhandle[h].since
    BY ZenonT(30)
  <2>3. GoodAt(k, since)'
    BY <1>3, <2>1, <2>2, ZenonT(30)
  <2> QED
    BY <1>1, <2>1, <2>2, <2>3, ZenonT(30)
<1>5. InodesInScope'
  BY <1>1, ZenonT(30) DEF VaultInv, InodesInScope
<1> QED
  BY <1>3, <1>4, <1>5, ZenonT(30)

\* So do the reads under way.
LEMMA ReadStays ==
    ASSUME VaultInv, UNCHANGED <<vtoken, mountVars>>, vwrites' \in 0..MaxWrites, vwrites <= vwrites',
           NEW d \in Clients, vreq'[d] = vreq[d]
    PROVE  ReadHolds(d)'
<1> SUFFICES ASSUME vreq[d].op = "read" PROVE ReadHolds(d)'
  BY ZenonT(30) DEF ReadHolds
<1>1. PICK q : q = vreq[d]
  BY ZenonT(30)
<1>2. q \in ReadRequest /\ q.since \in 0..MaxWrites
  <2>1. q \in ReadRequest
    BY <1>1, RequestKinds, ZenonT(30) DEF VaultInv, VaultShape
  <2> QED
    BY <2>1, ZenonT(30) DEF ReadRequest
<1>3. ReadHolds(d)
  BY ZenonT(30) DEF VaultInv
<1>4. q.k # None => GoodAt(q.k, q.since)'
  BY <1>1, <1>2, <1>3, MountStays, ZenonT(30) DEF ReadHolds
<1> QED
  BY <1>1, <1>3, <1>4, ZenonT(30) DEF ReadHolds, GoodAt

\* The first write of a tenant stores its data key.
LEMMA InsertDEKStep ==
    ASSUME VaultInv, NEW c \in Clients, InsertDEK(c)
    PROVE  VaultInv'
<1>0. PICK q, dek : q = vreq[c] /\ dek = IF vdek = None THEN c ELSE vdek
  BY ZenonT(30)
<1> DEFINE r == [q EXCEPT !.st = "begin", !.key = dek]
<1>1. /\ vdek' = dek /\ dek \in Clients /\ dek # None /\ (vdek # None => dek = vdek)
      /\ vsecret' = vsecret /\ vfield' = vfield /\ vtoken' = vtoken /\ vwrites' = vwrites
      /\ vino' = vino /\ vhandle' = vhandle /\ NoAnswer
  BY <1>0, VaultNoneAssumption, ZenonT(30) DEF InsertDEK, VaultInv, VaultShape, mountVars
<1>2. vreq' = [vreq EXCEPT ![c] = r]
  BY <1>0, <1>1, ZenonT(30) DEF InsertDEK, Step, RereadKey
<1>3. (q \in CreateRequest \/ q \in UpdateRequest) /\ q.st = "insert"
  BY <1>0, RequestKinds, ZenonT(30) DEF InsertDEK, VaultInv, VaultShape
<1>4. /\ r \in Requests /\ r.op \in {"create", "update"} /\ r.st = "begin" /\ r.key = dek
  <2>1. CASE q \in CreateRequest
    <3>1. r \in CreateRequest /\ r.op = "create" /\ r.st = "begin" /\ r.key = dek
      BY <1>1, <2>1, ZenonT(30) DEF CreateRequest
    <3> QED
      BY <3>1, ZenonT(30) DEF Requests
  <2>2. CASE q \in UpdateRequest
    <3>1. r \in UpdateRequest /\ r.op = "update" /\ r.st = "begin" /\ r.key = dek
      BY <1>1, <2>2, ZenonT(30) DEF UpdateRequest
    <3> QED
      BY <3>1, ZenonT(30) DEF Requests
  <2> QED
    BY <1>3, <2>1, <2>2, ZenonT(30)
<1> HIDE DEF r
<1>5. vreq' \in [Clients -> Requests] /\ vreq'[c] = r /\ \A d \in Clients \ {c} : vreq'[d] = vreq[d]
  BY <1>2, <1>4, ZenonT(30) DEF VaultInv, VaultShape
<1>6. VaultShape'
  BY <1>1, <1>5 DEF VaultInv, VaultShape
<1>7. FieldsDecrypt' /\ FieldsHaveSecret' /\ IdsUsedOnce' /\ OneWriteEach'
  <2>1. \A id \in 1..MaxWrites : \A w \in vfield[id] : w.key = dek
    <3> SUFFICES ASSUME NEW id \in 1..MaxWrites, NEW w \in vfield[id] PROVE w.key = dek
      BY ZenonT(30)
    <3>1. w.key = vdek /\ w.key \in Clients
      BY DEF VaultInv, FieldsDecrypt, VaultShape, Stored
    <3> QED
      BY <1>1, <3>1, VaultNoneAssumption, ZenonT(30)
  <2> QED
    BY <1>1, <2>1 DEF VaultInv, FieldsDecrypt, FieldsHaveSecret, IdsUsedOnce, OneWriteEach
<1>8. ASSUME NEW d \in Clients PROVE KeyKnown(d)' /\ WriteHolds(d)' /\ ReadHolds(d)'
  <2>1. CASE d = c
    BY <1>1, <1>4, <1>5, <2>1, ZenonT(30) DEF KeyKnown, WriteHolds, ReadHolds
  <2>2. CASE d # c
    <3>1. KeyKnown(d) /\ WriteHolds(d) /\ ReadHolds(d) /\ vreq'[d] = vreq[d]
      BY <1>5, <2>2, ZenonT(30) DEF VaultInv
    <3> QED
      BY <1>1, <3>1, ZenonT(30) DEF KeyKnown, WriteHolds, ReadHolds, GoodAt
  <2> QED
    BY <2>1, <2>2, ZenonT(30)
<1>9. ASSUME NEW h \in Handles PROVE HandleHolds(h)'
  BY <1>1, ZenonT(30) DEF VaultInv, HandleHolds, GoodAt
<1>10. InodesInScope'
  BY <1>1, ZenonT(30) DEF VaultInv, InodesInScope
<1> QED
  BY <1>1, <1>6, <1>7, <1>8, <1>9, <1>10, NoAnswerRight, ZenonT(30) DEF VaultInv

\* The rows a write encrypts are fields of it, under the tenant's key.
LEMMA EncryptedRows ==
    ASSUME VaultInv, NEW fs \in FieldSets, NEW key \in Clients, vwrites < MaxWrites
    PROVE  /\ vwrites + 1 \in 1..MaxWrites
           /\ Encrypted(fs, key) \in SUBSET Stored /\ Encrypted(fs, key) # {}
           /\ \A w \in Encrypted(fs, key) : w.key = key /\ w.at = vwrites + 1
<1>1. vwrites + 1 \in 1..MaxWrites
  BY VaultAssumption DEF VaultInv, VaultShape
<1>2. fs \subseteq Fields /\ fs # {}
  <2>1. fs \in (SUBSET Fields) \ {{}}
    BY VaultAssumption, Zenon
  <2> QED
    BY <2>1, Zenon
<1>3. ASSUME NEW f \in fs
      PROVE  LET w == [f |-> f, key |-> key, at |-> vwrites + 1] IN
             w \in Stored /\ w.key = key /\ w.at = vwrites + 1
  BY <1>1, <1>2, ZenonT(30) DEF Stored
<1> QED
  BY <1>1, <1>2, <1>3, ZenonT(30) DEF Encrypted

\* The commit of CreateSecret stores a secret with its fields.
LEMMA CreateSecretStep ==
    ASSUME VaultInv, NEW c \in Clients, CreateSecret(c)
    PROVE  VaultInv'
<1>0. PICK q, new : q = vreq[c] /\ new = vwrites + 1
  BY ZenonT(30)
<1>1. /\ q \in CreateRequest /\ q.n \in Secrets /\ q.fs \in FieldSets
      /\ q.key \in Clients /\ q.key = vdek /\ vdek # None
  <2>1. q \in CreateRequest
    BY <1>0, RequestKinds, ZenonT(30) DEF CreateSecret, VaultInv, VaultShape
  <2>2. q.key = vdek /\ vdek # None
    BY <1>0, ZenonT(30) DEF CreateSecret, VaultInv, KeyKnown
  <2> QED
    BY <2>1, <2>2, ZenonT(30) DEF CreateRequest, VaultInv, VaultShape
<1>2. Done(c) /\ NoAnswer /\ UNCHANGED <<vdek, vtoken, mountVars>>
  BY ZenonT(30) DEF CreateSecret
<1>3. CASE vsecret[q.n] # None
  BY <1>0, <1>2, <1>3, NoAnswerRight, DoneStep, ZenonT(30) DEF CreateSecret
<1>4. CASE vsecret[q.n] = None
  <2>0. PICK rows : rows = Encrypted(q.fs, q.key)
    BY ZenonT(30)
  <2> DEFINE row == [id |-> new, rev |-> 1]
  <2>1. /\ vwrites < MaxWrites /\ vwrites' = new
        /\ vsecret' = [vsecret EXCEPT ![q.n] = row]
        /\ vfield' = [vfield EXCEPT ![new] = rows]
    BY <1>0, <1>4, <2>0, ZenonT(30) DEF CreateSecret
  <2>2. /\ new \in 1..MaxWrites /\ rows \in SUBSET Stored /\ rows # {}
        /\ \A w \in rows : w.key = vdek /\ w.at = new
    BY <1>0, <1>1, <2>0, <2>1, EncryptedRows
  <2>3. row \in SecretRow /\ row # None /\ row.id = new
    BY <2>2, VaultNoneAssumption DEF SecretRow
  <2> HIDE DEF row
  <2>4. /\ vwrites \in 0..MaxWrites /\ new = vwrites + 1 /\ MaxWrites \in Nat
        /\ vdek' = vdek /\ vtoken' = vtoken /\ vino' = vino /\ vhandle' = vhandle
    BY <1>0, <1>2, VaultAssumption, ZenonT(30) DEF VaultInv, VaultShape, mountVars
  <2>5. /\ vsecret' \in [Secrets -> SecretRow \cup {None}] /\ vsecret'[q.n] = row
        /\ \A n \in Secrets \ {q.n} : vsecret'[n] = vsecret[n]
    BY <1>1, <2>1, <2>3, ZenonT(30) DEF VaultInv, VaultShape
  <2>6. /\ vfield' \in [1..MaxWrites -> SUBSET Stored] /\ vfield'[new] = rows
        /\ \A id \in 1..MaxWrites \ {new} : vfield'[id] = vfield[id]
    BY <2>1, <2>2, ZenonT(30) DEF VaultInv, VaultShape
  <2>7. vreq' \in [Clients -> Requests] /\ vreq'[c] = Idle /\ \A d \in Clients \ {c} : vreq'[d] = vreq[d]
    BY <1>2, ZenonT(30) DEF VaultInv, VaultShape, Done, Step, Requests
  <2>8. VaultShape'
    BY <2>1, <2>2, <2>4, <2>5, <2>6, <2>7 DEF VaultInv, VaultShape
  <2>9. FieldsDecrypt' /\ OneWriteEach'
    BY <2>2, <2>4, <2>6 DEF VaultInv, FieldsDecrypt, OneWriteEach
  <2>10. \A n \in Secrets : vsecret[n] # None => vsecret[n].id \in 1..MaxWrites /\ vsecret[n].id # new
    <3> SUFFICES ASSUME NEW n \in Secrets, vsecret[n] # None PROVE vsecret[n].id \in 1..MaxWrites /\ vsecret[n].id # new
      BY ZenonT(30)
    <3>1. vsecret[n].id \in 1..MaxWrites /\ vsecret[n].id <= vwrites
      BY ZenonT(30) DEF VaultInv, VaultShape, SecretRow, IdsUsedOnce
    <3> QED
      BY <2>4, <3>1
  <2>11. FieldsHaveSecret'
    <3>1. ASSUME NEW id \in 1..MaxWrites, vfield'[id] # {}
          PROVE  \E n \in Secrets : vsecret'[n] # None /\ vsecret'[n].id = id
      <4>1. CASE id = new
        BY <1>1, <2>3, <2>5, <4>1, ZenonT(30)
      <4>2. CASE id # new
        <5>1. PICK n \in Secrets : vsecret[n] # None /\ vsecret[n].id = id
          BY <2>6, <3>1, <4>2, ZenonT(30) DEF VaultInv, FieldsHaveSecret
        <5> QED
          BY <1>4, <2>5, <5>1, ZenonT(30)
      <4> QED
        BY <4>1, <4>2, ZenonT(30)
    <3>2. ASSUME NEW n \in Secrets, vsecret'[n] # None PROVE vfield'[vsecret'[n].id] # {}
      <4>1. CASE n = q.n
        BY <2>2, <2>3, <2>5, <2>6, <4>1
      <4>2. CASE n # q.n
        BY <2>5, <2>6, <2>10, <3>2, <4>2 DEF VaultInv, FieldsHaveSecret
      <4> QED
        BY <4>1, <4>2, ZenonT(30)
    <3> QED
      BY <3>1, <3>2, ZenonT(30) DEF FieldsHaveSecret
  <2>12. IdsUsedOnce'
    <3>1. ASSUME NEW n \in Secrets, vsecret'[n] # None PROVE vsecret'[n].id <= new
      <4>1. CASE n = q.n
        BY <2>2, <2>3, <2>5, <4>1
      <4>2. CASE n # q.n
        <5>1. vsecret'[n] = vsecret[n] /\ vsecret[n].id <= vwrites /\ vsecret[n].id \in 1..MaxWrites
          BY <2>5, <2>10, <3>1, <4>2, ZenonT(30) DEF VaultInv, IdsUsedOnce
        <5> QED
          BY <2>4, <5>1
      <4> QED
        BY <4>1, <4>2, ZenonT(30)
    <3>2. ASSUME NEW id \in 1..MaxWrites, id > new PROVE vfield'[id] = {}
      <4>1. id > vwrites /\ id # new
        BY <2>4, <3>2
      <4> QED
        BY <2>6, <4>1, ZenonT(30) DEF VaultInv, IdsUsedOnce
    <3>3. ASSUME NEW n \in Secrets, NEW m \in Secrets, vsecret'[n] # None, vsecret'[m] # None,
                 vsecret'[n].id = vsecret'[m].id
          PROVE  n = m
      BY <2>3, <2>5, <2>10, <3>3 DEF VaultInv, IdsUsedOnce
    <3> QED
      BY <2>1, <3>1, <3>2, <3>3, ZenonT(30) DEF IdsUsedOnce
  <2>13. ASSUME NEW d \in Clients PROVE KeyKnown(d)' /\ WriteHolds(d)' /\ ReadHolds(d)'
    <3>1. CASE d = c
      BY <2>7, <3>1, IdleHolds, ZenonT(30)
    <3>2. CASE d # c
      <4>1. KeyKnown(d) /\ WriteHolds(d) /\ vreq'[d] = vreq[d]
        BY <2>7, <3>2, ZenonT(30) DEF VaultInv
      <4>2. KeyKnown(d)'
        BY <2>4, <4>1, ZenonT(30) DEF KeyKnown
      <4>3. ReadHolds(d)'
        BY <1>2, <2>1, <2>4, <2>8, <4>1, ReadStays DEF VaultShape
      <4>4. WriteHolds(d)'
        <5>1. PICK p : p = vreq[d]
          BY ZenonT(30)
        <5>2. ASSUME p.op = "update", p.st = "locked"
              PROVE  vsecret'[p.n] # None /\ p.row # None /\ vsecret'[p.n].id = p.row.id
          <6>1. p.n \in Secrets
            BY <5>1, <5>2, RequestKinds DEF VaultInv, VaultShape, UpdateRequest
          <6> QED
            BY <1>4, <2>5, <4>1, <5>1, <5>2, <6>1 DEF WriteHolds
        <5>3. ASSUME p.op = "delete"
              PROVE  p.id <= new /\ \A m \in Secrets : vsecret'[m] # None /\ vsecret'[m].id = p.id => m = p.n
          <6>1. p.id \in 1..MaxWrites
            BY <5>1, <5>3, RequestKinds, ZenonT(30) DEF VaultInv, VaultShape, DeleteRequest
          <6>2. p.id <= vwrites /\ \A m \in Secrets : vsecret[m] # None /\ vsecret[m].id = p.id => m = p.n
            BY <4>1, <5>1, <5>3, ZenonT(30) DEF WriteHolds
          <6>3. p.id <= new /\ p.id # new
            BY <2>4, <6>1, <6>2
          <6> QED
            BY <2>3, <2>5, <6>2, <6>3, ZenonT(30)
        <5> QED
          BY <2>1, <4>1, <5>1, <5>2, <5>3, ZenonT(30) DEF WriteHolds
      <4> QED
        BY <4>2, <4>3, <4>4, ZenonT(30)
    <3> QED
      BY <3>1, <3>2, ZenonT(30)
  <2>14. (\A h \in Handles : HandleHolds(h)') /\ InodesInScope'
    BY <1>2, <2>1, <2>4, <2>8, MountStays DEF VaultShape
  <2> QED
    BY <1>2, <2>8, <2>9, <2>11, <2>12, <2>13, <2>14, NoAnswerRight DEF VaultInv
<1> QED
  BY <1>3, <1>4, ZenonT(30)

\* The commit of UpdateSecret replaces the fields of one version by those of the next.
LEMMA UpdateSecretStep ==
    ASSUME VaultInv, NEW c \in Clients, UpdateSecret(c)
    PROVE  VaultInv'
<1>0. PICK q, id, new, rows : q = vreq[c] /\ id = q.row.id /\ new = vwrites + 1 /\ rows = Encrypted(q.fs, q.key)
  BY ZenonT(30)
<1>1. /\ q \in UpdateRequest /\ q.n \in Secrets /\ q.fs \in FieldSets /\ q.key \in Clients
      /\ q.key = vdek /\ vdek # None /\ q.row \in SecretRow
      /\ vsecret[q.n] # None /\ vsecret[q.n].id = id
  <2>1. q \in UpdateRequest
    BY <1>0, RequestKinds, ZenonT(30) DEF UpdateSecret, VaultInv, VaultShape
  <2>2. q.key = vdek /\ vdek # None
    BY <1>0, ZenonT(30) DEF UpdateSecret, VaultInv, KeyKnown
  <2>3. vsecret[q.n] # None /\ q.row # None /\ vsecret[q.n].id = id
    BY <1>0, ZenonT(30) DEF UpdateSecret, VaultInv, WriteHolds
  <2> QED
    BY <2>1, <2>2, <2>3, ZenonT(30) DEF UpdateRequest, VaultInv, VaultShape
<1>2. /\ vwrites < MaxWrites /\ vwrites' = new /\ Done(c)
      /\ vsecret' = [vsecret EXCEPT ![q.n] = [vsecret[q.n] EXCEPT !.rev = q.row.rev + 1]]
      /\ vfield' = [vfield EXCEPT ![id] = rows]
      /\ UNCHANGED <<vdek, vtoken, mountVars>>
  BY <1>0, <1>1, ZenonT(30) DEF UpdateSecret, FieldsReplaced
<1>3. /\ new \in 1..MaxWrites /\ rows \in SUBSET Stored /\ rows # {}
      /\ \A w \in rows : w.key = vdek /\ w.at = new
  BY <1>0, <1>1, <1>2, EncryptedRows
<1>4. /\ vwrites \in 0..MaxWrites /\ new = vwrites + 1 /\ MaxWrites \in Nat
      /\ vdek' = vdek /\ vtoken' = vtoken /\ vino' = vino /\ vhandle' = vhandle
  BY <1>0, <1>2, VaultAssumption, ZenonT(30) DEF VaultInv, VaultShape, mountVars
<1>5. id \in 1..MaxWrites /\ id <= vwrites
  <2>1. vsecret[q.n] \in SecretRow /\ vsecret[q.n].id <= vwrites
    BY <1>1 DEF VaultInv, VaultShape, IdsUsedOnce
  <2> QED
    BY <1>1, <2>1 DEF SecretRow
<1>6. /\ vsecret' \in [Secrets -> SecretRow \cup {None}]
      /\ \A n \in Secrets : vsecret'[n] # None <=> vsecret[n] # None
      /\ \A n \in Secrets : vsecret[n] # None => vsecret'[n].id = vsecret[n].id
  <2>1. vsecret[q.n] \in SecretRow /\ q.row.rev + 1 \in Nat
    BY <1>1 DEF VaultInv, VaultShape, SecretRow
  <2>2. PICK row : row = [vsecret[q.n] EXCEPT !.rev = q.row.rev + 1]
    BY ZenonT(30)
  <2>3. row \in SecretRow /\ row.id = vsecret[q.n].id
    BY <2>1, <2>2, ZenonT(30) DEF SecretRow
  <2>4. row # None
    BY <2>3, VaultNoneAssumption, ZenonT(30)
  <2>5. vsecret' = [vsecret EXCEPT ![q.n] = row] /\ vsecret \in [Secrets -> SecretRow \cup {None}]
    BY <1>2, <2>2, ZenonT(30) DEF VaultInv, VaultShape
  <2> QED
    BY <1>1, <2>3, <2>4, <2>5
<1>7. /\ vfield' \in [1..MaxWrites -> SUBSET Stored] /\ vfield'[id] = rows
      /\ \A i \in 1..MaxWrites \ {id} : vfield'[i] = vfield[i]
  BY <1>2, <1>3, <1>5, ZenonT(30) DEF VaultInv, VaultShape
<1>8. vreq' \in [Clients -> Requests] /\ vreq'[c] = Idle /\ \A d \in Clients \ {c} : vreq'[d] = vreq[d]
  BY <1>2 DEF VaultInv, VaultShape, Done, Step, Requests
<1>9. VaultShape'
  BY <1>2, <1>3, <1>4, <1>6, <1>7, <1>8 DEF VaultInv, VaultShape
<1>10. FieldsDecrypt' /\ OneWriteEach'
  BY <1>3, <1>4, <1>7 DEF VaultInv, FieldsDecrypt, OneWriteEach
<1>11. FieldsHaveSecret'
  <2>1. ASSUME NEW i \in 1..MaxWrites, vfield'[i] # {}
        PROVE  \E n \in Secrets : vsecret'[n] # None /\ vsecret'[n].id = i
    <3>1. CASE i = id
      BY <1>1, <1>6, <3>1, ZenonT(30)
    <3>2. CASE i # id
      <4>1. PICK n \in Secrets : vsecret[n] # None /\ vsecret[n].id = i
        BY <1>7, <2>1, <3>2, ZenonT(30) DEF VaultInv, FieldsHaveSecret
      <4> QED
        BY <1>6, <4>1, ZenonT(30)
    <3> QED
      BY <3>1, <3>2, ZenonT(30)
  <2>2. ASSUME NEW n \in Secrets, vsecret'[n] # None PROVE vfield'[vsecret'[n].id] # {}
    <3>1. vsecret[n] # None /\ vsecret[n] \in SecretRow /\ vsecret'[n].id = vsecret[n].id /\ vfield[vsecret[n].id] # {}
      BY <1>6, <2>2 DEF VaultInv, VaultShape, FieldsHaveSecret
    <3>2. vsecret[n].id \in 1..MaxWrites
      BY <3>1, ZenonT(30) DEF SecretRow
    <3> QED
      BY <1>3, <1>7, <3>1, <3>2
  <2> QED
    BY <2>1, <2>2, ZenonT(30) DEF FieldsHaveSecret
<1>12. IdsUsedOnce'
  <2>1. ASSUME NEW n \in Secrets, vsecret'[n] # None PROVE vsecret'[n].id <= new
    <3>1. vsecret[n] # None /\ vsecret[n] \in SecretRow /\ vsecret'[n].id = vsecret[n].id /\ vsecret[n].id <= vwrites
      BY <1>6, <2>1 DEF VaultInv, VaultShape, IdsUsedOnce
    <3>2. vsecret[n].id \in 1..MaxWrites
      BY <3>1, ZenonT(30) DEF SecretRow
    <3> QED
      BY <1>4, <3>1, <3>2
  <2>2. ASSUME NEW i \in 1..MaxWrites, i > new PROVE vfield'[i] = {}
    <3>1. i > vwrites /\ i # id
      BY <1>4, <1>5, <2>2
    <3> QED
      BY <1>7, <3>1, ZenonT(30) DEF VaultInv, IdsUsedOnce
  <2>3. ASSUME NEW n \in Secrets, NEW m \in Secrets, vsecret'[n] # None, vsecret'[m] # None,
               vsecret'[n].id = vsecret'[m].id
        PROVE  n = m
    BY <1>6, <2>3 DEF VaultInv, IdsUsedOnce
  <2> QED
    BY <1>2, <2>1, <2>2, <2>3, ZenonT(30) DEF IdsUsedOnce
<1>13. ASSUME NEW d \in Clients PROVE KeyKnown(d)' /\ WriteHolds(d)' /\ ReadHolds(d)'
  <2>1. CASE d = c
    BY <1>8, <2>1, IdleHolds, ZenonT(30)
  <2>2. CASE d # c
    <3>1. KeyKnown(d) /\ WriteHolds(d) /\ vreq'[d] = vreq[d]
      BY <1>8, <2>2, ZenonT(30) DEF VaultInv
    <3>2. KeyKnown(d)'
      BY <1>4, <3>1, ZenonT(30) DEF KeyKnown
    <3>3. ReadHolds(d)'
      BY <1>2, <1>4, <1>9, <3>1, ReadStays DEF VaultShape
    <3>4. WriteHolds(d)'
      <4>1. PICK p : p = vreq[d]
        BY ZenonT(30)
      <4>2. ASSUME p.op = "update", p.st = "locked"
            PROVE  vsecret'[p.n] # None /\ p.row # None /\ vsecret'[p.n].id = p.row.id
        <5>1. p.n \in Secrets
          BY <4>1, <4>2, RequestKinds DEF VaultInv, VaultShape, UpdateRequest
        <5> QED
          BY <1>6, <3>1, <4>1, <4>2, <5>1 DEF WriteHolds
      <4>3. ASSUME p.op = "delete"
            PROVE  p.id <= new /\ \A m \in Secrets : vsecret'[m] # None /\ vsecret'[m].id = p.id => m = p.n
        <5>1. p.id \in 1..MaxWrites
          BY <4>1, <4>3, RequestKinds, ZenonT(30) DEF VaultInv, VaultShape, DeleteRequest
        <5>2. p.id <= vwrites /\ \A m \in Secrets : vsecret[m] # None /\ vsecret[m].id = p.id => m = p.n
          BY <3>1, <4>1, <4>3, ZenonT(30) DEF WriteHolds
        <5>3. p.id <= new
          BY <1>4, <5>1, <5>2
        <5> QED
          BY <1>6, <5>2, <5>3
      <4> QED
        BY <1>2, <3>1, <4>1, <4>2, <4>3, ZenonT(30) DEF WriteHolds
    <3> QED
      BY <3>2, <3>3, <3>4, ZenonT(30)
  <2> QED
    BY <2>1, <2>2, ZenonT(30)
<1>14. (\A h \in Handles : HandleHolds(h)') /\ InodesInScope'
  BY <1>2, <1>4, <1>9, MountStays DEF VaultShape
<1>15. AnswerRight'
  <2>1. PICK status \in {200, 0} : PutAnswer(status, TRUE)
    BY ZenonT(30) DEF UpdateSecret
  <2>2. PutOutcome(status) # "refused"
    BY DEF PutOutcome
  <2>3. vanswer'.op = "put" /\ vanswer'.says # "refused" /\ vanswer'.applied = TRUE
    BY <2>1, <2>2, ZenonT(30) DEF PutAnswer
  <2> QED
    BY <2>3, ZenonT(30) DEF AnswerRight, ReadIsOneWrite, PutHonest
<1> QED
  BY <1>9, <1>10, <1>11, <1>12, <1>13, <1>14, <1>15, ZenonT(30) DEF VaultInv

\* The commit of DeleteSecret removes the fields and the row it selected.
LEMMA DeleteSecretStep ==
    ASSUME VaultInv, NEW c \in Clients, DeleteSecret(c)
    PROVE  VaultInv'
<1>0. PICK q, id : q = vreq[c] /\ id = q.id
  BY ZenonT(30)
<1>1. /\ q.n \in Secrets /\ id \in 1..MaxWrites
      /\ \A m \in Secrets : vsecret[m] # None /\ vsecret[m].id = id => m = q.n
  <2>1. q \in DeleteRequest
    BY <1>0, RequestKinds, ZenonT(30) DEF DeleteSecret, VaultInv, VaultShape
  <2>2. \A m \in Secrets : vsecret[m] # None /\ vsecret[m].id = id => m = q.n
    BY <1>0, ZenonT(30) DEF DeleteSecret, VaultInv, WriteHolds
  <2> QED
    BY <1>0, <2>1, <2>2, ZenonT(30) DEF DeleteRequest
<1>2. /\ vfield' = [vfield EXCEPT ![id] = {}] /\ Done(c) /\ NoAnswer /\ RowFree(q.n)
      /\ vsecret' = IF SameSecret(vsecret[q.n], id) THEN [vsecret EXCEPT ![q.n] = None] ELSE vsecret
      /\ UNCHANGED <<vdek, vtoken, mountVars, vwrites>>
  BY <1>0, ZenonT(30) DEF DeleteSecret
<1>3. /\ vwrites \in 0..MaxWrites /\ MaxWrites \in Nat /\ vwrites' = vwrites /\ vwrites <= vwrites'
      /\ vdek' = vdek /\ vtoken' = vtoken /\ vino' = vino /\ vhandle' = vhandle
  BY <1>2, VaultAssumption DEF VaultInv, VaultShape, mountVars
<1>4. /\ vsecret' \in [Secrets -> SecretRow \cup {None}]
      /\ \A n \in Secrets : n # q.n => vsecret'[n] = vsecret[n]
      /\ \A n \in Secrets : vsecret'[n] # None => vsecret[n] # None /\ vsecret'[n] = vsecret[n] /\ vsecret[n].id # id
      /\ \A n \in Secrets : vsecret[n] # None /\ vsecret[n].id # id => vsecret'[n] = vsecret[n]
  <2>1. CASE SameSecret(vsecret[q.n], id)
    BY <1>1, <1>2, <2>1, ZenonT(30) DEF VaultInv, VaultShape, SameSecret
  <2>2. CASE ~SameSecret(vsecret[q.n], id)
    BY <1>1, <1>2, <2>2, ZenonT(30) DEF VaultInv, VaultShape, SameSecret
  <2> QED
    BY <2>1, <2>2, ZenonT(30)
<1>5. /\ vfield' \in [1..MaxWrites -> SUBSET Stored] /\ vfield'[id] = {}
      /\ \A i \in 1..MaxWrites \ {id} : vfield'[i] = vfield[i]
  BY <1>1, <1>2 DEF VaultInv, VaultShape
<1>6. vreq' \in [Clients -> Requests] /\ vreq'[c] = Idle /\ \A d \in Clients \ {c} : vreq'[d] = vreq[d]
  BY <1>2, ZenonT(30) DEF VaultInv, VaultShape, Done, Step, Requests
<1>7. VaultShape'
  BY <1>3, <1>4, <1>5, <1>6, ZenonT(30) DEF VaultInv, VaultShape
<1>8. FieldsDecrypt' /\ OneWriteEach'
  BY <1>3, <1>5 DEF VaultInv, FieldsDecrypt, OneWriteEach
<1>9. FieldsHaveSecret'
  <2>1. ASSUME NEW i \in 1..MaxWrites, vfield'[i] # {}
        PROVE  \E n \in Secrets : vsecret'[n] # None /\ vsecret'[n].id = i
    <3>1. i # id
      BY <1>5, <2>1, ZenonT(30)
    <3>2. PICK n \in Secrets : vsecret[n] # None /\ vsecret[n].id = i
      BY <1>5, <2>1, <3>1, ZenonT(30) DEF VaultInv, FieldsHaveSecret
    <3> QED
      BY <1>4, <3>1, <3>2, ZenonT(30)
  <2>2. ASSUME NEW n \in Secrets, vsecret'[n] # None PROVE vfield'[vsecret'[n].id] # {}
    <3>1. vsecret[n] # None /\ vsecret[n] \in SecretRow /\ vsecret'[n] = vsecret[n] /\ vfield[vsecret[n].id] # {}
      BY <1>4, <2>2 DEF VaultInv, VaultShape, FieldsHaveSecret
    <3>2. vsecret[n].id \in 1..MaxWrites
      BY <3>1, ZenonT(30) DEF SecretRow
    <3> QED
      BY <1>4, <1>5, <2>2, <3>1, <3>2
  <2> QED
    BY <2>1, <2>2 DEF FieldsHaveSecret
<1>10. IdsUsedOnce'
  BY <1>3, <1>4, <1>5 DEF VaultInv, IdsUsedOnce
<1>11. ASSUME NEW d \in Clients PROVE KeyKnown(d)' /\ WriteHolds(d)' /\ ReadHolds(d)'
  <2>1. CASE d = c
    BY <1>6, <2>1, IdleHolds, ZenonT(30)
  <2>2. CASE d # c
    <3>1. KeyKnown(d) /\ WriteHolds(d) /\ vreq'[d] = vreq[d]
      BY <1>6, <2>2, ZenonT(30) DEF VaultInv
    <3>2. KeyKnown(d)'
      BY <1>3, <3>1, ZenonT(30) DEF KeyKnown
    <3>3. ReadHolds(d)'
      BY <1>2, <1>3, <1>7, <3>1, ReadStays, ZenonT(30) DEF VaultShape
    <3>4. WriteHolds(d)'
      <4>1. PICK p : p = vreq[d]
        BY ZenonT(30)
      <4>2. ASSUME p.op = "update", p.st = "locked"
            PROVE  vsecret'[p.n] # None /\ p.row # None /\ vsecret'[p.n].id = p.row.id
        <5>1. p.n \in Secrets
          BY <4>1, <4>2, RequestKinds DEF VaultInv, VaultShape, UpdateRequest
        <5>2. p.n # q.n
          BY <1>2, <4>1, <4>2 DEF RowFree
        <5> QED
          BY <1>4, <3>1, <4>1, <4>2, <5>1, <5>2 DEF WriteHolds
      <4>3. ASSUME p.op = "delete"
            PROVE  p.id <= vwrites /\ \A m \in Secrets : vsecret'[m] # None /\ vsecret'[m].id = p.id => m = p.n
        BY <1>4, <3>1, <4>1, <4>3, ZenonT(30) DEF WriteHolds
      <4> QED
        BY <1>3, <3>1, <4>1, <4>2, <4>3, ZenonT(30) DEF WriteHolds
    <3> QED
      BY <3>2, <3>3, <3>4, ZenonT(30)
  <2> QED
    BY <2>1, <2>2
<1>12. (\A h \in Handles : HandleHolds(h)') /\ InodesInScope'
  BY <1>2, <1>3, <1>7, MountStays DEF VaultShape
<1> QED
  BY <1>2, <1>7, <1>8, <1>9, <1>10, <1>11, <1>12, NoAnswerRight, ZenonT(30) DEF VaultInv

-----------------------------------------------------------------------------
(* Reads *)

\* An answer without rows and with status 404 is right.
LEMMA NotFoundRight ==
    ASSUME NEW r, vanswer' = Answer(r, {}, 404)
    PROVE  AnswerRight'
<1>1. vanswer'.op = "read" /\ vanswer'.code = 404 /\ vanswer'.got = {}
  BY DEF Answer
<1> QED
  BY <1>1 DEF AnswerRight, ReadIsOneWrite, PutHonest

\* A read starts with what its caller is allowed, the token being good now.
LEMMA ReadStartsStep ==
    ASSUME VaultInv, NEW c \in Clients, NEW k \in Tokens \cup {None}, NEW n \in Secrets,
           NEW file \in {None, "list", "open"}, NEW one \in BOOLEAN, NEW allowed \in SUBSET Fields,
           ReadStarts(c, k, n, file, one, allowed),
           file # None => k = MountToken,
           k = None /\ ~one => allowed = Fields,
           k # None => /\ vtoken[k] # None /\ vtoken[k].ended = None
                       /\ \A f \in allowed : CheckScope(vtoken[k].scope, n, f)
    PROVE  VaultInv'
<1>0. PICK since : since = vwrites
  OBVIOUS
<1> DEFINE r == [op |-> "read", st |-> "meta", k |-> k, n |-> n, file |-> file, one |-> one,
                 allowed |-> allowed, since |-> since, id |-> None]
<1>1. UNCHANGED <<vdek, vsecret, vfield, vtoken, mountVars, vwrites>> /\ vtoken' = vtoken /\ vwrites' = vwrites
  BY ZenonT(30) DEF ReadStarts
<1>2. since \in 0..MaxWrites /\ since <= vwrites
  BY <1>0, VaultTypes
<1>3. r \in ReadRequest
  BY <1>2 DEF ReadRequest
<1>4. /\ r.op = "read" /\ r.st = "meta" /\ r.k = k /\ r.n = n /\ r.file = file /\ r.one = one
      /\ r.allowed = allowed /\ r.since = since
  OBVIOUS
<1>5. CASE allowed = {}
  <2>1. vanswer' = Answer(r, {}, 404) /\ vreq' = vreq
    BY <1>0, <1>5 DEF ReadStarts
  <2>2. AnswerRight'
    BY <2>1, NotFoundRight
  <2>3. vreq' = [vreq EXCEPT ![c] = vreq[c]] /\ vreq[c] \in Requests /\ vreq'[c] = vreq[c]
    BY <2>1, ZenonT(30) DEF VaultInv, VaultShape
  <2>4. KeyKnown(c)' /\ WriteHolds(c)' /\ ReadHolds(c)'
    <3>1. KeyKnown(c) /\ WriteHolds(c) /\ ReadHolds(c)
      BY ZenonT(30) DEF VaultInv
    <3>2. KeyKnown(c)' /\ WriteHolds(c)'
      BY <1>1, <2>3, <3>1, WriteKept, ZenonT(30)
    <3>3. ReadHolds(c)'
      BY <1>1, <2>3, <3>1, ReadKept, ZenonT(30)
    <3> QED
      BY <3>2, <3>3
  <2> QED
    BY <1>1, <2>2, <2>3, <2>4, RequestStep, ZenonT(30)
<1>6. CASE allowed # {}
  <2>1. vreq' = [vreq EXCEPT ![c] = r] /\ NoAnswer
    BY <1>0, <1>6, ZenonT(30) DEF ReadStarts, Step
  <2> HIDE DEF r
  <2>2. r \in Requests /\ vreq'[c] = r
    BY <1>3, <2>1 DEF VaultInv, VaultShape, Requests
  <2>3. KeyKnown(c)' /\ WriteHolds(c)'
    BY <1>4, <2>2 DEF KeyKnown, WriteHolds
  <2>4. k # None => GoodAt(k, since)'
    BY <1>1, <1>2 DEF GoodAt
  <2>5. ReadHolds(c)'
    BY <1>1, <1>4, <2>2, <2>4, ZenonT(30) DEF ReadHolds, GoodAt
  <2> QED
    BY <1>1, <2>1, <2>2, <2>3, <2>5, NoAnswerRight, RequestStep, ZenonT(30)
<1> QED
  BY <1>5, <1>6

\* A read by the owner starts with the fields it asks for.
LEMMA OwnerReads ==
    ASSUME VaultInv, NEW c \in Clients, NEW n \in Secrets,
           handleVaultSecretReadValue(c, n) \/ \E f \in Fields : handleVaultSecretReadField(c, n, f)
    PROVE  VaultInv'
<1>1. CASE handleVaultSecretReadValue(c, n)
  BY <1>1, ReadStartsStep, ZenonT(30) DEF handleVaultSecretReadValue
<1>2. ASSUME NEW f \in Fields, handleVaultSecretReadField(c, n, f) PROVE VaultInv'
  <2>1. {f} \in SUBSET Fields
    BY ZenonT(30)
  <2> QED
    BY <1>2, <2>1, ReadStartsStep, ZenonT(30) DEF handleVaultSecretReadField
<1> QED
  BY <1>1, <1>2

\* A token that verifies was issued and has neither expired nor been revoked.
LEMMA VerifiedToken ==
    ASSUME NEW k, verifyVaultReadToken(k)
    PROVE  vtoken[k] # None /\ vtoken[k].ended = None
BY DEF verifyVaultReadToken, verifyGrantReadToken, VerifyAndResolveGrant, VerifyAndResolveCapToken

\* A read of a secret by a token starts with the fields its scope allows.
LEMMA TokenReadsSecret ==
    ASSUME VaultInv, NEW c \in Clients, NEW k \in Tokens, NEW n \in Secrets, NEW file \in {None, "list", "open"},
           file # None => k = MountToken, handleVaultReadSecret(c, k, n, file)
    PROVE  VaultInv'
<1>1. vtoken[k] # None /\ vtoken[k].ended = None
  BY VerifiedToken DEF handleVaultReadSecret
<1>2. PICK allowed : allowed = AllowedFields(vtoken[k].scope, n)
  BY ZenonT(30)
<1>3. allowed \in SUBSET Fields /\ \A f \in allowed : CheckScope(vtoken[k].scope, n, f)
  BY <1>2, ZenonT(30) DEF AllowedFields
<1>4. ReadStarts(c, k, n, file, FALSE, allowed)
  BY <1>2, ZenonT(30) DEF handleVaultReadSecret
<1>5. k # None
  BY VaultNoneAssumption
<1> QED
  BY <1>1, <1>3, <1>4, <1>5, ReadStartsStep, ZenonT(30)

\* A read of one field by a token starts with that field or with none.
LEMMA TokenReadsField ==
    ASSUME VaultInv, NEW c \in Clients, NEW k \in Tokens, NEW n \in Secrets, NEW f \in Fields,
           handleVaultReadField(c, k, n, f)
    PROVE  VaultInv'
<1>1. vtoken[k] # None /\ vtoken[k].ended = None
  BY VerifiedToken, ZenonT(30) DEF handleVaultReadField
<1>2. PICK allowed : allowed = IF CheckScope(vtoken[k].scope, n, f) THEN {f} ELSE {}
  BY ZenonT(30)
<1>3. allowed \in SUBSET Fields /\ \A g \in allowed : CheckScope(vtoken[k].scope, n, g)
  BY <1>2, ZenonT(30)
<1>4. ReadStarts(c, k, n, None, TRUE, allowed)
  BY <1>2, ZenonT(30) DEF handleVaultReadField
<1>5. k # None
  BY VaultNoneAssumption
<1> QED
  BY <1>1, <1>3, <1>4, <1>5, ReadStartsStep, ZenonT(30)

\* A read learns the secret_id, or answers 404.
LEMMA GetSecretStep ==
    ASSUME VaultInv, NEW c \in Clients, GetSecret(c)
    PROVE  VaultInv'
<1>0. PICK q : q = vreq[c]
  BY ZenonT(30)
<1>1. q \in ReadRequest /\ q.op = "read" /\ q.n \in Secrets /\ ReadHolds(c)
  <2>1. q \in ReadRequest
    BY <1>0, RequestKinds DEF GetSecret, VaultInv, VaultShape
  <2> QED
    BY <2>1 DEF ReadRequest, VaultInv
<1>2. UNCHANGED <<vdek, vsecret, vfield, vtoken, mountVars, vwrites>>
  BY ZenonT(30) DEF GetSecret
<1>3. CASE vsecret[q.n] = None
  <2>1. Done(c) /\ vanswer' = Answer(q, {}, 404)
    BY <1>0, <1>3 DEF GetSecret
  <2> QED
    BY <1>2, <2>1, NotFoundRight, DoneStep
<1>4. CASE vsecret[q.n] # None
  <2>0. PICK id : id = vsecret[q.n].id
    OBVIOUS
  <2> DEFINE r == [q EXCEPT !.st = "fields", !.id = id]
  <2>1. vreq' = [vreq EXCEPT ![c] = r] /\ NoAnswer
    BY <1>0, <1>4, <2>0 DEF GetSecret, Step
  <2>2. id \in 1..MaxWrites
    <3>1. vsecret[q.n] \in SecretRow
      BY <1>1, <1>4 DEF VaultInv, VaultShape
    <3> QED
      BY <2>0, <3>1 DEF SecretRow
  <2>3. /\ r \in ReadRequest /\ r.op = "read" /\ r.id = id /\ r.k = q.k /\ r.n = q.n /\ r.file = q.file
        /\ r.one = q.one /\ r.allowed = q.allowed /\ r.since = q.since
    BY <1>1, <2>2, ZenonT(30) DEF ReadRequest
  <2> HIDE DEF r
  <2>4. r \in Requests /\ vreq'[c] = r
    BY <2>1, <2>3 DEF VaultInv, VaultShape, Requests
  <2>5. KeyKnown(c)' /\ WriteHolds(c)'
    BY <2>3, <2>4 DEF KeyKnown, WriteHolds
  <2>6. ReadHolds(c)'
    BY <1>0, <1>1, <1>2, <2>2, <2>3, <2>4, ZenonT(30) DEF ReadHolds, GoodAt
  <2> QED
    BY <1>2, <2>1, <2>4, <2>5, <2>6, NoAnswerRight, RequestStep, ZenonT(30)
<1> QED
  BY <1>3, <1>4

\* The rows a read delivers are one write's, allowed, and missing only with
\* their secret.
LEMMA DeliveredRight ==
    ASSUME VaultInv, NEW c \in Clients, ReadSecretFields(c)
    PROVE  AnswerRight'
<1>0. PICK q, rows : q = vreq[c] /\ rows = {w \in vfield[q.id] : w.f \in q.allowed}
  BY ZenonT(30)
<1>1. q \in ReadRequest /\ q.op = "read" /\ q.st = "fields" /\ ReadHolds(c) /\ q.id \in 1..MaxWrites
  <2>1. q \in ReadRequest
    BY <1>0, RequestKinds, ZenonT(30) DEF ReadSecretFields, VaultInv, VaultShape
  <2> QED
    BY <1>0, <2>1, ZenonT(30) DEF ReadRequest, VaultInv, ReadSecretFields, ReadHolds
<1>2. /\ vanswer' = Answer(q, rows, IF q.one /\ rows = {} THEN 404 ELSE 200)
      /\ vsecret' = vsecret /\ vtoken' = vtoken /\ vwrites' = vwrites
  BY <1>0 DEF ReadSecretFields
<1>3. /\ vanswer'.op = "read" /\ vanswer'.k = q.k /\ vanswer'.n = q.n /\ vanswer'.got = rows
      /\ vanswer'.since = q.since /\ vanswer'.id = q.id
      /\ vanswer'.code = IF q.one /\ rows = {} THEN 404 ELSE 200
  BY <1>2 DEF Answer
<1>4. \A w, x \in rows : w.at = x.at
  BY <1>0, <1>1 DEF VaultInv, OneWriteEach
<1>5. ASSUME rows = {}, q.k = None, ~q.one, NEW n \in Secrets, vsecret[n] # None
      PROVE  vsecret[n].id # q.id
  <2>1. vfield[q.id] = {}
    <3>1. q.allowed = Fields
      BY <1>0, <1>1, <1>5 DEF ReadHolds
    <3>2. \A w \in vfield[q.id] : w.f \in Fields
      BY <1>1 DEF VaultInv, VaultShape, Stored
    <3> QED
      BY <1>0, <1>5, <3>1, <3>2
  <2> QED
    BY <1>5, <2>1 DEF VaultInv, FieldsHaveSecret
<1>6. ReadIsOneWrite'
  <2>1. vanswer'.code = 200 /\ vanswer'.got = {} => rows = {} /\ ~q.one
    BY <1>3
  <2>2. \A w, x \in vanswer'.got : w.at = x.at
    BY ONLY <1>3, <1>4, Zenon
  <2>3. vanswer'.code = 200 /\ vanswer'.got = {} /\ vanswer'.k = None =>
            \A n \in Secrets : vsecret'[n] # None => vsecret'[n].id # vanswer'.id
    BY <1>2, <1>3, <1>5, <2>1
  <2> QED
    BY ONLY <2>2, <2>3, Zenon DEF ReadIsOneWrite
<1>7. PutHonest'
  BY <1>3 DEF PutHonest
<1>8. q.k # None => GoodAt(q.k, q.since)' /\ \A w \in rows : CheckScope(vtoken[q.k].scope, q.n, w.f)
  BY <1>0, <1>1, <1>2, ZenonT(30) DEF ReadHolds, GoodAt
<1> QED
  BY <1>2, <1>3, <1>6, <1>7, <1>8 DEF AnswerRight, GoodAt

\* One query, its answer, and what the mount keeps of it.
LEMMA ReadSecretFieldsStep ==
    ASSUME VaultInv, NEW c \in Clients, ReadSecretFields(c)
    PROVE  VaultInv'
<1>0. PICK q, rows : q = vreq[c] /\ rows = {w \in vfield[q.id] : w.f \in q.allowed}
  BY ZenonT(30)
<1>1. /\ q \in ReadRequest /\ q.op = "read" /\ q.st = "fields" /\ ReadHolds(c)
      /\ q.id \in 1..MaxWrites /\ q.n \in Secrets /\ q.k \in Tokens \cup {None} /\ q.since \in 0..MaxWrites
  <2>1. q \in ReadRequest
    BY <1>0, RequestKinds, ZenonT(30) DEF ReadSecretFields, VaultInv, VaultShape
  <2> QED
    BY <1>0, <2>1, ZenonT(30) DEF ReadRequest, VaultInv, ReadSecretFields, ReadHolds
<1>2. /\ Done(c) /\ UNCHANGED <<vdek, vsecret, vfield, vtoken, vwrites>>
      /\ MountUses(q, rows) \/ UNCHANGED mountVars
  BY <1>0, ZenonT(30) DEF ReadSecretFields
<1>3. AnswerRight'
  BY DeliveredRight, ZenonT(30)
<1>4. CASE UNCHANGED mountVars
  BY <1>2, <1>3, <1>4, DoneStep
<1>5. CASE MountUses(q, rows) /\ ~UNCHANGED mountVars
  <2>1. q.file # None /\ q.k = MountToken /\ q.k # None /\ MountToken \in Tokens
    BY <1>0, <1>1, <1>5, VaultAssumption, VaultNoneAssumption, ZenonT(30) DEF MountUses, ReadHolds
  <2>2. GoodAt(q.k, q.since) /\ \A f \in q.allowed : CheckScope(vtoken[q.k].scope, q.n, f)
    BY <1>0, <1>1, <2>1 DEF ReadHolds
  <2>3. \A w \in rows : w \in Stored /\ w.f \in Fields /\ CheckScope(vtoken[MountToken].scope, q.n, w.f)
    BY <1>0, <1>1, <2>1, <2>2, VaultTypes DEF Stored
  <2>4. vreq' \in [Clients -> Requests] /\ vreq'[c] = Idle /\ \A d \in Clients \ {c} : vreq'[d] = vreq[d]
    BY <1>2, VaultTypes DEF Done, Step, Requests
  <2>5. /\ vhandle' \in [Handles -> OpenFile \cup {None}]
        /\ \A h \in Handles : HandleHolds(h)'
        /\ InodesInScope'
    <3>1. CASE q.file = "list"
      <4>1. vino' = vino \cup {<<q.n, w.f>> : w \in rows} /\ vhandle' = vhandle
        BY <1>5, <2>1, <3>1 DEF MountUses
      <4>2. InodesInScope'
        <5>1. vtoken[MountToken] # None
          BY <2>1, <2>2 DEF GoodAt
        <5> QED
          BY <1>1, <1>2, <2>3, <4>1, <5>1 DEF VaultInv, InodesInScope
      <4>3. \A h \in Handles : HandleHolds(h)'
        BY <1>2, <4>1, ZenonT(30) DEF VaultInv, HandleHolds, GoodAt
      <4> QED
        BY <4>1, <4>2, <4>3 DEF VaultInv, VaultShape
    <3>2. CASE q.file = "open"
      <4>1. vino' = vino
        BY <1>5, <2>1, <3>2 DEF MountUses
      <4>2. PICK h \in Handles, x \in rows :
                vhandle' = [vhandle EXCEPT ![h] = [k |-> q.k, data |-> x, since |-> q.since]]
        BY <1>5, <2>1, <3>2, ZenonT(30) DEF MountUses
      <4>3. PICK open : open = [k |-> q.k, data |-> x, since |-> q.since]
        BY ZenonT(30)
      <4>4. open \in OpenFile /\ open.k = q.k /\ open.since = q.since
        BY <1>1, <2>3, <4>3 DEF OpenFile
      <4>5. /\ vhandle' \in [Handles -> OpenFile \cup {None}] /\ vhandle'[h] = open
            /\ \A g \in Handles \ {h} : vhandle'[g] = vhandle[g]
        BY <4>2, <4>3, <4>4, ZenonT(30) DEF VaultInv, VaultShape
      <4>6. ASSUME NEW g \in Handles PROVE HandleHolds(g)'
        <5>1. CASE g = h
          BY <1>2, <2>1, <2>2, <4>4, <4>5, <5>1, ZenonT(30) DEF HandleHolds, GoodAt
        <5>2. CASE g # h
          BY <1>2, <4>5, <5>2, ZenonT(30) DEF VaultInv, HandleHolds, GoodAt
        <5> QED
          BY <5>1, <5>2, ZenonT(30)
      <4>7. InodesInScope'
        BY <1>2, <4>1 DEF VaultInv, InodesInScope
      <4> QED
        BY <4>5, <4>6, <4>7
    <3> QED
      BY <1>5, <2>1, <3>1, <3>2 DEF MountUses
  <2>6. VaultShape'
    BY <1>2, <2>4, <2>5, ZenonT(30) DEF VaultInv, VaultShape
  <2>7. FieldsDecrypt' /\ FieldsHaveSecret' /\ IdsUsedOnce' /\ OneWriteEach'
    BY <1>2, TablesKept
  <2>8. ASSUME NEW d \in Clients PROVE KeyKnown(d)' /\ WriteHolds(d)' /\ ReadHolds(d)'
    <3>1. CASE d = c
      BY <2>4, <3>1, IdleHolds
    <3>2. CASE d # c
      <4>1. KeyKnown(d) /\ WriteHolds(d) /\ ReadHolds(d) /\ vreq'[d] = vreq[d]
        BY <2>4, <3>2 DEF VaultInv
      <4> QED
        BY <1>2, <4>1, WriteKept, ReadKept, ZenonT(30)
    <3> QED
      BY <3>1, <3>2
  <2> QED
    BY <1>3, <2>5, <2>6, <2>7, <2>8 DEF VaultInv
<1> QED
  BY <1>2, <1>4, <1>5, ZenonT(30)

-----------------------------------------------------------------------------
(* Tokens, and the mount's own steps *)

\* A token keeps its scope; it may be issued where there was none, or end now.
LEMMA TokenStep ==
    ASSUME VaultInv, NoAnswer, UNCHANGED <<vdek, vsecret, vfield, vreq, mountVars, vwrites>>,
           vtoken' \in [Tokens -> TokenRecord \cup {None}],
           \A k \in Tokens : vtoken[k] # None =>
                /\ vtoken'[k] # None /\ vtoken'[k].scope = vtoken[k].scope
                /\ vtoken'[k].ended = vtoken[k].ended \/ vtoken'[k].ended = vwrites
    PROVE  VaultInv'
<1>1. /\ vdek' = vdek /\ vsecret' = vsecret /\ vfield' = vfield /\ vreq' = vreq /\ vwrites' = vwrites
      /\ vino' = vino /\ vhandle' = vhandle
  BY ZenonT(30) DEF mountVars
<1>2. ASSUME NEW k, NEW since, GoodAt(k, since) PROVE GoodAt(k, since)'
  BY <1>1, <1>2 DEF GoodAt
<1>3. VaultShape'
  BY <1>1 DEF VaultInv, VaultShape
<1>4. FieldsDecrypt' /\ FieldsHaveSecret' /\ IdsUsedOnce' /\ OneWriteEach'
  BY <1>1, TablesKept
<1>5. ASSUME NEW c \in Clients PROVE KeyKnown(c)' /\ WriteHolds(c)' /\ ReadHolds(c)'
  <2>1. KeyKnown(c)' /\ WriteHolds(c)'
    <3>1. KeyKnown(c) /\ WriteHolds(c)
      BY ZenonT(30) DEF VaultInv
    <3> QED
      BY <1>1, <3>1, WriteKept, ZenonT(30)
  <2>2. PICK q : q = vreq[c]
    BY ZenonT(30)
  <2>3. ReadHolds(c)
    BY ZenonT(30) DEF VaultInv
  <2>4. q.op = "read" /\ q.k # None =>
            GoodAt(q.k, q.since)' /\ \A f \in q.allowed : CheckScope(vtoken'[q.k].scope, q.n, f)
    <3> HAVE q.op = "read" /\ q.k # None
    <3>1. GoodAt(q.k, q.since) /\ \A f \in q.allowed : CheckScope(vtoken[q.k].scope, q.n, f)
      BY <2>2, <2>3, ZenonT(30) DEF ReadHolds
    <3>2. vtoken'[q.k].scope = vtoken[q.k].scope
      BY <3>1, ZenonT(30) DEF GoodAt
    <3> QED
      BY <1>2, <3>1, <3>2, ZenonT(30)
  <2>5. ReadHolds(c)'
    BY <1>1, <2>2, <2>3, <2>4, ZenonT(30) DEF ReadHolds, GoodAt
  <2> QED
    BY <2>1, <2>5
<1>6. ASSUME NEW h \in Handles PROVE HandleHolds(h)'
  <2>1. PICK o : o = vhandle[h]
    OBVIOUS
  <2>2. o # None => o.k # None /\ GoodAt(o.k, o.since)'
    BY <1>2, <2>1 DEF VaultInv, HandleHolds
  <2> QED
    BY <1>1, <2>1, <2>2, ZenonT(30) DEF HandleHolds, GoodAt
<1>7. InodesInScope'
  BY <1>1, VaultAssumption DEF VaultInv, InodesInScope
<1> QED
  BY <1>3, <1>4, <1>5, <1>6, <1>7, NoAnswerRight, ZenonT(30) DEF VaultInv

\* Issuing a token adds one and changes no other.
LEMMA IssueStep ==
    ASSUME VaultInv, NEW k \in Tokens, NEW scope \in Scopes, NEW kind \in {"cap", "grant"}, NEW perm \in {"read", "write"},
           vtoken[k] = None, vtoken' = [vtoken EXCEPT ![k] = TokenRow(kind, scope, perm)], NoAnswer,
           UNCHANGED <<vdek, vsecret, vfield, vreq, mountVars, vwrites>>
    PROVE  VaultInv'
<1>1. TokenRow(kind, scope, perm) \in TokenRecord
  BY ZenonT(30) DEF TokenRow, TokenRecord
<1>2. vtoken' \in [Tokens -> TokenRecord \cup {None}] /\ \A x \in Tokens \ {k} : vtoken'[x] = vtoken[x]
  BY <1>1, VaultTypes
<1> QED
  BY <1>2, TokenStep, ZenonT(30)

\* A token that expires or is revoked stays in the table.
LEMMA TokenEndsStep ==
    ASSUME VaultInv, NEW k \in Tokens, TokenEnds(k)
    PROVE  VaultInv'
<1>1. PICK row : row = [vtoken[k] EXCEPT !.ended = vwrites]
  BY ZenonT(30)
<1>2. vtoken[k] \in TokenRecord /\ vwrites \in 0..MaxWrites
  BY DEF TokenEnds, VaultInv, VaultShape
<1>3. row \in TokenRecord /\ row.scope = vtoken[k].scope /\ row.ended = vwrites
  BY <1>1, <1>2 DEF TokenRecord
<1>4. row # None
  BY <1>3, VaultNoneAssumption, ZenonT(30)
<1>5. vtoken' = [vtoken EXCEPT ![k] = row]
  BY <1>1, ZenonT(30) DEF TokenEnds
<1>6. /\ vtoken' \in [Tokens -> TokenRecord \cup {None}] /\ vtoken'[k] = row
      /\ \A x \in Tokens \ {k} : vtoken'[x] = vtoken[x]
  BY <1>3, <1>5 DEF VaultInv, VaultShape
<1>7. NoAnswer /\ UNCHANGED <<vdek, vsecret, vfield, vreq, mountVars, vwrites>>
  BY ZenonT(30) DEF TokenEnds
<1> QED
  BY <1>3, <1>4, <1>6, <1>7, TokenStep

\* The mount lists the root or closes a file.
LEMMA MountStep ==
    ASSUME VaultInv, ReadDirRoot \/ \E h \in Handles : Release(h)
    PROVE  VaultInv'
<1>1. /\ vdek' = vdek /\ vsecret' = vsecret /\ vfield' = vfield /\ vreq' = vreq /\ vwrites' = vwrites
      /\ vtoken' = vtoken /\ NoAnswer
  BY ZenonT(30) DEF ReadDirRoot, Release
<1>2. vhandle' \in [Handles -> OpenFile \cup {None}] /\ \A h \in Handles : vhandle'[h] = vhandle[h] \/ vhandle'[h] = None
  BY ZenonT(30) DEF ReadDirRoot, Release, VaultInv, VaultShape
<1>3. \A p \in vino' : p \in vino \/ \E n \in Secrets : p = <<n>>
  BY ZenonT(30) DEF ReadDirRoot, Release, handleVaultReadEnumerate
<1>4. VaultShape'
  BY <1>1, <1>2 DEF VaultInv, VaultShape
<1>5. FieldsDecrypt' /\ FieldsHaveSecret' /\ IdsUsedOnce' /\ OneWriteEach'
  BY <1>1, TablesKept
<1>6. ASSUME NEW c \in Clients PROVE KeyKnown(c)' /\ WriteHolds(c)' /\ ReadHolds(c)'
  BY <1>1, WriteKept, ReadKept, ZenonT(30) DEF VaultInv
<1>7. ASSUME NEW h \in Handles PROVE HandleHolds(h)'
  BY <1>1, <1>2, ZenonT(30) DEF VaultInv, HandleHolds, GoodAt
<1>8. InodesInScope'
  BY <1>1, <1>3, ZenonT(30) DEF VaultInv, InodesInScope
<1> QED
  BY <1>1, <1>4, <1>5, <1>6, <1>7, <1>8, NoAnswerRight, ZenonT(30) DEF VaultInv

-----------------------------------------------------------------------------
(* The invariant *)

\* The empty vault satisfies the invariant.
LEMMA VaultInitInv == VaultInit => VaultInv
<1> SUFFICES ASSUME VaultInit PROVE VaultInv
  BY ZenonT(30)
<1>1. Idle.op = "idle"
  BY ZenonT(30) DEF Idle
<1>2. VaultShape
  BY VaultAssumption DEF VaultInit, VaultShape, Requests
<1>3. FieldsDecrypt /\ FieldsHaveSecret /\ IdsUsedOnce /\ OneWriteEach
  BY ZenonT(30) DEF VaultInit, FieldsDecrypt, FieldsHaveSecret, IdsUsedOnce, OneWriteEach
<1>4. ASSUME NEW c \in Clients PROVE KeyKnown(c) /\ WriteHolds(c) /\ ReadHolds(c)
  BY <1>1, ZenonT(30) DEF VaultInit, KeyKnown, WriteHolds, ReadHolds
<1>5. (\A h \in Handles : HandleHolds(h)) /\ InodesInScope /\ AnswerRight
  BY ZenonT(30) DEF VaultInit, HandleHolds, InodesInScope, AnswerRight, ReadIsOneWrite, PutHonest
<1> QED
  BY <1>2, <1>3, <1>4, <1>5 DEF VaultInv

\* Every step of a write request preserves the invariant.
LEMMA WriteNextStep ==
    ASSUME VaultInv, NEW c \in Clients, WriteNext(c)
    PROVE  VaultInv'
<1>1. ASSUME NEW n \in Secrets, NEW fs \in FieldSets,
             handleVaultSecretCreate(c, n, fs) \/ handleVaultSecretUpdate(c, n, fs)
      PROVE  VaultInv'
  BY <1>1, CreateStarts, UpdateStarts
<1>2. ASSUME NEW n \in Secrets, DeleteSelects(c, n) PROVE VaultInv'
  BY <1>2, DeleteSelectsStep, ZenonT(30)
<1>3. CASE InsertDEK(c) \/ CreateSecret(c)
  BY <1>3, InsertDEKStep, CreateSecretStep
<1>4. CASE UpdateSelects(c) \/ UpdateSecret(c)
  BY <1>4, UpdateSelectsStep, UpdateSecretStep, ZenonT(30)
<1>5. CASE DeleteFields(c) \/ DeleteSecret(c)
  BY <1>5, DeleteFieldsStep, DeleteSecretStep
<1>6. CASE RequestFails(c)
  BY <1>6, RequestFailsStep, ZenonT(30)
<1> QED
  BY <1>1, <1>2, <1>3, <1>4, <1>5, <1>6 DEF WriteNext

\* Every step of a read preserves the invariant.
LEMMA ReadNextStep ==
    ASSUME VaultInv, NEW c \in Clients, ReadNext(c)
    PROVE  VaultInv'
<1>1. ASSUME NEW n \in Secrets, handleVaultSecretReadValue(c, n) \/ \E f \in Fields : handleVaultSecretReadField(c, n, f)
      PROVE  VaultInv'
  BY <1>1, OwnerReads, ZenonT(30)
<1>2. ASSUME NEW n \in Secrets, ReadDir(c, n) \/ \E f \in Fields : Open(c, n, f)
      PROVE  VaultInv'
  <2>1. MountToken \in Tokens
    BY VaultAssumption, ZenonT(30)
  <2> QED
    BY <1>2, <2>1, TokenReadsSecret, ZenonT(30) DEF ReadDir, Open
<1>3. ASSUME NEW n \in Secrets, NEW k \in Tokens,
             handleVaultReadSecret(c, k, n, None) \/ \E f \in Fields : handleVaultReadField(c, k, n, f)
      PROVE  VaultInv'
  BY <1>3, TokenReadsSecret, TokenReadsField
<1>4. CASE GetSecret(c) \/ ReadSecretFields(c)
  BY <1>4, GetSecretStep, ReadSecretFieldsStep
<1> QED
  BY <1>1, <1>2, <1>3, <1>4 DEF ReadNext

\* Every step of the vault preserves the invariant.
LEMMA VaultStep == VaultInv /\ [VaultNext]_vaultVars => VaultInv'
<1> SUFFICES ASSUME VaultInv, [VaultNext]_vaultVars PROVE VaultInv'
  BY ZenonT(30)
<1>1. CASE UNCHANGED vaultVars
  <2>1. /\ vdek' = vdek /\ vsecret' = vsecret /\ vfield' = vfield /\ vtoken' = vtoken /\ vreq' = vreq
        /\ vino' = vino /\ vhandle' = vhandle /\ vwrites' = vwrites /\ vanswer' = vanswer
    BY <1>1, ZenonT(30) DEF vaultVars
  <2>2. /\ VaultShape' /\ InodesInScope'
        /\ FieldsDecrypt' /\ FieldsHaveSecret' /\ IdsUsedOnce' /\ OneWriteEach'
    BY <2>1, TablesKept, ZenonT(30) DEF VaultInv, VaultShape, InodesInScope
  <2>3. ASSUME NEW c \in Clients PROVE KeyKnown(c)' /\ WriteHolds(c)' /\ ReadHolds(c)'
    BY <2>1, WriteKept, ReadKept, ZenonT(30) DEF VaultInv
  <2>4. ASSUME NEW h \in Handles PROVE HandleHolds(h)'
    BY <2>1, ZenonT(30) DEF VaultInv, HandleHolds, GoodAt
  <2>5. AnswerRight'
    BY <2>1 DEF VaultInv, AnswerRight, ReadIsOneWrite, PutHonest, GoodAt
  <2> QED
    BY <2>2, <2>3, <2>4, <2>5 DEF VaultInv
<1>2. ASSUME NEW c \in Clients, WriteNext(c) \/ ReadNext(c) PROVE VaultInv'
  BY <1>2, WriteNextStep, ReadNextStep
<1>3. ASSUME NEW k \in Tokens, NEW scope \in Scopes,
             \/ handleVaultTokenIssue(k, scope)
             \/ \E perm \in {"read", "write"} : handleVaultGrantIssue(k, scope, perm)
      PROVE  VaultInv'
  BY <1>3, IssueStep DEF handleVaultTokenIssue, IssueCapToken, handleVaultGrantIssue, IssueGrant
<1>4. ASSUME NEW k \in Tokens, handleVaultTokenRevoke(k) \/ handleVaultGrantRevoke(k) \/ TokenExpires(k)
      PROVE  VaultInv'
  BY <1>4, TokenEndsStep, ZenonT(30)
     DEF handleVaultTokenRevoke, RevokeCapToken, handleVaultGrantRevoke, RevokeGrant, TokenExpires
<1>5. CASE ReadDirRoot \/ \E h \in Handles : Release(h)
  BY <1>5, MountStep
<1> QED
  BY <1>1, <1>2, <1>3, <1>4, <1>5 DEF VaultNext

\* The inductive invariant.
LEMMA VaultInvariant == VaultSpec => []VaultInv
BY VaultInitInv, VaultStep, PTL DEF VaultSpec

\* However creates, updates, deletes and reads interleave and fail, every stored
\* field can be decrypted and belongs to a secret, a read returns one write's
\* fields, and the answer of a put is what became of it.
THEOREM SecretsStayWhole == VaultSpec => []SecretsWhole
<1>1. VaultInv => SecretsWhole
  BY DEF VaultInv, AnswerRight, SecretsWhole
<1> QED
  BY <1>1, VaultInvariant, PTL

\* A token delivers fields of its scope alone, to requests and through the
\* mount, and nothing written after its end to a request made after its end.
THEOREM TokensStayConfined == VaultSpec => []TokensConfined
<1>1. ASSUME VaultInv PROVE TokensConfined
  <2>1. DeliveredInScope
    <3>1. ASSUME NEW p \in vino, Len(p) = 2 PROVE CheckScope(vtoken[MountToken].scope, p[1], p[2])
      <4>1. ASSUME NEW n, p = <<n>> PROVE FALSE
        BY <3>1, <4>1
      <4> QED
        BY <1>1, <4>1 DEF VaultInv, InodesInScope
    <3> QED
      BY <1>1, <3>1, ZenonT(30) DEF VaultInv, AnswerRight, DeliveredInScope
  <2>2. NothingNewAfterEnd
    BY <1>1, ZenonT(30) DEF VaultInv, AnswerRight, HandleHolds, GoodAt, NothingNewAfterEnd
  <2> QED
    BY <2>1, <2>2, ZenonT(30) DEF TokensConfined
<1> QED
  BY <1>1, VaultInvariant, PTL
=============================================================================
