--------------------------- MODULE JournalProofs ---------------------------
(***************************************************************************)
(* Proofs about the agent journal, for any journals, writers, keys and     *)
(* batches: the committed entries are one hash chain, an answer names      *)
(* stored entries, and the tables implement an append-only log to which a  *)
(* key adds its entries at most once.                                      *)
(*                                                                         *)
(* The argument: the row lock makes the rows an append prepares still fit  *)
(* the journal when they are inserted.                                     *)
(***************************************************************************)
EXTENDS AgentJournal, WellFoundedInduction, TLAPS

JournalColumns == {"create", "genesis", "genesisHash", "head", "next", "labels"}

Values(s) == {s[i] : i \in DOMAIN s}

IsSequence(s) == s \in Seq(Values(s))

\* The tables are functions of their keys and the entries of a journal are a
\* sequence.
JournalShape ==
    /\ journal = [j \in Journals |-> journal[j]]
    /\ entries = [j \in Journals |-> entries[j]]
    /\ requests = [j \in Journals |-> [id \in AppendIds |-> requests[j][id]]]
    /\ jcall = [w \in Writers |-> jcall[w]]
    /\ \A j \in Journals : IsSequence(entries[j])

\* A journal that exists has its columns, and only such a one has entries.
JournalRows ==
    \A j \in Journals :
        /\ ~Created(j) => journal[j] = NoJournal /\ entries[j] = <<>>
        /\ Created(j) => /\ DOMAIN journal[j] = JournalColumns
                         /\ journal[j].create = CreateHash(j, journal[j].labels)

\* Rows that continue a journal: the next sequence numbers, each chained to the
\* entry before it, the first to the head, with the subjects of the batch.
Continues(rows, row, batch) ==
    /\ IsSequence(rows) /\ Len(rows) = Len(batch) /\ Len(rows) > 0
    /\ \A i \in 1..Len(rows) :
        /\ rows[i].seq = row.next + i - 1
        /\ rows[i].prev = IF i = 1 THEN row.head ELSE rows[i - 1].hash
        /\ rows[i].hash = EntryHash(rows[i])
        /\ rows[i].subjects = Normalized(batch)[i].subjects

\* The hash of an entry, and of the genesis before the first.
HashAt(j, i) == IF i = 0 THEN journal[j].genesis ELSE entries[j][i].hash

\* What ChainIntact says of one journal.
ChainOf(j) ==
    /\ journal[j].next = Len(entries[j]) + 1
    /\ journal[j].head = HashAt(j, Len(entries[j]))
    /\ \A i \in 1..Len(entries[j]) : /\ entries[j][i].seq = i
                                     /\ entries[j][i].prev = HashAt(j, i - 1)
                                     /\ entries[j][i].hash = EntryHash(entries[j][i])

\* What a prepared append inserts still fits the journal, which no other
\* transaction has locked.
Pending(w) ==
    /\ jcall[w].st = "create" => jcall[w].j \in Journals
    /\ jcall[w].st = "append" =>
        /\ jcall[w].j \in Journals /\ jcall[w].id \in AppendIds /\ jcall[w].batch \in Batches
        /\ Created(jcall[w].j) /\ ~Applied(jcall[w].j, jcall[w].id)
        /\ Continues(jcall[w].rows, journal[jcall[w].j], jcall[w].batch)

RowLocked ==
    \A v, w \in Writers :
        jcall[v].st = "append" /\ jcall[w].st = "append" /\ jcall[v].j = jcall[w].j => v = w

\* The sequence numbers first to last hold the entries of a batch.
Stores(j, batch, first, last) ==
    /\ Len(batch) \in Nat /\ DOMAIN batch = 1..Len(batch)
    /\ first \in Nat \ {0} /\ last = first + Len(batch) - 1
    /\ last <= Len(entries[j])
    /\ \A i \in 1..Len(batch) : entries[j][first + i - 1].subjects = batch[i].subjects

RequestsStored ==
    \A j \in Journals, id \in AppendIds :
        Applied(j, id) => Stores(j, requests[j][id].hash, requests[j][id].first, requests[j][id].last)

AnswerStored ==
    janswer # None =>
        /\ janswer.op \in {"create", "append"} /\ janswer.j \in Journals
        /\ janswer.op = "create" => Created(janswer.j) /\ journal[janswer.j].labels = janswer.labels
        /\ janswer.op = "append" => Stores(janswer.j, janswer.batch, janswer.first, janswer.last)

JournalInv ==
    /\ JournalShape /\ JournalRows /\ ChainIntact
    /\ \A w \in Writers : Pending(w)
    /\ RowLocked /\ RequestsStored /\ AnswerStored

-----------------------------------------------------------------------------
(* Sequences *)

\* What a sequence over a set is.
LEMMA SequenceOver ==
    ASSUME NEW S
    PROVE  /\ \A n \in Nat : [1..n -> S] \subseteq Seq(S)
           /\ \A s \in Seq(S) : /\ Len(s) \in Nat /\ DOMAIN s = 1..Len(s)
                                /\ s \in [1..Len(s) -> S]
                                /\ \A i \in 1..Len(s) : s[i] \in S
OBVIOUS

LEMMA WiderSequence ==
    ASSUME NEW S, NEW T, S \subseteq T, NEW s \in Seq(S)
    PROVE  s \in Seq(T)
OBVIOUS

\* What a concatenation is, place by place.
LEMMA Joined ==
    ASSUME NEW S, NEW s \in Seq(S), NEW t \in Seq(S)
    PROVE  /\ s \o t \in Seq(S) /\ Len(s \o t) = Len(s) + Len(t)
           /\ \A i \in 1..(Len(s) + Len(t)) : (s \o t)[i] = IF i <= Len(s) THEN s[i] ELSE t[i - Len(s)]
OBVIOUS

\* The first n places of a sequence.
LEMMA FirstPlaces ==
    ASSUME NEW S, NEW s, NEW n \in Nat, \A i \in 1..n : s[i] \in S
    PROVE  /\ SubSeq(s, 1, n) \in Seq(S) /\ Len(SubSeq(s, 1, n)) = n
           /\ \A i \in 1..n : SubSeq(s, 1, n)[i] = s[i]
OBVIOUS

LEMMA SameSequence ==
    ASSUME NEW S, NEW s \in Seq(S), NEW t \in Seq(S), Len(s) = Len(t), \A i \in 1..Len(s) : s[i] = t[i]
    PROVE  s = t
OBVIOUS

-----------------------------------------------------------------------------
(* Induction over the numbers, from the well-foundedness of their order *)

\* A set of numbers that is not empty has a least element.
LEMMA LeastNumber ==
    ASSUME NEW T, T \subseteq Nat, T # {}
    PROVE  \E x \in T : \A y \in T : x <= y
<1> DEFINE R == OpToRel(<, Nat)
<1>1. IsWellFoundedOn(R, Nat)
  BY NatLessThanWellFounded, ZenonT(30)
<1>2. \A x, y \in Nat : y < x => <<y, x>> \in R
  BY ZenonT(30) DEF OpToRel
<1> HIDE DEF R
<1>3. PICK x \in T : \A y \in T : ~(<<y, x>> \in R)
  BY <1>1, WFMin, ZenonT(30)
<1>4. ASSUME NEW y \in T, ~(x <= y) PROVE FALSE
  <2>1. x \in Nat /\ y \in Nat /\ y < x
    BY <1>4
  <2> QED
    BY <1>2, <1>3, <1>4, <2>1, ZenonT(30)
<1> QED
  BY <1>4, ZenonT(30)

\* A set that holds 0 and every successor holds every number.
LEMMA SetInduction ==
    ASSUME NEW S, 0 \in S, \A n \in Nat : n \in S => n + 1 \in S
    PROVE  Nat \subseteq S
<1> SUFFICES ASSUME Nat \ S # {} PROVE FALSE
  BY ZenonT(30)
<1>1. PICK x \in Nat \ S : \A y \in Nat \ S : x <= y
  BY LeastNumber, ZenonT(30)
<1>2. x # 0 /\ x - 1 \in Nat
  BY <1>1
<1>3. x - 1 \in S
  BY <1>1, <1>2
<1> QED
  BY <1>1, <1>2, <1>3

-----------------------------------------------------------------------------
(* The hash chain of a batch *)

\* The recursion over a batch has a solution, so the heads satisfy their definition.
LEMMA ChainHeadsDef ==
    ASSUME NEW row, NEW rows, NEW source, NEW now, Len(rows) \in Nat
    PROVE  LET head == ChainHeads(row, rows, source, now) IN
           /\ head[0] = row.head
           /\ \A i \in 1..Len(rows) :
                head[i] = Entry(row.next + i - 1, source, rows[i].subjects, now, head[i - 1])
<1> DEFINE Step(i, prev) == IF i = 0 THEN row.head ELSE Entry(row.next + i - 1, source, rows[i].subjects, now, prev)
           Solves(h, n) == h = [i \in 0..n |-> Step(i, h[i - 1])]
           head == ChainHeads(row, rows, source, now)
           S == {n \in Nat : \E h : Solves(h, n)}
<1>1. 0 \in S
  <2> DEFINE h == [i \in 0..0 |-> row.head]
  <2>1. Solves(h, 0)
    OBVIOUS
  <2> HIDE DEF Solves
  <2> QED
    BY <2>1, ZenonT(30)
<1>2. ASSUME NEW n \in Nat, n \in S PROVE n + 1 \in S
  <2>1. PICK h : Solves(h, n)
    BY <1>2, ZenonT(30)
  <2> DEFINE g == [i \in 0..(n + 1) |-> IF i = n + 1 THEN Step(n + 1, h[n]) ELSE h[i]]
  <2>2. ASSUME NEW i \in 0..(n + 1) PROVE g[i] = Step(i, g[i - 1])
    <3> HIDE DEF Step
    <3>1. CASE i = n + 1
      BY <3>1
    <3>2. CASE i \in 0..n
      <4>1. g[i] = h[i] /\ h[i] = Step(i, h[i - 1])
        BY <2>1, <3>2
      <4>2. CASE i = 0
        BY <4>1, <4>2, ZenonT(30) DEF Step
      <4>3. CASE i # 0
        BY <3>2, <4>1, <4>3
      <4> QED
        BY <4>2, <4>3, ZenonT(30)
    <3> QED
      BY <3>1, <3>2
  <2>3. Solves(g, n + 1)
    <3> HIDE DEF Step
    <3> QED
      BY <2>2, ZenonT(30)
  <2> HIDE DEF Solves, g
  <2> QED
    BY <2>3
<1>3. Len(rows) \in S
  <2> HIDE DEF S
  <2> QED
    BY <1>1, <1>2, SetInduction, ZenonT(30)
<1>4. \E h : Solves(h, Len(rows))
  <2> HIDE DEF Solves
  <2> QED
    BY <1>3, ZenonT(30)
<1>5. head = CHOOSE h : Solves(h, Len(rows))
  BY ZenonT(30) DEF ChainHeads
<1>6. Solves(head, Len(rows))
  <2> HIDE DEF Solves, head
  <2> QED
    BY <1>4, <1>5, ZenonT(30)
<1> HIDE DEF head, Step
<1>7. \A i \in 0..Len(rows) : head[i] = Step(i, head[i - 1])
  BY <1>6, ZenonT(30)
<1> QED
  BY <1>7 DEF Step, head

\* A function on 1..n is a sequence of length n.
LEMMA FunctionIsSequence ==
    ASSUME NEW n \in Nat, NEW f, f = [i \in 1..n |-> f[i]]
    PROVE  IsSequence(f) /\ Len(f) = n /\ DOMAIN f = 1..n
<1>1. f \in [1..n -> Values(f)]
  BY ZenonT(30) DEF Values
<1>2. f \in Seq(Values(f))
  BY <1>1, SequenceOver, ZenonT(30)
<1>3. DOMAIN f = 1..n
  BY ZenonT(30)
<1>4. Len(f) \in Nat /\ DOMAIN f = 1..Len(f)
  BY <1>2, SequenceOver, ZenonT(30)
<1>5. Len(f) = n
  BY <1>3, <1>4
<1> QED
  BY <1>2, <1>3, <1>5, ZenonT(30) DEF IsSequence

\* A batch as stored is a sequence as long as the batch.
LEMMA NormalizedBatch ==
    ASSUME NEW batch \in Batches
    PROVE  /\ Len(batch) \in Nat /\ Len(Normalized(batch)) = Len(batch)
           /\ DOMAIN Normalized(batch) = 1..Len(batch)
<1>1. batch \in Seq([subjects : SUBSET RawNames, source : STRING])
  BY JournalAssumption, ZenonT(30)
<1>2. Len(batch) \in Nat /\ DOMAIN batch = 1..Len(batch)
  BY <1>1, SequenceOver, ZenonT(30)
<1>3. Normalized(batch) = [i \in 1..Len(batch) |-> Normalized(batch)[i]]
  BY <1>2, ZenonT(30) DEF Normalized
<1> QED
  BY <1>2, <1>3, FunctionIsSequence, ZenonT(30)

\* The rows an append prepares continue the journal.
LEMMA ChainedContinues ==
    ASSUME NEW batch \in Batches, batch # <<>>, NEW row, row.next \in Nat, NEW source, NEW now
    PROVE  Continues(Chained(row, batch, source, now), row, batch)
<1> DEFINE norm == Normalized(batch)
           head == ChainHeads(row, norm, source, now)
           rows == Chained(row, batch, source, now)
           n == Len(batch)
           Row(i) == [seq |-> row.next + i - 1, source |-> source, subjects |-> norm[i].subjects, observed |-> now,
                      prev |-> head[i - 1], hash |-> head[i], projected |-> norm[i].subjects]
<1>1. n \in Nat /\ Len(norm) = n
  BY NormalizedBatch, ZenonT(30)
<1>2. n > 0
  <2>1. batch \in Seq([subjects : SUBSET RawNames, source : STRING])
    BY JournalAssumption, ZenonT(30)
  <2> QED
    BY <2>1
<1>3. rows = [i \in 1..n |-> Row(i)]
  BY <1>1, ZenonT(30) DEF Chained
<1>4. /\ head[0] = row.head
      /\ \A i \in 1..n : head[i] = Entry(row.next + i - 1, source, norm[i].subjects, now, head[i - 1])
  <2> HIDE DEF norm
  <2> QED
    BY <1>1, ChainHeadsDef
<1> HIDE DEF head, norm, rows, n
<1>5. Len(rows) = n /\ IsSequence(rows)
  <2>1. rows = [i \in 1..n |-> rows[i]]
    BY <1>3, ZenonT(30)
  <2> QED
    BY <1>1, <2>1, FunctionIsSequence, ZenonT(30)
<1>6. ASSUME NEW i \in 1..n
      PROVE  /\ rows[i].seq = row.next + i - 1 /\ rows[i].subjects = norm[i].subjects
             /\ rows[i].prev = head[i - 1] /\ rows[i].hash = head[i]
             /\ rows[i].source = source /\ rows[i].observed = now
  BY <1>3, ZenonT(30)
<1>7. ASSUME NEW i \in 1..n PROVE rows[i].hash = EntryHash(rows[i])
  BY <1>4, <1>6, ZenonT(30) DEF EntryHash
<1>8. ASSUME NEW i \in 1..n PROVE rows[i].prev = IF i = 1 THEN row.head ELSE rows[i - 1].hash
  <2>1. CASE i = 1
    BY <1>4, <1>6, <2>1
  <2>2. CASE i # 1
    <3>1. i - 1 \in 1..n
      BY <1>1, <2>2
    <3> QED
      BY <1>6, <2>2, <3>1
  <2> QED
    BY <2>1, <2>2, ZenonT(30)
<1> QED
  BY <1>1, <1>2, <1>5, <1>6, <1>7, <1>8 DEF Continues, rows, n, norm

-----------------------------------------------------------------------------
(* Steps *)

\* The chain of every journal is a statement about each journal by itself.
LEMMA ChainOfEach == ChainIntact <=> \A j \in Journals : Created(j) => ChainOf(j)
BY ZenonT(30) DEF ChainIntact, ChainOf, HashAt

\* Entries added at the end leave the entries before them.
LEMMA Appended ==
    ASSUME NEW s, NEW t, IsSequence(s), IsSequence(t)
    PROVE  /\ IsSequence(s \o t) /\ Len(s) \in Nat /\ Len(t) \in Nat /\ Len(s \o t) = Len(s) + Len(t)
           /\ \A i \in 1..Len(s) : (s \o t)[i] = s[i]
           /\ \A k \in 1..Len(t) : (s \o t)[Len(s) + k] = t[k]
           /\ SubSeq(s \o t, 1, Len(s)) = s
<1> DEFINE S == Values(s) \cup Values(t)
           u == s \o t
<1>1. s \in Seq(S) /\ t \in Seq(S)
  BY WiderSequence, ZenonT(30) DEF IsSequence
<1>2. Len(s) \in Nat /\ Len(t) \in Nat
  BY <1>1, SequenceOver, ZenonT(30)
<1>3. /\ u \in Seq(S) /\ Len(u) = Len(s) + Len(t)
      /\ \A i \in 1..(Len(s) + Len(t)) : u[i] = IF i <= Len(s) THEN s[i] ELSE t[i - Len(s)]
  BY <1>1, Joined
<1> HIDE DEF u
<1>4. IsSequence(u)
  <2>1. u \in [1..Len(u) -> S] /\ Len(u) \in Nat
    BY <1>3, SequenceOver, ZenonT(30)
  <2>2. u = [i \in 1..Len(u) |-> u[i]]
    BY <2>1, ZenonT(30)
  <2> QED
    BY <2>1, <2>2, FunctionIsSequence, ZenonT(30)
<1>5. \A i \in 1..Len(s) : u[i] = s[i]
  BY <1>2, <1>3
<1>6. ASSUME NEW k \in 1..Len(t) PROVE u[Len(s) + k] = t[k]
  <2>1. Len(s) + k \in 1..(Len(s) + Len(t)) /\ ~(Len(s) + k <= Len(s)) /\ Len(s) + k - Len(s) = k
    BY <1>2
  <2> QED
    BY <1>3, <2>1
<1>7. SubSeq(u, 1, Len(s)) = s
  <2>1. \A i \in 1..Len(s) : u[i] \in S
    BY <1>1, <1>5, SequenceOver, ZenonT(30)
  <2>2. /\ SubSeq(u, 1, Len(s)) \in Seq(S) /\ Len(SubSeq(u, 1, Len(s))) = Len(s)
        /\ \A i \in 1..Len(s) : SubSeq(u, 1, Len(s))[i] = u[i]
    <3> HIDE DEF S
    <3> QED
      BY <1>2, <2>1, FirstPlaces
  <2>3. \A i \in 1..Len(s) : SubSeq(u, 1, Len(s))[i] = s[i]
    BY <1>5, <2>2, ZenonT(30)
  <2> QED
    BY <1>1, <2>2, <2>3, SameSequence
<1> QED
  BY <1>2, <1>3, <1>4, <1>5, <1>6, <1>7 DEF u

\* While the tables stay, only the calls and the answer need an argument.
LEMMA TablesStay ==
    ASSUME JournalInv, UNCHANGED tableVars, (\A w \in Writers : Pending(w))', RowLocked', AnswerStored',
           jcall' = [w \in Writers |-> jcall'[w]]
    PROVE  JournalInv'
<1>1. journal' = journal /\ entries' = entries /\ requests' = requests
  BY ZenonT(30) DEF tableVars
<1>2. JournalShape' /\ JournalRows'
  BY <1>1 DEF JournalInv, JournalShape, JournalRows, Created
<1>3. ChainIntact'
  BY <1>1 DEF JournalInv, ChainIntact, Created
<1>4. RequestsStored'
  BY <1>1 DEF JournalInv, RequestsStored, Stores, Applied
<1> QED
  BY <1>2, <1>3, <1>4 DEF JournalInv

\* An answer from the tables: a create or an append that was made before.
LEMMA AnswerStep ==
    ASSUME JournalInv, UNCHANGED <<tableVars, jcall>>, AnswerStored'
    PROVE  JournalInv'
<1>1. /\ journal' = journal /\ requests' = requests /\ jcall' = jcall
  BY ZenonT(30) DEF tableVars
<1>2. ASSUME NEW w \in Writers PROVE Pending(w)'
  BY <1>1, ZenonT(30) DEF JournalInv, Pending, Created, Applied
<1>3. RowLocked'
  BY <1>1, ZenonT(30) DEF JournalInv, RowLocked
<1>4. jcall' = [w \in Writers |-> jcall'[w]]
  BY <1>1, ZenonT(30) DEF JournalInv, JournalShape
<1> QED
  BY <1>2, <1>3, <1>4, TablesStay

\* Readers, edits noticed by readers, and time change no table and no request.
LEMMA TablesAloneStep ==
    ASSUME JournalInv, UNCHANGED <<tableVars, jcall, janswer>>
    PROVE  JournalInv'
<1>1. /\ journal' = journal /\ entries' = entries /\ janswer' = janswer
  BY ZenonT(30) DEF tableVars
<1>2. AnswerStored'
  BY <1>1, ZenonT(30) DEF JournalInv, AnswerStored, Stores, Created
<1> QED
  BY <1>2, AnswerStep, ZenonT(30)

\* A transaction starts or ends without a commit.
LEMMA CallStep ==
    ASSUME JournalInv, UNCHANGED tableVars, AnswerStored', NEW w \in Writers, NEW c,
           jcall' = [jcall EXCEPT ![w] = c], Pending(w)', c.st = "append" => Unlocked(c.j)
    PROVE  JournalInv'
<1>1. journal' = journal /\ requests' = requests
  BY ZenonT(30) DEF tableVars
<1>2. jcall'[w] = c /\ \A v \in Writers \ {w} : jcall'[v] = jcall[v]
  BY ZenonT(30) DEF JournalInv, JournalShape
<1>3. ASSUME NEW v \in Writers PROVE Pending(v)'
  <2>1. CASE v = w
    BY <2>1, ZenonT(30)
  <2>2. CASE v # w
    BY <1>1, <1>2, <2>2 DEF JournalInv, Pending, Created, Applied
  <2> QED
    BY <2>1, <2>2, ZenonT(30)
<1>4. RowLocked'
  BY <1>2 DEF JournalInv, RowLocked, Unlocked
<1>5. jcall' = [v \in Writers |-> jcall'[v]]
  BY ZenonT(30) DEF JournalInv, JournalShape
<1> QED
  BY <1>3, <1>4, <1>5, TablesStay

\* An existing journal is returned for the labels it was created with.
LEMMA CreateAnswered ==
    ASSUME JournalInv, UNCHANGED tableVars, NEW j \in Journals, NEW labels, Created(j),
           janswer' = CreateAnswer(j, labels)
    PROVE  AnswerStored'
<1>1. journal' = journal
  BY ZenonT(30) DEF tableVars
<1>2. CASE journal[j].create = CreateHash(j, labels)
  <2>1. CreateHash(j, journal[j].labels) = CreateHash(j, labels)
    BY <1>2, ZenonT(30) DEF JournalInv, JournalRows
  <2>2. journal[j].labels = labels
    BY <2>1 DEF CreateHash
  <2>3. janswer'.op = "create" /\ janswer'.j = j /\ janswer'.labels = labels
    BY <1>2, ZenonT(30) DEF CreateAnswer
  <2> QED
    BY <1>1, <2>2, <2>3, ZenonT(30) DEF AnswerStored, Created
<1>3. CASE journal[j].create # CreateHash(j, labels)
  BY <1>3, ZenonT(30) DEF CreateAnswer, AnswerStored
<1> QED
  BY <1>2, <1>3, ZenonT(30)

\* CreateJournal starts a call; no row changes.
LEMMA CreateJournalStep ==
    ASSUME JournalInv, NEW w \in Writers, NEW j \in Journals, NEW raw, CreateJournal(w, j, raw)
    PROVE  JournalInv'
<1>1. CASE Created(j)
  BY <1>1, CreateAnswered, AnswerStep, ZenonT(30) DEF CreateJournal
<1>2. CASE ~Created(j)
  <2> DEFINE c == [st |-> "create", j |-> j, labels |-> NormalizeNames(raw), now |-> jclock]
  <2>1. jcall' = [jcall EXCEPT ![w] = c] /\ janswer' = None /\ UNCHANGED tableVars
    BY <1>2, ZenonT(30) DEF CreateJournal
  <2>2. c.st = "create" /\ c.j = j
    BY ZenonT(30)
  <2> HIDE DEF c
  <2>3. jcall'[w] = c
    BY <2>1, ZenonT(30) DEF JournalInv, JournalShape
  <2>4. Pending(w)' /\ AnswerStored'
    BY <2>1, <2>2, <2>3, ZenonT(30) DEF Pending, AnswerStored
  <2> QED
    BY <2>1, <2>2, <2>4, CallStep, ZenonT(30)
<1> QED
  BY <1>1, <1>2, ZenonT(30)

\* A create that finds its journal answers from the stored row.
LEMMA CreateCollidesStep ==
    ASSUME JournalInv, NEW w \in Writers, CreateCollides(w)
    PROVE  JournalInv'
<1>1. jcall[w].j \in Journals /\ Created(jcall[w].j)
  BY ZenonT(30) DEF CreateCollides, JournalInv, Pending
<1>2. AnswerStored'
  BY <1>1, CreateAnswered, ZenonT(30) DEF CreateCollides
<1>3. NoRequest.st = "idle" /\ jcall' = [jcall EXCEPT ![w] = NoRequest] /\ UNCHANGED tableVars
  BY ZenonT(30) DEF CreateCollides, NoRequest
<1>4. jcall'[w] = NoRequest
  BY <1>3, ZenonT(30) DEF JournalInv, JournalShape
<1>5. Pending(w)'
  BY <1>3, <1>4, ZenonT(30) DEF Pending
<1> QED
  BY <1>2, <1>3, <1>5, CallStep, ZenonT(30)

\* An append that fails rolls back: no row changes.
LEMMA AppendRollsBackStep ==
    ASSUME JournalInv, NEW w \in Writers, AppendRollsBack(w)
    PROVE  JournalInv'
<1>1. /\ NoRequest.st = "idle" /\ jcall' = [jcall EXCEPT ![w] = NoRequest]
      /\ UNCHANGED tableVars /\ janswer' = janswer
  BY ZenonT(30) DEF AppendRollsBack, NoRequest
<1>2. jcall'[w] = NoRequest
  BY <1>1, ZenonT(30) DEF JournalInv, JournalShape
<1>3. Pending(w)'
  BY <1>1, <1>2, ZenonT(30) DEF Pending
<1>4. journal' = journal /\ entries' = entries
  BY <1>1, ZenonT(30) DEF tableVars
<1>5. AnswerStored'
  BY <1>1, <1>4, ZenonT(30) DEF JournalInv, AnswerStored, Stores, Created
<1> QED
  BY <1>1, <1>3, <1>5, CallStep, ZenonT(30)

\* AppendJournalEntries locks the journal row and reads its head.
LEMMA AppendJournalEntriesStep ==
    ASSUME JournalInv, NEW w \in Writers, NEW j \in Journals, NEW id \in AppendIds, NEW batch \in Batches,
           AppendJournalEntries(w, j, id, batch)
    PROVE  JournalInv'
<1>1. UNCHANGED tableVars /\ journal' = journal /\ entries' = entries /\ requests' = requests
  BY ZenonT(30) DEF AppendJournalEntries, tableVars
<1>2. CASE Applied(j, id)
  <2> DEFINE r == requests[j][id]
  <2>1. UNCHANGED jcall /\ janswer' = IF SameRequest(r, w, batch) THEN JournalAnswer(j, batch, r) ELSE None
    BY <1>2, ZenonT(30) DEF AppendJournalEntries, AppendKnown
  <2>2. CASE SameRequest(r, w, batch)
    <3>1. Stores(j, r.hash, r.first, r.last) /\ r.hash = Normalized(batch)
      BY <1>2, <2>2, ZenonT(30) DEF JournalInv, RequestsStored, SameRequest
    <3> HIDE DEF r
    <3>2. /\ janswer'.op = "append" /\ janswer'.j = j /\ janswer'.batch = Normalized(batch)
          /\ janswer'.first = r.first /\ janswer'.last = r.last
      BY <2>1, <2>2, ZenonT(30) DEF JournalAnswer
    <3>3. Stores(j, r.hash, r.first, r.last)'
      BY <1>1, <3>1, ZenonT(30) DEF Stores, r
    <3>4. r' = r
      BY <1>1, ZenonT(30) DEF r
    <3>5. AnswerStored'
      BY <3>1, <3>2, <3>3, <3>4 DEF AnswerStored
    <3> QED
      BY <1>1, <2>1, <3>5, AnswerStep, ZenonT(30)
  <2>3. CASE ~SameRequest(r, w, batch)
    <3>1. AnswerStored'
      BY <2>1, <2>3, ZenonT(30) DEF AnswerStored
    <3> QED
      BY <1>1, <2>1, <3>1, AnswerStep
  <2> QED
    BY <2>2, <2>3, ZenonT(30)
<1>3. CASE ~Applied(j, id)
  <2> DEFINE rows == Chained(journal[j], batch, resolveJournalAppendSource(batch), jclock)
             c == [st |-> "append", j |-> j, id |-> id, batch |-> batch, rows |-> rows]
  <2>1. jcall' = [jcall EXCEPT ![w] = c] /\ janswer' = None
    BY <1>3, ZenonT(30) DEF AppendJournalEntries, AppendPrepares
  <2>2. Created(j) /\ Unlocked(j) /\ batch # <<>>
    BY ZenonT(30) DEF AppendJournalEntries, ValidBatch
  <2>3. journal[j].next \in Nat
    <3>1. journal[j].next = Len(entries[j]) + 1
      BY <2>2, ChainOfEach, ZenonT(30) DEF JournalInv, ChainOf
    <3>2. Len(entries[j]) \in Nat
      BY SequenceOver, ZenonT(30) DEF JournalInv, JournalShape, IsSequence
    <3> QED
      BY <3>1, <3>2
  <2>4. Continues(rows, journal[j], batch)
    BY <2>2, <2>3, ChainedContinues, ZenonT(30)
  <2> HIDE DEF rows
  <2>5. c.st = "append" /\ c.j = j /\ c.id = id /\ c.batch = batch /\ c.rows = rows
    BY ZenonT(30)
  <2> HIDE DEF c
  <2>6. jcall'[w] = c
    BY <2>1, ZenonT(30) DEF JournalInv, JournalShape
  <2>7. Created(j)' /\ ~Applied(j, id)'
    BY <1>1, <1>3, <2>2, ZenonT(30) DEF Created, Applied
  <2>8. Continues(jcall'[w].rows, journal'[j], batch)
    BY <1>1, <2>4, <2>5, <2>6, ZenonT(30)
  <2>9. Pending(w)'
    BY <2>5, <2>6, <2>7, <2>8, ZenonT(30) DEF Pending, Created, Applied
  <2>10. AnswerStored'
    BY <2>1, ZenonT(30) DEF AnswerStored
  <2> QED
    BY <1>1, <2>1, <2>2, <2>5, <2>9, <2>10, CallStep, ZenonT(30)
<1> QED
  BY <1>2, <1>3, ZenonT(30)

\* The insert of CreateJournal makes a journal with an empty chain.
LEMMA CreateInsertsStep ==
    ASSUME JournalInv, NEW w \in Writers, CreateInserts(w)
    PROVE  JournalInv'
<1>0. PICK j : j = jcall[w].j
  BY ZenonT(30)
<1> DEFINE labels == jcall[w].labels
           genesis == GenesisDocument(j, labels, jcall[w].now)
           row == [create |-> CreateHash(j, labels), genesis |-> genesis, genesisHash |-> genesis,
                   head |-> genesis, next |-> 1, labels |-> labels]
<1>1. j \in Journals /\ ~Created(j)
  BY <1>0, ZenonT(30) DEF CreateInserts, JournalInv, Pending
<1>2. /\ journal' = [journal EXCEPT ![j] = row] /\ jcall' = [jcall EXCEPT ![w] = NoRequest]
      /\ entries' = entries /\ requests' = requests /\ janswer' = janswer
  BY <1>0, ZenonT(30) DEF CreateInserts, InsertJournal
<1>3. /\ DOMAIN row = JournalColumns /\ row.create = CreateHash(j, row.labels)
      /\ row.next = 1 /\ row.head = row.genesis
  BY ZenonT(30) DEF JournalColumns
<1> HIDE DEF row
<1>4. journal'[j] = row /\ \A k \in Journals \ {j} : journal'[k] = journal[k]
  BY <1>1, <1>2, ZenonT(30) DEF JournalInv, JournalShape
<1>5. jcall'[w].st = "idle" /\ \A v \in Writers \ {w} : jcall'[v] = jcall[v]
  BY <1>2, ZenonT(30) DEF JournalInv, JournalShape, NoRequest
<1>6. JournalShape'
  BY <1>1, <1>2, ZenonT(30) DEF JournalInv, JournalShape
<1>7. Created(j)' /\ \A k \in Journals \ {j} : Created(k)' <=> Created(k)
  BY <1>3, <1>4 DEF Created
<1>8. JournalRows'
  <2> SUFFICES ASSUME NEW k \in Journals
               PROVE  /\ ~Created(k)' => journal'[k] = NoJournal /\ entries'[k] = <<>>
                      /\ Created(k)' => /\ DOMAIN journal'[k] = JournalColumns
                                        /\ journal'[k].create = CreateHash(k, journal'[k].labels)
    BY ZenonT(30) DEF JournalRows
  <2>1. CASE k = j
    BY <1>3, <1>4, <1>7, <2>1, ZenonT(30)
  <2>2. CASE k # j
    BY <1>2, <1>4, <1>7, <2>2, ZenonT(30) DEF JournalInv, JournalRows
  <2> QED
    BY <2>1, <2>2, ZenonT(30)
<1>9. ASSUME NEW k \in Journals, Created(k)' PROVE ChainOf(k)'
  <2>1. CASE k = j
    <3>1. entries'[j] = <<>> /\ Len(entries'[j]) = 0
      BY <1>1, <1>2 DEF JournalInv, JournalRows
    <3> QED
      BY <1>3, <1>4, <2>1, <3>1 DEF ChainOf, HashAt
  <2>2. CASE k # j
    <3>1. ChainOf(k)
      BY <1>7, <1>9, <2>2, ChainOfEach, ZenonT(30) DEF JournalInv
    <3> QED
      BY <1>2, <1>4, <2>2, <3>1 DEF ChainOf, HashAt
  <2> QED
    BY <2>1, <2>2, ZenonT(30)
<1>10. ChainIntact'
  <2>1. \A k \in Journals : Created(k)' => ChainOf(k)'
    BY <1>9, ZenonT(30)
  <2> QED
    BY <2>1, ZenonT(30) DEF ChainIntact, ChainOf, HashAt
<1>11. ASSUME NEW v \in Writers PROVE Pending(v)'
  <2>1. CASE v = w
    BY <1>5, <2>1, ZenonT(30) DEF Pending
  <2>2. CASE v # w
    BY <1>1, <1>2, <1>4, <1>5, <1>7, <2>2 DEF JournalInv, Pending, Created, Applied
  <2> QED
    BY <2>1, <2>2, ZenonT(30)
<1>12. RowLocked'
  BY <1>5 DEF JournalInv, RowLocked
<1>13. RequestsStored'
  BY <1>2 DEF JournalInv, RequestsStored, Stores, Applied
<1>14. AnswerStored'
  <2>1. janswer # None /\ janswer.op = "create" => janswer.j # j
    BY <1>1, ZenonT(30) DEF JournalInv, AnswerStored
  <2> QED
    BY <1>2, <1>4, <1>7, <2>1, ZenonT(30) DEF JournalInv, AnswerStored, Stores
<1> QED
  BY <1>6, <1>8, <1>10, <1>11, <1>12, <1>13, <1>14 DEF JournalInv

\* Entries stored before an append are stored after it.
LEMMA StillStored ==
    ASSUME NEW j, NEW batch, NEW first, NEW last, NEW t, Stores(j, batch, first, last),
           IsSequence(entries[j]), IsSequence(t), entries'[j] = entries[j] \o t
    PROVE  Stores(j, batch, first, last)'
<1>1. /\ Len(entries[j]) \in Nat /\ Len(t) \in Nat /\ Len(entries'[j]) = Len(entries[j]) + Len(t)
      /\ \A i \in 1..Len(entries[j]) : entries'[j][i] = entries[j][i]
  BY Appended
<1>2. /\ Len(batch) \in Nat /\ DOMAIN batch = 1..Len(batch)
      /\ first \in Nat \ {0} /\ last = first + Len(batch) - 1 /\ last <= Len(entries[j])
  BY ZenonT(30) DEF Stores
<1>3. ASSUME NEW i \in 1..Len(batch) PROVE entries'[j][first + i - 1].subjects = batch[i].subjects
  <2>1. first + i - 1 \in 1..Len(entries[j])
    BY <1>1, <1>2
  <2>2. entries[j][first + i - 1].subjects = batch[i].subjects
    BY ZenonT(30) DEF Stores
  <2> QED
    BY <1>1, <2>1, <2>2, ZenonT(30)
<1>4. last <= Len(entries'[j])
  BY <1>1, <1>2
<1> QED
  BY <1>2, <1>3, <1>4, ZenonT(30) DEF Stores

\* What a commit makes of the tables: the rows that were prepared continue the
\* journal, and the request row r names them.
Commits(w, j, id, batch, rows, r) ==
    /\ j = jcall[w].j
    /\ Created(j) /\ ~Applied(j, id) /\ Continues(rows, journal[j], batch)
    /\ Len(entries[j]) \in Nat /\ Len(rows) \in Nat /\ r.hash = Normalized(batch)
    /\ r.first = Len(entries[j]) + 1 /\ r.last = Len(entries[j]) + Len(rows)
    /\ entries' = [entries EXCEPT ![j] = entries[j] \o rows]
    /\ requests' = [requests EXCEPT ![j] = [requests[j] EXCEPT ![id] = r]]
    /\ journal' = [journal EXCEPT ![j] =
            [journal[j] EXCEPT !.next = r.last + 1, !.head = rows[Len(rows)].hash]]
    /\ janswer' # None => janswer' = JournalAnswer(j, batch, r)

\* The rows an append prepared still continue the journal when it commits.
LEMMA CommitTables ==
    ASSUME JournalInv, NEW w \in Writers, AppendCommits(w)
    PROVE  \E j \in Journals, id \in AppendIds, batch \in Batches : \E rows, r : Commits(w, j, id, batch, rows, r)
<1> DEFINE c == jcall[w]
           r == RequestRow(w, c.batch, c.rows)
<1>1. /\ c.j \in Journals /\ c.id \in AppendIds /\ c.batch \in Batches
      /\ Created(c.j) /\ ~Applied(c.j, c.id) /\ Continues(c.rows, journal[c.j], c.batch)
  BY ZenonT(30) DEF AppendCommits, JournalInv, Pending
<1>2. /\ IsSequence(c.rows) /\ Len(c.rows) > 0
      /\ \A i \in 1..Len(c.rows) : c.rows[i].seq = journal[c.j].next + i - 1
  BY <1>1 DEF Continues
<1>3. Len(c.rows) \in Nat /\ Len(entries[c.j]) \in Nat
  BY <1>1, <1>2, SequenceOver DEF JournalInv, JournalShape, IsSequence
<1>4. journal[c.j].next = Len(entries[c.j]) + 1
  BY <1>1, ChainOfEach, ZenonT(30) DEF JournalInv, ChainOf
<1>5. c.rows[1].seq = Len(entries[c.j]) + 1 /\ c.rows[Len(c.rows)].seq = Len(entries[c.j]) + Len(c.rows)
  <2>1. 1 \in 1..Len(c.rows) /\ Len(c.rows) \in 1..Len(c.rows)
    BY <1>2, <1>3
  <2>2. /\ c.rows[1].seq = journal[c.j].next + 1 - 1
        /\ c.rows[Len(c.rows)].seq = journal[c.j].next + Len(c.rows) - 1
    BY <1>2, <2>1
  <2>3. /\ c.rows[1].seq = (Len(entries[c.j]) + 1) + 1 - 1
        /\ c.rows[Len(c.rows)].seq = (Len(entries[c.j]) + 1) + Len(c.rows) - 1
    BY <1>4, <2>2, Zenon
  <2>4. \A n, m \in Nat : (n + 1) + 1 - 1 = n + 1 /\ (n + 1) + m - 1 = n + m
    OBVIOUS
  <2> QED
    BY <1>3, <2>3, <2>4, Zenon
<1>6. r.hash = Normalized(c.batch) /\ r.first = c.rows[1].seq /\ r.last = c.rows[Len(c.rows)].seq
  BY ZenonT(30) DEF RequestRow
<1>8. /\ entries' = [entries EXCEPT ![c.j] = entries[c.j] \o c.rows]
      /\ requests' = [requests EXCEPT ![c.j] = [requests[c.j] EXCEPT ![c.id] = r]]
      /\ journal' = [journal EXCEPT ![c.j] =
              [journal[c.j] EXCEPT !.next = r.last + 1, !.head = c.rows[Len(c.rows)].hash]]
      /\ janswer' # None => janswer' = JournalAnswer(c.j, c.batch, r)
  BY ZenonT(30) DEF AppendCommits
<1> HIDE DEF r, c
<1>9. c.j = jcall[w].j
  BY ZenonT(30) DEF c
<1> QED
  BY <1>1, <1>3, <1>5, <1>6, <1>8, <1>9, ZenonT(30) DEF Commits

\* The commit of an append extends the chain by its batch and stores its request.
LEMMA AppendCommitsStep ==
    ASSUME JournalInv, NEW w \in Writers, AppendCommits(w)
    PROVE  JournalInv'
<1>1. PICK j \in Journals, id \in AppendIds, batch \in Batches : \E rows, r : Commits(w, j, id, batch, rows, r)
  BY CommitTables, ZenonT(30)
<1>c. PICK rows, r : Commits(w, j, id, batch, rows, r)
  BY <1>1, ZenonT(30)
<1>2. /\ j = jcall[w].j
      /\ Created(j) /\ ~Applied(j, id) /\ Continues(rows, journal[j], batch)
      /\ Len(entries[j]) \in Nat /\ Len(rows) \in Nat /\ r.hash = Normalized(batch)
      /\ r.first = Len(entries[j]) + 1 /\ r.last = Len(entries[j]) + Len(rows)
      /\ entries' = [entries EXCEPT ![j] = entries[j] \o rows]
      /\ requests' = [requests EXCEPT ![j] = [requests[j] EXCEPT ![id] = r]]
      /\ journal' = [journal EXCEPT ![j] =
              [journal[j] EXCEPT !.next = r.last + 1, !.head = rows[Len(rows)].hash]]
      /\ janswer' # None => janswer' = JournalAnswer(j, batch, r)
  BY <1>c, ZenonT(30) DEF Commits
<1>0. PICK n : n = Len(entries[j])
  BY ZenonT(30)
<1> DEFINE m == Len(rows)
<1>3. /\ IsSequence(rows) /\ m = Len(batch) /\ m > 0 /\ n \in Nat /\ m \in Nat
      /\ \A i \in 1..m : /\ rows[i].seq = journal[j].next + i - 1
                         /\ rows[i].prev = IF i = 1 THEN journal[j].head ELSE rows[i - 1].hash
                         /\ rows[i].hash = EntryHash(rows[i])
                         /\ rows[i].subjects = Normalized(batch)[i].subjects
  BY <1>0, <1>2, ZenonT(30) DEF Continues
<1>4. /\ IsSequence(entries[j]) /\ IsSequence(entries'[j]) /\ entries'[j] = entries[j] \o rows
      /\ Len(entries'[j]) = n + m
      /\ \A i \in 1..n : entries'[j][i] = entries[j][i]
      /\ \A i \in 1..m : entries'[j][n + i] = rows[i]
  <2>1. IsSequence(entries[j]) /\ entries'[j] = entries[j] \o rows
    BY <1>2, ZenonT(30) DEF JournalInv, JournalShape
  <2>2. /\ IsSequence(entries'[j]) /\ Len(entries'[j]) = Len(entries[j]) + Len(rows)
        /\ \A i \in 1..Len(entries[j]) : entries'[j][i] = entries[j][i]
        /\ \A i \in 1..Len(rows) : entries'[j][Len(entries[j]) + i] = rows[i]
    <3>1. IsSequence(entries[j]) /\ IsSequence(rows)
      BY <1>3, <2>1, ZenonT(30)
    <3>2. PICK s : s = entries[j]
      BY ZenonT(30)
    <3>3. /\ IsSequence(s \o rows) /\ Len(s \o rows) = Len(s) + Len(rows)
          /\ \A i \in 1..Len(s) : (s \o rows)[i] = s[i]
          /\ \A i \in 1..Len(rows) : (s \o rows)[Len(s) + i] = rows[i]
      BY <3>1, <3>2, Appended
    <3> QED
      BY ONLY <2>1, <3>2, <3>3, Zenon
  <2> QED
    BY ONLY <1>0, <2>1, <2>2, Zenon
<1>5. \A k \in Journals \ {j} : journal'[k] = journal[k] /\ entries'[k] = entries[k] /\ requests'[k] = requests[k]
  BY <1>2, ZenonT(30) DEF JournalInv, JournalShape
<1>6. /\ DOMAIN journal'[j] = JournalColumns /\ journal'[j].next = n + m + 1 /\ journal'[j].head = rows[m].hash
      /\ journal'[j].genesis = journal[j].genesis /\ journal'[j].labels = journal[j].labels
      /\ journal'[j].create = journal[j].create
  <2>1. DOMAIN journal[j] = JournalColumns
    BY <1>2, ZenonT(30) DEF JournalInv, JournalRows
  <2>2. journal'[j] = [journal[j] EXCEPT !.next = r.last + 1, !.head = rows[Len(rows)].hash]
    BY <1>2 DEF JournalInv, JournalShape
  <2>3. ASSUME NEW q, DOMAIN q = JournalColumns, NEW x, NEW y
        PROVE  LET z == [q EXCEPT !.next = x, !.head = y] IN
               /\ DOMAIN z = JournalColumns /\ z.next = x /\ z.head = y
               /\ z.genesis = q.genesis /\ z.labels = q.labels /\ z.create = q.create
    BY <2>3, ZenonT(30) DEF JournalColumns
  <2>4. r.last + 1 = n + m + 1
    BY <1>0, <1>2
  <2> QED
    BY ONLY <2>1, <2>2, <2>3, <2>4
<1>7. /\ requests'[j][id] = r
      /\ \A k \in AppendIds \ {id} : requests'[j][k] = requests[j][k]
  <2>1. requests'[j] = [requests[j] EXCEPT ![id] = r]
    BY <1>2 DEF JournalInv, JournalShape
  <2>2. requests[j] = [k \in AppendIds |-> requests[j][k]]
    BY ZenonT(30) DEF JournalInv, JournalShape
  <2> QED
    BY <2>1, <2>2
<1>8. jcall'[w].st = "idle" /\ \A v \in Writers \ {w} : jcall'[v] = jcall[v]
  BY ZenonT(30) DEF AppendCommits, JournalInv, JournalShape, NoRequest
<1>9. JournalShape'
  <2>1. journal' = [k \in Journals |-> journal'[k]] /\ entries' = [k \in Journals |-> entries'[k]]
    BY <1>2, ZenonT(30) DEF JournalInv, JournalShape
  <2>2. requests' = [k \in Journals |-> requests'[k]]
    BY <1>2, ZenonT(30) DEF JournalInv, JournalShape
  <2>3. ASSUME NEW k \in Journals PROVE requests'[k] = [i \in AppendIds |-> requests'[k][i]]
    <3>1. requests[k] = [i \in AppendIds |-> requests[k][i]]
      BY ZenonT(30) DEF JournalInv, JournalShape
    <3>2. CASE k = j
      BY <1>2, <3>1, <3>2, ZenonT(30) DEF JournalInv, JournalShape
    <3>3. CASE k # j
      BY <1>5, <3>1, <3>3
    <3> QED
      BY <3>2, <3>3
  <2>4. jcall' = [v \in Writers |-> jcall'[v]]
    BY ZenonT(30) DEF AppendCommits, JournalInv, JournalShape
  <2>5. \A k \in Journals : IsSequence(entries'[k])
    BY <1>4, <1>5, ZenonT(30) DEF JournalInv, JournalShape
  <2> QED
    BY <2>1, <2>2, <2>3, <2>4, <2>5 DEF JournalShape
<1>10. Created(j)' /\ \A k \in Journals : Created(k)' <=> Created(k)
  <2>1. journal'[j].next # 0 /\ journal[j].next # 0
    BY <1>2, <1>3, <1>6 DEF Created
  <2> QED
    BY <1>5, <2>1 DEF Created
<1>11. JournalRows'
  <2> SUFFICES ASSUME NEW k \in Journals
               PROVE  /\ ~Created(k)' => journal'[k] = NoJournal /\ entries'[k] = <<>>
                      /\ Created(k)' => /\ DOMAIN journal'[k] = JournalColumns
                                        /\ journal'[k].create = CreateHash(k, journal'[k].labels)
    BY DEF JournalRows
  <2>1. CASE k = j
    BY <1>2, <1>6, <1>10, <2>1 DEF JournalInv, JournalRows
  <2>2. CASE k # j
    BY <1>5, <1>10, <2>2 DEF JournalInv, JournalRows
  <2> QED
    BY <2>1, <2>2
<1>12. ChainOf(j)'
  <2>1. /\ ChainOf(j) /\ journal[j].next = n + 1
        /\ journal[j].head = HashAt(j, n)
    BY <1>0, <1>2, ChainOfEach, ZenonT(30) DEF JournalInv, ChainOf
  <2>2. ASSUME NEW i \in 0..n PROVE HashAt(j, i)' = HashAt(j, i)
    <3>1. CASE i = 0
      BY <1>6, <3>1 DEF HashAt
    <3>2. CASE i # 0
      <4>1. i \in 1..n
        BY <1>3, <3>2
      <4> QED
        BY <1>4, <3>2, <4>1, ZenonT(30) DEF HashAt
    <3> QED
      BY <3>1, <3>2
  <2>3. ASSUME NEW i \in 1..m PROVE HashAt(j, n + i)' = rows[i].hash
    <3>1. n + i # 0
      BY <1>3
    <3> QED
      BY <1>4, <3>1, ZenonT(30) DEF HashAt
  <2>4. ASSUME NEW i \in 1..n
        PROVE  /\ entries'[j][i].seq = i /\ entries'[j][i].prev = HashAt(j, i - 1)'
               /\ entries'[j][i].hash = EntryHash(entries'[j][i])
    <3>1. i - 1 \in 0..n /\ entries'[j][i] = entries[j][i]
      BY <1>3, <1>4
    <3>2. /\ entries[j][i].seq = i /\ entries[j][i].prev = HashAt(j, i - 1)
          /\ entries[j][i].hash = EntryHash(entries[j][i])
      BY <1>0, <2>1 DEF ChainOf
    <3> QED
      BY <2>2, <3>1, <3>2
  <2>5. ASSUME NEW i \in 1..m
        PROVE  /\ entries'[j][n + i].seq = n + i /\ entries'[j][n + i].prev = HashAt(j, n + i - 1)'
               /\ entries'[j][n + i].hash = EntryHash(entries'[j][n + i])
    <3>1. entries'[j][n + i] = rows[i]
      BY <1>4, ZenonT(30)
    <3>2. rows[i].seq = n + i
      <4>1. rows[i].seq = (n + 1) + i - 1
        BY <1>3, <2>1, Zenon
      <4>2. (n + 1) + i - 1 = n + i
        BY <1>3
      <4> QED
        BY <4>1, <4>2
    <3>3. rows[i].prev = HashAt(j, n + i - 1)'
      <4>1. CASE i = 1
        <5>1. n + i - 1 = n /\ n \in 0..n
          BY <1>3, <4>1
        <5> QED
          BY <1>3, <2>1, <2>2, <4>1, <5>1
      <4>2. CASE i # 1
        <5>1. i - 1 \in 1..m /\ n + i - 1 = n + (i - 1)
          BY <1>3, <4>2
        <5> QED
          BY <1>3, <2>3, <4>2, <5>1
      <4> QED
        BY <4>1, <4>2
    <3> QED
      BY <1>3, <3>1, <3>2, <3>3
  <2>6. ASSUME NEW i \in 1..(n + m)
        PROVE  /\ entries'[j][i].seq = i /\ entries'[j][i].prev = HashAt(j, i - 1)'
               /\ entries'[j][i].hash = EntryHash(entries'[j][i])
    <3>1. CASE i \in 1..n
      BY <2>4, <3>1
    <3>2. CASE i \notin 1..n
      <4>1. i - n \in 1..m /\ n + (i - n) = i /\ n + (i - n) - 1 = i - 1
        BY <1>3, <3>2
      <4> QED
        BY <2>5, <4>1
    <3> QED
      BY <3>1, <3>2
  <2>7. HashAt(j, n + m)' = rows[m].hash
    <3>1. m \in 1..m
      BY <1>3
    <3> HIDE DEF m
    <3> QED
      BY <2>3, <3>1
  <2> QED
    BY <1>4, <1>6, <2>6, <2>7, ZenonT(30) DEF ChainOf
<1>13. ChainIntact'
  <2>1. ASSUME NEW k \in Journals, Created(k)' PROVE ChainOf(k)'
    <3>1. CASE k = j
      BY <1>12, <3>1
    <3>2. CASE k # j
      <4>1. ChainOf(k)
        BY <1>10, <2>1, ChainOfEach DEF JournalInv
      <4> QED
        BY <1>5, <3>2, <4>1 DEF ChainOf, HashAt
    <3> QED
      BY <3>1, <3>2
  <2>2. \A k \in Journals : Created(k)' => ChainOf(k)'
    BY <2>1
  <2> QED
    BY <2>2 DEF ChainIntact, ChainOf, HashAt
<1>14. ASSUME NEW v \in Writers PROVE Pending(v)'
  <2>1. CASE v = w
    BY <1>8, <2>1 DEF Pending
  <2>2. CASE v # w
    <3>1. jcall[v].st = "append" => jcall[v].j # j
      BY <1>2, <2>2, ZenonT(30) DEF JournalInv, RowLocked, AppendCommits
    <3> QED
      BY <1>5, <1>8, <2>2, <3>1 DEF JournalInv, Pending, Created, Applied
  <2> QED
    BY <2>1, <2>2
<1>15. RowLocked'
  BY <1>8 DEF JournalInv, RowLocked
<1>16. ASSUME NEW k \in Journals, NEW b, NEW first, NEW last, Stores(k, b, first, last)
       PROVE  Stores(k, b, first, last)'
  <2>1. CASE k = j
    BY <1>3, <1>4, <1>16, <2>1, StillStored
  <2>2. CASE k # j
    BY <1>5, <1>16, <2>2 DEF Stores
  <2> QED
    BY <2>1, <2>2
<1>17. Stores(j, Normalized(batch), r.first, r.last)'
  <2>1. /\ Len(Normalized(batch)) = m /\ DOMAIN Normalized(batch) = 1..m
        /\ r.first = n + 1 /\ r.last = n + m
    BY <1>0, <1>2, <1>3, NormalizedBatch
  <2>2. r.first \in Nat \ {0} /\ r.last = r.first + m - 1 /\ r.last <= Len(entries'[j])
    <3>1. n + 1 \in Nat \ {0} /\ n + m = (n + 1) + m - 1 /\ n + m <= n + m
      BY <1>3
    <3> QED
      BY ONLY <1>4, <2>1, <3>1, Zenon
  <2>3. ASSUME NEW i \in 1..m
        PROVE  entries'[j][r.first + i - 1].subjects = Normalized(batch)[i].subjects
    <3>1. r.first + i - 1 = n + i
      <4>1. (n + 1) + i - 1 = n + i
        BY <1>3
      <4> QED
        BY ONLY <2>1, <4>1, Zenon
    <3>2. rows[i].subjects = Normalized(batch)[i].subjects
      BY <1>3
    <3>3. entries'[j][n + i] = rows[i]
      BY <1>4, ZenonT(30)
    <3> QED
      BY ONLY <3>1, <3>2, <3>3, Zenon
  <2> QED
    BY <1>3, <2>1, <2>2, <2>3 DEF Stores
<1>18. RequestsStored'
  <2> SUFFICES ASSUME NEW k \in Journals, NEW i \in AppendIds, Applied(k, i)'
               PROVE  Stores(k, requests[k][i].hash, requests[k][i].first, requests[k][i].last)'
    BY DEF RequestsStored
  <2>1. CASE k = j /\ i = id
    BY <1>2, <1>7, <1>17, <2>1
  <2>2. CASE ~(k = j /\ i = id)
    <3>1. requests'[k][i] = requests[k][i]
      BY <1>5, <1>7, <2>2
    <3>2. Stores(k, requests[k][i].hash, requests[k][i].first, requests[k][i].last)
      BY <3>1 DEF JournalInv, RequestsStored, Applied
    <3> QED
      BY <1>16, <3>1, <3>2
  <2> QED
    BY <2>1, <2>2
<1>19. AnswerStored'
  <2> SUFFICES ASSUME janswer' # None
               PROVE  /\ janswer'.op \in {"create", "append"} /\ janswer'.j \in Journals
                      /\ janswer'.op = "create" => Created(janswer.j)' /\ journal'[janswer'.j].labels = janswer'.labels
                      /\ janswer'.op = "append" => Stores(janswer.j, janswer.batch, janswer.first, janswer.last)'
    BY DEF AnswerStored
  <2>1. /\ janswer'.op = "append" /\ janswer'.j = j /\ janswer'.batch = Normalized(batch)
        /\ janswer'.first = r.first /\ janswer'.last = r.last
    BY <1>2 DEF JournalAnswer
  <2> QED
    BY <1>17, <2>1 DEF Stores
<1> QED
  BY <1>9, <1>11, <1>13, <1>14, <1>15, <1>18, <1>19 DEF JournalInv

-----------------------------------------------------------------------------
(* The invariant *)

\* The empty tables satisfy the invariant.
LEMMA JournalInitInv == JournalInit => JournalInv
<1> SUFFICES ASSUME JournalInit PROVE JournalInv
  OBVIOUS
<1>1. NoJournal.next = 0 /\ NoAppend.last = 0 /\ NoRequest.st = "idle"
  BY DEF NoJournal, NoAppend, NoRequest
<1>2. /\ \A j \in Journals : journal[j] = NoJournal /\ entries[j] = <<>> /\ ~Created(j)
      /\ \A j \in Journals : \A id \in AppendIds : ~Applied(j, id)
      /\ \A w \in Writers : jcall[w].st = "idle"
      /\ janswer = None
  BY <1>1 DEF JournalInit, Created, Applied
<1>3. JournalShape
  <2>1. IsSequence(<<>>)
    BY DEF IsSequence
  <2> QED
    BY <2>1 DEF JournalInit, JournalShape
<1>4. JournalRows /\ ChainIntact
  BY <1>2 DEF JournalRows, ChainIntact
<1>5. (\A w \in Writers : Pending(w)) /\ RowLocked
  BY <1>2 DEF Pending, RowLocked
<1>6. RequestsStored /\ AnswerStored
  BY <1>2 DEF RequestsStored, AnswerStored
<1> QED
  BY <1>3, <1>4, <1>5, <1>6 DEF JournalInv

\* Every step of the journal preserves the invariant.
LEMMA JournalStep == JournalInv /\ [JournalNext]_journalVars => JournalInv'
<1> SUFFICES ASSUME JournalInv, [JournalNext]_journalVars PROVE JournalInv'
  OBVIOUS
<1>1. CASE UNCHANGED journalVars
  BY <1>1, TablesAloneStep DEF journalVars, tableVars
<1>2. ASSUME NEW w \in Writers, NEW j \in Journals, NEW raw \in CreateLabels, handleJournalCreate(w, j, raw)
      PROVE  JournalInv'
  BY <1>2, CreateJournalStep DEF handleJournalCreate
<1>3. ASSUME NEW w \in Writers, NEW j \in Journals, NEW id \in AppendIds, NEW batch \in Batches,
             handleJournalAppend(w, j, id, batch)
      PROVE  JournalInv'
  BY <1>3, AppendJournalEntriesStep DEF handleJournalAppend
<1>4. ASSUME NEW w \in Writers, CreateInserts(w) \/ CreateCollides(w) \/ AppendCommits(w) \/ AppendRollsBack(w)
      PROVE  JournalInv'
  BY <1>4, CreateInsertsStep, CreateCollidesStep, AppendCommitsStep, AppendRollsBackStep
<1>5. CASE Tamper
  BY <1>5, TablesAloneStep DEF Tamper
<1>6. CASE \E j \in Journals : VerifyJournal(j) \/ JournalCat(j)
  BY <1>6, TablesAloneStep DEF VerifyJournal, JournalCat
<1>7. CASE VerifyPage \/ VerifyEnds
  BY <1>7, TablesAloneStep DEF VerifyPage, VerifyEnds
<1>8. CASE \E kind \in {"entries", "journals"}, n \in SearchNames : ValidNames({n}) /\ FindStarts(kind, Canonical[n])
  BY <1>8, TablesAloneStep DEF FindStarts
<1>9. CASE FindPage \/ FindExpires
  BY <1>9, TablesAloneStep DEF FindPage, FindExpires
<1>10. CASE CatPage \/ ReaderEnds \/ JournalTick
  BY <1>10, TablesAloneStep, ZenonT(30) DEF CatPage, ReaderEnds, JournalTick
<1> QED
  BY <1>1, <1>2, <1>3, <1>4, <1>5, <1>6, <1>7, <1>8, <1>9, <1>10, ZenonT(30) DEF JournalNext

\* The inductive invariant.
LEMMA JournalInvariant == JournalSpec => []JournalInv
BY JournalInitInv, JournalStep, PTL DEF JournalSpec

\* Whatever appends run side by side, are retried or roll back, the committed
\* entries are numbered without a gap and are one hash chain from the genesis
\* to the head.
THEOREM ChainIntactAlways == JournalSpec => []ChainIntact
<1>1. JournalInv => ChainIntact
  BY DEF JournalInv
<1> QED
  BY <1>1, JournalInvariant, PTL

\* The answer to a create or an append, first or repeated, is what the tables hold.
THEOREM AnswersStored == JournalSpec => []AckedIsStored
<1>1. JournalInv => AckedIsStored
  <2> SUFFICES ASSUME JournalInv, janswer # None PROVE AckedIsStored
    BY DEF AckedIsStored
  <2>1. CASE janswer.op = "create"
    BY <2>1 DEF JournalInv, AnswerStored, AckedIsStored
  <2>2. CASE janswer.op = "append"
    <3>1. Stores(janswer.j, janswer.batch, janswer.first, janswer.last)
      BY <2>2 DEF JournalInv, AnswerStored
    <3>2. /\ Len(janswer.batch) \in Nat /\ DOMAIN janswer.batch = 1..Len(janswer.batch)
          /\ janswer.first \in Nat /\ janswer.last = janswer.first + Len(janswer.batch) - 1
          /\ janswer.last <= Len(entries[janswer.j])
      BY <3>1 DEF Stores
    <3>3. janswer.last - janswer.first + 1 = Len(janswer.batch)
      BY <3>2
    <3> QED
      BY <2>2, <3>1, <3>2, <3>3 DEF AckedIsStored, Stores
  <2> QED
    BY <2>1, <2>2 DEF JournalInv, AnswerStored
<1> QED
  BY <1>1, JournalInvariant, PTL

-----------------------------------------------------------------------------
(* The tables implement the log *)

\* The empty tables are the empty log.
LEMMA LogInitially == JournalInit => Log!LogInit
<1> SUFFICES ASSUME JournalInit PROVE Log!LogInit
  BY ZenonT(30)
<1>1. \A j \in Journals : ~Created(j) /\ \A id \in AppendIds : ~Applied(j, id)
  BY DEF JournalInit, Created, Applied, NoJournal, NoAppend
<1> QED
  BY <1>1 DEF JournalInit, Log!LogInit

\* Steps that leave the tables are no steps of the log.
LEMMA TablesAloneLog ==
    ASSUME UNCHANGED tableVars
    PROVE  UNCHANGED Log!logVars
BY DEF tableVars, Log!logVars, Created, Applied

\* The insert of CreateJournal is the create step of the log.
LEMMA CreateInsertsLog ==
    ASSUME JournalInv, NEW w \in Writers, CreateInserts(w)
    PROVE  Log!CreateLog(jcall[w].j) /\ jcall[w].j \in Journals
<1>1. PICK j : j = jcall[w].j
  BY ZenonT(30)
<1>2. j \in Journals /\ ~Created(j)
  BY <1>1 DEF CreateInserts, JournalInv, Pending
<1>3. Created(j)' /\ \A k \in Journals \ {j} : Created(k)' <=> Created(k)
  BY <1>1, <1>2 DEF CreateInserts, InsertJournal, JournalInv, JournalShape, Created
<1>4. {k \in Journals : Created(k)}' = {k \in Journals : Created(k)} \cup {j}
  BY <1>2, <1>3
<1>5. entries' = entries /\ requests' = requests
  BY DEF CreateInserts
<1>6. [k \in Journals |-> {id \in AppendIds : Applied(k, id)}]' = [k \in Journals |-> {id \in AppendIds : Applied(k, id)}]
  BY <1>5 DEF Applied
<1> QED
  BY <1>1, <1>2, <1>4, <1>5, <1>6 DEF Log!CreateLog

\* The commit of an append is one append step of the log.
LEMMA AppendCommitsLog ==
    ASSUME JournalInv, NEW w \in Writers, AppendCommits(w)
    PROVE  \E j \in Journals, id \in AppendIds : Log!AppendTo(j, id)
<1>1. PICK j \in Journals, id \in AppendIds, batch \in Batches : \E rows, r : Commits(w, j, id, batch, rows, r)
  BY CommitTables
<1>c. PICK rows, r : Commits(w, j, id, batch, rows, r)
  BY <1>1
<1>2. /\ j = jcall[w].j
      /\ Created(j) /\ ~Applied(j, id) /\ Continues(rows, journal[j], batch)
      /\ Len(entries[j]) \in Nat /\ Len(rows) \in Nat /\ r.hash = Normalized(batch)
      /\ r.first = Len(entries[j]) + 1 /\ r.last = Len(entries[j]) + Len(rows)
      /\ entries' = [entries EXCEPT ![j] = entries[j] \o rows]
      /\ requests' = [requests EXCEPT ![j] = [requests[j] EXCEPT ![id] = r]]
      /\ journal' = [journal EXCEPT ![j] =
              [journal[j] EXCEPT !.next = r.last + 1, !.head = rows[Len(rows)].hash]]
      /\ janswer' # None => janswer' = JournalAnswer(j, batch, r)
  BY <1>c DEF Commits
<1>3. IsSequence(rows) /\ Len(rows) > 0 /\ IsSequence(entries[j])
  BY <1>2 DEF Continues, JournalInv, JournalShape
<1>4. r.last # 0 /\ r.last + 1 # 0
  BY <1>2, <1>3
<1>5. /\ Len(entries'[j]) > Len(entries[j]) /\ SubSeq(entries'[j], 1, Len(entries[j])) = entries[j]
      /\ \A k \in Journals \ {j} : entries'[k] = entries[k]
  <2>1. entries'[j] = entries[j] \o rows /\ \A k \in Journals \ {j} : entries'[k] = entries[k]
    BY <1>2, ZenonT(30) DEF JournalInv, JournalShape
  <2>2. Len(entries[j] \o rows) = Len(entries[j]) + Len(rows) /\ SubSeq(entries[j] \o rows, 1, Len(entries[j])) = entries[j]
    BY <1>3, Appended, ZenonT(30)
  <2>3. Len(entries[j]) + Len(rows) > Len(entries[j])
    BY <1>2, <1>3
  <2> QED
    BY <2>1, <2>2, <2>3
<1>6. {k \in Journals : Created(k)}' = {k \in Journals : Created(k)}
  <2>1. journal'[j].next = r.last + 1
    <3>1. DOMAIN journal[j] = JournalColumns
      BY <1>2 DEF JournalInv, JournalRows
    <3>2. journal'[j] = [journal[j] EXCEPT !.next = r.last + 1, !.head = rows[Len(rows)].hash]
      BY <1>2 DEF JournalInv, JournalShape
    <3> QED
      BY <3>1, <3>2 DEF JournalColumns
  <2>2. \A k \in Journals \ {j} : journal'[k] = journal[k]
    BY <1>2, ZenonT(30) DEF JournalInv, JournalShape
  <2> QED
    BY <1>2, <1>4, <2>1, <2>2 DEF Created
<1>7. [k \in Journals |-> {i \in AppendIds : Applied(k, i)}]' =
      [[k \in Journals |-> {i \in AppendIds : Applied(k, i)}] EXCEPT ![j] = @ \cup {id}]
  <2>1. requests'[j] = [requests[j] EXCEPT ![id] = r] /\ \A k \in Journals \ {j} : requests'[k] = requests[k]
    BY <1>2, ZenonT(30) DEF JournalInv, JournalShape
  <2>2. requests[j] = [k \in AppendIds |-> requests[j][k]]
    BY DEF JournalInv, JournalShape
  <2>3. requests'[j][id] = r /\ \A k \in AppendIds \ {id} : requests'[j][k] = requests[j][k]
    BY <2>1, <2>2
  <2>4. {i \in AppendIds : Applied(j, i)}' = {i \in AppendIds : Applied(j, i)} \cup {id}
    BY <1>4, <2>3 DEF Applied
  <2>5. \A k \in Journals \ {j} : {i \in AppendIds : Applied(k, i)}' = {i \in AppendIds : Applied(k, i)}
    BY <2>1 DEF Applied
  <2> QED
    BY <2>4, <2>5, ZenonT(30)
<1>8. Log!AppendTo(j, id)
  BY <1>2, <1>5, <1>6, <1>7, ZenonT(30) DEF Log!AppendTo
<1> QED
  BY <1>8

\* Every step of the journal is a step of the log or leaves the log as it is.
LEMMA LogStep == JournalInv /\ [JournalNext]_journalVars => [Log!LogNext]_Log!logVars
<1> SUFFICES ASSUME JournalInv, [JournalNext]_journalVars PROVE [Log!LogNext]_Log!logVars
  OBVIOUS
<1>1. CASE UNCHANGED journalVars
  BY <1>1, TablesAloneLog DEF journalVars, tableVars
<1>2. ASSUME NEW w \in Writers, NEW j \in Journals,
             \/ \E raw \in CreateLabels : handleJournalCreate(w, j, raw)
             \/ \E id \in AppendIds, batch \in Batches : handleJournalAppend(w, j, id, batch)
      PROVE  UNCHANGED Log!logVars
  BY <1>2, TablesAloneLog, ZenonT(30) DEF handleJournalCreate, CreateJournal, handleJournalAppend, AppendJournalEntries
<1>3. ASSUME NEW w \in Writers, CreateCollides(w) \/ AppendRollsBack(w) PROVE UNCHANGED Log!logVars
  BY <1>3, TablesAloneLog DEF CreateCollides, AppendRollsBack
<1>4. ASSUME NEW w \in Writers, CreateInserts(w) PROVE Log!LogNext
  BY <1>4, CreateInsertsLog DEF Log!LogNext
<1>5. ASSUME NEW w \in Writers, AppendCommits(w) PROVE Log!LogNext
  BY <1>5, AppendCommitsLog DEF Log!LogNext
<1>6. CASE Tamper \/ \E j \in Journals : VerifyJournal(j) \/ JournalCat(j)
  BY <1>6, TablesAloneLog DEF Tamper, VerifyJournal, JournalCat
<1>7. CASE VerifyPage \/ VerifyEnds \/ FindPage \/ FindExpires
  BY <1>7, TablesAloneLog DEF VerifyPage, VerifyEnds, FindPage, FindExpires
<1>8. CASE \E kind \in {"entries", "journals"}, n \in SearchNames : ValidNames({n}) /\ FindStarts(kind, Canonical[n])
  BY <1>8, TablesAloneLog DEF FindStarts
<1>9. CASE CatPage \/ ReaderEnds \/ JournalTick
  BY <1>9, TablesAloneLog, ZenonT(30) DEF CatPage, ReaderEnds, JournalTick
<1> QED
  BY <1>1, <1>2, <1>3, <1>4, <1>5, <1>6, <1>7, <1>8, <1>9, ZenonT(30) DEF JournalNext

\* The tables implement the log: entries are only added, at the end and behind
\* the journal they continue, and an idempotency key adds its entries once.
THEOREM JournalIsLog == JournalSpec => ImplementsLog
BY LogInitially, LogStep, JournalInvariant, PTL DEF JournalSpec, ImplementsLog, Log!LogSpec
=============================================================================
