--------------------------- MODULE AgentJournal ---------------------------
(***************************************************************************)
(* The agent journal of one tenant: the tables of the journals, their      *)
(* entries and the two query projections (labels of a journal, subjects of *)
(* an entry), the append requests that make retries idempotent, and the    *)
(* readers: verification, keyset search, and a client that follows a       *)
(* journal.                                                                *)
(*                                                                         *)
(* A hash is the value it is taken of: SHA-256 over canonical JSON is      *)
(* collision-free here.  A raw text is a member of RawNames, and Canonical *)
(* is what trimming, case folding and NFC make of it.                      *)
(***************************************************************************)
EXTENDS Common, Integers, FiniteSets, Sequences

CONSTANTS
    Journals,       \* journal ids: numbers, for their collation order
    Writers,        \* API keys that create and append
    AppendIds,      \* idempotency keys
    RawNames,       \* labels and subjects as sent
    Canonical,      \* [RawNames -> canonical names, or Invalid]
    CreateLabels,   \* the raw label sets of create requests
    SearchNames,    \* the raw names searches ask for
    Batches,        \* the raw batches of append requests
    Permissions,    \* [Writers -> the journal permissions of the key]
    JournalPage,    \* limit of a page
    SinceWindow,    \* a duration given as since
    JournalMaxTime  \* bound on the clock

Invalid == "invalid"

ASSUME JournalAssumption ==
    /\ Journals \subseteq Nat
    /\ DOMAIN Canonical = RawNames /\ DOMAIN Permissions = Writers
    /\ CreateLabels \subseteq SUBSET RawNames
    /\ JournalPage \in Nat \ {0}
    /\ SinceWindow \in Nat /\ JournalMaxTime \in Nat
    /\ Batches \subseteq Seq([subjects : SUBSET RawNames, source : STRING])

VARIABLES
    journal,     \* [Journals -> row of journals, or NoJournal]
    entries,     \* [Journals -> the rows of journal_entries, by seq]
    requests,    \* [Journals -> [AppendIds -> row of journal_append_requests, or NoAppend]]
    jcall,       \* [Writers -> the request of the client and its transaction]
    janswer,     \* the latest answer, until the next request, or None
    jdamage,     \* an edit of the tables by other means, or None
    jreader,     \* the latest verification, search or follower of a journal, or None
    jclock

journalVars == <<journal, entries, requests, jcall, janswer, jdamage, jreader, jclock>>
tableVars == <<journal, entries, requests>>

NoRequest == [st |-> "idle"]

\* next_seq starts at 1, and so do the sequence numbers of a request.
NoJournal == [next |-> 0]
NoAppend == [last |-> 0]

Created(j) == journal[j].next # 0
Applied(j, id) == requests[j][id].last # 0

JournalInit ==
    /\ journal = [j \in Journals |-> NoJournal]
    /\ entries = [j \in Journals |-> <<>>]
    /\ requests = [j \in Journals |-> [id \in AppendIds |-> NoAppend]]
    /\ jcall = [w \in Writers |-> NoRequest]
    /\ janswer = None
    /\ jdamage = None
    /\ jreader = None
    /\ jclock = 1

-----------------------------------------------------------------------------
(* Canonical forms and hashes *)

\* Trimmed, folded, without duplicates, in order: the set of canonical names.
NormalizeNames(raw) == {Canonical[n] : n \in raw}

ValidNames(raw) == Invalid \notin NormalizeNames(raw)

CreateHash(j, labels) == [id |-> j, labels |-> labels]

GenesisDocument(j, labels, now) == [id |-> j, labels |-> labels, created |-> now]

Normalized(batch) ==
    [i \in DOMAIN batch |-> [subjects |-> NormalizeNames(batch[i].subjects),
                             source |-> IF batch[i].source = "" THEN "self" ELSE batch[i].source]]

ValidBatch(batch) == batch # <<>> /\ \A i \in DOMAIN batch : ValidNames(batch[i].subjects)

\* All entries that name a source name the same one; it must be the writer's own or granted.
RequestedSources(batch) == {batch[i].source : i \in DOMAIN batch} \ {""}

resolveJournalAppendSource(batch) ==
    IF RequestedSources(batch) \subseteq {"self"} THEN "self" ELSE "gateway"

HasJournalPermission(w, p) == p \in Permissions[w]

\* One that names no source counts as self-reported and passes the check of the store.
SourceAllowed(w, batch) ==
    /\ Cardinality(RequestedSources(batch)) <= 1
    /\ "gateway" \in RequestedSources(batch) => HasJournalPermission(w, "source:gateway")

Entry(seq, source, subjects, now, prev) ==
    [seq |-> seq, source |-> source, subjects |-> subjects, observed |-> now, prev |-> prev]

\* The hash covers every column of the entry but itself, the hash of its predecessor included.
EntryHash(e) == Entry(e.seq, e.source, e.subjects, e.observed, e.prev)

\* Every entry is chained to the one before it, the first to the head of the journal.
ChainHeads(row, rows, source, now) ==
    LET head[i \in 0..Len(rows)] ==
            IF i = 0 THEN row.head
            ELSE Entry(row.next + i - 1, source, rows[i].subjects, now, head[i - 1])
    IN  head

Chained(row, batch, source, now) ==
    LET rows == Normalized(batch)
        head == ChainHeads(row, rows, source, now)
    IN  [i \in 1..Len(rows) |->
            [seq |-> row.next + i - 1, source |-> source, subjects |-> rows[i].subjects, observed |-> now,
             prev |-> head[i - 1], hash |-> head[i], projected |-> rows[i].subjects]]

-----------------------------------------------------------------------------
(* Creating a journal *)

\* The row and its labels go in together; next_seq starts at 1 and the head is the genesis hash.
InsertJournal(j, labels, now) ==
    journal' = [journal EXCEPT ![j] =
        [create |-> CreateHash(j, labels), genesis |-> GenesisDocument(j, labels, now),
         genesisHash |-> GenesisDocument(j, labels, now), head |-> GenesisDocument(j, labels, now),
         next |-> 1, labels |-> labels]]

\* An existing journal is returned if it was created by the same request; otherwise a conflict is.
CreateAnswer(j, labels) ==
    IF journal[j].create = CreateHash(j, labels) THEN [op |-> "create", j |-> j, labels |-> labels]
    ELSE None

\* When the locking read finds no row, nothing stops another create of the same id from inserting first.
CreateJournal(w, j, raw) ==
    /\ jcall[w] = NoRequest
    /\ ValidNames(raw)
    /\ IF ~Created(j)
       THEN /\ jcall' = [jcall EXCEPT ![w] =
                    [st |-> "create", j |-> j, labels |-> NormalizeNames(raw), now |-> jclock]]
            /\ janswer' = None
       ELSE janswer' = CreateAnswer(j, NormalizeNames(raw)) /\ UNCHANGED jcall
    /\ UNCHANGED <<tableVars, jdamage, jreader, jclock>>

CreateInserts(w) ==
    /\ jcall[w].st = "create" /\ ~Created(jcall[w].j)
    /\ InsertJournal(jcall[w].j, jcall[w].labels, jcall[w].now)
    /\ jcall' = [jcall EXCEPT ![w] = NoRequest]
    /\ UNCHANGED <<entries, requests, janswer, jdamage, jreader, jclock>>

\* The insert hits the unique key: read again, and compare the create hashes.
CreateCollides(w) ==
    /\ jcall[w].st = "create" /\ Created(jcall[w].j)
    /\ janswer' = CreateAnswer(jcall[w].j, jcall[w].labels)
    /\ jcall' = [jcall EXCEPT ![w] = NoRequest]
    /\ UNCHANGED <<tableVars, jdamage, jreader, jclock>>

-----------------------------------------------------------------------------
(* Appending *)

\* Mutant: the row is read without FOR UPDATE.
NeverLocked(j) == TRUE

\* The row lock of SELECT ... FOR UPDATE, held until the transaction ends.
Unlocked(j) == \A w \in Writers : ~(jcall[w].st = "append" /\ jcall[w].j = j)

\* Mutant: whoever sends a known key is answered from its row.
AnyRequest(r, w, batch) == TRUE

\* A known key is answered from its row if request, writer and source are the same.
SameRequest(r, w, batch) ==
    /\ r.hash = Normalized(batch) /\ r.writer = w
    /\ r.source = resolveJournalAppendSource(batch)

JournalAnswer(j, batch, r) ==
    [op |-> "append", j |-> j, batch |-> Normalized(batch), first |-> r.first, last |-> r.last]

\* The answer, or a conflict.
AppendKnown(w, j, id, batch) ==
    /\ janswer' = IF SameRequest(requests[j][id], w, batch) THEN JournalAnswer(j, batch, requests[j][id]) ELSE None
    /\ UNCHANGED jcall

AppendPrepares(w, j, id, batch) ==
    /\ jcall' = [jcall EXCEPT ![w] =
        [st |-> "append", j |-> j, id |-> id, batch |-> batch,
         rows |-> Chained(journal[j], batch, resolveJournalAppendSource(batch), jclock)]]
    /\ janswer' = None

AppendJournalEntries(w, j, id, batch) ==
    /\ jcall[w] = NoRequest
    /\ ValidBatch(batch)
    /\ Created(j) /\ Unlocked(j)
    /\ IF Applied(j, id) THEN AppendKnown(w, j, id, batch) ELSE AppendPrepares(w, j, id, batch)
    /\ UNCHANGED <<tableVars, jdamage, jreader, jclock>>

handleJournalCreate(w, j, raw) == HasJournalPermission(w, "create") /\ CreateJournal(w, j, raw)

\* The source is settled before the store is called.
handleJournalAppend(w, j, id, batch) ==
    /\ HasJournalPermission(w, "append")
    /\ SourceAllowed(w, batch)
    /\ AppendJournalEntries(w, j, id, batch)

RequestRow(w, batch, rows) ==
    [hash |-> Normalized(batch), writer |-> w, source |-> resolveJournalAppendSource(batch),
     first |-> rows[1].seq, last |-> rows[Len(rows)].seq]

\* Mutant: the request row is a statement of its own, lost with the answer.
AppendCommitsApart(w) ==
    LET c == jcall[w]
        r == RequestRow(w, c.batch, c.rows)
    IN  /\ c.st = "append"
        /\ entries' = [entries EXCEPT ![c.j] = @ \o c.rows]
        /\ journal' = [journal EXCEPT ![c.j] = [journal[c.j] EXCEPT !.next = r.last + 1, !.head = c.rows[Len(c.rows)].hash]]
        /\ jcall' = [jcall EXCEPT ![w] = NoRequest]
        /\ \/ /\ requests' = [requests EXCEPT ![c.j][c.id] = r]
              /\ janswer' = JournalAnswer(c.j, c.batch, r)
           \/ UNCHANGED requests /\ janswer' = None
        /\ UNCHANGED <<jdamage, jreader, jclock>>

\* Request row, entries with their subjects, new head: one transaction.  The answer may be lost.
AppendCommits(w) ==
    LET c == jcall[w]
        r == RequestRow(w, c.batch, c.rows)
    IN  /\ c.st = "append"
        /\ requests' = [requests EXCEPT ![c.j][c.id] = r]
        /\ entries' = [entries EXCEPT ![c.j] = @ \o c.rows]
        /\ journal' = [journal EXCEPT ![c.j] = [journal[c.j] EXCEPT !.next = r.last + 1, !.head = c.rows[Len(c.rows)].hash]]
        /\ jcall' = [jcall EXCEPT ![w] = NoRequest]
        /\ \/ janswer' = JournalAnswer(c.j, c.batch, r)
           \/ janswer' = None
        /\ UNCHANGED <<jdamage, jreader, jclock>>

AppendRollsBack(w) ==
    /\ jcall[w].st \in {"create", "append"}
    /\ jcall' = [jcall EXCEPT ![w] = NoRequest]
    /\ UNCHANGED <<tableVars, janswer, jdamage, jreader, jclock>>

-----------------------------------------------------------------------------
(* Readers.  They change no table, so one at a time is enough.  Only verification is to notice an edit *)
(* of the tables: nothing is edited under a search or a follower.                                      *)

\* An edit of the tables by other means: the latest entry is changed or deleted, or a projection row is.
\* Later appends leave the edit in the middle of the journal.
Tamper ==
    /\ jdamage = None
    /\ jreader # None => jreader.type = "verify"
    /\ \E j \in Journals, kind \in {"edit", "drop", "subject", "label"} :
        LET seq == IF kind = "label" THEN 0 ELSE Len(entries[j])
        IN  /\ Created(j)
            /\ IF kind = "label" THEN journal[j].labels # {} ELSE seq > 0
            /\ kind = "subject" => entries[j][seq].projected # {}
            /\ jdamage' = [kind |-> kind, j |-> j, seq |-> seq]
    /\ UNCHANGED <<tableVars, jcall, janswer, jreader, jclock>>

Hit(kind, j, seq) == jdamage = [kind |-> kind, j |-> j, seq |-> seq]

StoredEntry(j, i) ==
    [entries[j][i] EXCEPT !.source = IF Hit("edit", j, i) THEN "imported" ELSE @,
                          !.projected = IF Hit("subject", j, i) THEN {} ELSE @]

StoredLabels(j) == IF Hit("label", j, 0) THEN {} ELSE journal[j].labels

\* The entries after a sequence number, in order, up to the limit.
ListJournalEntries(j, after) ==
    LET seqs == {i \in DOMAIN entries[j] : i > after /\ ~Hit("drop", j, i)}
        page == {i \in seqs : Cardinality({k \in seqs : k < i}) < JournalPage}
    IN  [n \in 1..Cardinality(page) |->
            StoredEntry(j, CHOOSE i \in page : Cardinality({k \in page : k < i}) = n - 1)]

\* Verification reads the journal row and the labels first, the entries page by page later.
VerifyJournal(j) ==
    /\ jreader = None /\ Created(j)
    /\ jreader' = [type |-> "verify", st |-> "run", j |-> j, head |-> journal[j].head,
                  prev |-> journal[j].genesis, after |-> 0,
                  ok |-> /\ journal[j].genesis = journal[j].genesisHash
                         /\ StoredLabels(j) = journal[j].genesis.labels,
                  tampered |-> jdamage # None /\ jdamage.j = j]
    /\ UNCHANGED <<tableVars, jcall, janswer, jdamage, jclock>>

PrevOf(page, prev, i) == IF i = 1 THEN prev ELSE EntryHash(page[i - 1])

PageVerifies(page, prev) ==
    \A i \in DOMAIN page :
        /\ page[i].prev = PrevOf(page, prev, i)
        /\ EntryHash(page[i]) = page[i].hash
        /\ page[i].subjects = page[i].projected

VerifyPage ==
    LET page == ListJournalEntries(jreader.j, jreader.after)
    IN  /\ jreader # None /\ jreader.type = "verify" /\ jreader.st = "run" /\ page # <<>>
        /\ jreader' = [jreader EXCEPT !.ok = @ /\ PageVerifies(page, jreader.prev),
                                    !.prev = EntryHash(page[Len(page)]),
                                    !.after = page[Len(page)].seq]
        /\ UNCHANGED <<tableVars, jcall, janswer, jdamage, jclock>>

\* No entry is left: the recomputed hash has to be the head read at the start.
VerifyEnds ==
    /\ jreader # None /\ jreader.type = "verify" /\ jreader.st = "run"
    /\ ListJournalEntries(jreader.j, jreader.after) = <<>>
    /\ jreader' = [jreader EXCEPT !.st = "done", !.ok = @ /\ jreader.prev = jreader.head]
    /\ UNCHANGED <<tableVars, jcall, janswer, jdamage, jclock>>

\* A search by subject finds entries, one by label finds journals; both are ordered by time, newest
\* first, then by journal and sequence number, newest first.
EntryHits(name, since) ==
    UNION {{<<StoredEntry(j, i).observed, j, i>> : i \in
        {n \in DOMAIN entries[j] : /\ ~Hit("drop", j, n)
                                  /\ name \in StoredEntry(j, n).projected /\ StoredEntry(j, n).observed >= since}}
           : j \in Journals}

JournalHits(name, since) ==
    {<<journal[j].genesis.created, j, 0>> : j \in
        {k \in Journals : Created(k) /\ name \in StoredLabels(k) /\ journal[k].genesis.created >= since}}

SearchHits(kind, name, since) ==
    IF kind = "entries" THEN EntryHits(name, since) ELSE JournalHits(name, since)

Older(a, b) ==
    \/ a[1] < b[1]
    \/ a[1] = b[1] /\ a[2] < b[2]
    \/ a[1] = b[1] /\ a[2] = b[2] /\ a[3] < b[3]

\* Mutant: the keyset compares the time alone.
OlderByTime(a, cursor) == cursor = None \/ a[1] < cursor.at[1]

AfterCursor(a, cursor) == cursor = None \/ Older(a, cursor.at)

\* A duration is counted back from the first page; the cursor carries the result.
PinnedSince(cursor) == IF cursor = None THEN jclock - SinceWindow ELSE cursor.since

FindStarts(kind, name) ==
    /\ jreader = None /\ jdamage = None
    /\ jreader' = [type |-> "find", st |-> "run", kind |-> kind, name |-> name, cursor |-> None,
                  seen |-> {}, got |-> {}, twice |-> FALSE]
    /\ UNCHANGED <<tableVars, jcall, janswer, jdamage, jclock>>

FindPage ==
    /\ jreader # None /\ jreader.type = "find" /\ jreader.st = "run"
    /\ LET since == PinnedSince(jreader.cursor)
           hits == {h \in SearchHits(jreader.kind, jreader.name, since) : AfterCursor(h, jreader.cursor)}
           page == {h \in hits : Cardinality({g \in hits : Older(h, g)}) < JournalPage}
           last == CHOOSE h \in page : \A g \in page : ~Older(g, h)
       IN  jreader' = [jreader EXCEPT
                !.st = IF Cardinality(page) < JournalPage THEN "done" ELSE "run",
                !.cursor = IF page = {} THEN @ ELSE [at |-> last, since |-> since],
                !.seen = IF jreader.cursor = None THEN hits ELSE @,
                !.got = @ \cup page,
                !.twice = @ \/ page \cap jreader.got # {}]
    /\ UNCHANGED <<tableVars, jcall, janswer, jdamage, jclock>>

\* journalCursorTTL after it was made the cursor is refused; how long the client waits is open.
FindExpires ==
    /\ jreader # None /\ jreader.type = "find" /\ jreader.st = "run"
    /\ jreader.cursor # None
    /\ jreader' = [jreader EXCEPT !.st = "expired"]
    /\ UNCHANGED <<tableVars, jcall, janswer, jdamage, jclock>>

\* journal cat --follow: a page after the last sequence number printed, again and again.
JournalCat(j) ==
    /\ jreader = None /\ jdamage = None /\ Created(j)
    /\ jreader' = [type |-> "follow", st |-> "run", j |-> j, printed |-> <<>>]
    /\ UNCHANGED <<tableVars, jcall, janswer, jdamage, jclock>>

CatPage ==
    /\ jreader # None /\ jreader.type = "follow"
    /\ LET printed == jreader.printed
           page == ListJournalEntries(jreader.j, IF printed = <<>> THEN 0 ELSE printed[Len(printed)].seq)
       IN  page # <<>> /\ jreader' = [jreader EXCEPT !.printed = @ \o page]
    /\ UNCHANGED <<tableVars, jcall, janswer, jdamage, jclock>>

ReaderEnds ==
    /\ jreader # None /\ (jreader.type = "follow" \/ jreader.st # "run")
    /\ jreader' = None
    /\ UNCHANGED <<tableVars, jcall, janswer, jdamage, jclock>>

JournalTick ==
    /\ jclock < JournalMaxTime /\ jclock' = jclock + 1
    /\ UNCHANGED <<tableVars, jcall, janswer, jdamage, jreader>>

-----------------------------------------------------------------------------
JournalNext ==
    \/ \E w \in Writers, j \in Journals :
        \/ \E raw \in CreateLabels : handleJournalCreate(w, j, raw)
        \/ \E id \in AppendIds, batch \in Batches : handleJournalAppend(w, j, id, batch)
    \/ \E w \in Writers :
        CreateInserts(w) \/ CreateCollides(w) \/ AppendCommits(w) \/ AppendRollsBack(w)
    \/ Tamper
    \/ \E j \in Journals : VerifyJournal(j) \/ JournalCat(j)
    \/ VerifyPage \/ VerifyEnds
    \/ \E kind \in {"entries", "journals"}, n \in SearchNames :
        ValidNames({n}) /\ FindStarts(kind, Canonical[n])
    \/ FindPage \/ FindExpires
    \/ CatPage
    \/ ReaderEnds
    \/ JournalTick

JournalSpec == JournalInit /\ [][JournalNext]_journalVars

-----------------------------------------------------------------------------
(* Properties *)

Names == {Canonical[n] : n \in RawNames} \ {Invalid}

\* Rows, calls, readers and the clock have the shapes the tables and requests have.
JournalTypeOK ==
    /\ \A j \in Journals :
        /\ Created(j) => journal[j].next \in Nat \ {0} /\ journal[j].labels \subseteq Names
        /\ \A i \in DOMAIN entries[j] : entries[j][i].subjects \subseteq Names
        /\ \A id \in AppendIds : Applied(j, id) => requests[j][id].first <= requests[j][id].last
    /\ \A w \in Writers : jcall[w].st \in {"idle", "create", "append"}
    /\ jclock \in 1..JournalMaxTime

\* The committed entries of a journal are numbered without a gap up to next_seq and are one hash chain
\* from the genesis to the head, whatever appends run side by side, are retried or roll back.
ChainIntact ==
    \A j \in Journals : Created(j) =>
        LET n == Len(entries[j])
            hash(i) == IF i = 0 THEN journal[j].genesis ELSE entries[j][i].hash
        IN  /\ journal[j].next = n + 1
            /\ journal[j].head = hash(n)
            /\ \A i \in 1..n : /\ entries[j][i].seq = i
                               /\ entries[j][i].prev = hash(i - 1)
                               /\ entries[j][i].hash = EntryHash(entries[j][i])

\* A create that finds the journal is answered with it only if its labels are those asked for, and
\* the sequence numbers an append is answered with hold the entries of that very request, whether the
\* answer comes from the insert or from the row of an earlier request with the same key.
AckedIsStored ==
    /\ (janswer # None /\ janswer.op = "create") => journal[janswer.j].labels = janswer.labels
    /\ (janswer # None /\ janswer.op = "append") =>
        LET c == janswer
        IN  /\ c.last - c.first + 1 = Len(c.batch)
            /\ c.last <= Len(entries[c.j])
            /\ \A i \in DOMAIN c.batch : entries[c.j][c.first + i - 1].subjects = c.batch[i].subjects

\* A verification that says ok has not overlooked an edit made before it started, and one that says
\* not ok has seen an edit or was overtaken by an append.
VerifyHonest ==
    (jreader # None /\ jreader.type = "verify" /\ jreader.st = "done") =>
        /\ jreader.ok => ~jreader.tampered
        /\ ~jreader.ok => jdamage # None \/ journal[jreader.j].head # jreader.head

\* A search read to its last page returns everything that matched at its first page, and nothing twice,
\* though time passes and entries are added between its pages.
PagesComplete ==
    (jreader # None /\ jreader.type = "find") =>
        /\ ~jreader.twice
        /\ jreader.st = "done" => jreader.seen \subseteq jreader.got

\* What a follower has printed is the beginning of the journal, in order and without a gap.
FollowerIsPrefix ==
    (jreader # None /\ jreader.type = "follow") =>
        \E n \in 0..Len(entries[jreader.j]) : jreader.printed = SubSeq(entries[jreader.j], 1, n)

\* The tables are an append-only log to which every idempotency key adds its entries at most once.
Log == INSTANCE JournalLog WITH
    created <- {j \in Journals : Created(j)},
    log <- entries,
    applied <- [j \in Journals |-> {id \in AppendIds : Applied(j, id)}]

ImplementsLog == Log!LogSpec

\* Readers are told the truth: Verify answers valid for the chain that was
\* committed and only for that, a search page by page misses no journal that
\* was there throughout, and a follower has read a prefix of the journal.
ReadersHonest == VerifyHonest /\ PagesComplete /\ FollowerIsPrefix
=============================================================================
