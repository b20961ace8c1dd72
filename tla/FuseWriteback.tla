---------------------------- MODULE FuseWriteback ----------------------------
(***************************************************************************)
(* The write-back path of a FUSE mount in interactive mode.                *)
(*                                                                         *)
(* A writable handle keeps a dirty buffer; Flush and Fsync stage it in a   *)
(* shadow file, register it in the pending index and answer; Release hands *)
(* the path to the commit queue, whose workers upload the shadow with a    *)
(* compare-and-swap on the revision, resolve conflicts and clean up.  When *)
(* the queue is full the older write-back cache and its uploader take the  *)
(* upload.  Unlink waits for the queue and cancels.  The mount may crash   *)
(* at any step; mounting again recovers from the files on local disk.      *)
(*                                                                         *)
(* A content is the set of writes it reflects, and a file has 10 MB or     *)
(* more from LargeFrom writes on.                                          *)
(***************************************************************************)
EXTENDS Integers, Sequences, FiniteSets, SequencesExt

CONSTANTS
    Paths,
    LargeFrom,   \* number of writes that take a file to writeBackThreshold
    SharedPaths, \* files other clients write to as well
    Handles,     \* writable file handles
    Workers,     \* goroutines of the commit queue
    MaxWrites,   \* bound on creations, truncations and writes, of this mount and of other clients
    MaxPending,  \* capacity of the commit queue
    MaxRetries,  \* attempts of commitOne
    MaxFaults,   \* bound on failed requests and failed disk writes
    MaxCrashes,  \* bound on crashes of the mount
    Backpressure, \* entries of files outside Paths may fill the commit queue
    Reopen,      \* a file may be opened for writing while an earlier commit of it is pending
    None

ASSUME FuseAssumption ==
    /\ SharedPaths \subseteq Paths
    /\ LargeFrom \in Nat \ {0}
    /\ MaxWrites \in Nat /\ MaxFaults \in Nat /\ MaxCrashes \in Nat
    /\ MaxPending \in Nat \ {0} /\ MaxRetries \in Nat \ {0}
    /\ Reopen \in BOOLEAN /\ Backpressure \in BOOLEAN

VARIABLES
    server,    \* [Paths -> revision and content], revision 0 when absent
    shadow,    \* [Paths -> content of the shadow file or None]
    pend,      \* [Paths -> entry of the in-memory PendingIndex or None]
    disk,      \* [Paths -> the .meta file, shared by PendingIndex and WriteBackCache, or None]
    cache,     \* [Paths -> entry of the WriteBackCache, with its .dat file, or None]
    journal,   \* [Paths -> base revision of the first fsync record or None]
    queue,     \* the channel of the commit queue
    inflight,  \* [Paths -> the worker registered for the path or None]
    worker,    \* [Workers -> local state]
    submitted, \* paths handed to the WriteBackUploader
    upload,    \* [Paths -> the upload the WriteBackUploader has in flight or None]
    handle,    \* [Handles -> FileHandle]
    unlink,    \* the Unlink in progress
    inode,     \* [Paths -> cached revision of the inode, 0 when it is not known]
    acked,     \* [Paths -> content of the last Flush or Fsync that returned OK, or None]
    reached,   \* paths whose acknowledged content the server has had
    gone,      \* paths this mount has unlinked and nobody has created again
    writes, faults, crashes

remoteVars == <<server, reached>>
localVars == <<shadow, pend, disk, cache, journal>>
queueVars == <<queue, inflight, worker>>
uploaderVars == <<submitted, upload>>
budgets == <<writes, faults, crashes>>
vars == <<remoteVars, localVars, queueVars, uploaderVars, handle, unlink, inode, acked, gone, budgets>>

Absent == [rev |-> 0, data |-> {}]
Free == [st |-> "free"]
Idle == [pc |-> "idle"]

Init ==
    /\ server \in [Paths -> {Absent, [rev |-> 1, data |-> {0}]}]
    /\ shadow = [p \in Paths |-> None]
    /\ pend = [p \in Paths |-> None]
    /\ disk = [p \in Paths |-> None]
    /\ cache = [p \in Paths |-> None]
    /\ journal = [p \in Paths |-> None]
    /\ queue = <<>>
    /\ inflight = [p \in Paths |-> None]
    /\ worker = [w \in Workers |-> Idle]
    /\ submitted = {}
    /\ upload = [p \in Paths |-> None]
    /\ handle = [h \in Handles |-> Free]
    /\ unlink = Idle
    /\ inode = [p \in Paths |-> 0]
    /\ acked = [p \in Paths |-> None]
    /\ reached = {} /\ gone = {}
    /\ writes = 0 /\ faults = 0 /\ crashes = 0

-----------------------------------------------------------------------------
(* The server, the shadow store and the queue *)

Large(c) == Cardinality(c) >= LargeFrom

Accepts(p, expected) == expected = -1 \/ server[p].rev = expected

\* The server stores c. The ghost reached records that it has had the acknowledged content a.
Stored(p, c, a) ==
    /\ server' = [server EXCEPT ![p] = [rev |-> @.rev + 1, data |-> c]]
    /\ reached' = IF a = None THEN reached ELSE IF a \subseteq c THEN reached \cup {p} ELSE reached

\* A conditional write. A request that fails may have been applied.
RemoteWrite(p, c, expected, result, a) ==
    \/ /\ result = "ok" /\ Accepts(p, expected)
       /\ Stored(p, c, a)
       /\ UNCHANGED faults
    \/ /\ result = "conflict" /\ ~Accepts(p, expected)
       /\ UNCHANGED <<remoteVars, faults>>
    \/ /\ result = "error" /\ faults < MaxFaults
       /\ faults' = faults + 1
       /\ \/ Accepts(p, expected) /\ Stored(p, c, a)
          \/ UNCHANGED remoteVars

\* ensureShadowFile creates the file that is not there.
Ensured(p) == IF shadow[p] = None THEN {} ELSE shadow[p]

Busy(w) == worker[w].pc # "idle"

\* Canceled entries have left cq.queue, but not the channel or their worker.
Queued(p) ==
    \/ \E i \in DOMAIN queue : queue[i].path = p /\ ~queue[i].canceled
    \/ \E w \in Workers : Busy(w) /\ worker[w].entry.path = p /\ ~worker[w].entry.canceled

HasPath(p) == inflight[p] # None \/ Queued(p)

QueueLen ==
    Cardinality({i \in DOMAIN queue : ~queue[i].canceled})
      + Cardinality({w \in Workers : Busy(w) /\ ~worker[w].entry.canceled})

\* Entries made by Release know the inode, recovered ones do not.
Entry(p, m, known) ==
    [path |-> p, base |-> m.base, kind |-> m.kind, spill |-> m.spill, known |-> known, canceled |-> FALSE]

\* What Lookup finds: the pending overlay, an open handle or the remote file.
Visible(p) ==
    \/ pend[p] # None \/ cache[p] # None
    \/ \E h \in Handles : handle[h].st # "free" /\ handle[h].path = p
    \/ server[p].rev > 0

InUse(p) == \E h \in Handles : handle[h].st # "free" /\ handle[h].path = p

\* The discipline of the application: one writable handle for a file at a time, none while it
\* is being unlinked, none after a crash on a file whose pending entry was lost and, unless
\* Reopen, none before the last commit of the file has ended.
MayOpen(p) ==
    /\ ~InUse(p) /\ unlink = Idle
    /\ crashes > 0 /\ shadow[p] # None => pend[p] # None
    /\ Reopen \/ (~HasPath(p) /\ p \notin submitted /\ upload[p] = None)

-----------------------------------------------------------------------------
(* Opening and writing *)

Opened(p, buf, dirty, snap, base, new, ready, spill) ==
    [st |-> "open", path |-> p, buf |-> buf, dirty |-> dirty, snap |-> snap, base |-> base,
     new |-> new, ready |-> ready, spill |-> spill, staged |-> FALSE]

Create(h, p) ==
    /\ handle[h] = Free /\ ~Visible(p) /\ MayOpen(p)
    /\ writes < MaxWrites /\ writes' = writes + 1
    /\ shadow' = [shadow EXCEPT ![p] = {}]
    /\ handle' = [handle EXCEPT ![h] = Opened(p, {}, TRUE, "none", 0, TRUE, TRUE, TRUE)]
    /\ acked' = [acked EXCEPT ![p] = None]
    /\ gone' = gone \ {p}
    /\ UNCHANGED <<remoteVars, pend, disk, cache, journal, queueVars, uploaderVars, unlink, inode,
                   faults, crashes>>

\* The inode has the revision of an earlier lookup or commit, or of a lookup made now.
OpenTrunc(h, p) ==
    /\ handle[h] = Free /\ Visible(p) /\ MayOpen(p)
    /\ writes < MaxWrites /\ writes' = writes + 1
    /\ \E base \in {inode[p]} \cup (IF pend[p] = None /\ cache[p] = None THEN {server[p].rev} ELSE {}) :
        /\ inode' = [inode EXCEPT ![p] = base]
        /\ handle' = [handle EXCEPT ![h] = Opened(p, {}, TRUE, "none", base, FALSE, TRUE, TRUE)]
    /\ shadow' = [shadow EXCEPT ![p] = {}]
    /\ acked' = [acked EXCEPT ![p] = None]
    /\ UNCHANGED <<remoteVars, pend, disk, cache, journal, queueVars, uploaderVars, unlink, gone,
                   faults, crashes>>

\* Open without O_TRUNC when the pending index and the shadow store have the file.
OpenShadow(h, p) ==
    /\ handle[h] = Free /\ MayOpen(p)
    /\ pend[p] # None /\ shadow[p] # None
    /\ LET new == pend[p].kind = "new"
           known == IF pend[p].base > 0 THEN pend[p].base ELSE inode[p]
           base == IF known = 0 /\ ~new THEN server[p].rev ELSE known
       IN  /\ handle' = [handle EXCEPT ![h] = Opened(p, shadow[p], FALSE, "none", base, new, TRUE, FALSE)]
           /\ inode' = IF known = 0 /\ ~new THEN [inode EXCEPT ![p] = base] ELSE inode
    /\ UNCHANGED <<remoteVars, localVars, queueVars, uploaderVars, unlink, acked, gone, budgets>>

\* ... when only the write-back cache has it.
OpenCache(h, p) ==
    /\ handle[h] = Free /\ MayOpen(p)
    /\ pend[p] = None \/ shadow[p] = None
    /\ cache[p] # None
    /\ LET new == cache[p].kind = "new"
           known == IF cache[p].base > 0 THEN cache[p].base ELSE inode[p]
           base == IF known = 0 /\ ~new THEN server[p].rev ELSE known
       IN  /\ handle' = [handle EXCEPT ![h] = Opened(p, cache[p].data, TRUE, "same", base, new, FALSE, FALSE)]
           /\ inode' = IF known = 0 /\ new THEN inode ELSE [inode EXCEPT ![p] = base]
    /\ UNCHANGED <<remoteVars, localVars, queueVars, uploaderVars, unlink, acked, gone, budgets>>

\* ... and when only the server has it: the content is loaded by the first Write.
OpenRemote(h, p) ==
    /\ handle[h] = Free /\ MayOpen(p)
    /\ pend[p] = None \/ shadow[p] = None
    /\ cache[p] = None
    /\ server[p].rev > 0
    /\ handle' = [handle EXCEPT ![h] = Opened(p, None, FALSE, "none", server[p].rev, FALSE, FALSE, FALSE)]
    /\ inode' = [inode EXCEPT ![p] = server[p].rev]
    /\ UNCHANGED <<remoteVars, localVars, queueVars, uploaderVars, unlink, acked, gone, budgets>>

Open(h, p) == OpenTrunc(h, p) \/ OpenShadow(h, p) \/ OpenCache(h, p) \/ OpenRemote(h, p)

\* A write through a handle whose shadow is ready goes to the shadow file of the path.
Write(h) ==
    LET f == handle[h]
        p == f.path
        n == writes + 1
    IN  /\ f.st = "open" /\ writes < MaxWrites
        /\ f.buf = None => server[p].rev > 0
        /\ writes' = n
        /\ handle' = [handle EXCEPT
             ![h].buf = (IF f.buf = None THEN server[p].data ELSE f.buf) \cup {n},
             ![h].dirty = TRUE,
             ![h].snap = IF f.snap = "none" THEN "none" ELSE "older"]
        /\ shadow' = IF f.ready THEN [shadow EXCEPT ![p] = Ensured(p) \cup {n}] ELSE shadow
        /\ UNCHANGED <<remoteVars, pend, disk, cache, journal, queueVars, uploaderVars, unlink, inode,
                       acked, gone, faults, crashes>>

-----------------------------------------------------------------------------
(* Flush, Fsync and the synchronous upload *)

KindOf(f) == IF f.new THEN "new" ELSE "overwrite"

\* A handle on a large remote file has only the parts it touched.
Full(f) == f.ready \/ f.new \/ f.spill \/ ~Large(f.buf) \/ f.snap # "none"

\* stageShadowLocked: a ready shadow keeps its content, another is written in full.
Stage(h, snapshot) ==
    LET f == handle[h]
        p == f.path
        meta == [kind |-> KindOf(f), base |-> f.base, spill |-> f.spill]
    IN  /\ shadow' = [shadow EXCEPT ![p] = IF f.ready THEN Ensured(p) ELSE f.buf]
        /\ pend' = [pend EXCEPT ![p] = meta]
        /\ disk' = [disk EXCEPT ![p] = IF snapshot THEN [meta EXCEPT !.spill = FALSE] ELSE meta]
        /\ cache' = IF snapshot
                    THEN [cache EXCEPT ![p] = [data |-> f.buf, kind |-> meta.kind, base |-> f.base]]
                    ELSE cache
        /\ upload' = IF snapshot /\ upload[p] # None THEN [upload EXCEPT ![p].stale = TRUE] ELSE upload
        /\ handle' = [handle EXCEPT ![h].ready = TRUE,
                                    ![h].snap = IF snapshot THEN "same" ELSE @,
                                    ![h].staged = @ \/ ~snapshot]
        /\ acked' = [acked EXCEPT ![p] = f.buf]
        /\ reached' = IF server[p].rev > 0 /\ f.buf \subseteq server[p].data THEN reached \cup {p} ELSE reached \ {p}
        /\ UNCHANGED server

FlushStage(h) ==
    LET f == handle[h]
    IN  /\ f.st = "open" /\ f.dirty /\ f.snap # "same" /\ Full(f)
        /\ Stage(h, ~(f.spill /\ Large(f.buf)))
        /\ UNCHANGED <<journal, queueVars, submitted, unlink, inode, gone, budgets>>

\* Journal replay looks at the first record of a path that is not pending.
Fsync(h) ==
    LET f == handle[h]
    IN  /\ f.st = "open" /\ f.dirty /\ Full(f)
        /\ Stage(h, ~f.spill)
        /\ journal' = IF journal[f.path] = None THEN [journal EXCEPT ![f.path] = f.base] ELSE journal
        /\ UNCHANGED <<queueVars, submitted, unlink, inode, gone, budgets>>

Expected(f) == IF f.new THEN 0 ELSE IF f.base > 0 THEN f.base ELSE -1

\* flushHandle; a direct PUT returns the revision, a multipart upload does not.
SyncUpload(h, next) ==
    LET f == handle[h]
        p == f.path
        rev == IF ~Large(f.buf) THEN server[p].rev + 1
               ELSE IF Expected(f) < 0 THEN 0 ELSE Expected(f) + 1
    IN  \E result \in {"ok", "conflict", "error"} :
        /\ RemoteWrite(p, f.buf, Expected(f), result, IF result = "ok" THEN f.buf ELSE acked[p])
        /\ inode' = IF result = "ok" THEN [inode EXCEPT ![p] = rev] ELSE inode
        /\ acked' = IF result = "ok" THEN [acked EXCEPT ![p] = f.buf] ELSE acked
        /\ handle' = [handle EXCEPT ![h] =
             IF next = Free THEN Free
             ELSE IF result = "ok" THEN [f EXCEPT !.dirty = FALSE, !.new = FALSE, !.base = rev]
             ELSE f]

FlushSync(h) ==
    LET f == handle[h]
    IN  /\ f.st = "open" /\ f.dirty /\ ~Full(f)
        /\ SyncUpload(h, f)
        /\ UNCHANGED <<localVars, queueVars, uploaderVars, unlink, gone, writes, crashes>>

Flush(h) == FlushStage(h) \/ FlushSync(h)

-----------------------------------------------------------------------------
(* Release *)

Enqueue(e) == queue' = Append(queue, e)

\* Whether Enqueue takes the entry; other files have their share of maxPending.
Accepting == QueueLen < MaxPending
Refusing == Backpressure \/ ~Accepting

\* A spilled file that was staged goes to the queue, or is uploaded here when the queue is full.
ReleaseSpill(h) ==
    LET f == handle[h]
        p == f.path
    IN  /\ f.st = "open" /\ f.spill /\ f.staged
        /\ handle' = [handle EXCEPT ![h] = Free]
        /\ \/ /\ Accepting
              /\ Enqueue(Entry(p, [kind |-> KindOf(f), base |-> f.base, spill |-> TRUE], TRUE))
              /\ UNCHANGED <<remoteVars, shadow, faults>>
           \/ /\ Refusing
              /\ shadow' = [shadow EXCEPT ![p] = Ensured(p)]
              /\ \E result \in {"ok", "conflict", "error"} : RemoteWrite(p, Ensured(p), Expected(f), result, acked[p])
              /\ UNCHANGED queue
        /\ UNCHANGED <<pend, disk, cache, journal, inflight, worker, uploaderVars, unlink, inode,
                       acked, gone, writes, crashes>>

\* The snapshot is up to date: the queue, or the uploader when the queue is full, takes the path.
ReleaseCached(h) ==
    LET f == handle[h]
        p == f.path
    IN  /\ f.st = "open" /\ ~(f.spill /\ f.staged) /\ f.snap = "same"
        /\ \/ /\ shadow[p] # None /\ Accepting
              /\ Enqueue(Entry(p, [kind |-> KindOf(f), base |-> f.base, spill |-> FALSE], TRUE))
              /\ handle' = [handle EXCEPT ![h] = [st |-> "drop", path |-> p]]
              /\ UNCHANGED submitted
           \/ /\ shadow[p] = None \/ Refusing
              /\ submitted' = submitted \cup {p}
              /\ handle' = [handle EXCEPT ![h] = Free]
              /\ UNCHANGED queue
        /\ UNCHANGED <<remoteVars, localVars, inflight, worker, upload, unlink, inode, acked, gone, budgets>>

\* WriteBackCache.Remove deletes the .meta file it shares with the pending index.
ReleaseDrop(h) ==
    LET p == handle[h].path
    IN  /\ handle[h].st = "drop"
        /\ cache' = [cache EXCEPT ![p] = None]
        /\ disk' = [disk EXCEPT ![p] = None]
        /\ handle' = [handle EXCEPT ![h] = Free]
        /\ UNCHANGED <<remoteVars, shadow, pend, journal, queueVars, uploaderVars, unlink, inode, acked,
                       gone, budgets>>

\* Nothing was staged since the last write: a stale snapshot is dropped and a dirty buffer uploaded.
ReleaseSync(h) ==
    LET f == handle[h]
        p == f.path
    IN  /\ f.st = "open" /\ ~(f.spill /\ f.staged) /\ f.snap # "same"
        /\ cache' = IF f.snap = "older" THEN [cache EXCEPT ![p] = None] ELSE cache
        /\ disk' = IF f.snap = "older" THEN [disk EXCEPT ![p] = None] ELSE disk
        /\ IF f.dirty
           THEN SyncUpload(h, Free)
           ELSE /\ handle' = [handle EXCEPT ![h] = Free]
                /\ UNCHANGED <<remoteVars, inode, acked, faults>>
        /\ UNCHANGED <<shadow, pend, journal, queueVars, uploaderVars, unlink, gone, writes, crashes>>

Release(h) == ReleaseSpill(h) \/ ReleaseCached(h) \/ ReleaseDrop(h) \/ ReleaseSync(h)

-----------------------------------------------------------------------------
(* Workers of the commit queue *)

Goto(w, pc) == worker' = [worker EXCEPT ![w].pc = pc]

\* The entry leaves the queue and the worker's registration for the path is cleared.
Finish(w) ==
    LET p == worker[w].entry.path
    IN  /\ worker' = [worker EXCEPT ![w] = Idle]
        /\ inflight' = IF inflight[p] = w THEN [inflight EXCEPT ![p] = None] ELSE inflight

\* Between the check of the entry and its registration it is taken as one step.
Take(w) ==
    /\ ~Busy(w) /\ queue # <<>>
    /\ queue' = Tail(queue)
    /\ LET e == Head(queue)
       IN  IF e.canceled
           THEN UNCHANGED <<worker, inflight>>
           ELSE /\ worker' = [worker EXCEPT ![w] =
                     [pc |-> "read", entry |-> e, tries |-> 0, data |-> None, rev |-> 0]]
                /\ inflight' = [inflight EXCEPT ![e.path] = w]
    /\ UNCHANGED <<remoteVars, localVars, uploaderVars, handle, unlink, inode, acked, gone, budgets>>

\* Mutant: commitOne does not count its attempts.
RetryForever(w) ==
    /\ worker' = [worker EXCEPT ![w].pc = "read"]
    /\ UNCHANGED inflight

\* A failed attempt of commitOne.
Retry(w) ==
    /\ worker' = [worker EXCEPT ![w].tries = @ + 1,
                                ![w].pc = IF worker[w].tries + 1 < MaxRetries THEN "read" ELSE "fail"]
    /\ UNCHANGED inflight

\* One attempt up to its request: canceled entries are dropped, a spilled entry opens its
\* shadow file, another one reads it.
CommitRead(w) ==
    LET e == worker[w].entry
        p == e.path
    IN  /\ worker[w].pc = "read"
        /\ \/ e.canceled /\ Finish(w) /\ UNCHANGED shadow
           \/ /\ ~e.canceled
              /\ (e.kind = "overwrite" /\ e.base <= 0) \/ (~e.spill /\ shadow[p] = None)
              /\ Retry(w) /\ UNCHANGED shadow
           \/ /\ ~e.canceled
              /\ ~(e.kind = "overwrite" /\ e.base <= 0) /\ (e.spill \/ shadow[p] # None)
              /\ shadow' = [shadow EXCEPT ![p] = Ensured(p)]
              /\ worker' = [worker EXCEPT ![w].pc = "put", ![w].data = Ensured(p)]
              /\ UNCHANGED inflight
        /\ UNCHANGED <<remoteVars, pend, disk, cache, journal, queue, uploaderVars, handle, unlink, inode,
                       acked, gone, budgets>>

CommitPut(w) ==
    LET e == worker[w].entry
        p == e.path
    IN  /\ worker[w].pc = "put"
        /\ \E result \in {"ok", "conflict", "error"} :
            /\ RemoteWrite(p, worker[w].data, e.base, result, acked[p])
            /\ \/ /\ result = "ok"
                  /\ worker' = [worker EXCEPT ![w].pc = "done",
                                  ![w].rev = IF e.spill \/ Large(worker[w].data) THEN 0 ELSE e.base + 1]
                  /\ UNCHANGED inflight
               \/ result # "ok" /\ e.canceled /\ Finish(w)
               \/ /\ result = "conflict" /\ ~e.canceled
                  /\ Goto(w, IF e.spill THEN "fail" ELSE "stat") /\ UNCHANGED inflight
               \/ result = "error" /\ ~e.canceled /\ Retry(w)
        /\ UNCHANGED <<localVars, queue, uploaderVars, handle, unlink, inode, acked, gone, writes, crashes>>

\* onCommitSuccess: the journal record, the inode, then the local files.
CommitDone(w) ==
    LET e == worker[w].entry
    IN  /\ worker[w].pc = "done"
        /\ \/ /\ Goto(w, "shadow") /\ UNCHANGED <<inflight, faults>>
              /\ inode' = IF worker[w].rev > 0 /\ e.known THEN [inode EXCEPT ![e.path] = worker[w].rev] ELSE inode
           \/ /\ faults < MaxFaults /\ faults' = faults + 1
              /\ Finish(w) /\ UNCHANGED inode
        /\ UNCHANGED <<remoteVars, localVars, queue, uploaderVars, handle, unlink, acked, gone, writes, crashes>>

CommitDropShadow(w) ==
    /\ worker[w].pc = "shadow"
    /\ shadow' = [shadow EXCEPT ![worker[w].entry.path] = None]
    /\ Goto(w, "index")
    /\ UNCHANGED <<remoteVars, pend, disk, cache, journal, queue, inflight, uploaderVars, handle, unlink,
                   inode, acked, gone, budgets>>

CommitDropIndex(w) ==
    /\ worker[w].pc = "index"
    /\ pend' = [pend EXCEPT ![worker[w].entry.path] = None]
    /\ disk' = [disk EXCEPT ![worker[w].entry.path] = None]
    /\ Finish(w)
    /\ UNCHANGED <<remoteVars, shadow, cache, journal, queue, uploaderVars, handle, unlink, inode, acked,
                   gone, budgets>>

(* tryAutoResolveConflict and onCommitTerminalFailure *)

ResolveStat(w) ==
    LET e == worker[w].entry
        p == e.path
    IN  /\ worker[w].pc = "stat"
        /\ \/ e.canceled /\ Finish(w) /\ UNCHANGED faults
           \/ /\ ~e.canceled /\ (shadow[p] = None \/ server[p].rev = 0)
              /\ Goto(w, "fail") /\ UNCHANGED <<inflight, faults>>
           \/ /\ ~e.canceled /\ shadow[p] # None /\ server[p].rev > 0
              /\ worker' = [worker EXCEPT ![w].pc = "compare", ![w].data = shadow[p], ![w].rev = server[p].rev]
              /\ UNCHANGED <<inflight, faults>>
           \/ /\ ~e.canceled /\ faults < MaxFaults /\ faults' = faults + 1
              /\ Goto(w, "fail") /\ UNCHANGED inflight
        /\ UNCHANGED <<remoteVars, localVars, queue, uploaderVars, handle, unlink, inode, acked, gone,
                       writes, crashes>>

ResolveCompare(w) ==
    LET e == worker[w].entry
        p == e.path
        same == server[p].data = worker[w].data
    IN  /\ worker[w].pc = "compare"
        /\ \/ server[p].rev = 0 /\ Goto(w, "fail") /\ UNCHANGED <<inflight, faults>>
           \/ /\ faults < MaxFaults /\ faults' = faults + 1
              /\ Goto(w, "fail") /\ UNCHANGED inflight
           \/ /\ server[p].rev > 0 /\ same
              /\ worker' = [worker EXCEPT ![w].pc = "done", ![w].rev = 0]
              /\ UNCHANGED <<inflight, faults>>
           \/ server[p].rev > 0 /\ ~same /\ e.canceled /\ Finish(w) /\ UNCHANGED faults
           \/ /\ server[p].rev > 0 /\ ~same /\ ~e.canceled
              /\ Goto(w, "lww") /\ UNCHANGED <<inflight, faults>>
        /\ UNCHANGED <<remoteVars, localVars, queue, uploaderVars, handle, unlink, inode, acked, gone,
                       writes, crashes>>

ResolvePut(w) ==
    /\ worker[w].pc = "lww"
    /\ \E result \in {"ok", "conflict", "error"} :
        /\ LET p == worker[w].entry.path
           IN  RemoteWrite(p, worker[w].data, worker[w].rev, result, acked[p])
        /\ worker' = [worker EXCEPT ![w].pc = IF result = "ok" THEN "done" ELSE "fail", ![w].rev = 0]
    /\ UNCHANGED <<localVars, queue, inflight, uploaderVars, handle, unlink, inode, acked, gone, writes, crashes>>

\* Mutant: a terminal failure cleans up as a success does.
CommitFailDropping(w) ==
    LET p == worker[w].entry.path
    IN  /\ worker[w].pc = "fail"
        /\ shadow' = [shadow EXCEPT ![p] = None]
        /\ pend' = [pend EXCEPT ![p] = None]
        /\ disk' = [disk EXCEPT ![p] = None]
        /\ Finish(w)
        /\ UNCHANGED <<remoteVars, cache, journal, queue, uploaderVars, handle, unlink, inode, acked, gone,
                       budgets>>

CommitFail(w) ==
    LET p == worker[w].entry.path
    IN  /\ worker[w].pc = "fail"
        /\ \/ /\ pend' = IF pend[p] = None THEN pend ELSE [pend EXCEPT ![p].kind = "conflict"]
              /\ disk' = IF pend[p] = None THEN disk ELSE [disk EXCEPT ![p] = pend'[p]]
              /\ UNCHANGED faults
           \/ /\ faults < MaxFaults /\ faults' = faults + 1
              /\ pend[p] # None
              /\ UNCHANGED <<pend, disk>>
        /\ Finish(w)
        /\ UNCHANGED <<remoteVars, shadow, cache, journal, queue, uploaderVars, handle, unlink, inode,
                       acked, gone, writes, crashes>>

Commit(w) ==
    \/ CommitRead(w) \/ CommitPut(w) \/ CommitDone(w) \/ CommitDropShadow(w) \/ CommitDropIndex(w)
    \/ ResolveStat(w) \/ ResolveCompare(w) \/ ResolvePut(w) \/ CommitFail(w)

-----------------------------------------------------------------------------
(* The uploader of the write-back cache *)

UploadStart(p) ==
    /\ p \in submitted /\ upload[p] = None
    /\ submitted' = submitted \ {p}
    /\ LET c == cache[p]
       IN  upload' = IF c = None THEN upload
                     ELSE IF c.kind # "new" /\ c.base <= 0 THEN upload
                     ELSE [upload EXCEPT ![p] =
                            [pc |-> "put", data |-> c.data, tries |-> 0, stale |-> FALSE,
                             base |-> IF c.kind = "new" THEN 0 ELSE c.base]]
    /\ UNCHANGED <<remoteVars, localVars, queueVars, handle, unlink, inode, acked, gone, budgets>>

UploadPut(p) ==
    /\ upload[p] # None
    /\ upload[p].pc = "put"
    /\ \E result \in {"ok", "conflict", "error"} :
        /\ RemoteWrite(p, upload[p].data, upload[p].base, result, acked[p])
        /\ upload' = [upload EXCEPT ![p] =
             IF result = "ok" THEN [@ EXCEPT !.pc = "done"]
             ELSE IF result = "error" /\ @.tries < MaxRetries THEN [@ EXCEPT !.tries = @ + 1]
             ELSE None]
    /\ UNCHANGED <<localVars, queueVars, submitted, handle, unlink, inode, acked, gone, writes, crashes>>

\* A newer snapshot is kept.
UploadDone(p) ==
    /\ upload[p] # None
    /\ upload[p].pc = "done"
    /\ upload' = [upload EXCEPT ![p] = None]
    /\ LET same == cache[p] # None /\ ~upload[p].stale
       IN  /\ cache' = IF same THEN [cache EXCEPT ![p] = None] ELSE cache
           /\ disk' = IF same THEN [disk EXCEPT ![p] = None] ELSE disk
    /\ UNCHANGED <<remoteVars, shadow, pend, journal, queueVars, submitted, handle, unlink, inode, acked,
                   gone, budgets>>

Upload(p) == UploadStart(p) \/ UploadPut(p) \/ UploadDone(p)

-----------------------------------------------------------------------------
(* Unlink; the kernel holds the lock of the parent directory *)

UnlinkStart(p) ==
    /\ unlink = Idle /\ Visible(p)
    /\ ~InUse(p) /\ p \notin submitted
    /\ unlink' = [pc |-> "uploader", path |-> p]
    /\ UNCHANGED <<remoteVars, localVars, queueVars, uploaderVars, handle, inode, acked, gone, budgets>>

\* The uploader's WaitPath, and the removal from the cache: no Release can come in between.
UnlinkDropCache ==
    LET p == unlink.path
    IN  /\ unlink.pc = "uploader" /\ upload[p] = None
        /\ cache' = [cache EXCEPT ![p] = None]
        /\ disk' = [disk EXCEPT ![p] = None]
        /\ unlink' = [unlink EXCEPT !.pc = "queue"]
        /\ UNCHANGED <<remoteVars, shadow, pend, journal, queueVars, uploaderVars, handle, inode, acked,
                       gone, budgets>>

\* Mutant: Unlink cancels without waiting for the commit in flight.
WaitNothing(p) == TRUE

\* WaitPath of the queue has returned.
WaitPath(p) == ~HasPath(p)

PendingNew(p) == IF pend[p] = None THEN FALSE ELSE pend[p].kind = "new"

\* CancelPath
Canceled(p) ==
    /\ queue' = [i \in DOMAIN queue |-> [queue[i] EXCEPT !.canceled = @ \/ queue[i].path = p]]
    /\ worker' = [w \in Workers |->
                    IF Busy(w) /\ worker[w].entry.path = p
                    THEN [worker[w] EXCEPT !.entry.canceled = TRUE]
                    ELSE worker[w]]
    /\ shadow' = [shadow EXCEPT ![p] = None]
    /\ pend' = [pend EXCEPT ![p] = None]
    /\ disk' = [disk EXCEPT ![p] = None]

\* The file was never uploaded: there is nothing to delete on the server.
UnlinkForget ==
    LET p == unlink.path
    IN  /\ unlink.pc = "queue" /\ WaitPath(p) /\ PendingNew(p)
        /\ Canceled(p)
        /\ unlink' = Idle
        /\ inode' = [inode EXCEPT ![p] = 0]
        /\ acked' = [acked EXCEPT ![p] = None]
        /\ gone' = IF server[p].rev = 0 THEN gone \cup {p} ELSE gone
        /\ UNCHANGED <<remoteVars, cache, journal, inflight, uploaderVars, handle, budgets>>

UnlinkCancel ==
    LET p == unlink.path
    IN  /\ unlink.pc = "queue" /\ WaitPath(p) /\ ~PendingNew(p)
        /\ Canceled(p)
        /\ unlink' = [unlink EXCEPT !.pc = "remote"]
        /\ acked' = [acked EXCEPT ![p] = None]
        /\ UNCHANGED <<remoteVars, cache, journal, inflight, uploaderVars, handle, inode, gone, budgets>>

UnlinkRemote ==
    LET p == unlink.path
    IN  /\ unlink.pc = "remote"
        /\ unlink' = Idle
        /\ \/ /\ server' = [server EXCEPT ![p] = Absent]
              /\ inode' = [inode EXCEPT ![p] = 0]
              /\ gone' = gone \cup {p}
              /\ UNCHANGED faults
           \/ /\ faults < MaxFaults /\ faults' = faults + 1
              /\ UNCHANGED <<remoteVars, inode, gone>>
        /\ UNCHANGED <<reached, localVars, queueVars, uploaderVars, handle, acked, writes, crashes>>

\* Rmdir of the directory of p: the server finds it empty, although p may be pending here, and
\* its queued commits are canceled without waiting for the one in flight.
RmdirRemote(p) ==
    /\ unlink = Idle /\ server[p].rev = 0 /\ HasPath(p)
    /\ ~InUse(p) /\ p \notin submitted
    /\ unlink' = [pc |-> "rmdir", path |-> p]
    /\ UNCHANGED <<remoteVars, localVars, queueVars, uploaderVars, handle, inode, acked, gone, budgets>>

RmdirDropCache ==
    LET p == unlink.path
    IN  /\ unlink.pc = "rmdir"
        /\ cache[p] # None => upload[p] = None
        /\ unlink' = [unlink EXCEPT !.pc = "prefix"]
        /\ cache' = [cache EXCEPT ![p] = None]
        /\ disk' = IF cache[p] = None THEN disk ELSE [disk EXCEPT ![p] = None]
        /\ UNCHANGED <<remoteVars, shadow, pend, journal, queueVars, uploaderVars, handle, inode, acked,
                       gone, budgets>>

\* CancelPrefix cleans up after the entries it finds and leaves other pending files alone.
RmdirCancel ==
    LET p == unlink.path
    IN  /\ unlink.pc = "prefix"
        /\ unlink' = Idle
        /\ \/ HasPath(p) /\ Canceled(p) /\ acked' = [acked EXCEPT ![p] = None]
           \/ ~HasPath(p) /\ UNCHANGED <<queue, worker, shadow, pend, disk, acked>>
        /\ UNCHANGED <<remoteVars, cache, journal, inflight, uploaderVars, handle, inode, gone, budgets>>

Rmdir == RmdirDropCache \/ RmdirCancel

Unlink == UnlinkDropCache \/ UnlinkForget \/ UnlinkCancel \/ UnlinkRemote

-----------------------------------------------------------------------------
(* Other clients, and a crash of the mount *)

OtherClient(p) ==
    /\ p \in SharedPaths /\ writes < MaxWrites
    /\ writes' = writes + 1
    /\ \/ /\ Stored(p, server[p].data \cup {writes + 1}, acked[p])
          /\ gone' = gone \ {p}
       \/ /\ server[p].rev > 0
          /\ server' = [server EXCEPT ![p] = Absent]
          /\ UNCHANGED <<reached, gone>>
    /\ UNCHANGED <<localVars, queueVars, uploaderVars, handle, unlink, inode, acked, faults, crashes>>

\* Mounting again. RecoverFromDisk reads the .meta files, and the journal adds a path that has
\* a record and no .meta file.
Replayed(p) ==
    IF disk[p] # None THEN disk[p]
    ELSE IF journal[p] = None THEN None
    ELSE [kind |-> IF journal[p] = 0 THEN "new" ELSE "overwrite", base |-> journal[p], spill |-> FALSE]

\* ListPending prunes the .meta files without a .dat file, and the .dat files are copied to
\* the shadows that are missing.
Migrated(p) == IF shadow[p] = None /\ Replayed(p) # None /\ cache[p] # None /\ Replayed(p).kind # "conflict"
               THEN cache[p].data ELSE shadow[p]

Pruned(p) == Replayed(p) # None /\ Replayed(p).kind # "conflict" /\ cache[p] = None

\* RecoverPending drops the paths without a shadow and enqueues the ones it can commit.
Recovered(p) == IF Replayed(p) = None \/ Migrated(p) = None THEN None ELSE Replayed(p)

Requeued ==
    {p \in Paths : Recovered(p) # None /\ Recovered(p).kind # "conflict"
                     /\ ~(Recovered(p).kind = "overwrite" /\ Recovered(p).base <= 0)}

Crash ==
    /\ crashes < MaxCrashes
    /\ crashes' = crashes + 1
    /\ shadow' = [p \in Paths |-> Migrated(p)]
    /\ pend' = [p \in Paths |-> Recovered(p)]
    /\ disk' = [p \in Paths |-> IF Recovered(p) = None \/ Pruned(p) THEN None ELSE Replayed(p)]
    /\ cache' = [p \in Paths |->
                   IF cache[p] = None \/ Replayed(p) = None THEN None
                   ELSE [data |-> cache[p].data, kind |-> Replayed(p).kind, base |-> Replayed(p).base]]
    /\ \E s \in SetToSeqs(Requeued) :
         queue' = [i \in 1..(IF Len(s) < MaxPending THEN Len(s) ELSE MaxPending) |->
                     Entry(s[i], Recovered(s[i]), FALSE)]
    /\ inflight' = [p \in Paths |-> None]
    /\ worker' = [w \in Workers |-> Idle]
    /\ submitted' = {}
    /\ upload' = [p \in Paths |-> None]
    /\ handle' = [h \in Handles |-> Free]
    /\ unlink' = Idle
    /\ inode' = [p \in Paths |-> 0]
    /\ UNCHANGED <<remoteVars, journal, acked, gone, writes, faults>>

-----------------------------------------------------------------------------
FileOp ==
    \/ \E h \in Handles, p \in Paths : Create(h, p) \/ Open(h, p)
    \/ \E h \in Handles : Write(h) \/ Flush(h) \/ Fsync(h) \/ Release(h)
    \/ \E p \in Paths : UnlinkStart(p) \/ RmdirRemote(p)

Next ==
    \/ FileOp
    \/ Unlink \/ Rmdir
    \/ \E w \in Workers : Take(w) \/ Commit(w)
    \/ \E p \in Paths : Upload(p) \/ OtherClient(p)
    \/ Crash

Spec == Init /\ [][Next]_vars

\* Goroutines that can run do run; the application and the crashes owe nothing.
FairSpec ==
    /\ Spec
    /\ \A w \in Workers : WF_vars(Take(w) \/ Commit(w))
    /\ \A p \in Paths : WF_vars(Upload(p))
    /\ WF_vars(Unlink \/ Rmdir)

-----------------------------------------------------------------------------
(* Properties *)

Contents == SUBSET (0..MaxWrites)
Revs == 0..(MaxWrites + MaxFaults + MaxRetries + 2)
Metas == [kind : {"new", "overwrite", "conflict"}, base : Revs, spill : BOOLEAN]
Entries == [path : Paths, base : Revs, kind : {"new", "overwrite"}, spill : BOOLEAN, known : BOOLEAN,
            canceled : BOOLEAN]

\* The shape of every piece of state of the mount.
TypeOK ==
    /\ server \in [Paths -> [rev : Revs, data : Contents]]
    /\ shadow \in [Paths -> Contents \cup {None}]
    /\ pend \in [Paths -> Metas \cup {None}]
    /\ disk \in [Paths -> Metas \cup {None}]
    /\ \A p \in Paths : cache[p] # None =>
         cache[p] \in [data : Contents, kind : {"new", "overwrite", "conflict"}, base : Revs]
    /\ journal \in [Paths -> Revs \cup {None}]
    /\ \A i \in DOMAIN queue : queue[i] \in Entries
    /\ inflight \in [Paths -> Workers \cup {None}]
    /\ \A w \in Workers : Busy(w) => worker[w].entry \in Entries /\ worker[w].rev \in Revs
    /\ submitted \subseteq Paths /\ reached \subseteq Paths /\ gone \subseteq Paths
    /\ inode \in [Paths -> Revs]
    /\ acked \in [Paths -> Contents \cup {None}]

\* Once Flush or Fsync has answered OK and the handle is gone, by Release or by a crash, the
\* content is in the shadow file or the write-back cache or has reached the server, until the
\* file is removed, whatever workers, conflicts and failures do: the comment of
\* onCommitTerminalFailure, "deleting them here would silently discard the only durable copy".
AckedSurvives ==
    \A p \in Paths : acked[p] # None /\ ~InUse(p) =>
        \/ shadow[p] # None /\ acked[p] \subseteq shadow[p]
        \/ cache[p] # None /\ acked[p] \subseteq cache[p].data
        \/ p \in reached

\* A file that Unlink has removed from the server stays away until somebody creates it again:
\* no queued, in-flight, retried or recovered commit revives it.
NoRevival == \A p \in gone : server[p].rev = 0

\* A queued commit of a spilled file can be recovered: until its first attempt ends, a crash
\* finds the .meta file and the shadow that RecoverPending needs, unless Unlink is
\* discarding the file.
SpillEntryRecoverable ==
    crashes = 0 =>
        \A p \in {q \in Paths : unlink # Idle => unlink.path # q} :
            (\/ \E i \in DOMAIN queue : queue[i].path = p /\ queue[i].spill /\ ~queue[i].canceled
             \/ \E w \in Workers : worker[w].pc \in {"read", "put"} /\ worker[w].entry.path = p
                                     /\ worker[w].entry.spill /\ ~worker[w].entry.canceled)
            => disk[p] # None /\ shadow[p] # None

\* Every commit leaves the queue: it succeeds, is canceled or is given up.
QueueDrains == \A p \in Paths : HasPath(p) ~> ~HasPath(p)

\* Unlink, which waits for the uploader and for the queue, returns, and so does Rmdir.
UnlinkReturns == unlink # Idle ~> unlink = Idle

\* What close acknowledged can be recovered: it is on the server or in files
\* that a restart of the mount finds and can read, spilled entries included
\* (Release, CommitQueue, RecoverPending).
AckedRecoverable == AckedSurvives /\ SpillEntryRecoverable

\* Nothing hangs: the commit queue drains and an unlink that waits for a
\* commit in flight returns (commitOne's bounded attempts, WaitPath).
NothingHangs == QueueDrains /\ UnlinkReturns
=============================================================================
