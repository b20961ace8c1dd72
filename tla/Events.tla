------------------------------- MODULE Events -------------------------------
(***************************************************************************)
(* How a mount learns what others changed.  The server publishes an event  *)
(* after each change that it committed, on an in-memory bus that keeps the *)
(* last events.  GET /v1/events replays from the client's cursor, or tells *)
(* it to start over (reset), and then streams.  The mount invalidates what *)
(* it cached: contents of small files (ReadCache) and what it knows of a   *)
(* directory (DirCache).  Its own changes it applies itself and skips in   *)
(* the stream.                                                             *)
(*                                                                         *)
(* One mount, one directory with files EvNames, and other clients.  The    *)
(* two caches do not read each other, so a behaviour follows one of them   *)
(* (ecache) and leaves the other empty.  A                                 *)
(* cached item is `late' when the server had read it for the mount before  *)
(* an invalidation that was handled while the answer was under way.        *)
(***************************************************************************)
EXTENDS Common, Integers, Sequences, FiniteSets, SequencesExt

CONSTANTS
    EvNames,      \* files of the directory
    RingSize,     \* eventBusRingSize
    DirCacheMax,  \* entries DirCache keeps of a directory
    MaxEvChanges, \* bound on changes, when contents are followed
    MaxNameChanges, \* bound on changes, when names are followed
    MaxRestarts   \* bound on restarts of the server

VARIABLES
    fver,    \* [EvNames -> version of the file: the change that made it, or None]
    edir,    \* the directory exists
    echg,    \* changes so far, the id of the latest one
    epend,   \* changes committed, their event not yet published
    ering,   \* the events the bus keeps, oldest first
    eseq,    \* the bus's sequence number
    eepoch,  \* restarts of the server so far
    esess,   \* the event stream of the mount, or None
    ecur,    \* WatchEvents: lastSeq, the epoch it is of, and whether a
             \* replay went on from a cursor of an earlier epoch
    rcache,  \* [EvNames -> cached content, or None]
    dcache,  \* what is cached of the directory, or None
    ecache,  \* the cache this behaviour is about
    mop      \* an operation of the mount waiting for the server, or None

serverVars == <<fver, edir, echg>>
busVars == <<epend, ering, eseq, eepoch>>
streamVars == <<esess, ecur>>
mountVars == <<rcache, dcache, ecache, mop>>
evVars == <<serverVars, busVars, streamVars, mountVars>>

NoEntry == [items |-> << >>, complete |-> FALSE, neg |-> {}, late |-> {}]

EvInit ==
    /\ fver = [n \in EvNames |-> None]
    /\ edir = FALSE
    /\ echg = 0
    /\ epend = {}
    /\ ering = << >>
    /\ eseq = 0
    /\ eepoch = 0
    /\ esess = None
    /\ ecur = [seq |-> 0, epoch |-> 0, gap |-> FALSE]
    /\ rcache = [n \in EvNames |-> None]
    /\ dcache = None
    /\ ecache \in {"content", "names"}
    /\ mop = None

Present == {n \in EvNames : fver[n] # None}

-----------------------------------------------------------------------------
(* The bus.                                                                *)

(* Publish: the oldest event makes room; every listener is woken, its      *)
(* channel holds one signal.                                               *)
Publish(e) ==
    /\ eseq' = eseq + 1
    /\ LET r == Append(ering, [seq |-> eseq + 1, name |-> e.name, op |-> e.op, actor |-> e.actor])
       IN ering' = IF Len(r) > RingSize THEN Tail(r) ELSE r
    /\ esess' = IF esess = None THEN None ELSE [esess EXCEPT !.signal = TRUE]

\* Mutant: the ring is not asked whether it still holds the next event.
EventsSinceLoose(since) ==
    [ok |-> since # 0 /\ ering # << >> /\ since <= Last(ering).seq,
     events |-> SelectSeq(ering, LAMBDA e : e.seq > since)]

(* EventsSince                                                             *)
EventsSince(since) ==
    [ok |-> /\ since # 0
            /\ ering # << >>
            /\ since + 1 >= Head(ering).seq
            /\ since <= Last(ering).seq,
     events |-> SelectSeq(ering, LAMBDA e : e.seq > since)]

(* publishEvent, after the change was committed.                           *)
PublishEventOf(e) ==
    /\ e \in epend
    /\ epend' = epend \ {e}
    /\ Publish(e)
    /\ UNCHANGED <<serverVars, eepoch, ecur, mountVars>>

(* The bus, the streams and what was not yet published are gone.           *)
Restart ==
    /\ eepoch < MaxRestarts
    /\ eepoch' = eepoch + 1
    /\ ering' = << >>
    /\ eseq' = 0
    /\ epend' = {}
    /\ esess' = None
    /\ UNCHANGED <<serverVars, ecur, mountVars>>

-----------------------------------------------------------------------------
(* Changes by other clients, and the server's part of the mount's own.     *)

Committed(files, dir, name, op, actor) ==
    /\ echg < IF ecache = "content" THEN MaxEvChanges ELSE MaxNameChanges
    /\ echg' = echg + 1
    /\ fver' = files
    /\ edir' = dir
    /\ epend' = epend \cup {[name |-> name, op |-> op, actor |-> actor, id |-> echg + 1]}
    /\ UNCHANGED <<ering, eseq, eepoch>>

(* Versions only count for contents.                                       *)
Version == IF ecache = "content" THEN echg + 1 ELSE 0

WriteBy(n, actor) == Committed([fver EXCEPT ![n] = Version], TRUE, n, "write", actor)

DeleteBy(n, actor) == fver[n] # None /\ Committed([fver EXCEPT ![n] = None], edir, n, "delete", actor)

RenameBy(n, t, actor) ==
    /\ fver[n] # None
    /\ n # t
    /\ Committed([fver EXCEPT ![n] = None, ![t] = Version], edir, t, "rename", actor)

OtherChanges ==
    /\ \E n \in EvNames :
          \/ WriteBy(n, "other")
          \/ DeleteBy(n, "other")
          \/ \E t \in EvNames : RenameBy(n, t, "other")
    /\ UNCHANGED <<streamVars, mountVars>>

-----------------------------------------------------------------------------
(* The stream: handleEvents, and WatchEvents on the mount.  What is sent   *)
(* and not yet handled is in esess.sent; a broken stream loses it.         *)

(* Subscribe comes before the first look at the ring.                      *)
Subscribe ==
    /\ esess = None
    /\ esess' = [live |-> FALSE, seen |-> ecur.seq, signal |-> FALSE, sent |-> << >>]
    /\ UNCHANGED <<serverVars, busVars, ecur, mountVars>>

IsStructuralOp(op) == op \in {"rename", "delete", "mkdir", "copy"}

(* sendSSEReset                                                            *)
SendSSEReset(seq) == [reset |-> TRUE, seq |-> seq, name |-> None, actor |-> None]

(* sendSSEEvent, sendSSEStructuralReset                                    *)
SendSSEEvent(e) == [reset |-> IsStructuralOp(e.op), seq |-> e.seq, name |-> e.name, actor |-> e.actor]

Sends(since) ==
    IF EventsSince(since).ok
    THEN LET es == EventsSince(since).events IN [i \in DOMAIN es |-> SendSSEEvent(es[i])]
    ELSE <<SendSSEReset(eseq)>>

Streams ==
    LET s == Sends(esess.seen) IN
    esess' = [live |-> TRUE, seen |-> IF s = << >> THEN esess.seen ELSE Last(s).seq,
              signal |-> FALSE, sent |-> esess.sent \o s]

(* Phase 1: replay or reset.                                               *)
HandleEventsReplay ==
    /\ esess # None
    /\ ~esess.live
    /\ LET s == Sends(esess.seen) IN
       esess' = [live |-> TRUE, seen |-> IF s = << >> THEN esess.seen ELSE Last(s).seq,
                 signal |-> esess.signal, sent |-> s]
    /\ ecur' = [ecur EXCEPT !.gap = @ \/ (EventsSince(esess.seen).ok /\ ecur.epoch # eepoch)]
    /\ UNCHANGED <<serverVars, busVars, mountVars>>

(* Phase 2: one signal stands for all the events since.                    *)
HandleEventsLive ==
    /\ esess # None
    /\ esess.live
    /\ esess.signal
    /\ Streams
    /\ UNCHANGED <<serverVars, busVars, ecur, mountVars>>

(* ctx.Done, a failed write, a proxy: WatchEvents backs off and reconnects.*)
StreamBreaks ==
    /\ esess # None
    /\ esess' = None
    /\ UNCHANGED <<serverVars, busVars, ecur, mountVars>>

Invalidated(names) == mop' = IF mop = None THEN None ELSE [mop EXCEPT !.inval = @ \cup names]

(* handleChange: the file's content and all that is known of its directory.*)
HandleChange(n) ==
    /\ rcache' = [rcache EXCEPT ![n] = None]
    /\ dcache' = None
    /\ Invalidated({n})

(* handleReset: readCache.InvalidateAll, dirCache.InvalidateAll.           *)
HandleReset ==
    /\ rcache' = [n \in EvNames |-> None]
    /\ dcache' = None
    /\ Invalidated(EvNames)

(* handleEvent: the mount's own changes are skipped, resets for want of    *)
(* history have no actor.                                                  *)
HandleEvent(m) ==
    IF m.actor = "self" THEN UNCHANGED <<rcache, dcache, mop>>
    ELSE IF m.reset THEN HandleReset ELSE HandleChange(m.name)

(* parseAndDispatch and the closure of WatchEvents.                        *)
WatchEvents ==
    /\ esess # None
    /\ esess.sent # << >>
    /\ LET m == Head(esess.sent) IN
       /\ ecur' = [seq |-> IF m.seq > ecur.seq THEN m.seq ELSE ecur.seq,
                   epoch |-> IF m.seq > ecur.seq THEN eepoch ELSE ecur.epoch,
                   gap |-> ecur.gap /\ ~(m.reset /\ m.actor = None)]
       /\ HandleEvent(m)
    /\ esess' = [esess EXCEPT !.sent = Tail(@)]
    /\ UNCHANGED <<serverVars, busVars, ecache>>

-----------------------------------------------------------------------------
(* DirCache.                                                               *)

EnsureEntry == IF dcache = None THEN NoEntry ELSE dcache

Known(e) == Range(e.items)

(* dirCacheEntry.remove                                                    *)
Removed(e, n) == [e EXCEPT !.items = SelectSeq(@, LAMBDA x : x # n), !.neg = @ \ {n}, !.late = @ \ {n}]

(* dirCacheEntry.upsert: at the limit the oldest entry goes, and with it   *)
(* the knowledge that the others are all there is.                         *)
UpsertEntry(e, n) ==
    IF n \in Known(e) THEN e
    ELSE IF Len(e.items) >= DirCacheMax
    THEN [e EXCEPT !.items = Append(Tail(@), n), !.neg = @ \ {Head(e.items)}, !.late = @ \ {Head(e.items)},
                   !.complete = FALSE]
    ELSE [e EXCEPT !.items = Append(@, n)]

Followed(e) == IF ecache = "names" THEN e ELSE None

SetLate(e, n, late) == [e EXCEPT !.late = IF n \in late THEN @ \cup {n} ELSE @ \ {n}]

(* Upsert                                                                  *)
Upsert(n, late) ==
    dcache' = Followed(SetLate([UpsertEntry(EnsureEntry, n) EXCEPT !.neg = @ \ {n}], n, late))

(* Remove, then MarkNegative                                               *)
MarkNegative(n, late) ==
    dcache' = Followed(SetLate([Removed(EnsureEntry, n) EXCEPT !.neg = @ \cup {n}], n, late))

(* Put: a listing longer than the limit is cut and not complete.           *)
PutListing(names, late) ==
    LET all == Len(names) <= DirCacheMax
        cut == IF all THEN names ELSE SubSeq(names, 1, DirCacheMax)
    IN dcache' = [NoEntry EXCEPT !.items = cut, !.complete = all, !.late = late]

(* MarkSessionCreatedDir: nothing is below it but what the mount puts.     *)
MarkSessionCreatedDir(late) ==
    dcache' = [EnsureEntry EXCEPT !.complete = TRUE, !.neg = {}, !.late = @ \cup late]

(* Lookup: a name that is not known is missing if it has a negative entry  *)
(* or the rest is complete; for the latter only while its shorter time to  *)
(* live lasts.                                                             *)
NamespaceLookup(n) ==
    IF dcache = None THEN {"none"}
    ELSE IF n \in Known(dcache) THEN {"positive"}
    ELSE IF n \in dcache.neg THEN {"missing"}
    ELSE IF dcache.complete THEN {"missing", "partial"} ELSE {"partial"}

(* prune, and entries that expire.                                         *)
Prune ==
    /\ dcache # None
    /\ \/ \E n \in dcache.neg : dcache' = [dcache EXCEPT !.neg = @ \ {n}]
       \/ dcache' = None
    /\ UNCHANGED <<serverVars, busVars, streamVars, rcache, ecache, mop>>

-----------------------------------------------------------------------------
(* ReadCache.                                                              *)

(* put                                                                     *)
PutContent(n, v, late) ==
    rcache' = IF ecache = "content" THEN [rcache EXCEPT ![n] = [id |-> v, late |-> n \in late]] ELSE rcache

(* An entry's time to live is over, there is no room for it, or Get was    *)
(* asked for another revision (that of the last stat of the inode).        *)
Evict(n) ==
    /\ rcache[n] # None
    /\ rcache' = [rcache EXCEPT ![n] = None]
    /\ UNCHANGED <<serverVars, busVars, streamVars, dcache, ecache, mop>>

-----------------------------------------------------------------------------
(* Operations of the mount: the server's part, then the answer.            *)

Op(kind, n, v) == [kind |-> kind, name |-> n, v |-> v, inval |-> {}]

(* Read on a miss.                                                         *)
ReadFetch(n) ==
    /\ mop = None
    /\ ecache = "content"
    /\ rcache[n] = None
    /\ fver[n] # None
    /\ mop' = Op("read", n, fver[n])
    /\ UNCHANGED <<serverVars, busVars, streamVars, rcache, dcache, ecache>>

ReadPut ==
    /\ mop # None
    /\ mop.kind = "read"
    /\ PutContent(mop.name, mop.v, mop.inval)
    /\ mop' = None
    /\ UNCHANGED <<serverVars, busVars, streamVars, dcache, ecache>>

(* Lookup that the cache cannot answer: a stat.                            *)
StatFetch(n) ==
    /\ mop = None
    /\ ecache = "names"
    /\ NamespaceLookup(n) \cap {"none", "partial"} # {}
    /\ mop' = Op("stat", n, fver[n] # None)
    /\ UNCHANGED <<serverVars, busVars, streamVars, rcache, dcache, ecache>>

LookupAnswer ==
    /\ mop # None
    /\ mop.kind = "stat"
    /\ IF mop.v THEN Upsert(mop.name, mop.inval) ELSE MarkNegative(mop.name, mop.inval)
    /\ mop' = None
    /\ UNCHANGED <<serverVars, busVars, streamVars, rcache, ecache>>

(* listDir on a miss: the listing, then prefetchReadCacheForDir of small   *)
(* files nobody writes.                                                    *)
ListFetch ==
    /\ mop = None
    /\ ecache = "names"
    /\ dcache # None => ~dcache.complete
    /\ edir
    /\ mop' = Op("list", None, Present)
    /\ UNCHANGED <<serverVars, busVars, streamVars, rcache, dcache, ecache>>

ListPut ==
    /\ mop # None
    /\ mop.kind = "list"
    /\ \E names \in SetToSeqs(mop.v) : PutListing(names, mop.inval)
    /\ mop' = None
    /\ UNCHANGED <<serverVars, busVars, streamVars, rcache, ecache>>

(* Candidates are names of the listing just read.                          *)
PrefetchFetch(n) ==
    /\ mop = None
    /\ ecache = "content"
    /\ rcache[n] = None
    /\ fver[n] # None
    /\ mop' = Op("prefetch", n, fver[n])
    /\ UNCHANGED <<serverVars, busVars, streamVars, rcache, dcache, ecache>>

PrefetchPut ==
    /\ mop # None
    /\ mop.kind = "prefetch"
    /\ PutContent(mop.name, mop.v, mop.inval)
    /\ mop' = None
    /\ UNCHANGED <<serverVars, busVars, streamVars, dcache, ecache>>

(* The mount's own changes: onCommitQueueSuccess of a write, Unlink and    *)
(* Mkdir.                                                                  *)
OwnWrite(n) ==
    /\ mop = None
    /\ WriteBy(n, "self")
    /\ mop' = Op("write", n, Version)
    /\ UNCHANGED <<streamVars, rcache, dcache, ecache>>

OnCommitQueueSuccess ==
    /\ mop # None
    /\ mop.kind = "write"
    /\ PutContent(mop.name, mop.v, mop.inval)
    /\ Upsert(mop.name, mop.inval)
    /\ mop' = None
    /\ UNCHANGED <<serverVars, busVars, streamVars, ecache>>

OwnUnlink(n) ==
    /\ mop = None
    /\ DeleteBy(n, "self")
    /\ mop' = Op("unlink", n, None)
    /\ UNCHANGED <<streamVars, rcache, dcache, ecache>>

UnlinkAnswer ==
    /\ mop # None
    /\ mop.kind = "unlink"
    /\ rcache' = [rcache EXCEPT ![mop.name] = None]
    /\ MarkNegative(mop.name, mop.inval)
    /\ mop' = None
    /\ UNCHANGED <<serverVars, busVars, streamVars, ecache>>

OwnMkdir ==
    /\ mop = None
    /\ ecache = "names"
    /\ ~edir
    /\ Committed(fver, TRUE, None, "mkdir", "self")
    /\ mop' = Op("mkdir", None, None)
    /\ UNCHANGED <<streamVars, rcache, dcache, ecache>>

(* mkdirRemoteWithTransientRetry: the answer was lost or the request never *)
(* arrived, and the directory is there now.                                *)
OwnMkdirRecovers ==
    /\ mop = None
    /\ ecache = "names"
    /\ edir
    /\ mop' = [Op("mkdir", None, None) EXCEPT !.inval = EvNames]
    /\ UNCHANGED <<serverVars, busVars, streamVars, rcache, dcache, ecache>>

MkdirAnswer ==
    /\ mop # None
    /\ mop.kind = "mkdir"
    /\ MarkSessionCreatedDir(mop.inval)
    /\ mop' = None
    /\ UNCHANGED <<serverVars, busVars, streamVars, rcache, ecache>>

-----------------------------------------------------------------------------
MountStep ==
    \/ \E n \in EvNames :
          \/ Evict(n) \/ ReadFetch(n) \/ PrefetchFetch(n) \/ StatFetch(n) \/ OwnWrite(n) \/ OwnUnlink(n)
    \/ Prune \/ ListFetch \/ OwnMkdir \/ OwnMkdirRecovers

MountAnswer ==
    \/ ReadPut \/ LookupAnswer \/ ListPut \/ PrefetchPut
    \/ OnCommitQueueSuccess \/ UnlinkAnswer \/ MkdirAnswer

StreamStep == Subscribe \/ HandleEventsReplay \/ HandleEventsLive \/ WatchEvents

PublishStep == \E e \in epend : PublishEventOf(e)

EvNext == OtherChanges \/ PublishStep \/ Restart \/ StreamStep \/ StreamBreaks \/ MountStep \/ MountAnswer

EvSpec == EvInit /\ [][EvNext]_evVars

-----------------------------------------------------------------------------
(* Properties.                                                             *)

Concerns(n, op, name) == IsStructuralOp(op) \/ name = n

(* What a stream that goes on from `since' will still say of n.            *)
WillTell(since, n) ==
    \/ ~EventsSince(since).ok
    \/ \E e \in Range(EventsSince(since).events) : e.actor # "self" /\ Concerns(n, e.op, e.name)

OnItsWay(n) ==
    \/ \E e \in epend : e.actor # "self" /\ Concerns(n, e.op, e.name)
    \/ esess = None /\ (WillTell(ecur.seq, n) \/ ecur.epoch # eepoch)
    \/ esess # None /\ ~esess.live /\ (WillTell(esess.seen, n) \/ ecur.epoch # eepoch)
    \/ esess # None /\ esess.live /\ esess.signal /\ WillTell(esess.seen, n)
    \/ esess # None /\ \E m \in Range(esess.sent) : m.actor # "self" /\ (m.reset \/ m.name = n)
    \/ ecur.gap

(* The mount has changed n itself and waits for the answer.                *)
Awaited(n) ==
    /\ mop # None
    /\ \/ mop.kind = "mkdir"
       \/ mop.kind \in {"write", "unlink"} /\ n = mop.name

StaleContent(n) == rcache[n] # None /\ ~rcache[n].late /\ (fver[n] = None \/ fver[n] # rcache[n].id)

WrongName(n) ==
    /\ dcache # None
    /\ n \notin dcache.late
    /\ \/ n \in Known(dcache) /\ fver[n] = None
       \/ n \notin Known(dcache) /\ fver[n] # None /\ (dcache.complete \/ n \in dcache.neg)

(* Every variable has its type; the bus keeps the last events, without a   *)
(* gap, and no name is both known to exist and known to be missing.        *)
EvTypeOK ==
    /\ Len(ering) <= RingSize
    /\ \A i \in DOMAIN ering : ering[i].seq = eseq - Len(ering) + i
    /\ dcache # None => /\ Len(dcache.items) <= DirCacheMax
                        /\ IsInjective(dcache.items)
                        /\ Known(dcache) \cap dcache.neg = {}
    /\ esess # None => \A m \in Range(esess.sent) : m.seq <= eseq

(* Content the mount would serve although the file was changed by somebody *)
(* else is content whose invalidation is still to come: it is about to be  *)
(* published, in the ring after the cursor with a wake-up pending, on the  *)
(* stream, or a reset is due.  Excepted is what was put late, and what was *)
(* missed because a restarted server did not send a reset (ecur.gap).      *)
ContentAnnounced == \A n \in EvNames : StaleContent(n) => OnItsWay(n) \/ Awaited(n)

(* The same for what the directory cache says of a name: that it exists or *)
(* that it does not, by a listing, a session mark or a negative entry.     *)
NamesAnnounced == \A n \in EvNames : WrongName(n) => OnItsWay(n) \/ Awaited(n)

\* What a mount has cached and the server has changed is announced or will be:
\* an event is under way, or the session will be told to drop everything
\* (EventsSince, the SSE handler, the directory cache).
StaleIsAnnounced == ContentAnnounced /\ NamesAnnounced
=============================================================================
