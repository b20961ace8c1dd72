---------------------------- MODULE WriteBuffer ----------------------------
(***************************************************************************)
(* One writable file handle of the FUSE mount: its WriteBuffer             *)
(* (pkg/fuse/write.go), the streaming uploader and the shadow file that    *)
(* may back it, and the flush that publishes the buffer: a direct PUT, a   *)
(* patch of the dirty parts, or a multipart upload (dat9fs.go, client and  *)
(* server side of PatchFile).                                              *)
(*                                                                         *)
(* Bytes are numbers: 0 is a zero byte, 1 a byte of the file as it was     *)
(* opened, 1+i a byte of the i-th operation.  want is the reference: the   *)
(* plain byte sequence the calls on the handle describe, or None once a    *)
(* write has been answered with an error and may have been half done.      *)
(***************************************************************************)
EXTENDS Integers, FiniteSets, Sequences, SequencesExt, Common

CONSTANTS PartSize,     \* bytes of a part
          InlineMax,    \* the server's inline threshold, and smallFileMax
          MaxFile,      \* maxSize of the buffer
          MaxLen,       \* longest write
          MaxOps,       \* writes and truncations of one behaviour
          OrigSizes,    \* sizes a file may have when it is opened
          Patterns      \* mode -> kinds of access the program makes

VARIABLES wmode,   \* how the handle was opened
          wb,      \* the WriteBuffer
          wfh,     \* FileHandle: orig, base, isNew, spill, thr, zero, trunc
          wup,     \* StreamUploader: started, pending, exp
          shadow,  \* content of the shadow file, None without one
          remote,  \* the file on the server: [data, rev, s3], or None
          wf,      \* the flush in flight, or None
          want,    \* the content the program asked for, or None
          foreign, \* the server changed in a way the handle was not told of
          wops     \* operations so far

wvars == <<wmode, wb, wfh, wup, shadow, remote, wf, want, foreign, wops>>

WbModes == DOMAIN Patterns

WbMin(a, b) == IF a < b THEN a ELSE b
WbMax(a, b) == IF a < b THEN b ELSE a

\* s cut or zero-extended to n bytes
Fit(s, n) == [i \in 1..n |-> IF i <= Len(s) THEN s[i] ELSE 0]

\* d written into s at offset off; a gap reads as zeros
Splice(s, off, d) ==
    [i \in 1..WbMax(Len(s), off + Len(d)) |->
        IF i > off /\ i <= off + Len(d) THEN d[i - off]
        ELSE IF i <= Len(s) THEN s[i] ELSE 0]

Slice(s, off, n) == SubSeq(s, off + 1, WbMin(off + n, Len(s)))

\* CalcParts: how many parts a file of n bytes has
PartCount(n) == (n + PartSize - 1) \div PartSize

PartLen(n, p) == WbMin(PartSize, n - p * PartSize)

Spanned(first, end) == (first \div PartSize)..((end - 1) \div PartSize)

-----------------------------------------------------------------------------
(* The buffer.  parts holds the loaded parts, by 0-based index.            *)

NewWriteBuffer ==
    [size |-> 0, parts |-> [p \in {} |-> <<>>], dirty |-> {}, touched |-> FALSE,
     lazy |-> FALSE, remoteSize |-> 0, cursor |-> 0, seq |-> FALSE,
     gone |-> {}, small |-> None]

\* The lazy loader: one part of the file as the server has it now, at most
\* up to the size the file had when it was opened.
LoadPart(b, p) ==
    Slice(remote.data, p * PartSize, WbMin(PartSize, b.remoteSize - p * PartSize))

MustLoad(b, p) ==
    /\ b.small = None
    /\ p \notin DOMAIN b.parts \cup b.gone
    /\ b.lazy /\ p * PartSize < b.remoteSize

\* ensurePart: what part p holds once it is made present.
EnsurePart(b, p) ==
    IF p \in DOMAIN b.parts THEN b.parts[p]
    ELSE IF p \in b.gone THEN Fit(<<>>, PartSize)
    ELSE IF MustLoad(b, p) THEN LoadPart(b, p)
    ELSE <<>>

\* EnsureLoaded, for the Read path
EnsureLoaded(b, ps) ==
    IF b.small # None THEN b
    ELSE [b EXCEPT !.parts =
            [p \in DOMAIN b.parts \cup ps |-> EnsurePart(b, p)]]

MigrateToPartMode(b) ==
    [b EXCEPT !.small = None,
              !.parts = IF b.small = <<>> THEN b.parts
                        ELSE [p \in {0} |-> b.small]]

\* Sequential write detection: a write behind the cursor ends it for good.
Advance(b, off, end) ==
    IF off >= b.cursor THEN [b EXCEPT !.cursor = end]
    ELSE [b EXCEPT !.seq = FALSE]

\* writeSmallFile, for a write that still fits
WriteSmallFile(b, off, d) ==
    LET old == IF b.small = None THEN <<>> ELSE b.small
        new == Splice(Fit(old, WbMax(b.size, Len(old))), off, d)
    IN  Advance([b EXCEPT !.small = new, !.size = WbMax(b.size, off + Len(d)),
                          !.touched = TRUE, !.dirty = @ \cup {0}],
                off, off + Len(d))

\* The part loop of Write.  A load that fails at part stop ends it there:
\* the size and the parts before it are changed, nothing else is.
WriteParts(b, off, d, stop) ==
    LET end   == off + Len(d)
        done  == {p \in Spanned(off, end) : stop = None \/ p < stop}
        Lo(p) == WbMax(off, p * PartSize)
        Hi(p) == WbMin(end, (p + 1) * PartSize)
        grown == [b EXCEPT
                    !.size = WbMax(b.size, end),
                    !.dirty = @ \cup done,
                    !.parts = [p \in DOMAIN b.parts \cup done |->
                        IF p \in done
                        THEN Splice(EnsurePart(b, p), Lo(p) - p * PartSize,
                                    SubSeq(d, Lo(p) - off + 1, Hi(p) - off))
                        ELSE b.parts[p]]]
    IN  IF stop = None THEN Advance([grown EXCEPT !.touched = TRUE], off, end)
        ELSE grown

FitsSmall(b, end) ==
    \/ b.small # None
    \/ /\ PartSize >= InlineMax /\ DOMAIN b.parts = {} /\ ~b.lazy
       /\ end <= InlineMax /\ b.size <= InlineMax

\* Write
BufWrite(b, off, d, stop) ==
    LET end == off + Len(d)
    IN  IF ~FitsSmall(b, end) THEN WriteParts(b, off, d, stop)
        ELSE IF end > InlineMax
        THEN WriteParts(MigrateToPartMode(b), off, d, stop)
        ELSE WriteSmallFile(b, off, d)

\* The parts OnPartFull is called for after a write in part mode.
FullParts(b, c) ==
    {p \in (b.cursor \div PartSize)..((c.cursor \div PartSize) - 1) :
        /\ c.seq /\ c.small = None /\ c.cursor > b.cursor
        /\ p \in DOMAIN c.parts \ c.gone /\ Len(c.parts[p]) = PartSize}

EvictParts(b, ps) ==
    [b EXCEPT !.gone = @ \cup ps,
              !.parts = [p \in DOMAIN b.parts \ ps |-> b.parts[p]]]

\* Truncate, size < current
Shrink(b, n) ==
    LET count  == PartCount(n)
        kept   == {p \in DOMAIN b.parts : p < count}
        marked == b.dirty \cup Spanned(n, b.size)
    IN  IF b.small # None
        THEN [b EXCEPT !.small = Fit(b.small, n), !.size = n,
                       !.touched = TRUE, !.dirty = @ \cup {0}]
        ELSE [b EXCEPT
                !.size = n, !.touched = TRUE,
                !.dirty = (marked \ (DOMAIN b.parts \ kept))
                          \cup (IF n > 0 /\ n % PartSize = 0
                                THEN {count - 1} ELSE {}),
                !.parts = [p \in kept |->
                    IF p = count - 1 /\ Len(b.parts[p]) > n - p * PartSize
                    THEN Fit(b.parts[p], n - p * PartSize)
                    ELSE b.parts[p]]]

\* Truncate, size > current
Grow(b, n) ==
    IF b.small # None /\ n <= InlineMax
    THEN [b EXCEPT !.small = Fit(b.small, n), !.size = n,
                   !.touched = TRUE, !.dirty = @ \cup {0}]
    ELSE LET c == IF b.small # None THEN MigrateToPartMode(b) ELSE b
         IN  [c EXCEPT !.dirty = @ \cup Spanned(c.size, n),
                       !.size = n, !.touched = TRUE]

BufTruncate(b, n) ==
    IF n < b.size THEN Shrink(b, n)
    ELSE IF n > b.size THEN Grow(b, n)
    ELSE [b EXCEPT !.touched = TRUE]

ResetSequentialState(b, n) == [b EXCEPT !.cursor = n, !.seq = TRUE]

HasDirtyParts(b) == b.touched \/ b.dirty # {}

ClearDirty(b) == [b EXCEPT !.dirty = {}, !.touched = FALSE]

\* ReadAt, one byte: what is not in memory reads as zero
ReadAt(b, x) ==
    LET p == x \div PartSize
        s == IF b.small # None THEN b.small
             ELSE IF p \in DOMAIN b.parts THEN b.parts[p] ELSE <<>>
        i == IF b.small # None THEN x + 1 ELSE (x % PartSize) + 1
    IN  IF i <= Len(s) THEN s[i] ELSE 0

\* bytesView
Bytes(b) == [i \in 1..b.size |-> ReadAt(b, i - 1)]

\* PartData, by 0-based index, for a part within the file
PartData(b, p) == [i \in 1..PartLen(b.size, p) |-> ReadAt(b, p * PartSize + i - 1)]

\* Streamed parts that were written again after their eviction
DirtyStreamedParts(b) == b.gone \cap b.dirty

-----------------------------------------------------------------------------
(* What a flush of buffer b sends: how it is sent, whether the server can  *)
(* accept it, the file content that results, and the revision it is        *)
(* conditional on (0: the file must not exist, -1: unconditional).         *)

ExpectedRevisionForHandle ==
    IF wfh.isNew THEN 0 ELSE IF wfh.base > 0 THEN wfh.base ELSE -1

Sending(how, ok, data, exp, locked) ==
    [how |-> how, ok |-> ok, data |-> data, exp |-> exp, locked |-> locked,
     want |-> want, pending |-> wup.pending]

\* SubmitPart, for the parts a write has filled
SubmitParts(b, ps) ==
    [wup EXCEPT !.started = TRUE,
                !.pending = [k \in DOMAIN @ \cup {p + 1 : p \in ps} |->
                                IF k - 1 \in ps THEN b.parts[k - 1] ELSE @[k]]]

\* RefreshExpectedRevision: refused once parts were submitted
RefreshExpectedRevision(rev) ==
    IF wup.started \/ rev < 0 THEN wup ELSE [wup EXCEPT !.exp = rev]

\* The number of the last part when it is partial: only then is it still in
\* the buffer.
LastPart(b) == IF b.size % PartSize # 0 THEN {PartCount(b.size)} ELSE {}

\* FinishStreaming: the parts buffered while writing, the streamed ones that
\* were written again, and the last partial one from the buffer.  Complete
\* refuses a writer no WritePart has started and a missing part, presign a
\* part number past the end.
FinishStreaming(b) ==
    LET n     == PartCount(b.size)
        tail  == LastPart(b)
        again == {p + 1 : p \in DirtyStreamedParts(b)}
        first == (DOMAIN wup.pending \ tail) \cup again
        ok    == b.size > 0 /\ first # {} /\ first \cup tail = 1..n
        Part(k) == IF k \in tail \cup again THEN PartData(b, k - 1)
                   ELSE wup.pending[k]
    IN  Sending("finish", ok,
                IF ok THEN FlattenSeq([k \in 1..n |-> Part(k)]) ELSE <<>>,
                wup.exp, FALSE)

\* UploadAll: every part from the buffer; all but the last by WritePart.
UploadAll(b) ==
    Sending("all", PartCount(b.size) > 1, Bytes(b), wup.exp, FALSE)

\* restoreOnError, after a FinishStreaming that failed
RestorePending ==
    [wup EXCEPT !.pending = [k \in DOMAIN @ \cup DOMAIN wf.pending |->
                                IF k \in DOMAIN @ THEN @[k] ELSE wf.pending[k]]]

UploadFromShadow ==
    Sending("shadow", TRUE, shadow, ExpectedRevisionForHandle, FALSE)

\* InitiatePatchUploadIfRevision: only an S3 object that exists is patched.
PatchAllowed == remote # None /\ remote.s3 /\ ExpectedRevisionForHandle # 0

\* Mutant: a part is copied on the server though it was written.
PatchCopiesDirty(b, p) == p < PartCount(Len(remote.data))

\* A clean part the original has is copied on the server, clamped to the
\* original size; any other is presigned with its length.
PatchCopies(b, p) == p \notin b.dirty /\ p < PartCount(Len(remote.data))

CopyPart(b, p) == Slice(remote.data, p * PartSize, PartLen(b.size, p))

\* uploadPatchPart: the client has content only for the parts it holds dirty.
UploadPatchPart(b, p) == IF p \in b.dirty THEN PartData(b, p) ELSE <<>>

\* PatchFile.  The object store refuses a part whose length is not the
\* presigned one.
PatchFile(b) ==
    LET parts   == 0..PartCount(b.size) - 1
        Part(p) == IF PatchCopies(b, p) THEN CopyPart(b, p) ELSE UploadPatchPart(b, p)
        ok      == /\ PatchAllowed
                   /\ \A p \in parts : PatchCopies(b, p)
                                        \/ Len(Part(p)) = PartLen(b.size, p)
    IN  IF b.dirty = {} THEN Sending("nothing", TRUE, <<>>, ExpectedRevisionForHandle, TRUE)
        ELSE Sending("patch", ok,
                     IF ok THEN FlattenSeq([k \in 1..PartCount(b.size) |-> Part(k - 1)])
                     ELSE <<>>,
                     ExpectedRevisionForHandle, TRUE)

\* The paths of flushHandle that keep the handle locked, which
\* syncWriteHandleToRemoteLocked repeats.
SendWhole(b) ==
    IF b.size = 0 \/ (wfh.thr > 0 /\ b.size < wfh.thr)
    THEN Sending("put", TRUE, Bytes(b), ExpectedRevisionForHandle, TRUE)
    ELSE IF wfh.orig >= wfh.thr THEN PatchFile(b)
    ELSE Sending("stream", TRUE, Bytes(b), ExpectedRevisionForHandle, TRUE)

\* flushHandle and, for a ShadowSpill handle, the upload from the shadow
FlushPlan ==
    IF wfh.spill THEN UploadFromShadow
    ELSE IF wmode = "stream" /\ wup.started THEN FinishStreaming(wb)
    ELSE IF wmode = "stream" /\ wb.size >= InlineMax THEN UploadAll(wb)
    ELSE SendWhole(wb)

RevisionMatches(exp) ==
    CASE exp = -1 -> TRUE
      [] exp = 0  -> remote = None
      [] OTHER    -> remote # None /\ remote.rev = exp

Accepted(f) == f.ok /\ (f.how = "nothing" \/ RevisionMatches(f.exp))

\* The server after it accepted f
WbCommitted(f) ==
    IF f.how = "nothing" THEN remote
    ELSE [data |-> f.data, s3 |-> f.how = "patch" \/ Len(f.data) >= InlineMax,
          rev |-> IF remote = None THEN 1 ELSE remote.rev + 1]

\* finalizeHandleFlushLocked: the handle is now at the revision it committed
FinalizeHandle(h, exp, size) ==
    [h EXCEPT !.isNew = FALSE, !.base = IF exp < 0 THEN 0 ELSE exp + 1,
              !.zero = @ /\ size = 0]

\* A direct PUT answers with the revision it made.
HandleAfterPut(h, rev, size) ==
    [h EXCEPT !.isNew = FALSE, !.base = rev, !.zero = @ /\ size = 0]

HandleAfter(h, f, size) ==
    IF f.how = "put" THEN HandleAfterPut(h, WbCommitted(f).rev, size)
    ELSE FinalizeHandle(h, f.exp, size)

ResetForNextWrite(exp) ==
    [started |-> FALSE, pending |-> [k \in {} |-> <<>>], exp |-> exp]

-----------------------------------------------------------------------------
Idle0 == [started |-> FALSE, pending |-> [k \in {} |-> <<>>], exp |-> 0]

Existing(n) == [data |-> [i \in 1..n |-> 1], rev |-> 1, s3 |-> n >= InlineMax]

\* preloadWritableHandle: only a stat; parts are loaded on demand
PreloadWritableHandle(n) ==
    [NewWriteBuffer EXCEPT !.size = n, !.remoteSize = n, !.lazy = n > 0]

\* preloadWritableHandleFromReadCacheLocked: the whole file, clean
PreloadFromReadCache(n) ==
    IF n = 0 THEN NewWriteBuffer
    ELSE ClearDirty(BufWrite(NewWriteBuffer, 0, [i \in 1..n |-> 1], None))

\* Create, and Open with O_TRUNC of an existing file
EmptyBuffer == [NewWriteBuffer EXCEPT !.touched = TRUE, !.seq = TRUE]

Truncating(m) == m \in {"stream", "spill", "closesync"}

WbInit ==
    /\ wmode \in WbModes
    /\ \E n \in OrigSizes, new, trunc \in BOOLEAN, thr \in {0, InlineMax} :
        /\ new => Truncating(wmode)
        /\ ~new => trunc = Truncating(wmode)
        /\ remote = IF new THEN None ELSE Existing(n)
        /\ wb = CASE Truncating(wmode)  -> EmptyBuffer
                  [] wmode = "cached"   -> PreloadFromReadCache(n)
                  [] OTHER              -> PreloadWritableHandle(n)
        /\ wfh = [orig |-> IF Truncating(wmode) THEN 0 ELSE n,
                  base |-> IF new THEN 0 ELSE 1, isNew |-> new,
                  spill |-> wmode \in {"spill", "closesync"}, thr |-> thr,
                  zero |-> Truncating(wmode) /\ ~new, trunc |-> trunc]
        /\ wup = [Idle0 EXCEPT !.exp = IF new THEN 0 ELSE 1]
        /\ want = IF Truncating(wmode) THEN <<>> ELSE [i \in 1..n |-> 1]
    /\ shadow = IF wmode \in {"spill", "closesync"} THEN <<>> ELSE None
    /\ wf = None
    /\ foreign = FALSE
    /\ wops = 0

-----------------------------------------------------------------------------
\* No flush holds the handle's lock, and the program does not write while
\* one is on its way unless that is among its patterns.
HandleFree ==
    IF wf = None THEN TRUE ELSE ~wf.locked /\ "overlap" \in Patterns[wmode]

\* The program writes again through a handle whose shadow was dropped.
WritesOn == wmode = "closesync" /\ ~wfh.spill => "again" \in Patterns[wmode]

Access(off) ==
    CASE off > wb.size -> "gap" [] off = wb.size -> "append" [] OTHER -> "inplace"

NewData(n) == [i \in 1..n |-> wops + 2]

LoadFailures(b, off, n) ==
    {None} \cup (IF FitsSmall(b, off + n) THEN {}
                 ELSE {p \in Spanned(off, off + n) : MustLoad(b, p)})

\* Write.  The shadow of a ShadowSpill handle is written first, any other
\* afterwards.  A failed load returns an error with the write half done.
WbWrite(off, n) ==
    /\ HandleFree /\ WritesOn /\ wops < MaxOps /\ wmode # "writesync"
    /\ off + n <= MaxFile /\ Access(off) \in Patterns[wmode]
    /\ \E stop \in LoadFailures(wb, off, n) :
        LET c    == BufWrite(wb, off, NewData(n), stop)
            full == FullParts(wb, c)
        IN  /\ wb' = IF wmode \in {"spill", "closesync"}
                     THEN EvictParts(c, full) ELSE c
            /\ wup' = IF wmode # "stream" \/ full = {} THEN wup
                      ELSE SubmitParts(c, full)
            /\ want' = IF want = None \/ stop # None THEN None
                       ELSE Splice(want, off, NewData(n))
    /\ shadow' = IF shadow = None THEN None ELSE Splice(shadow, off, NewData(n))
    /\ wops' = wops + 1
    /\ UNCHANGED <<wmode, wfh, remote, wf, foreign>>

\* truncateWritableHandleLocked
TruncateBuffer(n) == ResetSequentialState(BufTruncate(wb, n), n)

TruncateShadow(n) ==
    IF shadow # None THEN Fit(shadow, n)
    ELSE IF wmode \in {"spill", "closesync"} /\ (n = 0 \/ wfh.isNew)
    THEN Fit(<<>>, n) ELSE None

\* SetAttr with a handle: ftruncate
WbTruncate(n) ==
    /\ HandleFree /\ wops < MaxOps
    /\ (IF n < wb.size THEN "shrink" ELSE IF n > wb.size THEN "grow" ELSE "same")
         \in Patterns[wmode]
    /\ wb' = TruncateBuffer(n)
    /\ want' = IF want = None THEN None ELSE Fit(want, n)
    /\ shadow' = TruncateShadow(n)
    /\ wfh' = [wfh EXCEPT !.zero = (n = 0)]
    /\ wops' = wops + 1
    /\ UNCHANGED <<wmode, wup, remote, wf, foreign>>

\* shouldRefreshHandleAfterPathTruncate
RefreshAfterPathTruncate(h) == h.zero \/ h.trunc

\* updateOpenHandleBaseRevision: the handle of the truncating process, when
\* it is the only one (adopt), is truncated too; a handle with an empty base
\* takes the new revision.
UpdateOpenHandle(adopt, rev) ==
    LET h == [wfh EXCEPT !.zero = @ \/ adopt]
    IN  /\ wb' = IF adopt THEN TruncateBuffer(0) ELSE wb
        /\ wfh' = IF RefreshAfterPathTruncate(h) THEN [h EXCEPT !.base = rev] ELSE h
        /\ wup' = IF RefreshAfterPathTruncate(h) THEN RefreshExpectedRevision(rev) ELSE wup
        /\ shadow' = IF adopt THEN TruncateShadow(0) ELSE shadow

\* SetAttr without a handle, size 0: an empty PUT, then the new revision is
\* read back for the open handle unless that stat fails.  The program behind
\* a clean handle that is not adopted keeps bytes the server has dropped.
PathTruncate(adopt, stat) ==
    /\ HandleFree /\ wops < MaxOps /\ remote # None /\ ~foreign
    /\ "path" \in Patterns[wmode]
    /\ remote' = [data |-> <<>>, rev |-> remote.rev + 1, s3 |-> FALSE]
    /\ IF stat THEN UpdateOpenHandle(adopt, remote.rev + 1)
       ELSE UNCHANGED <<wb, wfh, wup, shadow>>
    /\ want' = IF adopt /\ stat THEN <<>> ELSE IF HasDirtyParts(wb) THEN want ELSE None
    /\ foreign' = ~(stat /\ (adopt \/ RefreshAfterPathTruncate(wfh)))
    /\ wops' = wops + 1
    /\ UNCHANGED <<wmode, wf>>

\* Read on a dirty handle: the parts it touches are loaded first.
WbRead(p) ==
    /\ HandleFree /\ ~wfh.spill /\ HasDirtyParts(wb)
    /\ p < PartCount(wb.size) /\ MustLoad(wb, p)
    /\ wb' = EnsureLoaded(wb, {p})
    /\ UNCHANGED <<wmode, wfh, wup, shadow, remote, wf, want, foreign, wops>>

\* The first half of a flush: what to send is fixed; the two streaming paths
\* and the upload from the shadow then give up the handle's lock.
FlushStart ==
    /\ wf = None /\ HasDirtyParts(wb)
    /\ wf' = FlushPlan
    /\ wup' = CASE FlushPlan.how = "finish" -> [wup EXCEPT !.pending = [k \in {} |-> <<>>]]
                [] FlushPlan.how = "all"    -> [wup EXCEPT !.started = TRUE]
                [] OTHER                    -> wup
    /\ UNCHANGED <<wmode, wb, wfh, shadow, remote, want, foreign, wops>>

Streamed(f) == f.how \in {"finish", "all"}

\* flushHandle after FinishStreaming or UploadAll
FlushStreamDone ==
    /\ wf # None /\ Streamed(wf) /\ Accepted(wf)
    /\ remote' = WbCommitted(wf)
    /\ wb' = ClearDirty(wb)
    /\ wfh' = FinalizeHandle(wfh, wf.exp, wb.size)
    /\ wup' = ResetForNextWrite(IF wf.exp < 0 THEN -1 ELSE wf.exp + 1)
    /\ wf' = None
    /\ UNCHANGED <<wmode, shadow, want, foreign, wops>>

\* flushHandle after a PUT, a patch or a full upload.  After a PUT the
\* streamer keeps the revision it had.
FlushWholeDone ==
    /\ wf # None /\ ~Streamed(wf) /\ wf.how # "shadow" /\ Accepted(wf)
    /\ remote' = WbCommitted(wf)
    /\ wb' = ClearDirty(wb)
    /\ wfh' = HandleAfter(wfh, wf, wb.size)
    /\ wup' = IF wmode = "stream" /\ wf.how # "put"
              THEN ResetForNextWrite(IF wf.exp < 0 THEN -1 ELSE wf.exp + 1) ELSE wup
    /\ wf' = None
    /\ UNCHANGED <<wmode, shadow, want, foreign, wops>>

\* Flush of a ShadowSpill handle in strict mode: base and isNew stay.
FlushSpillDone ==
    /\ wf # None /\ wf.how = "shadow" /\ wmode = "spill" /\ Accepted(wf)
    /\ remote' = WbCommitted(wf)
    /\ wb' = ClearDirty(wb)
    /\ wf' = None
    /\ UNCHANGED <<wmode, wfh, wup, shadow, want, foreign, wops>>

\* syncHandleToRemoteLocked of a ShadowSpill handle: the shadow is dropped.
FlushCloseSyncDone ==
    /\ wf # None /\ wf.how = "shadow" /\ wmode = "closesync" /\ Accepted(wf)
    /\ remote' = WbCommitted(wf)
    /\ wb' = ClearDirty(wb)
    /\ wfh' = [FinalizeHandle(wfh, wf.exp, wb.size) EXCEPT !.spill = FALSE]
    /\ shadow' = None
    /\ wf' = None
    /\ UNCHANGED <<wmode, wup, want, foreign, wops>>

\* The upload failed, or it was committed and the answer was lost.  The
\* parts FinishStreaming took are put back.
FlushFailed(lost) ==
    /\ wf # None
    /\ lost => Accepted(wf) /\ wf.how # "nothing"
    /\ remote' = IF lost THEN WbCommitted(wf) ELSE remote
    /\ foreign' = (foreign \/ lost)
    /\ wup' = IF wf.how = "finish" THEN RestorePending ELSE wup
    /\ wf' = None
    /\ UNCHANGED <<wmode, wb, wfh, shadow, want, wops>>

\* Write under the write-sync policy: the upload is part of the call, with
\* the handle locked.
WbWriteSync(off, n) ==
    /\ wf = None /\ wmode = "writesync" /\ wops < MaxOps
    /\ off + n <= MaxFile /\ Access(off) \in Patterns[wmode]
    /\ LET c == BufWrite(wb, off, NewData(n), None)
           f == SendWhole(c)
       IN  /\ Accepted(f)
           /\ wb' = ClearDirty(c)
           /\ wfh' = HandleAfter(wfh, f, c.size)
           /\ remote' = WbCommitted(f)
    /\ want' = IF want = None THEN None ELSE Splice(want, off, NewData(n))
    /\ wops' = wops + 1
    /\ UNCHANGED <<wmode, wup, shadow, wf, foreign>>

\* restoreFailedWriteSyncLocked: the upload failed, or its answer was lost;
\* the buffer goes back to what it was before the call.
WbWriteSyncFails(off, n, lost) ==
    /\ wf = None /\ wmode = "writesync" /\ wops < MaxOps
    /\ off + n <= MaxFile /\ Access(off) \in Patterns[wmode]
    /\ LET f == SendWhole(BufWrite(wb, off, NewData(n), None))
       IN  /\ lost => Accepted(f)
           /\ remote' = IF lost THEN WbCommitted(f) ELSE remote
    /\ foreign' = (foreign \/ lost)
    /\ wops' = wops + 1
    /\ UNCHANGED <<wmode, wb, wfh, wup, shadow, wf, want>>

\* Another client replaces the file.
OtherClientWrites ==
    /\ remote # None /\ ~foreign
    /\ remote' = [data |-> [i \in 1..InlineMax |-> 9], rev |-> remote.rev + 1, s3 |-> TRUE]
    /\ foreign' = TRUE
    /\ UNCHANGED <<wmode, wb, wfh, wup, shadow, wf, want, wops>>

WbNext ==
    \/ \E off \in 0..MaxFile, n \in 1..MaxLen :
          \/ WbWrite(off, n)
          \/ WbWriteSync(off, n)
          \/ \E lost \in BOOLEAN : WbWriteSyncFails(off, n, lost)
    \/ \E n \in 0..MaxFile : WbTruncate(n)
    \/ \E adopt, stat \in BOOLEAN : PathTruncate(adopt, stat)
    \/ \E p \in 0..PartCount(MaxFile) : WbRead(p)
    \/ FlushStart
    \/ FlushStreamDone
    \/ FlushWholeDone
    \/ FlushSpillDone
    \/ FlushCloseSyncDone
    \/ \E lost \in BOOLEAN : FlushFailed(lost)
    \/ OtherClientWrites

WbSpec == WbInit /\ [][WbNext]_wvars

-----------------------------------------------------------------------------
\* The shape of the buffer: a small-file buffer and loaded parts exclude each
\* other, no part is longer than a part, and nothing lies past the end
\* (write.go's comments on smallFileData and totalSize).
WbTypeOK ==
    /\ wmode \in WbModes
    /\ wb.size \in 0..MaxFile
    /\ wb.small # None => wb.parts = <<>> /\ Len(wb.small) = wb.size
    /\ \A p \in DOMAIN wb.parts : Len(wb.parts[p]) <= PartSize
    /\ wf # None => wf.how \in {"finish", "all", "shadow", "nothing", "patch", "put", "stream"}

\* A handle that has nothing left to flush, on a server nobody else has
\* changed, has published exactly what the program wrote through it
\* (flushHandle, PatchFile and FinishStreaming put the file together from
\* parts kept in different places).
CleanMeansSaved ==
    (~HasDirtyParts(wb) /\ wf = None /\ ~foreign /\ want # None)
        => remote # None /\ remote.data = want

\* A read through a dirty handle returns what was written through it, for
\* every byte it can serve from memory or from the shadow (Read, ReadAt and
\* EnsureLoaded of the dirty path).
ReadsOwnWrites ==
    (HasDirtyParts(wb) /\ ~foreign /\ want # None) =>
        /\ wb.size = Len(want)
        /\ \A x \in 0..wb.size - 1 :
             LET p == x \div PartSize
             IN  IF wfh.spill THEN shadow[x + 1] = want[x + 1]
                 ELSE p \in wb.gone \ DOMAIN wb.parts
                      \/ ReadAt(EnsureLoaded(wb, {p}), x) = want[x + 1]

\* The write-back buffer is faithful to its handle: a clean buffer is what the
\* server has, and a read returns what the handle wrote over what it opened.
BufferFaithful == CleanMeansSaved /\ ReadsOwnWrites
=============================================================================
