---------------------------- MODULE ClientUpload ----------------------------
(***************************************************************************)
(* The multipart upload engines of the Go client: WriteStream (direct PUT, *)
(* v2 with the presign pipeline, v1 as fallback) and ResumeUpload.  One    *)
(* call runs at a time; inside it the presign pipeline, the dispatching    *)
(* loop and one goroutine per part interleave with each other, with        *)
(* failing or lost requests and with the cancellation of the caller's      *)
(* context.  A part holds the number of the source content it was read     *)
(* from, or None.                                                          *)
(***************************************************************************)
EXTENDS Common, Integers, Sequences, FiniteSets

CONSTANTS NParts,       \* parts of the uploaded file
          UParallel,    \* uploadParallelism: workers, batch size, channel size
          MaxCalls,     \* calls: the first WriteStream, then ResumeUpload
          SourceEdits   \* may the local file change between two calls?

ASSUME UploadAssumption == /\ NParts \in Nat \ {0}
                           /\ UParallel \in Nat \ {0}
                           /\ MaxCalls \in Nat \ {0}
                           /\ SourceEdits \in BOOLEAN

VARIABLES ucall,   \* [n, proto, src, srv]: which call, protocol, source, server
          ustage,  \* where the calling goroutine is
          upre,    \* the presign pipeline: next part, batch, channel, closed, err
          uheld,   \* the part the dispatcher waits to start, or None
          utodo,   \* v1: the parts of the plan not dispatched yet
          uwork,   \* part -> where its worker goroutine is
          uerr,    \* errCh holds an error
          uctx,    \* "live", "inner" (cancelled by the engine) or "outer"
          umpu,    \* the server's upload: state and stored parts
          uobj,    \* what the path holds: one token per part
          uret,    \* the answer of the last call
          ulost    \* some answer that created or aborted the upload was lost

uvars == <<ucall, ustage, upre, uheld, utodo, uwork, uerr, uctx, umpu, uobj, uret, ulost>>

UParts == 1..NParts
Nothing == [p \in UParts |-> None]
WholeOf(src) == [p \in UParts |-> src]
InCall == {"get", "read", "put", "represign", "reput"}
Running == {p \in UParts : uwork[p] \in InCall}
Cancelled == uctx # "live"
NoPipeline == [next |-> NParts + 1, batch |-> <<>>, ch |-> <<>>, closed |-> TRUE, err |-> FALSE]
NoUpload == [st |-> "none", parts |-> Nothing]

UTypeOK ==
  /\ ucall \in [n : 0..MaxCalls, proto : {"put", "v2", "v1", "resume"},
                src : 1..MaxCalls, srv : {"v2", "body", "legacy"}]
  /\ ustage \in {"idle", "start", "checksum", "initiate", "query", "resume", "dispatch",
                 "wait", "drain", "complete", "abort", "done"}
  /\ upre.next \in 1..(NParts + UParallel) /\ Len(upre.ch) <= UParallel
  /\ Len(upre.batch) <= UParallel
  /\ uheld \in UParts \cup {None} /\ Cardinality(Running) <= UParallel
  /\ uwork \in [UParts -> InCall \cup {"none", "done", "failed", "gone"}]
  /\ uerr \in BOOLEAN /\ ulost \in BOOLEAN /\ uctx \in {"live", "inner", "outer"}
  /\ umpu.st \in {"none", "open", "committed", "aborted"}
  /\ uret \in {"none", "ok", "error"}

UInit ==
  /\ ucall = [n |-> 0, proto |-> "put", src |-> 1, srv |-> "v2"]
  /\ ustage = "idle" /\ upre = NoPipeline /\ uheld = None /\ utodo = <<>>
  /\ uwork = [p \in UParts |-> "none"] /\ uerr = FALSE /\ uctx = "live"
  /\ umpu = NoUpload /\ uobj = Nothing /\ uret = "none" /\ ulost = FALSE

-----------------------------------------------------------------------------
(* The multipart store, as the local S3 client keeps it.                   *)

CreateMultipart == [st |-> "open", parts |-> Nothing]
StorePart(p, src) == [umpu EXCEPT !.parts[p] = IF umpu.st = "open" THEN src ELSE @]
ListParts == {p \in UParts : umpu.parts[p] # None}
\* A multipart upload is assembled from stored parts only.
Assembles == umpu.st = "open" /\ ListParts = UParts

\* The sweep of expired uploads may drop an upload under the client.
ServerExpires ==
  /\ umpu.st = "open" /\ ustage # "done"
  /\ umpu' = [umpu EXCEPT !.st = "aborted"]
  /\ UNCHANGED <<ucall, ustage, upre, uheld, utodo, uwork, uerr, uctx, uobj, uret, ulost>>

\* The caller cancels its context; the engine's contexts derive from it.
CallerCancels ==
  /\ ustage \notin {"idle", "done"} /\ uctx # "outer"
  /\ uctx' = "outer"
  /\ UNCHANGED <<ucall, ustage, upre, uheld, utodo, uwork, uerr, umpu, uobj, uret, ulost>>

-----------------------------------------------------------------------------
(* Starting a call.                                                        *)

\* Returning from a call cancels what derives from its context.
Returns(answer) ==
  /\ ustage' = "done" /\ uret' = answer
  /\ uctx' = IF uctx = "outer" THEN "outer" ELSE "inner"

\* A direct PUT: size zero, or below a threshold the server advertised.
UseDirectPUT(size, threshold) == size = 0 \/ (threshold > 0 /\ size < threshold)

WriteStream(size, threshold, srv) ==
  /\ ustage = "idle" /\ ucall.n = 0
  /\ ucall' = [n |-> 1, src |-> 1, srv |-> srv,
               proto |-> IF UseDirectPUT(size, threshold) THEN "put" ELSE "v2"]
  /\ ustage' = "start"
  /\ UNCHANGED <<upre, uheld, utodo, uwork, uerr, uctx, umpu, uobj, uret, ulost>>

\* writeCtxConditional: the body reaches the server or not, the answer too.
DirectPut(stored, answered) ==
  /\ ustage = "start" /\ ucall.proto = "put"
  /\ answered => stored
  /\ Cancelled => ~stored
  /\ uobj' = IF stored THEN WholeOf(ucall.src) ELSE uobj
  /\ Returns(IF answered THEN "ok" ELSE "error")
  /\ UNCHANGED <<ucall, upre, uheld, utodo, uwork, uerr, umpu, ulost>>

\* The channels and goroutines of the v2 engine.
StartPipeline == [next |-> 1, batch |-> <<>>, ch |-> <<>>, closed |-> FALSE, err |-> FALSE]

\* An initiate request: "ok", "refused", or its answer lost after it took effect.
Initiated(outcome) ==
  /\ Cancelled => outcome = "refused"
  /\ umpu' = IF outcome = "refused" THEN umpu ELSE CreateMultipart
  /\ ulost' = (ulost \/ outcome = "lost")

InitiateUploadV2(outcome) ==
  /\ ustage = "start" /\ ucall.proto = "v2" /\ ucall.srv = "v2"
  /\ Initiated(outcome)
  /\ IF outcome = "ok"
     THEN /\ ustage' = "dispatch" /\ upre' = StartPipeline /\ UNCHANGED <<uret, uctx>>
     ELSE Returns("error") /\ UNCHANGED upre
  /\ UNCHANGED <<ucall, uheld, utodo, uwork, uerr, uobj>>

\* A server without v2 answers 404: the call goes on with the v1 protocol.
V2NotAvailable ==
  /\ ustage = "start" /\ ucall.proto = "v2" /\ ucall.srv # "v2" /\ ~Cancelled
  /\ ucall' = [ucall EXCEPT !.proto = "v1"] /\ ustage' = "checksum"
  /\ UNCHANGED <<upre, uheld, utodo, uwork, uerr, uctx, umpu, uobj, uret, ulost>>

StartFails ==
  /\ ustage = "start" /\ ucall.proto = "v2" /\ ucall.srv # "v2"
  /\ Returns("error")
  /\ UNCHANGED <<ucall, upre, uheld, utodo, uwork, uerr, umpu, uobj, ulost>>

\* v1 needs the checksum of every part first; a short read ends the call.
ComputePartChecksums(ok) ==
  /\ ustage = "checksum"
  /\ IF ok THEN /\ ustage' = IF ucall.proto = "v1" THEN "initiate" ELSE "resume"
                /\ UNCHANGED <<uret, uctx>>
           ELSE Returns("error")
  /\ UNCHANGED <<ucall, upre, uheld, utodo, uwork, uerr, umpu, uobj, ulost>>

\* The plan of a v1 initiate lists every part.
PlanParts(missing) == SelectSeq([i \in UParts |-> i], LAMBDA p : p \in missing)

PlanOrReturn(outcome) ==
  /\ Initiated(outcome)
  /\ IF outcome = "ok"
     THEN /\ ustage' = "dispatch" /\ utodo' = PlanParts(UParts) /\ UNCHANGED <<uret, uctx>>
     ELSE Returns("error") /\ UNCHANGED utodo
  /\ UNCHANGED <<ucall, upre, uheld, uwork, uerr, uobj>>

InitiateUploadByBody(outcome) ==
  /\ ustage = "initiate" /\ ucall.srv = "body"
  /\ PlanOrReturn(outcome)

\* An older server answers 404, 405 or "unknown upload action" to the body form
\* without side effects, and the plan is requested with headers.
InitiateUploadLegacy(outcome) ==
  /\ ustage = "initiate" /\ ucall.srv = "legacy"
  /\ PlanOrReturn(outcome)

\* ResumeUpload, after an earlier call failed.
ResumeUpload(src) ==
  /\ ustage = "done" /\ uret = "error" /\ ucall.n < MaxCalls /\ ucall.proto # "put"
  /\ upre.closed
  /\ ucall' = [ucall EXCEPT !.n = @ + 1, !.proto = "resume", !.src = src]
  /\ SourceEdits \/ src = ucall.src
  /\ ustage' = "query" /\ uret' = "none" /\ uctx' = "live" /\ uerr' = FALSE
  /\ uheld' = None /\ utodo' = <<>> /\ upre' = NoPipeline
  /\ uwork' = [p \in UParts |-> "none"]
  /\ UNCHANGED <<umpu, uobj, ulost>>

\* queryUpload finds the path's active upload or fails the call.
QueryUpload(ok) ==
  /\ ustage = "query"
  /\ ok => umpu.st = "open" /\ ~Cancelled
  /\ IF ok THEN ustage' = "checksum" /\ UNCHANGED <<uret, uctx>> ELSE Returns("error")
  /\ UNCHANGED <<ucall, upre, uheld, utodo, uwork, uerr, umpu, uobj, ulost>>

\* The server answers with the parts ListParts does not report; what was stored
\* is kept whatever checksums the client sent.
RequestResume(ok) ==
  /\ ok => umpu.st = "open" /\ ~Cancelled
  /\ IF ok
     THEN /\ utodo' = PlanParts(UParts \ ListParts)
          /\ ustage' = IF ListParts = UParts THEN "complete" ELSE "dispatch"
          /\ UNCHANGED <<uret, uctx>>
     ELSE Returns("error") /\ UNCHANGED utodo
  /\ UNCHANGED <<ucall, upre, uheld, uwork, uerr, umpu, uobj, ulost>>

RequestResumeByBody(ok) == ustage = "resume" /\ ucall.srv # "legacy" /\ RequestResume(ok)
RequestResumeLegacy(ok) == ustage = "resume" /\ ucall.srv = "legacy" /\ RequestResume(ok)

-----------------------------------------------------------------------------
(* The presign pipeline of v2.  It runs under the call's context: a failed *)
(* part does not stop it, the return of the call or the caller does.       *)

PipelineCancelled == uctx = "outer" \/ ustage = "done"

\* One presign-batch request for the next parts.
PresignBatch(ok) ==
  LET upto == IF upre.next + UParallel - 1 > NParts THEN NParts ELSE upre.next + UParallel - 1
  IN /\ ~upre.closed /\ upre.batch = <<>>
     /\ ok => umpu.st = "open" /\ ~PipelineCancelled
     /\ upre' = IF ok THEN [upre EXCEPT !.batch = [i \in 1..(upto - upre.next + 1) |-> upre.next + i - 1],
                                        !.next = @ + UParallel]
                      ELSE [upre EXCEPT !.err = TRUE, !.closed = TRUE]
     /\ UNCHANGED <<ucall, ustage, uheld, utodo, uwork, uerr, uctx, umpu, uobj, uret, ulost>>

\* One URL into the channel, or the end of the pipeline when it is cancelled.
PresignPush(sent) ==
  /\ ~upre.closed /\ upre.batch # <<>>
  /\ IF sent THEN Len(upre.ch) < UParallel ELSE PipelineCancelled
  /\ upre' = IF sent
             THEN [upre EXCEPT !.ch = Append(@, Head(upre.batch)), !.batch = Tail(@),
                               !.closed = Len(upre.batch) = 1 /\ upre.next > NParts]
             ELSE [upre EXCEPT !.err = TRUE, !.closed = TRUE]
  /\ UNCHANGED <<ucall, ustage, uheld, utodo, uwork, uerr, uctx, umpu, uobj, uret, ulost>>

-----------------------------------------------------------------------------
(* The dispatching loops.                                                  *)

\* An error seen by the loop cancels the workers and waits for them.
StopDispatch ==
  /\ ustage' = "drain" /\ uctx' = IF uctx = "outer" THEN "outer" ELSE "inner"
  /\ UNCHANGED uheld

\* uploadPartsV2: next presigned part, after the checks for earlier errors.
TakePresigned ==
  /\ ustage = "dispatch" /\ ucall.proto = "v2" /\ uheld = None /\ upre.ch # <<>>
  /\ upre' = [upre EXCEPT !.ch = Tail(@)]
  /\ IF upre.err \/ uerr THEN StopDispatch
     ELSE uheld' = Head(upre.ch) /\ UNCHANGED <<ustage, uctx>>
  /\ UNCHANGED <<ucall, utodo, uwork, uerr, umpu, uobj, uret, ulost>>

\* Next part of a plan.
TakePlanned ==
  /\ ustage = "dispatch" /\ uheld = None /\ utodo # <<>>
  /\ IF uerr THEN StopDispatch /\ UNCHANGED utodo
     ELSE uheld' = Head(utodo) /\ utodo' = Tail(utodo) /\ UNCHANGED <<ustage, uctx>>
  /\ UNCHANGED <<ucall, upre, uwork, uerr, umpu, uobj, uret, ulost>>

UploadPartsOnly == ucall.proto = "v1" /\ TakePlanned
UploadMissingParts == ucall.proto = "resume" /\ TakePlanned

\* A semaphore slot starts the worker of the held part.
StartWorker ==
  /\ ustage = "dispatch" /\ uheld # None /\ Cardinality(Running) < UParallel
  /\ uwork' = [uwork EXCEPT ![uheld] = "get"] /\ uheld' = None
  /\ UNCHANGED <<ucall, ustage, upre, utodo, uerr, uctx, umpu, uobj, uret, ulost>>

\* The other arm of that select: the context is done.
DispatchCancelled ==
  /\ ustage = "dispatch" /\ uheld # None /\ Cancelled
  /\ ustage' = "drain" /\ uheld' = None
  /\ UNCHANGED <<ucall, upre, utodo, uwork, uerr, uctx, umpu, uobj, uret, ulost>>

\* Every part is dispatched: the channel is closed and empty, or the plan done.
DispatchEnds ==
  /\ ustage = "dispatch" /\ uheld = None
  /\ IF ucall.proto = "v2" THEN upre.ch = <<>> /\ upre.closed ELSE utodo = <<>>
  /\ ustage' = "wait"
  /\ UNCHANGED <<ucall, upre, uheld, utodo, uwork, uerr, uctx, umpu, uobj, uret, ulost>>

-----------------------------------------------------------------------------
(* The goroutine of one part.                                              *)

\* The first error goes to errCh; it cancels the other workers.
Fails(p) ==
  /\ uwork' = [uwork EXCEPT ![p] = "failed"]
  /\ uerr' = TRUE
  /\ uctx' = IF uctx = "outer" THEN "outer" ELSE "inner"

\* bufferPool.get: a worker that loses this select to a done context returns
\* without reporting anything.
GetBuffer(p, got) ==
  /\ uwork[p] = "get"
  /\ got \/ Cancelled
  /\ uwork' = [uwork EXCEPT ![p] = IF got THEN "read" ELSE "gone"]
  /\ UNCHANGED <<ucall, ustage, upre, uheld, utodo, uerr, uctx, umpu, uobj, uret, ulost>>

\* ReadAt of the part's range: it fails or comes short, or it is whole.
ReadPart(p, ok) ==
  /\ uwork[p] = "read"
  /\ IF ok THEN uwork' = [uwork EXCEPT ![p] = "put"] /\ UNCHANGED <<uerr, uctx>>
           ELSE Fails(p)
  /\ UNCHANGED <<ucall, ustage, upre, uheld, utodo, umpu, uobj, uret, ulost>>

\* What a PUT of a part leaves: the store may have it though the answer is lost.
PutStores(p, outcome) ==
  /\ outcome = "ok" => umpu.st = "open" /\ ~Cancelled
  /\ outcome = "expired" => ~Cancelled
  /\ umpu' = IF outcome \in {"ok", "lost"} THEN StorePart(p, ucall.src) ELSE umpu

\* uploadOnePart (v1): any refusal is final.
UploadOnePart(p, outcome) ==
  /\ uwork[p] = "put" /\ ucall.proto # "v2"
  /\ PutStores(p, outcome)
  /\ IF outcome = "ok" THEN uwork' = [uwork EXCEPT ![p] = "done"] /\ UNCHANGED <<uerr, uctx>>
                       ELSE Fails(p)
  /\ UNCHANGED <<ucall, ustage, upre, uheld, utodo, uobj, uret, ulost>>

\* uploadOnePartV2: a 403 asks for a fresh URL, once.
UploadOnePartV2(p, outcome) ==
  /\ uwork[p] \in {"put", "reput"} /\ ucall.proto = "v2"
  /\ PutStores(p, outcome)
  /\ CASE outcome = "ok" ->
            uwork' = [uwork EXCEPT ![p] = "done"] /\ UNCHANGED <<uerr, uctx>>
       [] outcome = "expired" /\ uwork[p] = "put" ->
            uwork' = [uwork EXCEPT ![p] = "represign"] /\ UNCHANGED <<uerr, uctx>>
       [] OTHER -> Fails(p)
  /\ UNCHANGED <<ucall, ustage, upre, uheld, utodo, uobj, uret, ulost>>

PresignOnePart(p, ok) ==
  /\ uwork[p] = "represign"
  /\ ok => umpu.st = "open" /\ ~Cancelled
  /\ IF ok THEN uwork' = [uwork EXCEPT ![p] = "reput"] /\ UNCHANGED <<uerr, uctx>>
           ELSE Fails(p)
  /\ UNCHANGED <<ucall, ustage, upre, uheld, utodo, umpu, uobj, uret, ulost>>

-----------------------------------------------------------------------------
(* The end of a call.                                                      *)

\* A call that failed: v2 aborts its upload, v1 and resume leave it resumable.
GiveUp == IF ucall.proto = "v2" THEN ustage' = "abort" /\ UNCHANGED <<uret, uctx>>
          ELSE Returns("error")

\* wg.Wait after the loop, then the error channels.
WaitWorkers ==
  /\ ustage = "wait" /\ Running = {}
  /\ IF uerr \/ (ucall.proto = "v2" /\ upre.err) THEN GiveUp
     ELSE ustage' = "complete" /\ UNCHANGED <<uret, uctx>>
  /\ UNCHANGED <<ucall, upre, uheld, utodo, uwork, uerr, umpu, uobj, ulost>>

\* wg.Wait of an early return.
DrainWorkers ==
  /\ ustage = "drain" /\ Running = {}
  /\ GiveUp
  /\ UNCHANGED <<ucall, upre, uheld, utodo, uwork, uerr, umpu, uobj, ulost>>

\* Mutant: the complete request has a context of its own.
SendableAlways == TRUE

\* A request made under the caller's context is sent only while it is live.
Sendable == uctx # "outer"

\* The complete request: the server assembles the object or refuses; the
\* answer may be lost.
UploadCompleted(outcome) ==
  /\ ustage = "complete"
  /\ outcome # "refused" => Sendable /\ Assembles
  /\ IF outcome = "refused" THEN UNCHANGED <<umpu, uobj>>
     ELSE umpu' = [umpu EXCEPT !.st = "committed"] /\ uobj' = umpu.parts

CompleteUpload(outcome) ==
  /\ ucall.proto # "v2" /\ UploadCompleted(outcome)
  /\ Returns(IF outcome = "ok" THEN "ok" ELSE "error")
  /\ UNCHANGED <<ucall, upre, uheld, utodo, uwork, uerr, ulost>>

CompleteUploadV2(outcome) ==
  /\ ucall.proto = "v2" /\ UploadCompleted(outcome)
  /\ IF outcome = "ok" THEN Returns("ok") ELSE GiveUp
  /\ UNCHANGED <<ucall, upre, uheld, utodo, uwork, uerr, ulost>>

\* The best-effort abort runs under a context of its own.
AbortUploadV2(reached) ==
  /\ ustage = "abort"
  /\ umpu' = [umpu EXCEPT !.st = IF reached /\ @ = "open" THEN "aborted" ELSE @]
  /\ ulost' = (ulost \/ ~reached)
  /\ Returns("error")
  /\ UNCHANGED <<ucall, upre, uheld, utodo, uwork, uerr, uobj>>

-----------------------------------------------------------------------------
Worker(p) ==
  \/ \E got \in BOOLEAN : GetBuffer(p, got)
  \/ \E ok \in BOOLEAN : ReadPart(p, ok)
  \/ \E o \in {"ok", "lost", "refused"} : UploadOnePart(p, o)
  \/ \E o \in {"ok", "lost", "refused", "expired"} : UploadOnePartV2(p, o)
  \/ \E ok \in BOOLEAN : PresignOnePart(p, ok)

Pipeline ==
  \/ \E ok \in BOOLEAN : PresignBatch(ok)
  \/ \E sent \in BOOLEAN : PresignPush(sent)

Caller ==
  \/ \E stored, answered \in BOOLEAN : DirectPut(stored, answered)
  \/ \E o \in {"ok", "refused", "lost"} :
       \/ InitiateUploadV2(o) \/ InitiateUploadByBody(o) \/ InitiateUploadLegacy(o)
       \/ CompleteUpload(o) \/ CompleteUploadV2(o)
  \/ V2NotAvailable \/ StartFails
  \/ \E ok \in BOOLEAN :
       \/ ComputePartChecksums(ok) \/ QueryUpload(ok)
       \/ RequestResumeByBody(ok) \/ RequestResumeLegacy(ok) \/ AbortUploadV2(ok)
  \/ TakePresigned \/ UploadPartsOnly \/ UploadMissingParts \/ StartWorker \/ DispatchCancelled \/ DispatchEnds
  \/ WaitWorkers \/ DrainWorkers

UNext ==
  \/ \E size \in 0..2, threshold \in {0, 2}, srv \in {"v2", "body", "legacy"} :
       WriteStream(size, threshold, srv)
  \/ \E src \in 1..MaxCalls : ResumeUpload(src)
  \/ Caller \/ Pipeline \/ (\E p \in UParts : Worker(p))
  \/ ServerExpires \/ CallerCancels

\* Every goroutine that can run does, and every request gets an answer or an
\* error: the HTTP client and the contexts guarantee no more.
UFairness == /\ WF_uvars(Caller)
             /\ WF_uvars(Pipeline)
             /\ \A p \in UParts : WF_uvars(Worker(p))

USpec == UInit /\ [][UNext]_uvars /\ UFairness

-----------------------------------------------------------------------------
\* A call that reports success left the whole source at the path: no part is
\* missing, and none comes from an earlier state of the local file
\* (writeStreamConditionalWithSummary, ResumeUploadWithSummaryAndTags).
OkMeansUploaded == uret = "ok" => uobj = WholeOf(ucall.src)

\* The complete request is sent only when every worker has stored its part: a
\* worker that returned without an error because its context was done never
\* leads to a complete (uploadPartsV2, uploadPartsOnly, uploadMissingParts).
CompleteSentWhole ==
  ustage = "complete" /\ Sendable =>
    \A p \in UParts : uwork[p] = "done" \/ (ucall.proto = "resume" /\ uwork[p] = "none")

\* A v2 call that failed leaves no open upload behind, unless the answer of
\* its initiate or its abort request was lost, and no goroutine of it writes
\* parts after the return (writeStreamV2WithSummary).
V2LeavesNothing ==
  ustage = "done" /\ ucall.proto = "v2" =>
    /\ umpu.st = "open" => ulost
    /\ Running = {}

\* Every call returns, and its goroutines end: the presign pipeline too, which
\* only the end of the call stops once a part has failed (presignPipeline).
UploadReturns ==
  (ustage = "start") ~> (ustage = "done" /\ Running = {} /\ upre.closed)

\* The answer of an upload call is true: nil means the whole file was
\* committed, the complete request names every part, and a v2 call that failed
\* leaves no upload behind unless its abort failed as well.
UploadAnswerTrue == OkMeansUploaded /\ CompleteSentWhole /\ V2LeavesNothing
=============================================================================
