--------------------------- MODULE ClientDownload ---------------------------
(***************************************************************************)
(* DownloadToFile: the sequential path, and the parallel one where range   *)
(* workers share one resolved object URL that any of them may refresh.     *)
(* Another writer may replace the remote file during the download.  A      *)
(* chunk of the local file holds the version it was read from, or None for *)
(* the zeros the preallocation left.                                       *)
(***************************************************************************)
EXTENDS Common, Integers, Sequences, FiniteSets

CONSTANTS NChunks,     \* downloadChunkSize ranges of the file
          DWorkers,    \* concurrency: workers and capacity of the task channel
          MaxVersions  \* versions of the remote file

ASSUME DownloadAssumption == NChunks \in Nat \ {0} /\ DWorkers \in Nat \ {0} /\ MaxVersions \in Nat \ {0}

VARIABLES dver,     \* the remote file's version
          dstage,   \* the caller: "idle", "resolve", "enqueue", "wait", "sync", "ok", "error"
          dtarget,  \* the version the shared object URL names
          dnext,    \* next range to enqueue
          dtasks,   \* the task channel
          dwork,    \* worker -> [pc, task]
          dlocal,   \* chunk -> version, or None
          derr,     \* errCh holds an error
          dctx,     \* "live", "inner" or "outer"
          dfresh    \* the shared URL was resolved again

dvars == <<dver, dstage, dtarget, dnext, dtasks, dwork, dlocal, derr, dctx, dfresh>>

Chunks == 1..NChunks
DW == 1..DWorkers
DBusy == {"range", "refresh", "again", "write"}
Off == [pc |-> "off", task |-> None]

DTypeOK ==
  /\ dver \in 1..MaxVersions /\ dtarget \in 0..MaxVersions /\ dnext \in 1..(NChunks + 1)
  /\ dstage \in {"idle", "sequential", "resolve", "enqueue", "wait", "sync", "ok", "error"}
  /\ Len(dtasks) <= DWorkers
  /\ \A w \in DW : dwork[w].pc \in DBusy \cup {"off", "next", "ended"}
  /\ dlocal \in [Chunks -> (1..MaxVersions) \cup {None}]
  /\ derr \in BOOLEAN /\ dfresh \in BOOLEAN /\ dctx \in {"live", "inner", "outer"}

DInit ==
  /\ dver = 1 /\ dstage = "idle" /\ dtarget = 0 /\ dnext = 1 /\ dtasks = <<>>
  /\ dwork = [w \in DW |-> Off] /\ dlocal = [c \in Chunks |-> None]
  /\ derr = FALSE /\ dctx = "live" /\ dfresh = FALSE

-----------------------------------------------------------------------------
\* Another client commits a version of the same size; objects of earlier
\* versions stay readable through URLs resolved before.
RemoteOverwrite ==
  /\ dver < MaxVersions /\ dver' = dver + 1
  /\ UNCHANGED <<dstage, dtarget, dnext, dtasks, dwork, dlocal, derr, dctx, dfresh>>

DCallerCancels ==
  /\ dstage \notin {"idle", "ok", "error"} /\ dctx # "outer"
  /\ dctx' = "outer"
  /\ UNCHANGED <<dver, dstage, dtarget, dnext, dtasks, dwork, dlocal, derr, dfresh>>

\* Small files go the sequential way.
DownloadToFile(small) ==
  /\ dstage = "idle"
  /\ dstage' = IF small THEN "sequential" ELSE "resolve"
  /\ UNCHANGED <<dver, dtarget, dnext, dtasks, dwork, dlocal, derr, dctx, dfresh>>

\* downloadToFileSequential: one stream of one version, copied as far as it
\* comes; a broken copy is an error.
DownloadSequential(got, ok) ==
  /\ dstage = "sequential"
  /\ ok => got = NChunks /\ dctx = "live"
  /\ dlocal' = [c \in Chunks |-> IF c <= got THEN dver ELSE None]
  /\ dstage' = IF ok THEN "ok" ELSE "error"
  /\ UNCHANGED <<dver, dtarget, dnext, dtasks, dwork, derr, dctx, dfresh>>

\* resolveReadTarget: a redirect names the object of the current version, an
\* inline answer sends the call to the sequential path.
ResolveReadTarget(answer) ==
  /\ dstage = "resolve"
  /\ answer # "error" => dctx = "live"
  /\ dstage' = CASE answer = "redirect" -> "enqueue"
                 [] answer = "inline" -> "sequential"
                 [] OTHER -> "error"
  /\ dtarget' = IF answer = "redirect" THEN dver ELSE dtarget
  /\ dwork' = IF answer = "redirect" THEN [w \in DW |-> [Off EXCEPT !.pc = "next"]] ELSE dwork
  /\ UNCHANGED <<dver, dnext, dtasks, dlocal, derr, dctx, dfresh>>

\* enqueueLoop: the next range into the channel, or out of it when cancelled.
Enqueue(sent) ==
  /\ dstage = "enqueue" /\ dnext <= NChunks
  /\ IF sent
     THEN /\ Len(dtasks) < DWorkers
          /\ dtasks' = Append(dtasks, dnext) /\ dnext' = dnext + 1
          /\ dstage' = IF dnext = NChunks THEN "wait" ELSE dstage
     ELSE dctx # "live" /\ dstage' = "wait" /\ UNCHANGED <<dtasks, dnext>>
  /\ UNCHANGED <<dver, dtarget, dwork, dlocal, derr, dctx, dfresh>>

-----------------------------------------------------------------------------
(* A range worker.                                                         *)

\* reportErr: only the first error is kept, and it cancels the others.
ReportErr(w) ==
  /\ dwork' = [dwork EXCEPT ![w] = [pc |-> "ended", task |-> None]]
  /\ derr' = TRUE
  /\ dctx' = IF dctx = "outer" THEN "outer" ELSE "inner"

\* The next task; a worker that finds the context done leaves without a word.
TakeTask(w) ==
  /\ dwork[w].pc = "next" /\ dtasks # <<>>
  /\ dtasks' = Tail(dtasks)
  /\ dwork' = [dwork EXCEPT ![w] = IF dctx # "live" THEN [pc |-> "ended", task |-> None]
                                   ELSE [pc |-> "range", task |-> Head(dtasks)]]
  /\ UNCHANGED <<dver, dstage, dtarget, dnext, dlocal, derr, dctx, dfresh>>

NoMoreTasks(w) ==
  /\ dwork[w].pc = "next" /\ dtasks = <<>> /\ dstage = "wait"
  /\ dwork' = [dwork EXCEPT ![w].pc = "ended"]
  /\ UNCHANGED <<dver, dstage, dtarget, dnext, dtasks, dlocal, derr, dctx, dfresh>>

\* readObjectRangeStrict, ReadAll and WriteAt of one range.  A short body, a
\* range the server did not honour and a failed write are errors.
ReadObjectRange(w, answer) ==
  /\ dwork[w].pc \in {"range", "again"}
  /\ answer # "error" => dctx = "live"
  /\ CASE answer = "whole" ->
            /\ dlocal' = [dlocal EXCEPT ![dwork[w].task] = dtarget]
            /\ dwork' = [dwork EXCEPT ![w] = [pc |-> "next", task |-> None]]
            /\ UNCHANGED <<derr, dctx>>
       [] answer = "expired" /\ dwork[w].pc = "range" ->
            dwork' = [dwork EXCEPT ![w].pc = "refresh"] /\ UNCHANGED <<dlocal, derr, dctx>>
       [] OTHER -> ReportErr(w) /\ UNCHANGED dlocal
  /\ UNCHANGED <<dver, dstage, dtarget, dnext, dtasks, dfresh>>

\* refreshTarget replaces the URL every worker uses.
RefreshTarget(w, ok) ==
  /\ dwork[w].pc = "refresh"
  /\ ok => dctx = "live"
  /\ IF ok THEN /\ dtarget' = dver /\ dfresh' = TRUE
                /\ dwork' = [dwork EXCEPT ![w].pc = "again"]
                /\ UNCHANGED <<derr, dctx>>
           ELSE ReportErr(w) /\ UNCHANGED <<dtarget, dfresh>>
  /\ UNCHANGED <<dver, dstage, dnext, dtasks, dlocal>>

-----------------------------------------------------------------------------
\* Mutant: the error channel is not read after the workers have ended.
JoinsIgnoringError ==
  /\ dstage = "wait" /\ \A w \in DW : dwork[w].pc = "ended"
  /\ dstage' = "sync"
  /\ UNCHANGED <<dver, dtarget, dnext, dtasks, dwork, dlocal, derr, dctx, dfresh>>

\* wg.Wait, then errCh alone decides.
DownloadJoins ==
  /\ dstage = "wait" /\ \A w \in DW : dwork[w].pc = "ended"
  /\ dstage' = IF derr THEN "error" ELSE "sync"
  /\ UNCHANGED <<dver, dtarget, dnext, dtasks, dwork, dlocal, derr, dctx, dfresh>>

SyncFile(ok) ==
  /\ dstage = "sync" /\ dstage' = IF ok THEN "ok" ELSE "error"
  /\ UNCHANGED <<dver, dtarget, dnext, dtasks, dwork, dlocal, derr, dctx, dfresh>>

RangeWorker(w) ==
  \/ TakeTask(w) \/ NoMoreTasks(w)
  \/ \E a \in {"whole", "expired", "error"} : ReadObjectRange(w, a)
  \/ \E ok \in BOOLEAN : RefreshTarget(w, ok)

Downloader ==
  \/ \E got \in 0..NChunks, ok \in BOOLEAN : DownloadSequential(got, ok)
  \/ \E a \in {"redirect", "inline", "error"} : ResolveReadTarget(a)
  \/ \E b \in BOOLEAN : Enqueue(b) \/ SyncFile(b)
  \/ DownloadJoins

DNext ==
  \/ \E small \in BOOLEAN : DownloadToFile(small)
  \/ Downloader \/ (\E w \in DW : RangeWorker(w))
  \/ RemoteOverwrite \/ DCallerCancels

\* Goroutines that can go on do, requests are answered or fail.
DFairness == WF_dvars(Downloader) /\ \A w \in DW : WF_dvars(RangeWorker(w))

DSpec == DInit /\ [][DNext]_dvars /\ DFairness

-----------------------------------------------------------------------------
\* A download that succeeded without its caller cancelling it left no hole in
\* the local file, and mixes versions of the remote file only when an expired
\* URL was resolved again (downloadLargeFileParallel).
DownloadWhole ==
  dstage = "ok" /\ dctx # "outer" =>
    /\ \A c \in Chunks : dlocal[c] # None
    /\ dfresh \/ \A c, e \in Chunks : dlocal[c] = dlocal[e]

\* Every download returns: no worker waits for a task that will not come, and
\* the enqueueing loop never waits for workers that have left
\* (downloadLargeFileParallel).
DownloadReturns == (dstage = "resolve") ~> (dstage \in {"ok", "error"})
=============================================================================
