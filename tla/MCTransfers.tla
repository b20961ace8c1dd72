---------------------------- MODULE MCTransfers ----------------------------
(***************************************************************************)
(* The transfers of the client and the handlers of the server that serve   *)
(* its multipart uploads, side by side: a behaviour belongs to one         *)
(* component, and the others stay in their initial states.                 *)
(***************************************************************************)
EXTENDS ClientUpload, ClientStream, ClientDownload, ClientAppend, TreeCopy, Uploads

VARIABLE xmode

xvars == <<uvars, svars, dvars, avars, tvars, uploadsVars, xmode>>

\* a directory with a nested one, a file in it and one beside them, and a
\* symbolic link
MCTNodes == {"d", "d/e", "d/e/f", "g", "link"}
MCTDirs == {"d", "d/e"}
MCTParent == [n \in MCTNodes |-> CASE n = "d/e" -> "d" [] n = "d/e/f" -> "d/e" [] OTHER -> "root"]
MCTUnsafe == {"link"}

\* one upload (XFairness counts on that) of four bytes, which the quota admits
MCLiveSize == [u \in Uploads |-> 4]
MCNoRevs == {-1}

XInit ==
  /\ xmode \in {"upload", "stream", "download", "append", "tree", "handlers"}
  /\ UInit /\ SInit /\ DInit /\ AInit /\ TInit /\ UploadsInit
  /\ xmode # "tree" => tsrc = {} /\ troot = "missing"

InUpload(A) == xmode = "upload" /\ A /\ UNCHANGED <<svars, dvars, avars, tvars, uploadsVars, xmode>>
InStream(A) == xmode = "stream" /\ A /\ UNCHANGED <<uvars, dvars, avars, tvars, uploadsVars, xmode>>
InDownload(A) == xmode = "download" /\ A /\ UNCHANGED <<uvars, svars, avars, tvars, uploadsVars, xmode>>
InAppend(A) == xmode = "append" /\ A /\ UNCHANGED <<uvars, svars, dvars, tvars, uploadsVars, xmode>>
InTree(A) == xmode = "tree" /\ A /\ UNCHANGED <<uvars, svars, dvars, avars, uploadsVars, xmode>>
InHandlers(A) == xmode = "handlers" /\ A /\ UNCHANGED <<uvars, svars, dvars, avars, tvars, xmode>>

XNext ==
  \/ InUpload(UNext) \/ InStream(SNext) \/ InDownload(DNext)
  \/ InAppend(ANext) \/ InTree(TNext) \/ InHandlers(UploadsNext)

\* UFairness, SFairness, DFairness or UploadsFairness of the component that
\* runs.  One of them runs in a behaviour, so the fairness of a disjunction over
\* the components is that of its disjunct.
XFairness ==
  /\ WF_xvars(\/ InUpload(Caller) \/ InStream(Closer) \/ InDownload(Downloader)
              \/ InHandlers(replayBatch /\ UNCHANGED <<tenantVars, req>>))
  /\ WF_xvars(\/ InUpload(Pipeline)
              \/ InHandlers(ExpireActiveReservations /\ UNCHANGED <<tenantVars, req>>))
  /\ \A i \in UParts :
       WF_xvars(\/ InUpload(Worker(i))
                \/ i \in SParts /\ InStream(Goroutine(i))
                \/ i \in DW /\ InDownload(RangeWorker(i))
                \/ i \in Handlers \ {NParts} /\ InHandlers(HandlerStep(i))
                \/ i = NParts /\ InHandlers(\E u \in Uploads : PassDeadline(u)))

XSpec == XInit /\ [][XNext]_xvars /\ XFairness

\* The client's calls end: an upload, a stream's Complete or Abort and a
\* download return once their goroutines have.
CallsEnd == UploadReturns /\ StreamEnds /\ DownloadReturns
=============================================================================
