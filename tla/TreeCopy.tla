------------------------------ MODULE TreeCopy ------------------------------
(***************************************************************************)
(* drive9 fs cp: the choice among the copies, and the recursive copy of a  *)
(* tree in its three directions.  The walk, the checks of the destination, *)
(* the directories and the parallel transfers are separate requests, and   *)
(* other users change the source and the destination between them.         *)
(***************************************************************************)
EXTENDS Common, Integers, Sequences, SequencesExt, FiniteSetsExt

CONSTANTS TNodes,      \* relative paths of the tree
          TDirs,       \* those that are directories
          TParent,     \* node -> parent directory, or "root"
          TUnsafe,     \* names joinRemoteSafe and joinLocalSafe reject, symlinks
          TBatch,      \* MaxBatchStatPaths
          TSlots,      \* recursiveCopyConcurrency
          MaxOthers    \* changes by other users

ASSUME TreeAssumption == /\ TDirs \subseteq TNodes /\ TUnsafe \subseteq TNodes
                         /\ TBatch \in Nat \ {0} /\ TSlots \in Nat \ {0} /\ MaxOthers \in Nat

VARIABLES tsrc,    \* the nodes of the source tree
          tdst,    \* destination: node -> "none", "dir", "theirs" or "copied"
          troot,   \* destination root: "missing", "dir" or "file"
          tkind,   \* "up", "down", "remote", or None before the call
          tstage,  \* where the copy is
          tqueue,  \* directories to list
          tdirs, tfiles,  \* the plan
          ttodo,   \* nodes the stage has left
          twork,   \* file -> transfer
          tfailed, \* the collected failures: any?
          tcancel, \* the context is done
          tret,    \* result
          told,    \* destinations that were there before the preflight
          tquiet,  \* no failed request and nobody else so far
          tothers  \* changes by other users so far

tvars == <<tsrc, tdst, troot, tkind, tstage, tqueue, tdirs, tfiles, ttodo, twork,
           tfailed, tcancel, tret, told, tquiet, tothers>>

TFiles == TNodes \ TDirs
Depth[n \in TNodes] == IF TParent[n] = "root" THEN 1 ELSE 1 + Depth[TParent[n]]
Children(d) == {n \in TNodes : TParent[n] = d /\ n \in tsrc}
Present == {n \in TNodes : tdst[n] # "none"}

TTypeOK ==
  /\ tsrc \subseteq TNodes
  /\ tdst \in [TNodes -> {"none", "dir", "theirs", "copied"}]
  /\ troot \in {"missing", "dir", "file"}
  /\ tstage \in {"idle", "walk", "root", "preflight", "mkdir", "launch", "done"}
  /\ tdirs \subseteq TDirs /\ tfiles \subseteq TFiles
  /\ twork \in [TFiles -> {"none", "running", "done", "failed"}]
  /\ Cardinality({f \in TFiles : twork[f] = "running"}) <= TSlots

TInit ==
  /\ tsrc \in {s \in SUBSET TNodes : \A n \in s : TParent[n] \in s \cup {"root"}}
  /\ troot \in {"missing", "dir", "file"}
  /\ tdst \in {[n \in TNodes |-> "none"]} \cup
              {[n \in TNodes |-> IF n = m THEN "theirs" ELSE "none"] : m \in {x \in TFiles : TParent[x] = "root"}}
  /\ troot # "dir" => Present = {}
  /\ tkind = None /\ tstage = "idle" /\ tqueue = <<>> /\ tdirs = {} /\ tfiles = {}
  /\ ttodo = <<>> /\ twork = [f \in TFiles |-> "none"] /\ tfailed = FALSE /\ tcancel = FALSE
  /\ tret = "none" /\ told = {} /\ tquiet = TRUE /\ tothers = 0

-----------------------------------------------------------------------------
(* The command line.                                                       *)

\* Flag combinations Cp refuses before it does anything.
CpRejects(flags, from, to) ==
  \/ {"resume", "append"} \subseteq flags
  \/ "append" \in flags /\ ({"tag", "description"} \cap flags # {} \/ from # "local" \/ to # "remote")
  \/ {"resume", "description"} \subseteq flags
  \/ "recursive" \in flags /\ (flags # {"recursive"} \/ "-" \in {from, to})
  \/ "description" \in flags /\ ~(to = "remote" /\ from \in {"-", "local"})
  \/ "tag" \in flags /\ (from = "remote" \/ to # "remote")
  \/ "remote" \notin {from, to}

\* The tree copy a recursive command selects.
TreeKind(from, to) == CASE from = "local" -> "up" [] to = "local" -> "down" [] OTHER -> "remote"

TEnds(answer) == tstage' = "done" /\ tret' = answer

Cp(flags, from, to) ==
  /\ tstage = "idle" /\ "recursive" \in flags
  /\ IF CpRejects(flags, from, to)
     THEN TEnds("error") /\ tquiet' = FALSE /\ UNCHANGED <<tkind, tqueue>>
     ELSE /\ tkind' = TreeKind(from, to) /\ tstage' = "walk" /\ tqueue' = <<"root">>
          /\ UNCHANGED <<tret, tquiet>>
  /\ UNCHANGED <<tsrc, tdst, troot, tdirs, tfiles, ttodo, twork, tfailed, tcancel, told, tothers>>

\* Any request of a tree copy may fail and end it.
CopyFails ==
  /\ tstage \in {"walk", "root", "preflight", "mkdir"}
  /\ TEnds("error") /\ tquiet' = FALSE
  /\ UNCHANGED <<tsrc, tdst, troot, tkind, tqueue, tdirs, tfiles, ttodo, twork, tfailed, tcancel, told, tothers>>

-----------------------------------------------------------------------------
(* The walk comes before anything is changed.                              *)

\* walkRemoteTreeBFS, and filepath.Walk: list one directory, visit its entries.
WalkDir(d) ==
  LET entries == IF d = "root" \/ d \in tsrc THEN Children(d) ELSE {}
  IN IF entries \cap TUnsafe # {}
     THEN TEnds("error") /\ tquiet' = FALSE /\ UNCHANGED <<tqueue, tdirs, tfiles>>
     ELSE /\ tdirs' = tdirs \cup (entries \cap TDirs)
          /\ tfiles' = tfiles \cup (entries \cap TFiles)
          /\ tqueue' = Tail(tqueue) \o SetToSeq(entries \cap TDirs)
          /\ tstage' = IF tqueue' = <<>> THEN "root" ELSE "walk"
          /\ UNCHANGED <<tret, tquiet>>

WalkTree(kind) ==
  /\ tstage = "walk" /\ tkind = kind /\ WalkDir(Head(tqueue))
  /\ UNCHANGED <<tsrc, tdst, troot, tkind, ttodo, twork, tfailed, tcancel, told, tothers>>

\* The walks of copyTreeLocalToRemote, copyTreeRemoteToLocal and
\* copyTreeRemoteToRemote, with the names each of them joins to its destination.
WalkForUpload == WalkTree("up")
WalkForDownload == WalkTree("down")
WalkForCopy == WalkTree("remote")

\* remotePathStatus or os.Stat of the destination root: a file is refused.
CheckRoot(kind) ==
  /\ tstage = "root" /\ tkind = kind
  /\ IF troot = "file"
     THEN TEnds("error") /\ tquiet' = FALSE /\ UNCHANGED <<ttodo, told>>
     ELSE /\ tstage' = "preflight" /\ told' = Present
          /\ ttodo' = SetToSeq(tdirs \cup tfiles)
          /\ UNCHANGED <<tret, tquiet>>
  /\ UNCHANGED <<tsrc, tdst, troot, tkind, tqueue, tdirs, tfiles, twork, tfailed, tcancel, tothers>>

RootForUpload == CheckRoot("up")
RootForDownload == CheckRoot("down")
RootForCopy == CheckRoot("remote")

\* Parents before children.
ByDepth(dirs) == SetToSortSeq(dirs, LAMBDA a, b : Depth[a] < Depth[b])

\* One batch of the preflight; any destination that exists ends the copy.  The
\* root follows the last batch.
Preflight(local) ==
  LET n == Min({TBatch, Len(ttodo)})
      batch == ToSet(SubSeq(ttodo, 1, n))
  IN /\ tstage = "preflight" /\ (tkind = "down") = local
     /\ IF batch \cap Present # {}
        THEN TEnds("error") /\ tquiet' = FALSE /\ UNCHANGED <<ttodo, troot>>
        ELSE IF n < Len(ttodo)
        THEN ttodo' = SubSeq(ttodo, n + 1, Len(ttodo)) /\ UNCHANGED <<troot, tstage, tret, tquiet>>
        ELSE /\ tstage' = "mkdir" /\ ttodo' = ByDepth(tdirs) /\ troot' = "dir"
             /\ UNCHANGED <<tret, tquiet>>
     /\ UNCHANGED <<tsrc, tdst, tkind, tqueue, tdirs, tfiles, twork, tfailed, tcancel, told, tothers>>

PreflightDestinations == Preflight(FALSE)
PreflightLocalDestinations == Preflight(TRUE)

-----------------------------------------------------------------------------
(* Directories, parents first.                                             *)

\* The server's mkdir creates missing parents and refuses a path that exists;
\* os.MkdirAll accepts a directory that exists.
Ancestors[n \in TNodes] == IF TParent[n] = "root" THEN {} ELSE {TParent[n]} \cup Ancestors[TParent[n]]
WithParents(n) == [m \in TNodes |-> IF m \in Ancestors[n] /\ tdst[m] = "none" THEN "dir" ELSE tdst[m]]

MkdirRefused(d) == tdst[d] # "none" \/ \E a \in Ancestors[d] : tdst[a] \notin {"none", "dir"}
MkdirAllRefused(d) == \E a \in {d} \cup Ancestors[d] : tdst[a] \notin {"none", "dir"}

MakeDir(refused) ==
  /\ tstage = "mkdir" /\ ttodo # <<>>
  /\ IF refused
     THEN TEnds("error") /\ UNCHANGED <<tdst, ttodo>>
     ELSE /\ tdst' = [WithParents(Head(ttodo)) EXCEPT ![Head(ttodo)] = "dir"]
          /\ ttodo' = Tail(ttodo) /\ UNCHANGED <<tstage, tret>>
  /\ UNCHANGED <<tsrc, troot, tkind, tqueue, tdirs, tfiles, twork, tfailed, tcancel, told, tquiet, tothers>>

MkdirRemoteTree == tkind # "down" /\ ttodo # <<>> /\ MakeDir(MkdirRefused(Head(ttodo)))
MkdirLocalTree == tkind = "down" /\ ttodo # <<>> /\ MakeDir(MkdirAllRefused(Head(ttodo)))

DirsMade(kind) ==
  /\ tstage = "mkdir" /\ tkind = kind /\ ttodo = <<>>
  /\ tstage' = "launch" /\ ttodo' = SetToSeq(tfiles)
  /\ UNCHANGED <<tsrc, tdst, troot, tkind, tqueue, tdirs, tfiles, twork, tfailed, tcancel, tret, told, tquiet, tothers>>

UploadFiles == DirsMade("up")
DownloadFiles == DirsMade("down")
CopyFiles == DirsMade("remote")

-----------------------------------------------------------------------------
(* parallelTransfer.                                                       *)

TRunning == {f \in TFiles : twork[f] = "running"}

Launch ==
  /\ tstage = "launch" /\ ttodo # <<>> /\ Cardinality(TRunning) < TSlots
  /\ twork' = [twork EXCEPT ![Head(ttodo)] = "running"] /\ ttodo' = Tail(ttodo)
  /\ UNCHANGED <<tsrc, tdst, troot, tkind, tstage, tqueue, tdirs, tfiles, tfailed, tcancel, tret, told, tquiet, tothers>>

\* Mutant: the launcher leaves its loop without recording the cancellation.
LaunchLeaves ==
  /\ tstage = "launch" /\ ttodo # <<>> /\ tcancel
  /\ ttodo' = <<>>
  /\ UNCHANGED <<tsrc, tdst, troot, tkind, tstage, tqueue, tdirs, tfiles, twork, tfailed, tcancel, tret, told, tquiet, tothers>>

\* Both selects of the launcher record the cancellation and leave the loop.
LaunchCancelled ==
  /\ tstage = "launch" /\ ttodo # <<>> /\ tcancel
  /\ ttodo' = <<>> /\ tfailed' = TRUE
  /\ UNCHANGED <<tsrc, tdst, troot, tkind, tstage, tqueue, tdirs, tfiles, twork, tcancel, tret, told, tquiet, tothers>>

\* One leaf: an upload and a download replace what is there, a server-side
\* copy refuses it.  The source is read at this moment.
TransferRefused(f) ==
  \/ f \notin tsrc
  \/ tdst[f] = "dir"
  \/ \E a \in Ancestors[f] : tdst[a] \notin {"none", "dir"}
  \/ tkind = "remote" /\ tdst[f] # "none"

TransferFile(f, ok) ==
  /\ twork[f] = "running"
  /\ ok => ~TransferRefused(f) /\ ~tcancel
  /\ IF ok THEN /\ tdst' = [WithParents(f) EXCEPT ![f] = "copied"]
                /\ twork' = [twork EXCEPT ![f] = "done"] /\ UNCHANGED <<tfailed, tquiet>>
     ELSE /\ twork' = [twork EXCEPT ![f] = "failed"] /\ tfailed' = TRUE /\ tquiet' = FALSE
          /\ UNCHANGED tdst
  /\ UNCHANGED <<tsrc, troot, tkind, tstage, tqueue, tdirs, tfiles, ttodo, tcancel, tret, told, tothers>>

TransfersJoin ==
  /\ tstage = "launch" /\ ttodo = <<>> /\ TRunning = {}
  /\ TEnds(IF tfailed THEN "error" ELSE "ok")
  /\ UNCHANGED <<tsrc, tdst, troot, tkind, tqueue, tdirs, tfiles, ttodo, twork, tfailed, tcancel, told, tquiet, tothers>>

-----------------------------------------------------------------------------
(* Other users, and the user's interrupt.                                  *)

OtherSource(n) ==
  /\ tothers < MaxOthers /\ tstage \notin {"idle", "done"} /\ n \in TFiles \ TUnsafe
  /\ tsrc' = IF n \in tsrc THEN tsrc \ {n} ELSE tsrc \cup {n}
  /\ TParent[n] \in tsrc \cup {"root"}
  /\ tothers' = tothers + 1 /\ tquiet' = FALSE
  /\ UNCHANGED <<tdst, troot, tkind, tstage, tqueue, tdirs, tfiles, ttodo, twork, tfailed, tcancel, tret, told>>

OtherDestination(n, what) ==
  /\ tothers < MaxOthers /\ tstage \notin {"idle", "done"} /\ troot = "dir" /\ tdst[n] = "none"
  /\ \A a \in Ancestors[n] : tdst[a] = "dir"
  /\ what = IF n \in TDirs THEN "dir" ELSE "theirs"
  /\ tdst' = [tdst EXCEPT ![n] = what]
  /\ tothers' = tothers + 1 /\ tquiet' = FALSE
  /\ UNCHANGED <<tsrc, troot, tkind, tstage, tqueue, tdirs, tfiles, ttodo, twork, tfailed, tcancel, tret, told>>

Interrupt ==
  /\ tstage \notin {"idle", "done"} /\ ~tcancel /\ tcancel' = TRUE /\ tquiet' = FALSE
  /\ UNCHANGED <<tsrc, tdst, troot, tkind, tstage, tqueue, tdirs, tfiles, ttodo, twork, tfailed, tret, told, tothers>>

TNext ==
  \/ \E flags \in {{"recursive"}, {"recursive", "append"}}, from, to \in {"local", "remote", "-"} :
       Cp(flags, from, to)
  \/ CopyFails \/ WalkForUpload \/ WalkForDownload \/ WalkForCopy
  \/ RootForUpload \/ RootForDownload \/ RootForCopy
  \/ PreflightDestinations \/ PreflightLocalDestinations
  \/ MkdirRemoteTree \/ MkdirLocalTree \/ UploadFiles \/ DownloadFiles \/ CopyFiles
  \/ Launch \/ LaunchCancelled \/ TransfersJoin
  \/ \E f \in TFiles, ok \in BOOLEAN : TransferFile(f, ok)
  \/ \E n \in TNodes : OtherSource(n) \/ \E what \in {"dir", "theirs"} : OtherDestination(n, what)
  \/ Interrupt

TSpec == TInit /\ [][TNext]_tvars

-----------------------------------------------------------------------------
\* A copy that reports success made every directory and copied every file its
\* walk found: no leaf is lost to a sibling's failure, to the cancelled
\* launcher or to the slots (parallelTransfer).
TreeCopied ==
  tret = "ok" => /\ \A d \in tdirs : tdst[d] = "dir"
                 /\ \A f \in tfiles : tdst[f] = "copied"

\* Nothing that was at the destination before the preflight is replaced, in
\* any direction: a conflict ends the copy before its first change
\* (preflightDestinations, preflightLocalDestinations).
KeepsWhatWasThere == \A n \in told \cap TFiles : tdst[n] = "theirs"

\* A copy nobody disturbs succeeds: its own directories never conflict with
\* each other, although the server's mkdir creates parents and refuses what
\* exists (mkdirRemoteTree).
UndisturbedSucceeds == tstage = "done" /\ tquiet => tret = "ok"

\* The answer of a recursive copy is true: nil means the whole tree is there,
\* what was there before is still there, and a copy nobody disturbs succeeds.
CopyAnswerTrue == TreeCopied /\ KeepsWhatWasThere /\ UndisturbedSucceeds
=============================================================================
