---------------------------- MODULE ClientAppend ----------------------------
(***************************************************************************)
(* AppendStream: several clients append to one path, each with a stat, an  *)
(* append plan whose copied parts come from the object of that revision,   *)
(* uploads of the parts that overlap the tail, and a conditional complete; *)
(* or with a read and a conditional rewrite when the file is not in the    *)
(* object store.  Another writer may replace or remove the file between    *)
(* any two requests.  A file is a sequence of units; a unit names its      *)
(* writer.                                                                 *)
(***************************************************************************)
EXTENDS Common, Integers, Sequences, FiniteSets

CONSTANTS Appenders,   \* clients that append once each
          ApPartSize,  \* units of a multipart part
          ApInline,    \* files of fewer units are not in the object store
          ApLengths,   \* lengths of an append and of a foreign write
          MaxForeign   \* replacements or removals by another writer

ASSUME AppendAssumption == /\ ApPartSize \in Nat \ {0} /\ ApInline \in Nat
                           /\ ApLengths \subseteq Nat \ {0}
                           /\ MaxForeign \in Nat

VARIABLES afile,    \* the path: None, or its revision and data
          acall,    \* client -> its AppendStream call
          aforeign, \* foreign changes so far
          alast,    \* the last commit of an append: data before, added, after
          aborn     \* how often the path was created

avars == <<afile, acall, aforeign, alast, aborn>>

Units(who, n) == [i \in 1..n |-> who]
ApIdle == [pc |-> "idle", len |-> 0, rev |-> 0, base |-> 0, src |-> <<>>, parts |-> <<>>, left |-> 0,
           born |-> 0]

ApTypeOK ==
  /\ afile = None \/ (afile.rev \in Nat \ {0} /\ Len(afile.data) >= 0)
  /\ \A c \in Appenders :
       /\ acall[c].pc \in {"idle", "create", "plan", "parts", "complete", "rewrite", "write", "ok", "error"}
       /\ acall[c].left \in 0..acall[c].len
  /\ aforeign \in 0..MaxForeign

AInit == /\ afile = None
         /\ acall = [c \in Appenders |-> ApIdle]
         /\ aforeign = 0
         /\ alast = None
         /\ aborn = 0

-----------------------------------------------------------------------------
(* Parts of a size, as CalcParts cuts them.                                *)

ApParts(size) == (size + ApPartSize - 1) \div ApPartSize
PartFrom(n) == (n - 1) * ApPartSize + 1
PartUpto(n, size) == IF n * ApPartSize > size THEN size ELSE n * ApPartSize

\* appendDirtyPartNumbers: the partial tail, and the parts beyond it.
AppendDirty(base, size) ==
  {n \in 1..ApParts(size) : n > ApParts(base) \/ (n = ApParts(base) /\ base % ApPartSize # 0)}

\* The original bytes a read URL covers: the part's range within the old object.
Original(src, n) == SubSeq(src, PartFrom(n), PartUpto(n, Len(src)))

\* appendPartOverlapsExisting
Overlaps(base, n) == PartFrom(n) - 1 < base

-----------------------------------------------------------------------------
(* Conditional commits at the server.                                      *)

\* Mutant: only a create is conditional.
MatchesCreate(rev) == rev = 0 => afile = None

\* A commit under an expected revision; zero means the path must not exist.
Matches(rev) == IF afile = None THEN rev = 0 ELSE rev = afile.rev

Births == IF afile = None THEN aborn + 1 ELSE aborn

Put(data) == [rev |-> IF afile = None THEN 1 ELSE afile.rev + 1, data |-> data]

\* A commit by c: conflict, success, or success with a lost answer.
Commit(c, data, answered) ==
  IF Matches(acall[c].rev)
  THEN /\ afile' = Put(data)
       /\ aborn' = Births
       /\ alast' = [before |-> IF afile = None THEN <<>> ELSE afile.data,
                    added |-> Units(c, acall[c].len), after |-> data,
                    same |-> acall[c].born = aborn]
       /\ acall' = [acall EXCEPT ![c].pc = IF answered THEN "ok" ELSE "error"]
  ELSE /\ acall' = [acall EXCEPT ![c].pc = "error"]
       /\ UNCHANGED <<afile, alast, aborn>>

-----------------------------------------------------------------------------
(* One AppendStream call.                                                  *)

\* The stat: a missing path is created, an existing one planned.
AppendStream(c, len) ==
  /\ acall[c].pc = "idle"
  /\ acall' = [acall EXCEPT ![c] =
       [ApIdle EXCEPT !.len = len, !.left = len,
          !.pc = IF afile = None THEN "create" ELSE "plan",
          !.born = aborn,
          !.rev = IF afile = None THEN 0 ELSE afile.rev,
          !.base = IF afile = None THEN 0 ELSE Len(afile.data)]]
  /\ UNCHANGED <<afile, aforeign, alast, aborn>>

\* WriteStreamConditional with expected revision 0.
AppendCreates(c, answered) ==
  /\ acall[c].pc = "create"
  /\ Commit(c, Units(c, acall[c].len), answered)
  /\ UNCHANGED aforeign

\* InitiateAppendUploadIfRevision checks path, storage and revision, and
\* InitiatePatchUploadIfRevision copies the clean parts from the old object.
AppendRefused(c) == afile = None \/ ~Matches(acall[c].rev)
NotS3Stored == IF afile = None THEN FALSE ELSE Len(afile.data) < ApInline

CopiedParts(src, size) ==
  [n \in 1..ApParts(size) |-> IF n \in AppendDirty(Len(src), size) THEN None ELSE Original(src, n)]

InitiateAppend(c, ok) ==
  /\ acall[c].pc = "plan"
  /\ acall' = [acall EXCEPT ![c] =
       IF ok /\ ~NotS3Stored /\ ~AppendRefused(c)
       THEN [@ EXCEPT !.pc = "parts", !.src = afile.data, !.base = Len(afile.data),
                      !.parts = CopiedParts(afile.data, Len(afile.data) + acall[c].len)]
       ELSE [@ EXCEPT !.pc = IF ok /\ NotS3Stored THEN "rewrite" ELSE "error"]]
  /\ UNCHANGED <<afile, aforeign, alast, aborn>>

\* The merge callback: the original bytes, then the next bytes of the reader.
MergedPart(c, n) ==
  LET size == acall[c].base + acall[c].len
      orig == IF Overlaps(acall[c].base, n) THEN Original(acall[c].src, n) ELSE <<>>
      need == PartUpto(n, size) - PartFrom(n) + 1 - Len(orig)
  IN [data |-> orig \o Units(c, need), need |-> need]

\* uploadPatchPart of the first part still missing; a missing read URL, a
\* failed GET or a failed PUT ends the call.
AppendPart(c, ok) ==
  LET missing == {n \in DOMAIN acall[c].parts : acall[c].parts[n] = None}
      n == CHOOSE m \in missing : \A k \in missing : m <= k
  IN /\ acall[c].pc = "parts" /\ missing # {}
     /\ acall' = [acall EXCEPT ![c] =
          IF ok THEN [@ EXCEPT !.parts[n] = MergedPart(c, n).data, !.left = @ - MergedPart(c, n).need]
                ELSE [@ EXCEPT !.pc = "error"]]
     /\ UNCHANGED <<afile, aforeign, alast, aborn>>

\* Every byte of the reader must have gone into a part.
AppendUploaded(c) ==
  /\ acall[c].pc = "parts" /\ \A n \in DOMAIN acall[c].parts : acall[c].parts[n] # None
  /\ acall' = [acall EXCEPT ![c].pc = IF acall[c].left = 0 THEN "complete" ELSE "error"]
  /\ UNCHANGED <<afile, aforeign, alast, aborn>>

\* The object the server assembles, part after part.
Assembled(parts) ==
  LET upTo[n \in 0..Len(parts)] == IF n = 0 THEN <<>> ELSE upTo[n - 1] \o parts[n]
  IN upTo[Len(parts)]

AppendCompletes(c, answered) ==
  /\ acall[c].pc = "complete"
  /\ Commit(c, Assembled(acall[c].parts), answered)
  /\ UNCHANGED aforeign

\* appendByRewrite: read the current content, whatever its revision is now.
RewriteReads(c) ==
  /\ acall[c].pc = "rewrite"
  /\ acall' = [acall EXCEPT ![c] =
       IF afile = None THEN [@ EXCEPT !.pc = "error"]
       ELSE [@ EXCEPT !.pc = "write", !.src = afile.data \o Units(c, acall[c].len)]]
  /\ UNCHANGED <<afile, aforeign, alast, aborn>>

\* WriteStreamConditional under the revision of the stat.
RewriteWrites(c, answered) ==
  /\ acall[c].pc = "write"
  /\ Commit(c, acall[c].src, answered)
  /\ UNCHANGED aforeign

-----------------------------------------------------------------------------
(* The other writer.                                                       *)

ForeignPut(n) ==
  /\ aforeign < MaxForeign
  /\ afile' = Put(Units("f", n)) /\ aforeign' = aforeign + 1 /\ aborn' = Births
  /\ UNCHANGED <<acall, alast>>

ForeignRemove ==
  /\ aforeign < MaxForeign /\ afile # None
  /\ afile' = None /\ aforeign' = aforeign + 1
  /\ UNCHANGED <<acall, alast, aborn>>

ANext ==
  \/ \E c \in Appenders :
       \/ \E n \in ApLengths : AppendStream(c, n)
       \/ \E b \in BOOLEAN : \/ AppendCreates(c, b) \/ InitiateAppend(c, b) \/ AppendPart(c, b)
                             \/ AppendCompletes(c, b) \/ RewriteWrites(c, b)
       \/ AppendUploaded(c) \/ RewriteReads(c)
  \/ \E n \in ApLengths : ForeignPut(n)
  \/ ForeignRemove

ASpec == AInit /\ [][ANext]_avars

-----------------------------------------------------------------------------
\* A committed append adds its bytes to exactly what the path held before the
\* commit: no byte of another writer is lost, repeated or moved, whatever
\* happened between the stat, the plan, the parts and the complete.  Revisions
\* start again when a path is removed and created anew, so that a call whose
\* stat saw an earlier file of the path is left out (AppendStream,
\* appendByRewrite, appendDirtyPartNumbers, finalizeUpload).
AppendsAreExact ==
  alast # None => (alast.same => alast.after = alast.before \o alast.added)
=============================================================================
