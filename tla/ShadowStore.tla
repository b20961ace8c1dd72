---------------------------- MODULE ShadowStore ----------------------------
(***************************************************************************)
(* The store of shadow files of the FUSE mount (pkg/fuse/shadow.go): the   *)
(* map from paths to open files, the generations by which readers pin a    *)
(* shadow that a commit is about to remove, and the files on disk.  An     *)
(* operation holds the store's lock only part of the time: what it does    *)
(* to the file after giving up the lock is a step of its own.              *)
(*                                                                         *)
(* A file's content is the set of numbers of the writes it holds.          *)
(***************************************************************************)
EXTENDS Integers, Sequences, FiniteSets, Common

CONSTANTS ShClients,   \* FUSE requests and commit-queue workers
          ShPaths,     \* paths with shadows
          MaxFds,      \* files opened in one behaviour
          MaxGens,     \* generations handed out
          MaxShWrites, \* writes
          MaxShRestarts, \* times the mount process dies
          Overlap      \* whether Remove and Rename overlap with other operations

VARIABLES sfiles,   \* files: path -> fd or 0
          sactive,  \* active: path -> generation or 0
          sgenFile, \* genFile: generation -> fd or 0
          srefs,    \* refs: generation -> pins
          sretired, \* retired: generation -> fd or 0
          snextGen,
          sfd,      \* the fds opened so far, in order: [ino, rw, open]
          sdata,    \* inode -> the writes it holds
          sdisk,    \* <hash>.shadow: path -> inode or 0
          sop,      \* client -> its operation in flight, or None
          spin,     \* client -> the pin of its handle: [gen, fd], or None
          sheld,    \* path -> the writes made there since it was last removed
          swrites,  \* number of writes so far
          srestarts

shvars == <<sfiles, sactive, sgenFile, srefs, sretired, snextGen, sfd, sdata,
            sdisk, sop, spin, sheld, swrites, srestarts>>

memory == <<sfiles, sactive, sgenFile, srefs, sretired, snextGen>>

Gens == 1..MaxGens
Fds  == 1..MaxFds
ShNone == 0

\* An operation between two of its steps, and the pin of a handle
FileOps == [op : {"writeAt", "writeFull", "truncate", "ensure", "pin", "unlink"},
            paths : SUBSET ShPaths, path : ShPaths, fd : {ShNone} \cup Fds]
RenameOps == [op : {"rename"}, paths : SUBSET ShPaths, path : ShPaths, from : ShPaths,
              gen : 0..MaxGens, fd : {ShNone} \cup Fds]
Pins == [gen : Gens, fd : {ShNone} \cup Fds]

\* The store serves finitely many requests at a time; the bounds are numbers.
ASSUME ShAssumption ==
    /\ IsFiniteSet(ShClients)
    /\ MaxFds \in Nat /\ MaxGens \in Nat /\ MaxShWrites \in Nat
    /\ None \notin FileOps \cup RenameOps \cup Pins

NewShadowStore ==
    /\ sfiles   = [p \in ShPaths |-> ShNone]
    /\ sactive  = [p \in ShPaths |-> ShNone]
    /\ sgenFile = [g \in Gens |-> ShNone]
    /\ srefs    = [g \in Gens |-> 0]
    /\ sretired = [g \in Gens |-> ShNone]
    /\ snextGen = 0

ShInit ==
    /\ NewShadowStore
    /\ sfd = <<>>
    /\ sdata = [i \in Fds |-> {}]
    /\ sdisk = [p \in ShPaths |-> ShNone]
    /\ sop = [c \in ShClients |-> None]
    /\ spin = [c \in ShClients |-> None]
    /\ sheld = [p \in ShPaths |-> {}]
    /\ swrites = 0
    /\ srestarts = 0

-----------------------------------------------------------------------------
Touched(c) == IF sop[c] = None THEN {} ELSE sop[c].paths

\* c may start an operation on the paths ps.  Operations that write, pin or
\* read overlap freely; a Remove or a Rename of one of the paths overlaps
\* with another operation only where Overlap says so.
Starts(c, ps) ==
    /\ sop[c] = None
    /\ ~Overlap => \A d \in ShClients :
                      (Touched(d) \cap ps # {}) => sop[d].op \notin {"unlink", "rename"}

StartsAlone(c, ps) ==
    /\ sop[c] = None
    /\ ~Overlap => \A d \in ShClients : Touched(d) \cap ps = {}

NextFd == Len(sfd) + 1

Closed(f) == [ino |-> sfd[f].ino, rw |-> sfd[f].rw, open |-> FALSE]

CloseFd(f) == [sfd EXCEPT ![f] = Closed(f)]

Writable(f) == sfd[f].open /\ sfd[f].rw

\* os.OpenFile of the shadow of p, creating it where rw says so
OpenShadow(p, rw) ==
    LET f == NextFd
        i == IF sdisk[p] = ShNone THEN f ELSE sdisk[p]
    IN  /\ f <= MaxFds
        /\ sfd' = Append(sfd, [ino |-> i, rw |-> rw, open |-> TRUE])
        /\ sdisk' = [sdisk EXCEPT ![p] = i]
        /\ sfiles' = [sfiles EXCEPT ![p] = f]

\* ensureShadowFile, the first half of every operation that writes
EnsureShadowFile(c, p, kind) ==
    /\ Starts(c, {p})
    /\ IF sfiles[p] # ShNone
       THEN UNCHANGED <<sfd, sdisk, sfiles>>
       ELSE OpenShadow(p, TRUE)
    /\ sop' = [sop EXCEPT ![c] = [op |-> kind, paths |-> {p}, path |-> p,
                                  fd |-> sfiles'[p]]]
    /\ UNCHANGED <<sactive, sgenFile, srefs, sretired, snextGen, sdata, spin,
                   sheld, swrites, srestarts>>

\* Content d of the file c is writing; a closed or read-only fd fails.
FileHolds(c, d) ==
    LET o == sop[c]
    IN  IF Writable(o.fd)
        THEN /\ sdata' = [sdata EXCEPT ![sfd[o.fd].ino] = d]
             /\ sheld' = [sheld EXCEPT ![o.path] = d]
        ELSE UNCHANGED <<sdata, sheld>>

Doing(c, kind) == IF sop[c] = None THEN FALSE ELSE sop[c].op = kind

\* WriteAt: earlier writes stay
ShWriteAt(c) ==
    /\ Doing(c, "writeAt") /\ swrites < MaxShWrites
    /\ IF Writable(sop[c].fd)
       THEN /\ sdata' = [sdata EXCEPT ![sfd[sop[c].fd].ino] = @ \cup {swrites + 1}]
            /\ sheld' = [sheld EXCEPT ![sop[c].path] = @ \cup {swrites + 1}]
       ELSE UNCHANGED <<sdata, sheld>>
    /\ swrites' = swrites + 1
    /\ sop' = [sop EXCEPT ![c] = None]
    /\ UNCHANGED <<memory, sfd, sdisk, spin, srestarts>>

\* WriteFull: the snapshot replaces what was there
ShWriteFull(c) ==
    /\ Doing(c, "writeFull") /\ swrites < MaxShWrites
    /\ FileHolds(c, {swrites + 1})
    /\ swrites' = swrites + 1
    /\ sop' = [sop EXCEPT ![c] = None]
    /\ UNCHANGED <<memory, sfd, sdisk, spin, srestarts>>

\* Truncate, to size zero
ShTruncate(c) ==
    /\ Doing(c, "truncate")
    /\ FileHolds(c, {})
    /\ sop' = [sop EXCEPT ![c] = None]
    /\ UNCHANGED <<memory, sfd, sdisk, spin, swrites, srestarts>>

\* Ensure with size zero, by an open that truncates; the handle pins next.
ShEnsure(c) ==
    /\ Doing(c, "ensure")
    /\ FileHolds(c, {})
    /\ sop' = [sop EXCEPT ![c] =
              IF Writable(sop[c].fd) /\ spin[c] = None
              THEN [op |-> "pin", paths |-> sop[c].paths, path |-> sop[c].path, fd |-> sop[c].fd]
              ELSE None]
    /\ UNCHANGED <<memory, sfd, sdisk, spin, swrites, srestarts>>

-----------------------------------------------------------------------------
(* Generations.                                                            *)

\* The generation of p after one more pin; f is the file it stands for.
PinGen(c, p, f) ==
    LET g == IF sactive[p] # 0 THEN sactive[p] ELSE snextGen + 1
    IN  /\ g <= MaxGens
        /\ sactive' = [sactive EXCEPT ![p] = g]
        /\ sgenFile' = IF sactive[p] = 0 THEN [sgenFile EXCEPT ![g] = f] ELSE sgenFile
        /\ snextGen' = IF sactive[p] = 0 THEN g ELSE snextGen
        /\ srefs' = [srefs EXCEPT ![g] = @ + 1]
        /\ spin' = [spin EXCEPT ![c] = [gen |-> g, fd |-> f]]

\* Pin, after Ensure
ShPin(c) ==
    /\ Doing(c, "pin")
    /\ PinGen(c, sop[c].path, sfiles[sop[c].path])
    /\ sop' = [sop EXCEPT ![c] = None]
    /\ UNCHANGED <<sfiles, sretired, sfd, sdata, sdisk, sheld, swrites, srestarts>>

\* PinIfExists, by an open for reading: a shadow only on disk is loaded.
PinIfExists(c, p) ==
    /\ Starts(c, {p}) /\ spin[c] = None
    /\ sfiles[p] # ShNone \/ sdisk[p] # ShNone
    /\ IF sfiles[p] # ShNone
       THEN UNCHANGED <<sfd, sdisk, sfiles>>
       ELSE OpenShadow(p, TRUE)
    /\ PinGen(c, p, sfiles'[p])
    /\ UNCHANGED <<sretired, sdata, sop, sheld, swrites, srestarts>>

\* Unpin, on Release: the last one closes a retired shadow.
Unpin(c) ==
    /\ spin[c] # None /\ sop[c] = None
    /\ LET g    == spin[c].gen
           last == srefs[g] = 1 /\ sretired[g] # ShNone
       IN  /\ srefs' = [srefs EXCEPT ![g] = @ - 1]
           /\ sretired' = IF last THEN [sretired EXCEPT ![g] = ShNone] ELSE sretired
           /\ sfd' = IF last THEN CloseFd(sretired[g]) ELSE sfd
    /\ spin' = [spin EXCEPT ![c] = None]
    /\ UNCHANGED <<sfiles, sactive, sgenFile, snextGen, sdata, sdisk, sop, sheld,
                   swrites, srestarts>>

\* ReadAtGen and SizeGen: the fd a generation stands for
ReadAtGen(g) == IF sgenFile[g] # ShNone THEN sgenFile[g] ELSE sretired[g]

-----------------------------------------------------------------------------
(* Remove and Rename.                                                      *)

\* Remove of a pinned shadow: it is retired, all of it under the lock.
RemoveRetires(c, p) ==
    LET g == sactive[p]
    IN  /\ StartsAlone(c, {p})
        /\ g # 0 /\ srefs[g] > 0
        /\ sretired' = [sretired EXCEPT ![g] = sfiles[p]]
        /\ sgenFile' = [sgenFile EXCEPT ![g] = ShNone]
        /\ sactive' = [sactive EXCEPT ![p] = 0]
        /\ sfiles' = [sfiles EXCEPT ![p] = ShNone]
        /\ sdisk' = [sdisk EXCEPT ![p] = ShNone]
        /\ sheld' = [sheld EXCEPT ![p] = {}]
        /\ UNCHANGED <<srefs, snextGen, sfd, sdata, sop, spin, swrites, srestarts>>

\* Mutant: Remove closes a file others have pinned.
RemoveClosesUnguarded(c, p) ==
    LET g == sactive[p]
    IN  /\ StartsAlone(c, {p})
        /\ sactive' = [sactive EXCEPT ![p] = 0]
        /\ sgenFile' = IF g = 0 THEN sgenFile ELSE [sgenFile EXCEPT ![g] = ShNone]
        /\ sfd' = IF sfiles[p] = ShNone THEN sfd ELSE CloseFd(sfiles[p])
        /\ sfiles' = [sfiles EXCEPT ![p] = ShNone]
        /\ sop' = [sop EXCEPT ![c] = [op |-> "unlink", paths |-> {p}, path |-> p, fd |-> 0]]
        /\ UNCHANGED <<srefs, sretired, snextGen, sdata, sdisk, spin, sheld, swrites, srestarts>>

\* Remove of a shadow nobody has pinned: out of the maps under the lock ...
RemoveCloses(c, p) ==
    LET g == sactive[p]
    IN  /\ StartsAlone(c, {p})
        /\ g # 0 => srefs[g] = 0
        /\ sactive' = [sactive EXCEPT ![p] = 0]
        /\ sgenFile' = IF g = 0 THEN sgenFile ELSE [sgenFile EXCEPT ![g] = ShNone]
        /\ sfd' = IF sfiles[p] = ShNone THEN sfd ELSE CloseFd(sfiles[p])
        /\ sfiles' = [sfiles EXCEPT ![p] = ShNone]
        /\ sop' = [sop EXCEPT ![c] = [op |-> "unlink", paths |-> {p}, path |-> p, fd |-> 0]]
        /\ UNCHANGED <<srefs, sretired, snextGen, sdata, sdisk, spin, sheld, swrites, srestarts>>

\* Mutant: the file stays on disk.
UnlinkSkipped(c) ==
    /\ Doing(c, "unlink")
    /\ sheld' = [sheld EXCEPT ![sop[c].path] = {}]
    /\ sop' = [sop EXCEPT ![c] = None]
    /\ UNCHANGED <<memory, sfd, sdata, sdisk, spin, swrites, srestarts>>

\* ... and off the disk afterwards.
Unlink(c) ==
    /\ Doing(c, "unlink")
    /\ sdisk' = [sdisk EXCEPT ![sop[c].path] = ShNone]
    /\ sheld' = [sheld EXCEPT ![sop[c].path] = {}]
    /\ sop' = [sop EXCEPT ![c] = None]
    /\ UNCHANGED <<memory, sfd, sdata, spin, swrites, srestarts>>

\* Rename: the maps change under the lock.  A mount that keeps its paths
\* apart has no shadow at the new path.
RenameMaps(c, old, new) ==
    /\ old # new /\ StartsAlone(c, {old, new})
    /\ sfiles[old] # ShNone
    /\ ~Overlap => sfiles[new] = ShNone /\ sdisk[new] = ShNone
    /\ sfiles' = [sfiles EXCEPT ![new] = sfiles[old], ![old] = ShNone]
    /\ sactive' = IF sactive[old] = 0 THEN sactive
                  ELSE [sactive EXCEPT ![new] = sactive[old], ![old] = 0]
    /\ sop' = [sop EXCEPT ![c] = [op |-> "rename", paths |-> {old, new}, path |-> new,
                                  from |-> old, gen |-> sactive[old], fd |-> sfiles[old]]]
    /\ UNCHANGED <<sgenFile, srefs, sretired, snextGen, sfd, sdata, sdisk, spin,
                   sheld, swrites, srestarts>>

\* os.Rename succeeds ...
RenameDisk(c) ==
    /\ Doing(c, "rename") /\ sdisk[sop[c].from] # ShNone
    /\ LET o == sop[c]
       IN  /\ sdisk' = [sdisk EXCEPT ![o.path] = sdisk[o.from], ![o.from] = ShNone]
           /\ sheld' = [sheld EXCEPT ![o.path] = sheld[o.from], ![o.from] = {}]
    /\ sop' = [sop EXCEPT ![c] = None]
    /\ UNCHANGED <<memory, sfd, sdata, spin, swrites, srestarts>>

\* ... or fails, and the maps are rolled back.
RenameRollback(c) ==
    /\ Doing(c, "rename")
    /\ LET o == sop[c]
       IN  /\ sfiles' = [sfiles EXCEPT ![o.from] = o.fd, ![o.path] = ShNone]
           /\ sactive' = IF o.gen = 0 THEN sactive
                         ELSE [sactive EXCEPT ![o.from] = o.gen, ![o.path] = 0]
    /\ sop' = [sop EXCEPT ![c] = None]
    /\ UNCHANGED <<sgenFile, srefs, sretired, snextGen, sfd, sdata, sdisk, spin,
                   sheld, swrites, srestarts>>

\* ReadAt of a path whose shadow is only on disk: it stays open, read-only.
ReadAtLoads(c, p) ==
    /\ Starts(c, {p})
    /\ sfiles[p] = ShNone /\ sdisk[p] # ShNone
    /\ OpenShadow(p, FALSE)
    /\ UNCHANGED <<sactive, sgenFile, srefs, sretired, snextGen, sdata, sop, spin,
                   sheld, swrites, srestarts>>

\* ReadAll and Size: the content served for a path, from memory or from disk
ReadAll(p) ==
    IF sfiles[p] # ShNone THEN sdata[sfd[sfiles[p]].ino]
    ELSE IF sdisk[p] # ShNone THEN sdata[sdisk[p]] ELSE {}

\* The mount process dies, or Close, and a new one starts on the same
\* directory: only the disk is left.
ShRestart ==
    /\ srestarts < MaxShRestarts
    /\ srestarts' = srestarts + 1
    /\ sfiles'   = [p \in ShPaths |-> ShNone]
    /\ sactive'  = [p \in ShPaths |-> ShNone]
    /\ sgenFile' = [g \in Gens |-> ShNone]
    /\ srefs'    = [g \in Gens |-> 0]
    /\ sretired' = [g \in Gens |-> ShNone]
    /\ snextGen' = 0
    /\ sfd' = [f \in DOMAIN sfd |-> Closed(f)]
    /\ sop' = [c \in ShClients |-> None]
    /\ spin' = [c \in ShClients |-> None]
    /\ UNCHANGED <<sdata, sdisk, sheld, swrites>>

ShNext ==
    \/ \E c \in ShClients :
          \/ \E p \in ShPaths :
                \/ \E kind \in {"writeAt", "writeFull", "truncate", "ensure"} :
                      EnsureShadowFile(c, p, kind)
                \/ PinIfExists(c, p)
                \/ RemoveRetires(c, p)
                \/ RemoveCloses(c, p)
                \/ ReadAtLoads(c, p)
                \/ \E q \in ShPaths : RenameMaps(c, p, q)
          \/ ShWriteAt(c)
          \/ ShWriteFull(c)
          \/ ShTruncate(c)
          \/ ShEnsure(c)
          \/ ShPin(c)
          \/ Unpin(c)
          \/ Unlink(c)
          \/ RenameDisk(c)
          \/ RenameRollback(c)
    \/ ShRestart

ShSpec == ShInit /\ [][ShNext]_shvars

-----------------------------------------------------------------------------
\* A handle that pinned a shadow goes on reading the very file it pinned,
\* through removals, renames and new shadows at the same path, until it
\* unpins it; and only pinned shadows are kept (retiredShadow, ReadAtGen).
PinnedStaysReadable ==
    /\ \A c \in ShClients :
         spin[c] # None => LET f == ReadAtGen(spin[c].gen)
                           IN  f # ShNone /\ f = spin[c].fd /\ sfd[f].open
    /\ \A g \in Gens : sretired[g] # ShNone => srefs[g] > 0

\* The store serves for a path exactly the writes made to it since it was
\* last removed: none is lost, and a removed shadow never comes back, not
\* after a restart either (Remove: "Without this, a successfully committed
\* shadow would remain on disk and be served as stale local data").
ServesItsWrites ==
    \A p \in ShPaths :
        (\A c \in ShClients : p \notin Touched(c)) => ReadAll(p) = sheld[p]
=============================================================================
