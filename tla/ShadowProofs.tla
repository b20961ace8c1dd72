---------------------------- MODULE ShadowProofs ----------------------------
(***************************************************************************)
(* Proofs about the store of shadow files, for any requests, paths, files  *)
(* and generations: a pinned file stays readable (PinnedStaysReadable) and *)
(* the store serves exactly the writes made to a path (ServesItsWrites),   *)
(* as long as a Remove or Rename of a path overlaps no other operation on  *)
(* it (Overlap = FALSE).                                                   *)
(*                                                                         *)
(* The argument: the maps fit together (one path per open file, one per    *)
(* active generation, a retired file in no map), the pins fit the maps,    *)
(* an operation between two steps finds the maps as it left them, and what *)
(* the disk holds for a path is at every moment what was written there.    *)
(***************************************************************************)
EXTENDS ShadowStore, TLAPS

FdRecord == [ino : Nat, rw : BOOLEAN, open : BOOLEAN]

FdTypes ==
    /\ sfd \in Seq(FdRecord) /\ Len(sfd) <= MaxFds
    /\ sfiles \in [ShPaths -> 0..Len(sfd)]
    /\ sdisk \in [ShPaths -> 0..Len(sfd)]
    /\ sgenFile \in [Gens -> 0..Len(sfd)]
    /\ sretired \in [Gens -> 0..Len(sfd)]
    /\ \A f \in 1..Len(sfd) : sfd[f].ino \in 1..Len(sfd)

ShTypes ==
    /\ snextGen \in 0..MaxGens
    /\ sactive \in [ShPaths -> 0..snextGen]
    /\ srefs \in [Gens -> Nat]
    /\ sdata \in [Fds -> SUBSET Nat]
    /\ sheld \in [ShPaths -> SUBSET Nat]
    /\ swrites \in Nat
    /\ sop \in [ShClients -> FileOps \cup RenameOps \cup {None}]
    /\ spin \in [ShClients -> Pins \cup {None}]

\* A file in the map is open and belongs to one path; so does a generation
\* in use, which stands for the file of its path.
MapsFit ==
    /\ \A p \in ShPaths : sfiles[p] # 0 => sfd[sfiles[p]].open
    /\ \A p, q \in ShPaths : sfiles[p] # 0 /\ sfiles[p] = sfiles[q] => p = q
    /\ \A p \in ShPaths : sactive[p] # 0 => sfiles[p] # 0 /\ sgenFile[sactive[p]] = sfiles[p]
    /\ \A p, q \in ShPaths : sactive[p] # 0 /\ sactive[p] = sactive[q] => p = q
    /\ \A g \in Gens : sgenFile[g] # 0 => \E p \in ShPaths : sactive[p] = g

\* A retired file is open and in no map.
RetiredFit ==
    /\ \A g \in Gens : sretired[g] # 0 => sgenFile[g] = 0 /\ sfd[sretired[g]].open
    /\ \A g \in Gens, p \in ShPaths : sretired[g] # 0 => sfiles[p] # sretired[g]
    /\ \A g, h \in Gens : sretired[g] # 0 /\ sretired[g] = sretired[h] => g = h
    /\ \A g \in Gens : g > snextGen => sgenFile[g] = 0 /\ sretired[g] = 0

Pinners(pin, g) == {c \in ShClients : pin[c] # None /\ pin[c].gen = g}

\* The count of a generation is the number of handles that hold it, each of
\* which reads the file it pinned; a retired file has a reader.
PinsFit ==
    /\ \A g \in Gens : srefs[g] = Cardinality(Pinners(spin, g))
    /\ \A c \in ShClients : spin[c] # None =>
          /\ spin[c].gen <= snextGen
          /\ spin[c].fd # 0 /\ ReadAtGen(spin[c].gen) = spin[c].fd
    /\ \A g \in Gens : sretired[g] # 0 => srefs[g] > 0

\* An operation in flight finds the maps as its first step left them.
OpFits(c) ==
    /\ sop[c].op = "rename" =>
          /\ sop[c].paths = {sop[c].path, sop[c].from} /\ sop[c].path # sop[c].from
          /\ sop[c].fd # 0 /\ sfiles[sop[c].path] = sop[c].fd /\ sactive[sop[c].path] = sop[c].gen
          /\ sfiles[sop[c].from] = 0
          /\ sdisk[sop[c].path] = 0 /\ sdisk[sop[c].from] = sfd[sop[c].fd].ino
    /\ sop[c].op = "unlink" => sop[c].paths = {sop[c].path} /\ sfiles[sop[c].path] = 0
    /\ sop[c].op \notin {"rename", "unlink"} =>
          sop[c].paths = {sop[c].path} /\ sop[c].fd # 0 /\ sfiles[sop[c].path] = sop[c].fd
    /\ sop[c].op = "pin" => spin[c] = None

OpsFit ==
    /\ \A c \in ShClients : sop[c] # None => OpFits(c)
    /\ \A c, d \in ShClients :
          c # d /\ sop[c] # None /\ sop[d] # None /\ sop[c].op \in {"rename", "unlink"}
             => sop[c].paths \cap sop[d].paths = {}

\* No rename of p is under way.
Settled(p) == \A c \in ShClients : sop[c] # None /\ sop[c].op = "rename" => p \notin sop[c].paths

OnDisk(p) == IF sdisk[p] = 0 THEN {} ELSE sdata[sdisk[p]]

\* The disk holds what was written, under the inode the map has open.
DiskFits ==
    /\ \A p \in ShPaths : sheld[p] = OnDisk(p)
    /\ \A p, q \in ShPaths : sdisk[p] # 0 /\ sdisk[p] = sdisk[q] => p = q
    /\ \A p \in ShPaths : sfiles[p] # 0 /\ Settled(p) => sdisk[p] = sfd[sfiles[p]].ino
    /\ \A i \in Fds : i > Len(sfd) => sdata[i] = {}

\* Sets of clients have a size, which follows their members.
ClientsCount ==
    \A S \in SUBSET ShClients :
        /\ Cardinality(S) \in Nat
        /\ Cardinality(S) = 0 <=> S = {}
        /\ \A c \in ShClients : /\ c \notin S => Cardinality(S \cup {c}) = Cardinality(S) + 1
                                /\ c \in S => Cardinality(S \ {c}) = Cardinality(S) - 1

ShInv == FdTypes /\ ShTypes /\ MapsFit /\ RetiredFit /\ PinsFit /\ OpsFit /\ DiskFits

-----------------------------------------------------------------------------
(* The files opened so far, and what the start of an operation finds       *)

LEMMA FdAppended ==
    ASSUME NEW s \in Seq(FdRecord), NEW r \in FdRecord
    PROVE  /\ Append(s, r) \in Seq(FdRecord) /\ Len(s) \in Nat
           /\ Len(Append(s, r)) = Len(s) + 1
           /\ Append(s, r)[Len(s) + 1] = r
           /\ \A i \in 1..Len(s) : Append(s, r)[i] = s[i]
OBVIOUS

LEMMA FdListed ==
    ASSUME NEW n \in Nat, NEW s \in [1..n -> FdRecord]
    PROVE  s \in Seq(FdRecord) /\ Len(s) = n
OBVIOUS

LEMMA FdOf ==
    ASSUME NEW s \in Seq(FdRecord)
    PROVE  Len(s) \in Nat /\ DOMAIN s = 1..Len(s) /\ s \in [1..Len(s) -> FdRecord]
OBVIOUS

LEMMA FdClosed ==
    ASSUME sfd \in Seq(FdRecord), NEW f \in 1..Len(sfd)
    PROVE  /\ CloseFd(f) \in Seq(FdRecord) /\ Len(CloseFd(f)) = Len(sfd)
           /\ \A i \in 1..Len(sfd) : /\ CloseFd(f)[i].ino = sfd[i].ino
                                     /\ i # f => CloseFd(f)[i] = sfd[i]
<1>1. Len(sfd) \in Nat /\ sfd \in [1..Len(sfd) -> FdRecord]
  BY FdOf, ZenonT(30)
<1>2. Closed(f) \in FdRecord
  BY <1>1, ZenonT(30) DEF Closed, FdRecord
<1>3. CloseFd(f) \in [1..Len(sfd) -> FdRecord]
  BY <1>1, <1>2, ZenonT(30) DEF CloseFd
<1>4. \A i \in 1..Len(sfd) : /\ CloseFd(f)[i].ino = sfd[i].ino
                             /\ i # f => CloseFd(f)[i] = sfd[i]
  BY <1>1, ZenonT(30) DEF CloseFd, Closed
<1> HIDE DEF CloseFd
<1> QED
  BY <1>1, <1>3, <1>4, FdListed, ZenonT(30)

LEMMA BoundsNat == MaxFds \in Nat /\ MaxGens \in Nat /\ MaxShWrites \in Nat
BY ShAssumption, ZenonT(30)

\* An operation in flight is one of the two kinds of records.
LEMMA OpTyped ==
    ASSUME ShTypes, NEW c \in ShClients, sop[c] # None
    PROVE  /\ sop[c].op \in {"writeAt", "writeFull", "truncate", "ensure", "pin", "unlink", "rename"}
           /\ sop[c].paths \in SUBSET ShPaths /\ sop[c].path \in ShPaths
           /\ sop[c].fd \in 0..MaxFds
           /\ sop[c].op = "rename" => sop[c].from \in ShPaths /\ sop[c].gen \in 0..MaxGens
BY ShAssumption DEF ShTypes, FileOps, RenameOps, Fds, ShNone

\* An operation on p starts while no Remove or Rename of p is under way,
LEMMA StartsFree ==
    ASSUME ~Overlap, NEW c \in ShClients, NEW p, Starts(c, {p})
    PROVE  /\ sop[c] = None
           /\ \A d \in ShClients : sop[d] # None /\ sop[d].op \in {"rename", "unlink"} => p \notin sop[d].paths
BY ZenonT(30) DEF Starts, Touched

\* and a Remove or Rename while no operation is.
LEMMA StartsFreeAlone ==
    ASSUME ~Overlap, NEW c \in ShClients, NEW ps, StartsAlone(c, ps)
    PROVE  /\ sop[c] = None
           /\ \A d \in ShClients : sop[d] # None => sop[d].paths \cap ps = {}
BY ZenonT(30) DEF StartsAlone, Touched

LEMMA ShStart == ShInit => FdTypes /\ ShTypes /\ MapsFit /\ RetiredFit /\ OpsFit /\ DiskFits
<1> SUFFICES ASSUME ShInit PROVE FdTypes /\ ShTypes /\ MapsFit /\ RetiredFit /\ OpsFit /\ DiskFits
  BY ZenonT(30)
<1>1. sfd \in Seq(FdRecord) /\ Len(sfd) = 0
  BY DEF ShInit
<1>2. FdTypes
  BY <1>1, ShAssumption DEF ShInit, NewShadowStore, FdTypes, ShNone
<1>3. ShTypes
  BY ShAssumption DEF ShInit, NewShadowStore, ShTypes, ShNone, Gens
<1>4. MapsFit /\ RetiredFit
  BY ZenonT(30) DEF ShInit, NewShadowStore, MapsFit, RetiredFit, ShNone
<1>5. OpsFit
  BY ZenonT(30) DEF ShInit, OpsFit
<1>6. DiskFits
  BY ZenonT(30) DEF ShInit, NewShadowStore, DiskFits, OnDisk, ShNone, Fds
<1> QED
  BY <1>2, <1>3, <1>4, <1>5, <1>6, ZenonT(30)

-----------------------------------------------------------------------------
(* Writes                                                                  *)

\* No rename of a path is under way while another operation uses it, so that
\* the open file of the path is the one on disk.
LEMMA InUseIsOnDisk ==
    ASSUME ShInv, NEW c \in ShClients, sop[c] # None, sop[c].op \notin {"rename", "unlink"}
    PROVE  /\ sop[c].path \in ShPaths /\ sop[c].fd \in 1..Len(sfd) /\ Len(sfd) \in Nat
           /\ sop[c].paths = {sop[c].path} /\ sfiles[sop[c].path] = sop[c].fd
           /\ sfd[sop[c].fd].ino \in 1..Len(sfd) /\ sfd[sop[c].fd].ino \in Fds
           /\ sdisk[sop[c].path] = sfd[sop[c].fd].ino
<1>1. /\ sop[c].path \in ShPaths /\ sop[c].paths = {sop[c].path}
      /\ sfiles[sop[c].path] = sop[c].fd /\ sop[c].fd # 0
  BY OpTyped, ZenonT(30) DEF ShInv, OpsFit, OpFits
<1>2. Len(sfd) \in Nat
  BY FdOf, ZenonT(30) DEF ShInv, FdTypes
<1>3. sop[c].fd \in 1..Len(sfd)
  BY <1>1, <1>2 DEF ShInv, FdTypes
<1>4. Settled(sop[c].path)
  BY <1>1, ZenonT(30) DEF ShInv, OpsFit, Settled
<1>5. sdisk[sop[c].path] = sfd[sop[c].fd].ino
  BY <1>1, <1>3, <1>4, ZenonT(30) DEF ShInv, DiskFits
<1>6. sfd[sop[c].fd].ino \in 1..Len(sfd) /\ sfd[sop[c].fd].ino \in Fds
  BY <1>2, <1>3, ShAssumption DEF ShInv, FdTypes, Fds
<1> QED
  BY <1>1, <1>2, <1>3, <1>5, <1>6, ZenonT(30)

\* The second step of an operation that writes, which ends it or goes on to
\* pin: the disk holds what the path was given.
LEMMA WroteStep ==
    ASSUME ShInv, NEW c \in ShClients, sop[c] # None, sop[c].op \notin {"rename", "unlink"},
           NEW d \in SUBSET Nat, FileHolds(c, d),
           NEW r, sop' = [sop EXCEPT ![c] = r],
           \/ r = None
           \/ r = [op |-> "pin", paths |-> sop[c].paths, path |-> sop[c].path, fd |-> sop[c].fd] /\ spin[c] = None,
           UNCHANGED <<memory, sfd, sdisk, spin>>, swrites' \in Nat
    PROVE  ShInv'
<1>p. PICK p : p = sop[c].path
  BY ZenonT(30)
<1>i. PICK i : i = sfd[sop[c].fd].ino
  BY ZenonT(30)
<1>1. /\ p \in ShPaths /\ sop[c].fd \in 1..Len(sfd) /\ Len(sfd) \in Nat
      /\ sop[c].paths = {p} /\ sfiles[p] = sop[c].fd
      /\ i \in 1..Len(sfd) /\ i \in Fds /\ sdisk[p] = i
  BY <1>p, <1>i, InUseIsOnDisk, ZenonT(30)
<1>2. \/ sdata' = [sdata EXCEPT ![i] = d] /\ sheld' = [sheld EXCEPT ![p] = d]
      \/ sdata' = sdata /\ sheld' = sheld
  BY <1>p, <1>i, ZenonT(30) DEF FileHolds
<1>3. /\ sfiles' = sfiles /\ sactive' = sactive /\ sgenFile' = sgenFile /\ srefs' = srefs
      /\ sretired' = sretired /\ snextGen' = snextGen /\ sfd' = sfd /\ sdisk' = sdisk /\ spin' = spin
  BY ZenonT(30) DEF memory
<1>4. FdTypes'
  BY <1>3, ZenonT(30) DEF ShInv, FdTypes
<1>5. sop[c].fd \in {ShNone} \cup Fds
  BY <1>1, OpTyped DEF ShInv, Fds, ShNone
<1>6. r \in FileOps \cup {None}
  BY <1>p, <1>1, <1>5 DEF FileOps
<1>7. ShTypes'
  <2>1. sop' \in [ShClients -> FileOps \cup RenameOps \cup {None}]
    BY <1>6, ZenonT(30) DEF ShInv, ShTypes
  <2>2. sdata' \in [Fds -> SUBSET Nat] /\ sheld' \in [ShPaths -> SUBSET Nat]
    BY <1>2, ZenonT(30) DEF ShInv, ShTypes
  <2> QED
    BY <1>3, <2>1, <2>2, ZenonT(30) DEF ShInv, ShTypes
<1>8. MapsFit' /\ RetiredFit'
  BY <1>3 DEF ShInv, MapsFit, RetiredFit
<1>9. PinsFit'
  BY <1>3 DEF ShInv, PinsFit, Pinners, ReadAtGen
<1>10. /\ \A e \in ShClients : e # c => sop'[e] = sop[e]
       /\ sop'[c] = r
  BY ZenonT(30) DEF ShInv, ShTypes
<1>11. sop'[c] # None => sop'[c].op = "pin" /\ sop'[c].paths = {p} /\ sop'[c].path = p /\ sop'[c].fd = sop[c].fd /\ spin[c] = None
  BY <1>p, <1>1, <1>10
<1>12. OpsFit'
  <2>1. \A e \in ShClients : sop'[e] # None => OpFits(e)'
    <3> SUFFICES ASSUME NEW e \in ShClients, sop'[e] # None PROVE OpFits(e)'
      BY ZenonT(30)
    <3>1. CASE e # c
      BY <1>3, <1>10, <3>1 DEF ShInv, OpsFit, OpFits
    <3>2. CASE e = c
      BY <1>1, <1>3, <1>11, <3>2 DEF OpFits
    <3> QED
      BY <3>1, <3>2, ZenonT(30)
  <2>2. ASSUME NEW e \in ShClients, NEW f \in ShClients,
               e # f, sop'[e] # None, sop'[f] # None, sop'[e].op \in {"rename", "unlink"}
        PROVE  sop'[e].paths \cap sop'[f].paths = {}
    BY <1>1, <1>10, <1>11, <2>2 DEF ShInv, OpsFit
  <2> QED
    BY <2>1, <2>2, ZenonT(30) DEF OpsFit
<1>13. DiskFits'
  <2>1. \A q \in ShPaths : sheld'[q] = OnDisk(q)'
    <3>1. i # 0 /\ sdata \in [Fds -> SUBSET Nat] /\ sheld \in [ShPaths -> SUBSET Nat] /\ OnDisk(p) = sdata[i]
      BY <1>1 DEF ShInv, ShTypes, OnDisk
    <3>2. \A q \in ShPaths : sheld[q] = OnDisk(q) /\ (q # p => sdisk[q] # i)
      BY <1>1, <3>1, ZenonT(30) DEF ShInv, DiskFits
    <3>3. \A q \in ShPaths : OnDisk(q)' = IF sdisk[q] = 0 THEN {} ELSE sdata'[sdisk[q]]
      BY <1>3, ZenonT(30) DEF OnDisk
    <3>4. sheld'[p] = OnDisk(p)'
      BY <1>1, <1>2, <3>1, <3>2, <3>3
    <3>5. \A q \in ShPaths : q # p => sheld'[q] = sheld[q]
      BY <1>2, <3>1, ZenonT(30)
    <3>6. \A q \in ShPaths : q # p /\ sdisk[q] # 0 => sdata'[sdisk[q]] = sdata[sdisk[q]]
      <4>1. \A q \in ShPaths : sdisk[q] # 0 => sdisk[q] \in Fds
        BY <1>1, ShAssumption DEF ShInv, FdTypes, Fds
      <4> QED
        BY <1>2, <3>1, <3>2, <4>1, ZenonT(30)
    <3>7. \A q \in ShPaths : q # p => OnDisk(q)' = OnDisk(q)
      BY <3>3, <3>6, ZenonT(30) DEF OnDisk
    <3> QED
      BY <3>2, <3>4, <3>5, <3>7, ZenonT(30)
  <2>2. \A q \in ShPaths : Settled(q)' => Settled(q)
    BY <1>10, ZenonT(30) DEF Settled
  <2>3. \A j \in Fds : j > Len(sfd) => sdata'[j] = {}
    <3>1. \A j \in Fds : j > Len(sfd) => j # i /\ sdata[j] = {}
      BY <1>1 DEF ShInv, DiskFits
    <3>2. sdata \in [Fds -> SUBSET Nat]
      BY ZenonT(30) DEF ShInv, ShTypes
    <3> QED
      BY <1>2, <3>1, <3>2, ZenonT(30)
  <2> QED
    BY <1>3, <2>1, <2>2, <2>3 DEF ShInv, DiskFits
<1> QED
  BY <1>4, <1>7, <1>8, <1>9, <1>12, <1>13, ZenonT(30) DEF ShInv

\* What ShWriteAt, ShWriteFull, ShTruncate and ShEnsure write and leave.
LEMMA WriteSteps ==
    ASSUME ShInv, NEW c \in ShClients, ShWriteAt(c) \/ ShWriteFull(c) \/ ShTruncate(c) \/ ShEnsure(c)
    PROVE  ShInv'
<1>0. sop[c] # None /\ sop[c].op \notin {"rename", "unlink"} /\ swrites \in Nat
  BY ZenonT(30) DEF ShWriteAt, ShWriteFull, ShTruncate, ShEnsure, Doing, ShInv, ShTypes
<1>1. CASE ShWriteAt(c)
  <2> DEFINE i == sfd[sop[c].fd].ino
             d == sdata[i] \cup {swrites + 1}
  <2>1. sop[c].path \in ShPaths /\ i \in Fds /\ sdisk[sop[c].path] = i /\ i # 0
    BY <1>0, InUseIsOnDisk DEF Fds
  <2>2. d \in SUBSET Nat /\ sheld[sop[c].path] = sdata[i]
    BY <1>0, <2>1 DEF ShInv, ShTypes, DiskFits, OnDisk
  <2>3. FileHolds(c, d)
    BY <1>1, <2>1, <2>2, ZenonT(30) DEF ShWriteAt, FileHolds
  <2>4. sop' = [sop EXCEPT ![c] = None] /\ UNCHANGED <<memory, sfd, sdisk, spin>> /\ swrites' \in Nat
    BY <1>0, <1>1 DEF ShWriteAt
  <2> HIDE DEF d
  <2> QED
    BY <1>0, <2>2, <2>3, <2>4, WroteStep, ZenonT(30)
<1>2. CASE ShWriteFull(c)
  <2>1. FileHolds(c, {swrites + 1}) /\ {swrites + 1} \in SUBSET Nat /\ swrites' \in Nat
    BY <1>0, <1>2 DEF ShWriteFull
  <2>2. sop' = [sop EXCEPT ![c] = None] /\ UNCHANGED <<memory, sfd, sdisk, spin>>
    BY <1>2, ZenonT(30) DEF ShWriteFull
  <2> QED
    BY <1>0, <2>1, <2>2, WroteStep, ZenonT(30)
<1>3. CASE ShTruncate(c)
  <2>1. FileHolds(c, {}) /\ {} \in SUBSET Nat /\ swrites' \in Nat
    BY <1>0, <1>3, ZenonT(30) DEF ShTruncate
  <2>2. sop' = [sop EXCEPT ![c] = None] /\ UNCHANGED <<memory, sfd, sdisk, spin>>
    BY <1>3, ZenonT(30) DEF ShTruncate
  <2> QED
    BY <1>0, <2>1, <2>2, WroteStep, ZenonT(30)
<1>4. CASE ShEnsure(c)
  <2>1. FileHolds(c, {}) /\ {} \in SUBSET Nat /\ swrites' \in Nat /\ UNCHANGED <<memory, sfd, sdisk, spin>>
    BY <1>0, <1>4, ZenonT(30) DEF ShEnsure
  <2>2. CASE Writable(sop[c].fd) /\ spin[c] = None
    <3> DEFINE r == [op |-> "pin", paths |-> sop[c].paths, path |-> sop[c].path, fd |-> sop[c].fd]
    <3>1. sop' = [sop EXCEPT ![c] = r]
      BY <1>4, <2>2, ZenonT(30) DEF ShEnsure
    <3> QED
      BY <1>0, <2>1, <2>2, <3>1, WroteStep, ZenonT(30)
  <2>3. CASE ~(Writable(sop[c].fd) /\ spin[c] = None)
    <3>1. sop' = [sop EXCEPT ![c] = None]
      BY <1>4, <2>3, ZenonT(30) DEF ShEnsure
    <3> QED
      BY <1>0, <2>1, <3>1, WroteStep, ZenonT(30)
  <2> QED
    BY <2>2, <2>3, ZenonT(30)
<1> QED
  BY <1>1, <1>2, <1>3, <1>4, ZenonT(30)

-----------------------------------------------------------------------------
(* Opening the shadow of a path                                            *)

\* No Remove or Rename of p is under way.
Unmoved(p) ==
    \A d \in ShClients : sop[d] # None /\ sop[d].op \in {"rename", "unlink"} => p \notin sop[d].paths

\* The shadow of p is open, as before or anew, and nothing else changed.
Grown(p) ==
    /\ sfd \in Seq(FdRecord) /\ sfd' \in Seq(FdRecord) /\ Len(sfd) \in Nat /\ Len(sfd') \in Nat
    /\ Len(sfd) <= Len(sfd') /\ Len(sfd') <= MaxFds
    /\ \A f \in 1..Len(sfd) : sfd'[f] = sfd[f]
    /\ \A f \in 1..Len(sfd') : sfd'[f].ino \in 1..Len(sfd')
    /\ sfiles' \in [ShPaths -> 0..Len(sfd')] /\ sdisk' \in [ShPaths -> 0..Len(sfd')]
    /\ \A q \in ShPaths : q # p => sfiles'[q] = sfiles[q] /\ sdisk'[q] = sdisk[q]
    /\ sfiles'[p] # 0 /\ sfd'[sfiles'[p]].open
    /\ sdisk'[p] # 0 /\ sfd'[sfiles'[p]].ino = sdisk'[p]
    /\ sfiles'[p] = sfiles[p] \/ (sfiles[p] = 0 /\ sfiles'[p] > Len(sfd))
    /\ sdisk'[p] = sdisk[p] \/ (sdisk[p] = 0 /\ sdisk'[p] > Len(sfd))

LEMMA OpenGrows ==
    ASSUME ShInv, NEW p \in ShPaths, sfiles[p] = 0, NEW rw \in BOOLEAN, OpenShadow(p, rw)
    PROVE  Grown(p)
<1>1. PICK n : n = Len(sfd)
  BY ZenonT(30)
<1>2. PICK i : i = IF sdisk[p] = 0 THEN n + 1 ELSE sdisk[p]
  BY ZenonT(30)
<1>3. PICK r : r = [ino |-> i, rw |-> rw, open |-> TRUE]
  BY ZenonT(30)
<1>4. /\ n + 1 <= MaxFds /\ sfd' = Append(sfd, r)
      /\ sdisk' = [sdisk EXCEPT ![p] = i] /\ sfiles' = [sfiles EXCEPT ![p] = n + 1]
  BY <1>1, <1>2, <1>3, ZenonT(30) DEF OpenShadow, NextFd, ShNone
<1>5. n \in Nat /\ sfd \in Seq(FdRecord)
  BY <1>1, FdOf, ZenonT(30) DEF ShInv, FdTypes
<1>6. i \in 1..(n + 1) /\ (sdisk[p] = 0 => i > n) /\ (sdisk[p] # 0 => i = sdisk[p])
  BY <1>1, <1>2, <1>5 DEF ShInv, FdTypes
<1>7. r \in FdRecord /\ r.ino = i /\ r.open
  BY <1>3, <1>5, <1>6 DEF FdRecord
<1>8. /\ sfd' \in Seq(FdRecord) /\ Len(sfd') = n + 1 /\ sfd'[n + 1] = r
      /\ \A f \in 1..n : sfd'[f] = sfd[f]
  BY <1>1, <1>4, <1>5, <1>7, FdAppended
<1>9. /\ sfiles \in [ShPaths -> 0..n] /\ sdisk \in [ShPaths -> 0..n]
      /\ \A f \in 1..n : sfd[f].ino \in 1..n
  BY <1>1, ZenonT(30) DEF ShInv, FdTypes
<1>10. \A f \in 1..(n + 1) : sfd'[f].ino \in 1..(n + 1)
  BY <1>5, <1>6, <1>7, <1>8, <1>9
<1>11. /\ sfiles' \in [ShPaths -> 0..(n + 1)] /\ sdisk' \in [ShPaths -> 0..(n + 1)]
       /\ \A q \in ShPaths : q # p => sfiles'[q] = sfiles[q] /\ sdisk'[q] = sdisk[q]
       /\ sfiles'[p] = n + 1 /\ sdisk'[p] = i
  BY <1>4, <1>5, <1>6, <1>9
<1>12. /\ sfiles'[p] # 0 /\ sfd'[sfiles'[p]].open
       /\ sdisk'[p] # 0 /\ sfd'[sfiles'[p]].ino = sdisk'[p]
       /\ sfiles[p] = 0 /\ sfiles'[p] > n
       /\ sdisk'[p] = sdisk[p] \/ (sdisk[p] = 0 /\ sdisk'[p] > n)
  BY <1>5, <1>6, <1>7, <1>8, <1>11
<1> QED
  BY <1>1, <1>4, <1>5, <1>8, <1>10, <1>11, <1>12 DEF Grown

LEMMA StaysGrown ==
    ASSUME ShInv, NEW p \in ShPaths, sfiles[p] # 0, Unmoved(p), UNCHANGED <<sfd, sdisk, sfiles>>
    PROVE  Grown(p)
<1>1. Len(sfd) \in Nat /\ sfiles[p] \in 1..Len(sfd)
  BY FdOf DEF ShInv, FdTypes
<1>2. Settled(p)
  BY ZenonT(30) DEF Settled, Unmoved
<1>3. sdisk[p] = sfd[sfiles[p]].ino /\ sfd[sfiles[p]].open /\ sdisk[p] # 0
  BY <1>1, <1>2 DEF ShInv, DiskFits, MapsFit, FdTypes
<1> QED
  BY <1>1, <1>3 DEF Grown, ShInv, FdTypes

\* What was written is still on disk, and the map has the inodes open that the
\* disk names.
LEMMA GrownDisk ==
    ASSUME ShInv, NEW p \in ShPaths, Grown(p), Unmoved(p), UNCHANGED <<sdata, sheld>>,
           \A q \in ShPaths : Settled(q)' => Settled(q)
    PROVE  DiskFits'
<1>0. /\ Len(sfd) \in Nat /\ Len(sfd') \in Nat /\ Len(sfd) <= Len(sfd') /\ Len(sfd') <= MaxFds
      /\ sfiles \in [ShPaths -> 0..Len(sfd)] /\ sdisk \in [ShPaths -> 0..Len(sfd)]
  BY ZenonT(30) DEF Grown, ShInv, FdTypes
<1>1. ASSUME NEW q \in ShPaths PROVE sheld'[q] = OnDisk(q)'
  <2>1. CASE q # p
    BY <2>1 DEF Grown, ShInv, DiskFits, OnDisk
  <2>2. CASE q = p
    <3>1. CASE sdisk'[p] = sdisk[p]
      BY <2>2, <3>1 DEF Grown, ShInv, DiskFits, OnDisk
    <3>2. CASE sdisk[p] = 0 /\ sdisk'[p] > Len(sfd)
      <4>1. sdisk'[p] \in Fds
        BY <1>0, <3>2, ShAssumption DEF Grown, Fds
      <4>2. sdata[sdisk'[p]] = {} /\ sheld[p] = {} /\ sdisk'[p] # 0
        BY <1>0, <3>2, <4>1, ZenonT(30) DEF ShInv, DiskFits, OnDisk, Grown
      <4> QED
        BY <2>2, <4>2, ZenonT(30) DEF OnDisk
    <3> QED
      BY <3>1, <3>2, ZenonT(30) DEF Grown
  <2> QED
    BY <2>1, <2>2, ZenonT(30)
<1>2. \A q, u \in ShPaths : sdisk'[q] # 0 /\ sdisk'[q] = sdisk'[u] => q = u
  BY <1>0 DEF ShInv, DiskFits, Grown
<1>3. ASSUME NEW q \in ShPaths, sfiles'[q] # 0, Settled(q)' PROVE sdisk'[q] = sfd'[sfiles'[q]].ino
  <2>1. CASE q # p
    <3>1. sfiles'[q] = sfiles[q] /\ sdisk'[q] = sdisk[q] /\ sfiles[q] \in 1..Len(sfd)
      BY <1>0, <1>3, <2>1 DEF Grown
    <3>2. sdisk[q] = sfd[sfiles[q]].ino
      BY <1>3, <3>1, ZenonT(30) DEF ShInv, DiskFits
    <3> QED
      BY <3>1, <3>2 DEF Grown
  <2>2. CASE q = p
    BY <2>2, ZenonT(30) DEF Grown
  <2> QED
    BY <2>1, <2>2, ZenonT(30)
<1>4. \A i \in Fds : i > Len(sfd') => sdata'[i] = {}
  BY <1>0 DEF ShInv, DiskFits, Fds
<1> QED
  BY <1>1, <1>2, <1>3, <1>4, ZenonT(30) DEF DiskFits

\* The operations in flight find the maps as they left them.
LEMMA GrownOps ==
    ASSUME ShInv, NEW p \in ShPaths, Grown(p), Unmoved(p),
           \A q \in ShPaths : q # p => sactive'[q] = sactive[q],
           NEW d \in ShClients, sop[d] # None, sop'[d] = sop[d], sop[d].op = "pin" => spin'[d] = None
    PROVE  OpFits(d)'
<1>0. /\ sop[d].op \in {"writeAt", "writeFull", "truncate", "ensure", "pin", "unlink", "rename"}
      /\ sop[d].paths \in SUBSET ShPaths /\ sop[d].path \in ShPaths
      /\ sop[d].op = "rename" => sop[d].from \in ShPaths
  BY OpTyped, ZenonT(30) DEF ShInv
<1>1. OpFits(d)
  BY ZenonT(30) DEF ShInv, OpsFit
<1>2. CASE sop[d].op = "rename"
  <2>1. sop[d].path # p /\ sop[d].from # p
    BY <1>1, <1>2, ZenonT(30) DEF OpFits, Unmoved
  <2>2. sop[d].fd \in 1..Len(sfd)
    <3>1. Len(sfd) \in Nat /\ sfiles \in [ShPaths -> 0..Len(sfd)]
      BY ZenonT(30) DEF Grown, ShInv, FdTypes
    <3>2. sfiles[sop[d].path] = sop[d].fd /\ sop[d].fd # 0
      BY <1>1, <1>2, ZenonT(30) DEF OpFits
    <3> QED
      BY <1>0, <3>1, <3>2
  <2>3. /\ sfiles'[sop[d].path] = sfiles[sop[d].path] /\ sactive'[sop[d].path] = sactive[sop[d].path]
        /\ sfiles'[sop[d].from] = sfiles[sop[d].from]
        /\ sdisk'[sop[d].path] = sdisk[sop[d].path] /\ sdisk'[sop[d].from] = sdisk[sop[d].from]
        /\ sfd'[sop[d].fd] = sfd[sop[d].fd]
    BY <1>0, <1>2, <2>1, <2>2, ZenonT(30) DEF Grown
  <2> QED
    BY <1>1, <1>2, <2>3 DEF OpFits
<1>3. CASE sop[d].op = "unlink"
  BY <1>0, <1>1, <1>3 DEF OpFits, Grown, Unmoved
<1>4. CASE sop[d].op \notin {"rename", "unlink"}
  BY <1>0, <1>1, <1>4 DEF OpFits, Grown
<1> QED
  BY <1>2, <1>3, <1>4, ZenonT(30)

\* The maps still fit, and the readers of pinned files are not disturbed.
LEMMA GrownMaps ==
    ASSUME ShInv, NEW p \in ShPaths, Grown(p),
           UNCHANGED <<sactive, sgenFile, srefs, sretired, snextGen, spin>>
    PROVE  FdTypes' /\ MapsFit' /\ RetiredFit' /\ PinsFit'
<1>0. /\ Len(sfd) \in Nat /\ Len(sfd') \in Nat /\ Len(sfd) <= Len(sfd')
      /\ sfiles \in [ShPaths -> 0..Len(sfd)]
      /\ sgenFile \in [Gens -> 0..Len(sfd)] /\ sretired \in [Gens -> 0..Len(sfd)]
      /\ \A q \in ShPaths : sactive[q] # 0 => sactive[q] \in Gens
  <2>1. \A q \in ShPaths : sactive[q] # 0 => sactive[q] \in Gens
    BY ShAssumption DEF ShInv, ShTypes, Gens
  <2> QED
    BY <2>1, ZenonT(30) DEF Grown, ShInv, FdTypes
<1>1. FdTypes'
  BY <1>0 DEF Grown, FdTypes
<1>2. \A q \in ShPaths : sfiles[q] # 0 => sfiles'[q] = sfiles[q]
  BY ZenonT(30) DEF Grown
<1>3. MapsFit'
  <2>1. ASSUME NEW q \in ShPaths, sfiles'[q] # 0 PROVE sfd'[sfiles'[q]].open
    <3>1. CASE q = p
      BY <3>1, ZenonT(30) DEF Grown
    <3>2. CASE q # p
      <4>1. sfiles'[q] = sfiles[q] /\ sfiles[q] \in 1..Len(sfd)
        BY <1>0, <2>1, <3>2 DEF Grown
      <4>2. sfd[sfiles[q]].open /\ sfd'[sfiles[q]] = sfd[sfiles[q]]
        BY <4>1 DEF Grown, ShInv, MapsFit
      <4> QED
        BY <4>1, <4>2, ZenonT(30)
    <3> QED
      BY <3>1, <3>2, ZenonT(30)
  <2>2. \A q, u \in ShPaths : sfiles'[q] # 0 /\ sfiles'[q] = sfiles'[u] => q = u
    BY <1>0 DEF Grown, ShInv, MapsFit
  <2>3. \A q \in ShPaths : sactive[q] # 0 => sfiles'[q] # 0 /\ sgenFile[sactive[q]] = sfiles'[q]
    BY <1>2, ZenonT(30) DEF ShInv, MapsFit
  <2> QED
    BY <2>1, <2>2, <2>3, ZenonT(30) DEF MapsFit, ShInv
<1>4. RetiredFit'
  <2>1. \A g \in Gens : sretired[g] # 0 => sgenFile[g] = 0 /\ sfd'[sretired[g]].open
    BY <1>0 DEF Grown, ShInv, RetiredFit
  <2>2. \A g \in Gens, q \in ShPaths : sretired[g] # 0 => sfiles'[q] # sretired[g]
    <3> SUFFICES ASSUME NEW g \in Gens, NEW q \in ShPaths, sretired[g] # 0 PROVE sfiles'[q] # sretired[g]
      BY ZenonT(30)
    <3>1. sretired[g] <= Len(sfd) /\ sfiles[q] # sretired[g]
      BY <1>0 DEF ShInv, RetiredFit
    <3> QED
      BY <1>0, <3>1 DEF Grown
  <2> QED
    BY <2>1, <2>2, ZenonT(30) DEF RetiredFit, ShInv
<1>5. PinsFit'
  BY ZenonT(30) DEF ShInv, PinsFit, Pinners, ReadAtGen
<1> QED
  BY <1>1, <1>3, <1>4, <1>5, ZenonT(30)

LEMMA EnsureStep ==
    ASSUME ShInv, ~Overlap, NEW c \in ShClients, NEW p \in ShPaths,
           NEW kind \in {"writeAt", "writeFull", "truncate", "ensure"}, EnsureShadowFile(c, p, kind)
    PROVE  ShInv'
<1>1. sop[c] = None /\ Unmoved(p)
  BY StartsFree, ZenonT(30) DEF EnsureShadowFile, Unmoved
<1>2. Grown(p)
  <2>1. CASE sfiles[p] # 0
    BY <1>1, <2>1, StaysGrown, ZenonT(30) DEF EnsureShadowFile, ShNone
  <2>2. CASE sfiles[p] = 0
    BY <2>2, OpenGrows, ZenonT(30) DEF EnsureShadowFile, ShNone
  <2> QED
    BY <2>1, <2>2, ZenonT(30)
<1>3. PICK r : r = [op |-> kind, paths |-> {p}, path |-> p, fd |-> sfiles'[p]]
  BY ZenonT(30)
<1>4. /\ sop' = [sop EXCEPT ![c] = r]
      /\ UNCHANGED <<sactive, sgenFile, srefs, sretired, snextGen, sdata, spin, sheld, swrites>>
  BY <1>3, ZenonT(30) DEF EnsureShadowFile
<1>5. r \in FileOps /\ r.op = kind /\ r.paths = {p} /\ r.path = p /\ r.fd = sfiles'[p] /\ r # None
  <2>1. sfiles'[p] \in {ShNone} \cup Fds
    BY <1>2, ShAssumption DEF Grown, Fds, ShNone
  <2> QED
    BY <1>3, <2>1, ShAssumption DEF FileOps
<1>6. /\ sop'[c] = r
      /\ \A d \in ShClients : d # c => sop'[d] = sop[d]
      /\ sop' \in [ShClients -> FileOps \cup RenameOps \cup {None}]
  BY <1>4, <1>5, ZenonT(30) DEF ShInv, ShTypes
<1>7. ShTypes'
  BY <1>4, <1>6, ZenonT(30) DEF ShInv, ShTypes
<1>8. FdTypes' /\ MapsFit' /\ RetiredFit' /\ PinsFit'
  BY <1>2, <1>4, GrownMaps, ZenonT(30)
<1>9. \A q \in ShPaths : Settled(q)' => Settled(q)
  BY <1>1, <1>6, ZenonT(30) DEF Settled
<1>10. DiskFits'
  BY <1>1, <1>2, <1>4, <1>9, GrownDisk, ZenonT(30)
<1>11. ASSUME NEW d \in ShClients, sop'[d] # None PROVE OpFits(d)'
  <2>1. CASE d = c
    BY <1>2, <1>5, <1>6, <2>1, ZenonT(30) DEF OpFits, Grown
  <2>2. CASE d # c
    <3>1. sop[d] # None /\ sop'[d] = sop[d]
      BY <1>6, <1>11, <2>2, ZenonT(30)
    <3>2. sop[d].op = "pin" => spin'[d] = None
      BY <1>4, <3>1, ZenonT(30) DEF ShInv, OpsFit, OpFits
    <3> QED
      BY <1>1, <1>2, <1>4, <3>1, <3>2, GrownOps, ZenonT(30)
  <2> QED
    BY <2>1, <2>2, ZenonT(30)
<1>12. ASSUME NEW d \in ShClients, NEW e \in ShClients,
              d # e, sop'[d] # None, sop'[e] # None, sop'[d].op \in {"rename", "unlink"}
       PROVE  sop'[d].paths \cap sop'[e].paths = {}
  <2>1. d # c
    BY <1>5, <1>6, <1>12, ZenonT(30)
  <2>2. CASE e = c
    BY <1>1, <1>5, <1>6, <1>12, <2>1, <2>2, ZenonT(30) DEF Unmoved
  <2>3. CASE e # c
    BY <1>6, <1>12, <2>1, <2>3, ZenonT(30) DEF ShInv, OpsFit
  <2> QED
    BY <2>2, <2>3, ZenonT(30)
<1> QED
  BY <1>7, <1>8, <1>10, <1>11, <1>12, ZenonT(30) DEF ShInv, OpsFit

LEMMA ReadAtLoadsStep ==
    ASSUME ShInv, ~Overlap, NEW c \in ShClients, NEW p \in ShPaths, ReadAtLoads(c, p)
    PROVE  ShInv'
<1>1. Unmoved(p)
  BY StartsFree, ZenonT(30) DEF ReadAtLoads, Unmoved
<1>2. Grown(p)
  BY OpenGrows, ZenonT(30) DEF ReadAtLoads, ShNone
<1>3. UNCHANGED <<sactive, sgenFile, srefs, sretired, snextGen, sdata, sop, spin, sheld, swrites>>
  BY ZenonT(30) DEF ReadAtLoads
<1>4. FdTypes' /\ MapsFit' /\ RetiredFit' /\ PinsFit'
  BY <1>2, <1>3, GrownMaps, ZenonT(30)
<1>5. ShTypes'
  BY <1>3, ZenonT(30) DEF ShInv, ShTypes
<1>6. DiskFits'
  BY <1>1, <1>2, <1>3, GrownDisk, ZenonT(30) DEF Settled
<1>7. OpsFit'
  <2>1. ASSUME NEW d \in ShClients, sop[d] # None PROVE OpFits(d)'
    <3>1. sop[d].op = "pin" => spin'[d] = None
      BY <1>3, <2>1, ZenonT(30) DEF ShInv, OpsFit, OpFits
    <3> QED
      BY <1>1, <1>2, <1>3, <2>1, <3>1, GrownOps, ZenonT(30)
  <2> QED
    BY <1>3, <2>1, ZenonT(30) DEF ShInv, OpsFit
<1> QED
  BY <1>4, <1>5, <1>6, <1>7, ZenonT(30) DEF ShInv

-----------------------------------------------------------------------------
(* Pins                                                                    *)

\* A client that pins joins the others that hold the generation.
LEMMA PinnersGrow ==
    ASSUME ShTypes, NEW c \in ShClients, spin[c] = None, NEW r \in Pins, NEW g, g = r.gen,
           spin' = [spin EXCEPT ![c] = r]
    PROVE  /\ c \notin Pinners(spin, g) /\ Pinners(spin', g) = Pinners(spin, g) \cup {c}
           /\ \A h : h # g => Pinners(spin', h) = Pinners(spin, h)
           /\ spin' \in [ShClients -> Pins \cup {None}] /\ spin'[c] = r
           /\ \A d \in ShClients : d # c => spin'[d] = spin[d]
<1>1. /\ spin' \in [ShClients -> Pins \cup {None}] /\ spin'[c] = r /\ r # None
      /\ \A d \in ShClients : d # c => spin'[d] = spin[d]
  BY ShAssumption, ZenonT(30) DEF ShTypes
<1>2. c \notin Pinners(spin, g) /\ Pinners(spin', g) = Pinners(spin, g) \cup {c}
  BY <1>1, ZenonT(30) DEF Pinners
<1>3. \A h : h # g => Pinners(spin', h) = Pinners(spin, h)
  BY <1>1, ZenonT(30) DEF Pinners
<1> QED
  BY <1>1, <1>2, <1>3, ZenonT(30)

LEMMA PinnedFits ==
    ASSUME ShInv, ClientsCount, NEW c \in ShClients, NEW p \in ShPaths, Grown(p),
           PinGen(c, p, sfiles'[p]), spin[c] = None, sretired' = sretired
    PROVE  /\ FdTypes' /\ MapsFit' /\ RetiredFit' /\ PinsFit'
           /\ snextGen' \in 0..MaxGens /\ sactive' \in [ShPaths -> 0..snextGen']
           /\ srefs' \in [Gens -> Nat] /\ spin' \in [ShClients -> Pins \cup {None}]
           /\ \A q \in ShPaths : q # p => sactive'[q] = sactive[q]
           /\ \A d \in ShClients : d # c => spin'[d] = spin[d]
<1>0. PICK f : f = sfiles'[p]
  BY ZenonT(30)
<1>1. PICK g : g = IF sactive[p] # 0 THEN sactive[p] ELSE snextGen + 1
  BY ZenonT(30)
<1>2. /\ g <= MaxGens /\ sactive' = [sactive EXCEPT ![p] = g]
      /\ sgenFile' = IF sactive[p] = 0 THEN [sgenFile EXCEPT ![g] = f] ELSE sgenFile
      /\ snextGen' = IF sactive[p] = 0 THEN g ELSE snextGen
      /\ srefs' = [srefs EXCEPT ![g] = srefs[g] + 1]
      /\ spin' = [spin EXCEPT ![c] = [gen |-> g, fd |-> f]]
  BY <1>0, <1>1, ZenonT(30) DEF PinGen
<1>3. /\ snextGen \in Nat /\ snextGen <= MaxGens /\ sactive \in [ShPaths -> 0..snextGen] /\ srefs \in [Gens -> Nat]
      /\ sgenFile \in [Gens -> 0..Len(sfd)] /\ sretired \in [Gens -> 0..Len(sfd)]
      /\ sfiles \in [ShPaths -> 0..Len(sfd)]
  BY ShAssumption DEF ShInv, ShTypes, FdTypes
<1>4. g \in Gens /\ g # 0
  BY <1>1, <1>2, <1>3, ShAssumption DEF Gens
<1>5. /\ f \in 1..Len(sfd') /\ Len(sfd') <= MaxFds /\ Len(sfd) \in Nat /\ Len(sfd') \in Nat /\ Len(sfd) <= Len(sfd')
      /\ sfiles' \in [ShPaths -> 0..Len(sfd')] /\ \A q \in ShPaths : q # p => sfiles'[q] = sfiles[q]
      /\ f = sfiles[p] \/ (sfiles[p] = 0 /\ f > Len(sfd))
  BY <1>0 DEF Grown
<1>6. snextGen' \in 0..MaxGens /\ snextGen <= snextGen' /\ g <= snextGen' /\ sactive' \in [ShPaths -> 0..snextGen']
  BY <1>1, <1>2, <1>3, <1>4 DEF Gens
<1>7. sgenFile' \in [Gens -> 0..Len(sfd')] /\ sretired' \in [Gens -> 0..Len(sfd')]
  BY <1>2, <1>3, <1>4, <1>5
<1>8. FdTypes'
  BY <1>7, ZenonT(30) DEF FdTypes, Grown
<1>9. /\ sgenFile'[g] = f /\ sactive'[p] = g /\ \A q \in ShPaths : q # p => sactive'[q] = sactive[q]
      /\ \A h \in Gens : h # g => sgenFile'[h] = sgenFile[h]
  <2>1. sactive[p] # 0 => sgenFile[sactive[p]] = sfiles[p] /\ sfiles[p] # 0
    BY ZenonT(30) DEF ShInv, MapsFit
  <2> QED
    BY <1>1, <1>2, <1>3, <1>4, <1>5, <2>1, ZenonT(30)
<1>10. \A q \in ShPaths : q # p => sactive[q] # g
  BY <1>1, <1>3, <1>4 DEF ShInv, MapsFit
<1>11. sretired[g] = 0 /\ (snextGen' > snextGen => g = snextGen + 1 /\ snextGen' = g)
  <2>1. CASE sactive[p] # 0
    <3>1. sgenFile[g] # 0
      BY <1>1, <1>9, <2>1 DEF ShInv, MapsFit
    <3> QED
      BY <1>1, <1>2, <1>3, <1>4, <2>1, <3>1 DEF ShInv, RetiredFit
  <2>2. CASE sactive[p] = 0
    BY <1>1, <1>2, <1>3, <1>4, <2>2 DEF ShInv, RetiredFit
  <2> QED
    BY <2>1, <2>2, ZenonT(30)
<1>12. MapsFit'
  <2>1. ASSUME NEW q \in ShPaths, sfiles'[q] # 0 PROVE sfd'[sfiles'[q]].open
    <3>1. CASE q = p
      BY <3>1, ZenonT(30) DEF Grown
    <3>2. CASE q # p
      <4>1. sfiles'[q] = sfiles[q] /\ sfiles[q] \in 1..Len(sfd)
        BY <1>3, <1>5, <2>1, <3>2
      <4>2. sfd[sfiles[q]].open /\ sfd'[sfiles[q]] = sfd[sfiles[q]]
        BY <4>1 DEF Grown, ShInv, MapsFit
      <4> QED
        BY <4>1, <4>2, ZenonT(30)
    <3> QED
      BY <3>1, <3>2, ZenonT(30)
  <2>2. \A q, u \in ShPaths : sfiles'[q] # 0 /\ sfiles'[q] = sfiles'[u] => q = u
    BY <1>0, <1>3, <1>5 DEF ShInv, MapsFit
  <2>3. ASSUME NEW q \in ShPaths, sactive'[q] # 0 PROVE sfiles'[q] # 0 /\ sgenFile'[sactive'[q]] = sfiles'[q]
    <3>1. CASE q = p
      BY <1>0, <1>5, <1>9, <3>1
    <3>2. CASE q # p
      <4>1. sactive[q] # 0 /\ sactive'[q] = sactive[q] /\ sactive[q] \in Gens /\ sactive[q] # g
        BY <1>3, <1>9, <1>10, <2>3, <3>2, BoundsNat DEF Gens
      <4> QED
        BY <1>5, <1>9, <3>2, <4>1 DEF ShInv, MapsFit
    <3> QED
      BY <3>1, <3>2, ZenonT(30)
  <2>4. \A q, u \in ShPaths : sactive'[q] # 0 /\ sactive'[q] = sactive'[u] => q = u
    BY <1>9, <1>10 DEF ShInv, MapsFit
  <2>5. ASSUME NEW h \in Gens, sgenFile'[h] # 0 PROVE \E q \in ShPaths : sactive'[q] = h
    <3>1. CASE h = g
      BY <1>9, <3>1, ZenonT(30)
    <3>2. CASE h # g
      <4>1. PICK q \in ShPaths : sactive[q] = h
        BY <1>9, <2>5, <3>2, ZenonT(30) DEF ShInv, MapsFit
      <4>2. q # p
        BY <1>1, <1>4, <3>2, <4>1 DEF Gens
      <4> QED
        BY <1>9, <4>1, <4>2, ZenonT(30)
    <3> QED
      BY <3>1, <3>2, ZenonT(30)
  <2> QED
    BY <2>1, <2>2, <2>3, <2>4, <2>5, ZenonT(30) DEF MapsFit
<1>13. RetiredFit'
  <2>1. ASSUME NEW h \in Gens, sretired[h] # 0 PROVE sgenFile'[h] = 0 /\ sfd'[sretired[h]].open
    <3>1. h # g /\ sgenFile[h] = 0 /\ sfd[sretired[h]].open
      BY <1>11, <2>1, ZenonT(30) DEF ShInv, RetiredFit
    <3>2. sfd'[sretired[h]] = sfd[sretired[h]]
      BY <1>3, <2>1 DEF Grown
    <3> QED
      BY <1>9, <3>1, <3>2, ZenonT(30)
  <2>2. ASSUME NEW h \in Gens, NEW q \in ShPaths, sretired[h] # 0 PROVE sfiles'[q] # sretired[h]
    <3>1. sretired[h] <= Len(sfd) /\ sfiles[q] # sretired[h] /\ sfiles[p] # sretired[h]
      BY <1>3, <2>2 DEF ShInv, RetiredFit
    <3> QED
      BY <1>0, <1>3, <1>5, <3>1
  <2>3. \A h \in Gens : h > snextGen' => sgenFile'[h] = 0 /\ sretired[h] = 0
    BY <1>3, <1>4, <1>6, <1>9 DEF ShInv, RetiredFit, Gens
  <2> QED
    BY <2>1, <2>2, <2>3, ZenonT(30) DEF RetiredFit, ShInv
<1>14. PICK r : r = [gen |-> g, fd |-> f]
  BY ZenonT(30)
<1>15. r \in Pins /\ r.gen = g /\ r.fd = f
  BY <1>4, <1>5, <1>14, ShAssumption DEF Pins, Fds
<1>16. /\ c \notin Pinners(spin, g) /\ Pinners(spin', g) = Pinners(spin, g) \cup {c}
       /\ \A h : h # g => Pinners(spin', h) = Pinners(spin, h)
       /\ spin' \in [ShClients -> Pins \cup {None}] /\ spin'[c] = r
       /\ \A d \in ShClients : d # c => spin'[d] = spin[d]
  <2>1. ShTypes /\ spin' = [spin EXCEPT ![c] = r]
    BY <1>2, <1>14, ZenonT(30) DEF ShInv
  <2> QED
    BY <1>15, <2>1, PinnersGrow, ZenonT(30)
<1>17. srefs' \in [Gens -> Nat] /\ srefs'[g] = srefs[g] + 1 /\ \A h \in Gens : h # g => srefs'[h] = srefs[h]
  BY <1>2, <1>3, <1>4
<1>18. PinsFit'
  <2>1. ASSUME NEW h \in Gens PROVE srefs'[h] = Cardinality(Pinners(spin', h))
    <3>1. srefs[h] = Cardinality(Pinners(spin, h)) /\ Pinners(spin, h) \in SUBSET ShClients
      BY ZenonT(30) DEF ShInv, PinsFit, Pinners
    <3>2. CASE h # g
      BY <1>16, <1>17, <3>1, <3>2, ZenonT(30)
    <3>3. CASE h = g
      BY <1>16, <1>17, <3>1, <3>3 DEF ClientsCount
    <3> QED
      BY <3>2, <3>3, ZenonT(30)
  <2>2. ASSUME NEW d \in ShClients, spin'[d] # None
        PROVE  /\ spin'[d].gen <= snextGen'
               /\ spin'[d].fd # 0 /\ ReadAtGen(spin[d].gen)' = spin'[d].fd
    <3>1. CASE d = c
      BY <1>4, <1>5, <1>6, <1>9, <1>15, <1>16, <3>1 DEF ReadAtGen, ShNone
    <3>2. CASE d # c
      <4>1. spin'[d] = spin[d] /\ spin[d].gen \in Gens
        BY <1>16, <2>2, <3>2, ZenonT(30) DEF ShInv, ShTypes, Pins
      <4>2. spin[d].gen <= snextGen /\ spin[d].fd # 0 /\ ReadAtGen(spin[d].gen) = spin[d].fd
        BY <2>2, <4>1, ZenonT(30) DEF ShInv, PinsFit
      <4>3. spin[d].gen = g => sgenFile[g] = f
        <5>1. CASE sactive[p] # 0
          BY <1>1, <1>2, <1>9, <5>1, ZenonT(30)
        <5>2. CASE sactive[p] = 0
          BY <1>1, <1>3, <4>2, <5>2
        <5> QED
          BY <5>1, <5>2, ZenonT(30)
      <4>4. ReadAtGen(spin[d].gen)' = ReadAtGen(spin[d].gen)
        BY <1>9, <4>1, <4>3, ZenonT(30) DEF ReadAtGen
      <4> QED
        BY <1>3, <1>6, <4>1, <4>2, <4>4 DEF Gens
    <3> QED
      BY <3>1, <3>2, ZenonT(30)
  <2>3. \A h \in Gens : sretired[h] # 0 => srefs'[h] > 0
    BY <1>11, <1>17, ZenonT(30) DEF ShInv, PinsFit
  <2> QED
    BY <2>1, <2>2, <2>3, ZenonT(30) DEF PinsFit
<1> QED
  BY <1>6, <1>8, <1>9, <1>12, <1>13, <1>16, <1>17, <1>18, ZenonT(30)

LEMMA PinIfExistsStep ==
    ASSUME ShInv, ClientsCount, ~Overlap, NEW c \in ShClients, NEW p \in ShPaths, PinIfExists(c, p)
    PROVE  ShInv'
<1>1. sop[c] = None /\ Unmoved(p)
  BY StartsFree, ZenonT(30) DEF PinIfExists, Unmoved
<1>2. Grown(p)
  <2>1. CASE sfiles[p] # 0
    BY <1>1, <2>1, StaysGrown, ZenonT(30) DEF PinIfExists, ShNone
  <2>2. CASE sfiles[p] = 0
    BY <2>2, OpenGrows, ZenonT(30) DEF PinIfExists, ShNone
  <2> QED
    BY <2>1, <2>2, ZenonT(30)
<1>3. /\ PinGen(c, p, sfiles'[p]) /\ spin[c] = None
      /\ UNCHANGED <<sretired, sdata, sop, sheld, swrites>>
  BY ZenonT(30) DEF PinIfExists
<1>4. /\ FdTypes' /\ MapsFit' /\ RetiredFit' /\ PinsFit'
      /\ snextGen' \in 0..MaxGens /\ sactive' \in [ShPaths -> 0..snextGen']
      /\ srefs' \in [Gens -> Nat] /\ spin' \in [ShClients -> Pins \cup {None}]
      /\ \A q \in ShPaths : q # p => sactive'[q] = sactive[q]
      /\ \A d \in ShClients : d # c => spin'[d] = spin[d]
  BY <1>2, <1>3, PinnedFits, ZenonT(30)
<1>5. ShTypes'
  BY <1>3, <1>4, ZenonT(30) DEF ShInv, ShTypes
<1>6. DiskFits'
  BY <1>1, <1>2, <1>3, GrownDisk, ZenonT(30) DEF Settled
<1>7. OpsFit'
  <2>1. ASSUME NEW d \in ShClients, sop[d] # None PROVE OpFits(d)'
    <3>1. sop[d].op = "pin" => spin'[d] = None
      BY <1>1, <1>4, <2>1, ZenonT(30) DEF ShInv, OpsFit, OpFits
    <3> QED
      BY <1>1, <1>2, <1>3, <1>4, <2>1, <3>1, GrownOps, ZenonT(30)
  <2> QED
    BY <1>3, <2>1, ZenonT(30) DEF ShInv, OpsFit
<1> QED
  BY <1>4, <1>5, <1>6, <1>7, ZenonT(30) DEF ShInv

LEMMA PinStep ==
    ASSUME ShInv, ClientsCount, NEW c \in ShClients, ShPin(c)
    PROVE  ShInv'
<1>0. PICK p : p = sop[c].path
  BY ZenonT(30)
<1>1. sop[c] # None /\ sop[c].op = "pin"
  BY ZenonT(30) DEF ShPin, Doing
<1>2. p \in ShPaths /\ sop[c].paths = {p} /\ sfiles[p] # 0 /\ spin[c] = None
  BY <1>0, <1>1, OpTyped, ZenonT(30) DEF ShInv, OpsFit, OpFits
<1>3. /\ PinGen(c, p, sfiles'[p]) /\ sop' = [sop EXCEPT ![c] = None]
      /\ UNCHANGED <<sfiles, sretired, sfd, sdata, sdisk, sheld, swrites>>
  BY <1>0, ZenonT(30) DEF ShPin
<1>4. Unmoved(p)
  <2> SUFFICES ASSUME NEW d \in ShClients, sop[d] # None, sop[d].op \in {"rename", "unlink"}
               PROVE  p \notin sop[d].paths
    BY ZenonT(30) DEF Unmoved
  <2>1. d # c /\ sop[d].paths \cap sop[c].paths = {}
    BY <1>1, ZenonT(30) DEF ShInv, OpsFit
  <2> QED
    BY <1>2, <2>1, ZenonT(30)
<1>5. Grown(p)
  BY <1>2, <1>3, <1>4, StaysGrown, ZenonT(30)
<1>6. /\ FdTypes' /\ MapsFit' /\ RetiredFit' /\ PinsFit'
      /\ snextGen' \in 0..MaxGens /\ sactive' \in [ShPaths -> 0..snextGen']
      /\ srefs' \in [Gens -> Nat] /\ spin' \in [ShClients -> Pins \cup {None}]
      /\ \A q \in ShPaths : q # p => sactive'[q] = sactive[q]
      /\ \A d \in ShClients : d # c => spin'[d] = spin[d]
  BY <1>2, <1>3, <1>5, PinnedFits, ZenonT(30)
<1>7. /\ sop'[c] = None /\ \A d \in ShClients : d # c => sop'[d] = sop[d]
      /\ sop' \in [ShClients -> FileOps \cup RenameOps \cup {None}]
  BY <1>3, ZenonT(30) DEF ShInv, ShTypes
<1>8. ShTypes'
  BY <1>3, <1>6, <1>7, ZenonT(30) DEF ShInv, ShTypes
<1>9. \A q \in ShPaths : Settled(q)' => Settled(q)
  BY <1>1, <1>7, ZenonT(30) DEF Settled
<1>10. DiskFits'
  BY <1>2, <1>3, <1>4, <1>5, <1>9, GrownDisk, ZenonT(30)
<1>11. OpsFit'
  <2>1. ASSUME NEW d \in ShClients, sop'[d] # None PROVE OpFits(d)'
    <3>1. d # c /\ sop[d] # None /\ sop'[d] = sop[d]
      BY <1>7, <2>1, ZenonT(30)
    <3>2. sop[d].op = "pin" => spin'[d] = None
      BY <1>6, <3>1, ZenonT(30) DEF ShInv, OpsFit, OpFits
    <3> QED
      BY <1>2, <1>4, <1>5, <1>6, <3>1, <3>2, GrownOps, ZenonT(30)
  <2>2. ASSUME NEW d \in ShClients, NEW e \in ShClients,
               d # e, sop'[d] # None, sop'[e] # None, sop'[d].op \in {"rename", "unlink"}
        PROVE  sop'[d].paths \cap sop'[e].paths = {}
    BY <1>7, <2>2, ZenonT(30) DEF ShInv, OpsFit
  <2> QED
    BY <2>1, <2>2, ZenonT(30) DEF OpsFit
<1> QED
  BY <1>6, <1>8, <1>10, <1>11, ZenonT(30) DEF ShInv

LEMMA UnpinStep ==
    ASSUME ShInv, ClientsCount, NEW c \in ShClients, Unpin(c)
    PROVE  ShInv'
<1>1. PICK g : g = spin[c].gen
  BY ZenonT(30)
<1>2. PICK f : f = sretired[g]
  BY ZenonT(30)
<1>3. /\ spin[c] # None /\ sop[c] = None
      /\ srefs' = [srefs EXCEPT ![g] = srefs[g] - 1]
      /\ IF srefs[g] = 1 /\ f # 0
         THEN sretired' = [sretired EXCEPT ![g] = 0] /\ sfd' = CloseFd(f)
         ELSE sretired' = sretired /\ sfd' = sfd
      /\ spin' = [spin EXCEPT ![c] = None]
      /\ UNCHANGED <<sfiles, sactive, sgenFile, snextGen, sdata, sdisk, sop, sheld, swrites>>
  BY <1>1, <1>2, ZenonT(30) DEF Unpin, ShNone
<1>4. g \in Gens /\ f \in 0..Len(sfd) /\ Len(sfd) \in Nat /\ sfd \in Seq(FdRecord) /\ srefs \in [Gens -> Nat]
      /\ sretired \in [Gens -> 0..Len(sfd)]
  <2>1. spin[c] \in Pins
    BY <1>3, ZenonT(30) DEF ShInv, ShTypes
  <2> QED
    BY <1>1, <1>2, <2>1, FdOf, ZenonT(30) DEF ShInv, FdTypes, ShTypes, Pins
<1>5. /\ c \in Pinners(spin, g) /\ Pinners(spin', g) = Pinners(spin, g) \ {c}
      /\ \A h : h # g => Pinners(spin', h) = Pinners(spin, h)
      /\ spin' \in [ShClients -> Pins \cup {None}] /\ spin'[c] = None
      /\ \A d \in ShClients : d # c => spin'[d] = spin[d]
  <2>1. /\ spin' \in [ShClients -> Pins \cup {None}] /\ spin'[c] = None
        /\ \A d \in ShClients : d # c => spin'[d] = spin[d]
    BY <1>3, ZenonT(30) DEF ShInv, ShTypes
  <2>2. c \in Pinners(spin, g) /\ Pinners(spin', g) = Pinners(spin, g) \ {c}
    BY <1>1, <1>3, <2>1, ZenonT(30) DEF Pinners
  <2>3. \A h : h # g => Pinners(spin', h) = Pinners(spin, h)
    BY <1>1, <1>3, <2>1, ZenonT(30) DEF Pinners
  <2> QED
    BY <2>1, <2>2, <2>3, ZenonT(30)
<1>6. Pinners(spin, g) \in SUBSET ShClients /\ srefs[g] = Cardinality(Pinners(spin, g)) /\ srefs[g] > 0
  <2>1. Pinners(spin, g) \in SUBSET ShClients /\ srefs[g] = Cardinality(Pinners(spin, g))
    BY <1>4, ZenonT(30) DEF ShInv, PinsFit, Pinners
  <2> QED
    BY <1>4, <1>5, <2>1 DEF ClientsCount
<1>7. srefs' \in [Gens -> Nat] /\ srefs'[g] = srefs[g] - 1 /\ \A h \in Gens : h # g => srefs'[h] = srefs[h]
  BY <1>3, <1>4, <1>6
<1>8. /\ sfd' \in Seq(FdRecord) /\ Len(sfd') = Len(sfd)
      /\ \A i \in 1..Len(sfd) : /\ sfd'[i].ino = sfd[i].ino
                                /\ sfd'[i] = sfd[i] \/ (srefs[g] = 1 /\ f # 0 /\ i = f)
      /\ sretired' \in [Gens -> 0..Len(sfd)]
      /\ \A h \in Gens : sretired'[h] = sretired[h] \/ (h = g /\ sretired'[h] = 0)
      /\ srefs[g] = 1 => sretired'[g] = 0
  <2>1. CASE srefs[g] = 1 /\ f # 0
    <3>1. f \in 1..Len(sfd)
      BY <1>4, <2>1
    <3>2. sfd' = CloseFd(f) /\ sretired' = [sretired EXCEPT ![g] = 0]
      BY <1>3, <2>1, ZenonT(30)
    <3>3. /\ sfd' \in Seq(FdRecord) /\ Len(sfd') = Len(sfd)
          /\ \A i \in 1..Len(sfd) : sfd'[i].ino = sfd[i].ino /\ (i # f => sfd'[i] = sfd[i])
      BY <1>4, <3>1, <3>2, FdClosed, ZenonT(30)
    <3> QED
      BY <1>4, <2>1, <3>2, <3>3
  <2>2. CASE ~(srefs[g] = 1 /\ f # 0)
    BY <1>2, <1>3, <1>4, <2>2, ZenonT(30)
  <2> QED
    BY <2>1, <2>2, ZenonT(30)
<1>9. FdTypes'
  BY <1>3, <1>8, ZenonT(30) DEF ShInv, FdTypes
<1>10. ShTypes'
  BY <1>3, <1>5, <1>7, ZenonT(30) DEF ShInv, ShTypes
<1>11. MapsFit'
  <2>1. ASSUME NEW p \in ShPaths, sfiles[p] # 0 PROVE sfd'[sfiles[p]].open
    <3>1. sfiles[p] \in 1..Len(sfd) /\ sfd[sfiles[p]].open
      BY <1>4, <2>1 DEF ShInv, MapsFit, FdTypes
    <3>2. f # 0 => sfiles[p] # f
      BY <1>2, <1>4, ZenonT(30) DEF ShInv, RetiredFit
    <3> QED
      BY <1>8, <3>1, <3>2, ZenonT(30)
  <2> QED
    BY <1>3, <2>1, ZenonT(30) DEF ShInv, MapsFit
<1>12. RetiredFit'
  <2>1. ASSUME NEW h \in Gens, sretired'[h] # 0 PROVE sgenFile[h] = 0 /\ sfd'[sretired'[h]].open
    <3>1. sretired'[h] = sretired[h] /\ sretired[h] \in 1..Len(sfd)
      BY <1>4, <1>8, <2>1
    <3>2. sgenFile[h] = 0 /\ sfd[sretired[h]].open
      BY <2>1, <3>1, ZenonT(30) DEF ShInv, RetiredFit
    <3>3. ~(srefs[g] = 1 /\ f # 0 /\ sretired[h] = f)
      <4>1. sretired[h] = f => h = g
        BY <1>2, <1>4, <2>1, <3>1, ZenonT(30) DEF ShInv, RetiredFit
      <4> QED
        BY <1>8, <2>1, <4>1, ZenonT(30)
    <3> QED
      BY <1>8, <3>1, <3>2, <3>3, ZenonT(30)
  <2>2. \A h \in Gens, p \in ShPaths : sretired'[h] # 0 => sfiles[p] # sretired'[h]
    BY <1>8 DEF ShInv, RetiredFit
  <2>3. \A h, k \in Gens : sretired'[h] # 0 /\ sretired'[h] = sretired'[k] => h = k
    BY <1>8 DEF ShInv, RetiredFit
  <2>4. \A h \in Gens : h > snextGen => sgenFile[h] = 0 /\ sretired'[h] = 0
    BY <1>8, ZenonT(30) DEF ShInv, RetiredFit
  <2> QED
    BY <1>3, <2>1, <2>2, <2>3, <2>4, ZenonT(30) DEF RetiredFit
<1>13. PinsFit'
  <2>1. ASSUME NEW h \in Gens PROVE srefs'[h] = Cardinality(Pinners(spin', h))
    <3>1. srefs[h] = Cardinality(Pinners(spin, h))
      BY ZenonT(30) DEF ShInv, PinsFit
    <3>2. CASE h # g
      BY <1>5, <1>7, <3>1, <3>2, ZenonT(30)
    <3>3. CASE h = g
      BY <1>5, <1>6, <1>7, <3>3 DEF ClientsCount
    <3> QED
      BY <3>2, <3>3, ZenonT(30)
  <2>2. srefs[g] = 1 => \A d \in ShClients : d # c /\ spin[d] # None => spin[d].gen # g
    <3> SUFFICES ASSUME srefs[g] = 1, NEW d \in ShClients, d # c, spin[d] # None, spin[d].gen = g PROVE FALSE
      BY ZenonT(30)
    <3>1. Pinners(spin', g) \in SUBSET ShClients /\ Cardinality(Pinners(spin', g)) = 0
      BY <1>4, <1>7, <2>1 DEF Pinners
    <3>2. d \in Pinners(spin', g)
      BY <1>5, ZenonT(30) DEF Pinners
    <3> QED
      BY <3>1, <3>2, ZenonT(30) DEF ClientsCount
  <2>3. ASSUME NEW d \in ShClients, spin'[d] # None
        PROVE  /\ spin'[d].gen <= snextGen
               /\ spin'[d].fd # 0 /\ ReadAtGen(spin[d].gen)' = spin'[d].fd
    <3>1. d # c /\ spin'[d] = spin[d] /\ spin[d].gen \in Gens
      BY <1>5, <2>3, ZenonT(30) DEF ShInv, ShTypes, Pins
    <3>2. spin[d].gen <= snextGen /\ spin[d].fd # 0 /\ ReadAtGen(spin[d].gen) = spin[d].fd
      BY <2>3, <3>1, ZenonT(30) DEF ShInv, PinsFit
    <3>3. sretired'[spin[d].gen] = sretired[spin[d].gen]
      <4>1. CASE srefs[g] = 1 /\ f # 0
        BY <1>8, <2>2, <2>3, <3>1, <4>1, ZenonT(30)
      <4>2. CASE ~(srefs[g] = 1 /\ f # 0)
        BY <1>3, <4>2, ZenonT(30)
      <4> QED
        BY <4>1, <4>2, ZenonT(30)
    <3>4. ReadAtGen(spin[d].gen)' = ReadAtGen(spin[d].gen)
      BY <1>3, <3>1, <3>3 DEF ReadAtGen
    <3> QED
      BY <3>1, <3>2, <3>4, ZenonT(30)
  <2>4. ASSUME NEW h \in Gens, sretired'[h] # 0 PROVE srefs'[h] > 0
    <3>1. sretired[h] # 0 /\ srefs[h] > 0
      BY <1>8, <2>4, ZenonT(30) DEF ShInv, PinsFit
    <3>2. h = g => srefs[g] # 1
      BY <1>8, <2>4, ZenonT(30)
    <3> QED
      BY <1>4, <1>7, <3>1, <3>2
  <2> QED
    BY <1>3, <2>1, <2>3, <2>4, ZenonT(30) DEF PinsFit
<1>14. OpsFit'
  <2>1. ASSUME NEW d \in ShClients, sop[d] # None PROVE OpFits(d)'
    <3>1. OpFits(d) /\ (sop[d].op = "rename" => sop[d].fd \in 1..Len(sfd))
      <4>1. OpFits(d) /\ sop[d].path \in ShPaths
        BY <2>1, OpTyped, ZenonT(30) DEF ShInv, OpsFit
      <4>2. sop[d].op = "rename" => sfiles[sop[d].path] = sop[d].fd /\ sop[d].fd # 0
        BY <4>1, ZenonT(30) DEF OpFits
      <4> QED
        BY <1>4, <4>1, <4>2 DEF ShInv, FdTypes
    <3>2. sop[d].op = "rename" => sfd'[sop[d].fd].ino = sfd[sop[d].fd].ino
      BY <1>8, <3>1, ZenonT(30)
    <3>3. d # c /\ spin'[d] = spin[d]
      BY <1>3, <1>5, <2>1, ZenonT(30)
    <3> QED
      BY <1>3, <3>1, <3>2, <3>3, ZenonT(30) DEF OpFits
  <2> QED
    BY <1>3, <2>1, ZenonT(30) DEF ShInv, OpsFit
<1>15. DiskFits'
  <2>1. \A p \in ShPaths : sfiles[p] # 0 => sfiles[p] \in 1..Len(sfd)
    BY <1>4 DEF ShInv, FdTypes
  <2>2. \A p \in ShPaths : sfiles[p] # 0 /\ Settled(p) => sdisk[p] = sfd'[sfiles[p]].ino
    BY <1>8, <2>1, ZenonT(30) DEF ShInv, DiskFits
  <2> QED
    BY <1>3, <1>8, <2>2, ZenonT(30) DEF ShInv, DiskFits, OnDisk, Settled
<1> QED
  BY <1>9, <1>10, <1>11, <1>12, <1>13, <1>14, <1>15, ZenonT(30) DEF ShInv

-----------------------------------------------------------------------------
(* Remove                                                                  *)

\* An operation on other paths finds the maps as it left them.
LEMMA OpElsewhere ==
    ASSUME ShInv, NEW ps, NEW d \in ShClients, sop[d] # None, sop[d].paths \cap ps = {},
           sop'[d] = sop[d], spin'[d] = spin[d],
           \A q \in ShPaths : q \notin ps =>
               sfiles'[q] = sfiles[q] /\ sactive'[q] = sactive[q] /\ sdisk'[q] = sdisk[q],
           \A f \in 1..Len(sfd) : sfd'[f].ino = sfd[f].ino
    PROVE  OpFits(d)'
<1>0. /\ sop[d].op \in {"writeAt", "writeFull", "truncate", "ensure", "pin", "unlink", "rename"}
      /\ sop[d].path \in ShPaths /\ (sop[d].op = "rename" => sop[d].from \in ShPaths)
  BY OpTyped, ZenonT(30) DEF ShInv
<1>1. OpFits(d)
  BY ZenonT(30) DEF ShInv, OpsFit
<1>2. sop[d].path \in sop[d].paths /\ (sop[d].op = "rename" => sop[d].from \in sop[d].paths)
  BY <1>0, <1>1, ZenonT(30) DEF OpFits
<1>3. /\ sfiles'[sop[d].path] = sfiles[sop[d].path] /\ sactive'[sop[d].path] = sactive[sop[d].path]
      /\ sdisk'[sop[d].path] = sdisk[sop[d].path]
  BY <1>0, <1>2, ZenonT(30)
<1>4. CASE sop[d].op = "rename"
  <2>1. sfiles'[sop[d].from] = sfiles[sop[d].from] /\ sdisk'[sop[d].from] = sdisk[sop[d].from]
    BY <1>0, <1>2, <1>4, ZenonT(30)
  <2>2. sop[d].fd \in 1..Len(sfd)
    <3>1. Len(sfd) \in Nat /\ sfiles \in [ShPaths -> 0..Len(sfd)]
      BY FdOf, ZenonT(30) DEF ShInv, FdTypes
    <3>2. sfiles[sop[d].path] = sop[d].fd /\ sop[d].fd # 0
      BY <1>1, <1>4, ZenonT(30) DEF OpFits
    <3> QED
      BY <1>0, <3>1, <3>2
  <2>3. sfd'[sop[d].fd].ino = sfd[sop[d].fd].ino
    BY <2>2, ZenonT(30)
  <2> QED
    BY <1>1, <1>3, <1>4, <2>1, <2>3, ZenonT(30) DEF OpFits
<1>5. CASE sop[d].op # "rename"
  BY <1>1, <1>3, <1>5, ZenonT(30) DEF OpFits
<1> QED
  BY <1>4, <1>5, ZenonT(30)

LEMMA RemoveRetiresStep ==
    ASSUME ShInv, ~Overlap, NEW c \in ShClients, NEW p \in ShPaths, RemoveRetires(c, p)
    PROVE  ShInv'
<1>1. PICK g : g = sactive[p]
  BY ZenonT(30)
<1>2. PICK f : f = sfiles[p]
  BY ZenonT(30)
<1>3. /\ g # 0 /\ srefs[g] > 0
      /\ sretired' = [sretired EXCEPT ![g] = f] /\ sgenFile' = [sgenFile EXCEPT ![g] = 0]
      /\ sactive' = [sactive EXCEPT ![p] = 0] /\ sfiles' = [sfiles EXCEPT ![p] = 0]
      /\ sdisk' = [sdisk EXCEPT ![p] = 0] /\ sheld' = [sheld EXCEPT ![p] = {}]
      /\ UNCHANGED <<srefs, snextGen, sfd, sdata, sop, spin, swrites>>
  BY <1>1, <1>2, ZenonT(30) DEF RemoveRetires, ShNone
<1>4. \A d \in ShClients : sop[d] # None => sop[d].paths \cap {p} = {}
  BY StartsFreeAlone, ZenonT(30) DEF RemoveRetires
<1>5. /\ Len(sfd) \in Nat /\ sfiles \in [ShPaths -> 0..Len(sfd)] /\ sdisk \in [ShPaths -> 0..Len(sfd)]
      /\ sgenFile \in [Gens -> 0..Len(sfd)] /\ sretired \in [Gens -> 0..Len(sfd)]
      /\ sheld \in [ShPaths -> SUBSET Nat] /\ sactive \in [ShPaths -> 0..snextGen] /\ snextGen \in 0..MaxGens
  BY FdOf, ZenonT(30) DEF ShInv, FdTypes, ShTypes
<1>6. g \in Gens /\ g <= snextGen
  BY <1>1, <1>3, <1>5, BoundsNat DEF Gens
<1>7. f \in 1..Len(sfd) /\ sgenFile[g] = f /\ sfd[f].open
  BY <1>1, <1>2, <1>3, <1>5 DEF ShInv, MapsFit
<1>8. /\ sretired'[g] = f /\ sgenFile'[g] = 0 /\ sactive'[p] = 0 /\ sfiles'[p] = 0 /\ sdisk'[p] = 0 /\ sheld'[p] = {}
      /\ \A h \in Gens : h # g => sretired'[h] = sretired[h] /\ sgenFile'[h] = sgenFile[h]
      /\ \A q \in ShPaths : q # p =>
            sactive'[q] = sactive[q] /\ sfiles'[q] = sfiles[q] /\ sdisk'[q] = sdisk[q] /\ sheld'[q] = sheld[q]
  BY <1>3, <1>5, <1>6, ZenonT(30)
<1>9. /\ sfiles' \in [ShPaths -> 0..Len(sfd)] /\ sdisk' \in [ShPaths -> 0..Len(sfd)]
      /\ sgenFile' \in [Gens -> 0..Len(sfd)] /\ sretired' \in [Gens -> 0..Len(sfd)]
      /\ sheld' \in [ShPaths -> SUBSET Nat] /\ sactive' \in [ShPaths -> 0..snextGen]
  BY <1>3, <1>5, <1>6, <1>7
<1>10. FdTypes' /\ ShTypes'
  BY <1>3, <1>9, ZenonT(30) DEF ShInv, FdTypes, ShTypes
<1>11. MapsFit'
  <2>1. /\ \A q \in ShPaths : sfiles'[q] # 0 => sfd[sfiles'[q]].open
        /\ \A q, u \in ShPaths : sfiles'[q] # 0 /\ sfiles'[q] = sfiles'[u] => q = u
        /\ \A q, u \in ShPaths : sactive'[q] # 0 /\ sactive'[q] = sactive'[u] => q = u
    BY <1>8 DEF ShInv, MapsFit
  <2>2. ASSUME NEW q \in ShPaths, sactive'[q] # 0 PROVE sfiles'[q] # 0 /\ sgenFile'[sactive'[q]] = sfiles'[q]
    <3>1. q # p /\ sactive'[q] = sactive[q] /\ sfiles'[q] = sfiles[q]
      BY <1>8, <2>2, ZenonT(30)
    <3>2. sactive[q] # g /\ sactive[q] \in Gens
      <4>1. sactive[q] # 0 /\ sactive[q] # g
        BY <1>1, <2>2, <3>1, ZenonT(30) DEF ShInv, MapsFit
      <4> QED
        BY <1>5, <4>1, BoundsNat DEF Gens
    <3> QED
      BY <1>8, <2>2, <3>1, <3>2 DEF ShInv, MapsFit
  <2>3. ASSUME NEW h \in Gens, sgenFile'[h] # 0 PROVE \E q \in ShPaths : sactive'[q] = h
    <3>1. h # g /\ sgenFile[h] # 0
      BY <1>8, <2>3, ZenonT(30)
    <3>2. PICK q \in ShPaths : sactive[q] = h
      BY <3>1, ZenonT(30) DEF ShInv, MapsFit
    <3> QED
      BY <1>1, <1>8, <3>1, <3>2, ZenonT(30)
  <2> QED
    BY <1>3, <2>1, <2>2, <2>3, ZenonT(30) DEF MapsFit
<1>12. RetiredFit'
  <2>1. \A h \in Gens : sretired'[h] # 0 => sgenFile'[h] = 0 /\ sfd[sretired'[h]].open
    BY <1>7, <1>8, ZenonT(30) DEF ShInv, RetiredFit
  <2>2. \A h \in Gens, q \in ShPaths : sretired'[h] # 0 => sfiles'[q] # sretired'[h]
    BY <1>2, <1>7, <1>8 DEF ShInv, RetiredFit, MapsFit
  <2>3. \A h \in Gens : h # g => sretired[h] # f
    BY <1>2, <1>7 DEF ShInv, RetiredFit
  <2>4. \A h, k \in Gens : sretired'[h] # 0 /\ sretired'[h] = sretired'[k] => h = k
    BY <1>8, <2>3 DEF ShInv, RetiredFit
  <2>5. \A h \in Gens : h > snextGen => sgenFile'[h] = 0 /\ sretired'[h] = 0
    BY <1>5, <1>6, <1>8 DEF ShInv, RetiredFit, Gens
  <2> QED
    BY <1>3, <2>1, <2>2, <2>4, <2>5, ZenonT(30) DEF RetiredFit
<1>13. PinsFit'
  <2>1. ASSUME NEW h \in Gens PROVE ReadAtGen(h)' = ReadAtGen(h)
    BY <1>7, <1>8 DEF ReadAtGen, ShNone
  <2>2. \A d \in ShClients : spin[d] # None => spin[d].gen \in Gens
    BY ZenonT(30) DEF ShInv, ShTypes, Pins
  <2>3. ASSUME NEW d \in ShClients, spin[d] # None
        PROVE  spin[d].gen <= snextGen /\ spin[d].fd # 0 /\ ReadAtGen(spin[d].gen)' = spin[d].fd
    <3>1. PICK h \in Gens : h = spin[d].gen
      BY <2>2, <2>3, ZenonT(30)
    <3>2. spin[d].gen <= snextGen /\ spin[d].fd # 0 /\ ReadAtGen(h) = spin[d].fd
      BY <2>3, <3>1, ZenonT(30) DEF ShInv, PinsFit
    <3>3. ReadAtGen(h)' = spin[d].fd
      BY <2>1, <3>2, ZenonT(30)
    <3> QED
      BY <1>3, <3>1, <3>2, <3>3, ZenonT(30) DEF ReadAtGen
  <2>4. \A h \in Gens : sretired'[h] # 0 => srefs[h] > 0
    BY <1>3, <1>8, ZenonT(30) DEF ShInv, PinsFit
  <2> QED
    BY <1>3, <2>3, <2>4, ZenonT(30) DEF ShInv, PinsFit
<1>14. OpsFit'
  <2>1. ASSUME NEW d \in ShClients, sop[d] # None PROVE OpFits(d)'
    <3>1. /\ sop[d].paths \cap {p} = {} /\ sop'[d] = sop[d] /\ spin'[d] = spin[d]
          /\ \A q \in ShPaths : q \notin {p} =>
                sfiles'[q] = sfiles[q] /\ sactive'[q] = sactive[q] /\ sdisk'[q] = sdisk[q]
          /\ \A i \in 1..Len(sfd) : sfd'[i].ino = sfd[i].ino
      BY <1>3, <1>4, <1>8, <2>1, ZenonT(30)
    <3> QED
      BY <2>1, <3>1, OpElsewhere, ZenonT(30)
  <2> QED
    BY <1>3, <2>1, ZenonT(30) DEF ShInv, OpsFit
<1>15. DiskFits'
  <2>1. \A q \in ShPaths : sheld'[q] = OnDisk(q)'
    <3>1. sheld'[p] = OnDisk(p)'
      BY <1>8, ZenonT(30) DEF OnDisk
    <3>2. \A q \in ShPaths : q # p => sheld'[q] = OnDisk(q)'
      BY <1>3, <1>8 DEF ShInv, DiskFits, OnDisk
    <3> QED
      BY <3>1, <3>2, ZenonT(30)
  <2>2. \A q, u \in ShPaths : sdisk'[q] # 0 /\ sdisk'[q] = sdisk'[u] => q = u
    BY <1>8 DEF ShInv, DiskFits
  <2>3. \A q \in ShPaths : sfiles'[q] # 0 /\ Settled(q)' => sdisk'[q] = sfd[sfiles'[q]].ino
    BY <1>3, <1>8 DEF ShInv, DiskFits, Settled
  <2> QED
    BY <1>3, <2>1, <2>2, <2>3, ZenonT(30) DEF ShInv, DiskFits
<1> QED
  BY <1>10, <1>11, <1>12, <1>13, <1>14, <1>15, ZenonT(30) DEF ShInv

LEMMA RemoveClosesStep ==
    ASSUME ShInv, ClientsCount, ~Overlap, NEW c \in ShClients, NEW p \in ShPaths, RemoveCloses(c, p)
    PROVE  ShInv'
<1>1. PICK g : g = sactive[p]
  BY ZenonT(30)
<1>2. PICK f : f = sfiles[p]
  BY ZenonT(30)
<1>r. PICK r : r = [op |-> "unlink", paths |-> {p}, path |-> p, fd |-> 0]
  BY ZenonT(30)
<1>3. /\ g # 0 => srefs[g] = 0
      /\ sgenFile' = IF g = 0 THEN sgenFile ELSE [sgenFile EXCEPT ![g] = 0]
      /\ sfd' = IF f = 0 THEN sfd ELSE CloseFd(f)
      /\ sactive' = [sactive EXCEPT ![p] = 0] /\ sfiles' = [sfiles EXCEPT ![p] = 0]
      /\ sop' = [sop EXCEPT ![c] = r]
      /\ UNCHANGED <<srefs, sretired, snextGen, sdata, sdisk, spin, sheld, swrites>>
  BY <1>1, <1>2, <1>r, ZenonT(30) DEF RemoveCloses, ShNone
<1>4. sop[c] = None /\ \A d \in ShClients : sop[d] # None => sop[d].paths \cap {p} = {}
  BY StartsFreeAlone, ZenonT(30) DEF RemoveCloses
<1>5. /\ Len(sfd) \in Nat /\ sfd \in Seq(FdRecord) /\ sfiles \in [ShPaths -> 0..Len(sfd)]
      /\ sgenFile \in [Gens -> 0..Len(sfd)] /\ sretired \in [Gens -> 0..Len(sfd)]
      /\ sactive \in [ShPaths -> 0..snextGen] /\ snextGen \in 0..MaxGens
  BY FdOf, ZenonT(30) DEF ShInv, FdTypes, ShTypes
<1>6. g # 0 => g \in Gens
  BY <1>1, <1>5, BoundsNat DEF Gens
<1>7. r \in FileOps /\ r # None /\ r.op = "unlink" /\ r.paths = {p} /\ r.path = p
  BY <1>r, ShAssumption DEF FileOps, ShNone
<1>8. /\ sop'[c] = r /\ \A d \in ShClients : d # c => sop'[d] = sop[d]
      /\ sop' \in [ShClients -> FileOps \cup RenameOps \cup {None}]
  BY <1>3, <1>7, ZenonT(30) DEF ShInv, ShTypes
<1>9. /\ sactive'[p] = 0 /\ sfiles'[p] = 0
      /\ \A q \in ShPaths : q # p => sactive'[q] = sactive[q] /\ sfiles'[q] = sfiles[q]
      /\ sfiles' \in [ShPaths -> 0..Len(sfd)] /\ sactive' \in [ShPaths -> 0..snextGen]
      /\ sgenFile' \in [Gens -> 0..Len(sfd)]
      /\ g # 0 => sgenFile'[g] = 0
      /\ \A h \in Gens : h # g => sgenFile'[h] = sgenFile[h]
  <2>1. /\ sactive'[p] = 0 /\ sfiles'[p] = 0
        /\ \A q \in ShPaths : q # p => sactive'[q] = sactive[q] /\ sfiles'[q] = sfiles[q]
        /\ sfiles' \in [ShPaths -> 0..Len(sfd)] /\ sactive' \in [ShPaths -> 0..snextGen]
    BY <1>3, <1>5
  <2> QED
    BY <1>3, <1>5, <1>6, <2>1, ZenonT(30)
<1>10. /\ sfd' \in Seq(FdRecord) /\ Len(sfd') = Len(sfd)
       /\ \A i \in 1..Len(sfd) : /\ sfd'[i].ino = sfd[i].ino
                                 /\ i # f => sfd'[i] = sfd[i]
  <2>1. CASE f # 0
    <3>1. f \in 1..Len(sfd) /\ sfd' = CloseFd(f)
      BY <1>2, <1>3, <1>5, <2>1
    <3> QED
      BY <1>5, <3>1, FdClosed, ZenonT(30)
  <2>2. CASE f = 0
    BY <1>3, <1>5, <2>2, ZenonT(30)
  <2> QED
    BY <2>1, <2>2, ZenonT(30)
<1>11. FdTypes' /\ ShTypes'
  BY <1>3, <1>8, <1>9, <1>10, ZenonT(30) DEF ShInv, FdTypes, ShTypes
<1>12. MapsFit'
  <2>1. ASSUME NEW q \in ShPaths, sfiles'[q] # 0 PROVE sfd'[sfiles'[q]].open
    <3>1. q # p /\ sfiles'[q] = sfiles[q] /\ sfiles[q] \in 1..Len(sfd)
      BY <1>5, <1>9, <2>1
    <3>2. sfiles[q] # f /\ sfd[sfiles[q]].open
      BY <1>2, <2>1, <3>1, ZenonT(30) DEF ShInv, MapsFit
    <3> QED
      BY <1>10, <3>1, <3>2, ZenonT(30)
  <2>2. /\ \A q, u \in ShPaths : sfiles'[q] # 0 /\ sfiles'[q] = sfiles'[u] => q = u
        /\ \A q, u \in ShPaths : sactive'[q] # 0 /\ sactive'[q] = sactive'[u] => q = u
    <3>1. /\ sactive'[p] = 0 /\ sfiles'[p] = 0
          /\ \A q \in ShPaths : q # p => sactive'[q] = sactive[q] /\ sfiles'[q] = sfiles[q]
      BY <1>9, ZenonT(30)
    <3>2. /\ \A q, u \in ShPaths : sfiles[q] # 0 /\ sfiles[q] = sfiles[u] => q = u
          /\ \A q, u \in ShPaths : sactive[q] # 0 /\ sactive[q] = sactive[u] => q = u
      BY ZenonT(30) DEF ShInv, MapsFit
    <3> QED
      BY <3>1, <3>2
  <2>3. ASSUME NEW q \in ShPaths, sactive'[q] # 0 PROVE sfiles'[q] # 0 /\ sgenFile'[sactive'[q]] = sfiles'[q]
    <3>1. q # p /\ sactive'[q] = sactive[q] /\ sfiles'[q] = sfiles[q]
      BY <1>9, <2>3, ZenonT(30)
    <3>2. sactive[q] # g /\ sactive[q] \in Gens
      <4>1. sactive[q] # 0 /\ sactive[q] # g
        BY <1>1, <2>3, <3>1, ZenonT(30) DEF ShInv, MapsFit
      <4> QED
        BY <1>5, <4>1, BoundsNat DEF Gens
    <3> QED
      BY <1>9, <2>3, <3>1, <3>2 DEF ShInv, MapsFit
  <2>4. ASSUME NEW h \in Gens, sgenFile'[h] # 0 PROVE \E q \in ShPaths : sactive'[q] = h
    <3>1. h # g /\ sgenFile[h] # 0
      BY <1>6, <1>9, <2>4 DEF Gens
    <3>2. PICK q \in ShPaths : sactive[q] = h
      BY <3>1, ZenonT(30) DEF ShInv, MapsFit
    <3> QED
      BY <1>1, <1>9, <3>1, <3>2, ZenonT(30)
  <2> QED
    BY <2>1, <2>2, <2>3, <2>4, ZenonT(30) DEF MapsFit
<1>13. \A h \in Gens : sgenFile'[h] = sgenFile[h] \/ (h = g /\ sgenFile'[h] = 0)
  BY <1>9 DEF Gens
<1>14. RetiredFit'
  <2>1. ASSUME NEW h \in Gens, sretired[h] # 0 PROVE sgenFile'[h] = 0 /\ sfd'[sretired[h]].open
    <3>1. sgenFile[h] = 0 /\ sfd[sretired[h]].open /\ sretired[h] # f /\ sretired[h] \in 1..Len(sfd)
      BY <1>2, <1>5, <2>1 DEF ShInv, RetiredFit
    <3> QED
      BY <1>10, <1>13, <3>1, ZenonT(30)
  <2>2. \A h \in Gens, q \in ShPaths : sretired[h] # 0 => sfiles'[q] # sretired[h]
    BY <1>9 DEF ShInv, RetiredFit
  <2>3. \A h \in Gens : h > snextGen => sgenFile'[h] = 0 /\ sretired[h] = 0
    BY <1>13, ZenonT(30) DEF ShInv, RetiredFit
  <2> QED
    BY <1>3, <2>1, <2>2, <2>3 DEF ShInv, RetiredFit
<1>15. PinsFit'
  <2>1. ASSUME NEW d \in ShClients, spin[d] # None
        PROVE  spin[d].gen <= snextGen /\ spin[d].fd # 0 /\ ReadAtGen(spin[d].gen)' = spin[d].fd
    <3>1. PICK h \in Gens : h = spin[d].gen
      BY <2>1, ZenonT(30) DEF ShInv, ShTypes, Pins
    <3>2. spin[d].gen <= snextGen /\ spin[d].fd # 0 /\ ReadAtGen(h) = spin[d].fd
      BY <2>1, <3>1, ZenonT(30) DEF ShInv, PinsFit
    <3>3. h # g
      <4> SUFFICES ASSUME h = g PROVE FALSE
        BY ZenonT(30)
      <4>1. g # 0 /\ srefs[h] = Cardinality(Pinners(spin, h)) /\ Pinners(spin, h) \in SUBSET ShClients
        BY BoundsNat DEF Gens, ShInv, PinsFit, Pinners
      <4>2. d \in Pinners(spin, h)
        BY <2>1, <3>1, ZenonT(30) DEF Pinners
      <4>3. Cardinality(Pinners(spin, h)) # 0
        BY <4>1, <4>2, ZenonT(30) DEF ClientsCount
      <4> QED
        BY <1>3, <4>1, <4>3, ZenonT(30)
    <3>4. ReadAtGen(h)' = ReadAtGen(h)
      BY <1>3, <1>9, <3>3, ZenonT(30) DEF ReadAtGen
    <3> QED
      BY <1>3, <3>1, <3>2, <3>4, ZenonT(30) DEF ReadAtGen
  <2> QED
    BY <1>3, <2>1, ZenonT(30) DEF ShInv, PinsFit
<1>16. OpsFit'
  <2>1. ASSUME NEW d \in ShClients, sop'[d] # None PROVE OpFits(d)'
    <3>1. CASE d = c
      BY <1>7, <1>8, <1>9, <3>1, ZenonT(30) DEF OpFits
    <3>2. CASE d # c
      <4>1. /\ sop[d] # None /\ sop[d].paths \cap {p} = {} /\ sop'[d] = sop[d] /\ spin'[d] = spin[d]
            /\ \A q \in ShPaths : q \notin {p} =>
                  sfiles'[q] = sfiles[q] /\ sactive'[q] = sactive[q] /\ sdisk'[q] = sdisk[q]
            /\ \A i \in 1..Len(sfd) : sfd'[i].ino = sfd[i].ino
        BY <1>3, <1>4, <1>8, <1>9, <1>10, <2>1, <3>2, ZenonT(30)
      <4> QED
        BY <4>1, OpElsewhere, ZenonT(30)
    <3> QED
      BY <3>1, <3>2, ZenonT(30)
  <2>2. ASSUME NEW d \in ShClients, NEW e \in ShClients,
               d # e, sop'[d] # None, sop'[e] # None, sop'[d].op \in {"rename", "unlink"}
        PROVE  sop'[d].paths \cap sop'[e].paths = {}
    <3>1. CASE d = c
      BY <1>4, <1>7, <1>8, <2>2, <3>1, ZenonT(30)
    <3>2. CASE e = c
      BY <1>4, <1>7, <1>8, <2>2, <3>2, ZenonT(30)
    <3>3. CASE d # c /\ e # c
      BY <1>8, <2>2, <3>3, ZenonT(30) DEF ShInv, OpsFit
    <3> QED
      BY <3>1, <3>2, <3>3, ZenonT(30)
  <2> QED
    BY <2>1, <2>2, ZenonT(30) DEF OpsFit
<1>17. DiskFits'
  <2>1. \A q \in ShPaths : Settled(q)' => Settled(q)
    BY <1>4, <1>8, ZenonT(30) DEF Settled
  <2>2. ASSUME NEW q \in ShPaths, sfiles'[q] # 0, Settled(q)' PROVE sdisk[q] = sfd'[sfiles'[q]].ino
    <3>1. sfiles'[q] = sfiles[q] /\ sfiles[q] \in 1..Len(sfd)
      BY <1>5, <1>9, <2>2
    <3>2. sdisk[q] = sfd[sfiles[q]].ino
      BY <2>1, <2>2, <3>1, ZenonT(30) DEF ShInv, DiskFits
    <3> QED
      BY <1>10, <3>1, <3>2, ZenonT(30)
  <2> QED
    BY <1>3, <1>10, <2>2, ZenonT(30) DEF ShInv, DiskFits, OnDisk
<1> QED
  BY <1>11, <1>12, <1>14, <1>15, <1>16, <1>17, ZenonT(30) DEF ShInv

LEMMA UnlinkStep ==
    ASSUME ShInv, NEW c \in ShClients, Unlink(c)
    PROVE  ShInv'
<1>1. PICK p : p = sop[c].path
  BY ZenonT(30)
<1>2. /\ sop[c] # None /\ sop[c].op = "unlink" /\ sop' = [sop EXCEPT ![c] = None]
      /\ sdisk' = [sdisk EXCEPT ![p] = 0] /\ sheld' = [sheld EXCEPT ![p] = {}]
      /\ sfiles' = sfiles /\ sactive' = sactive /\ sgenFile' = sgenFile /\ srefs' = srefs
      /\ sretired' = sretired /\ snextGen' = snextGen
      /\ sfd' = sfd /\ sdata' = sdata /\ spin' = spin /\ swrites' = swrites
  BY <1>1, ZenonT(30) DEF Unlink, Doing, memory, ShNone
<1>3. p \in ShPaths /\ sop[c].paths = {p} /\ sfiles[p] = 0
  BY <1>1, <1>2, OpTyped, ZenonT(30) DEF ShInv, OpsFit, OpFits
<1>4. /\ sop'[c] = None /\ \A d \in ShClients : d # c => sop'[d] = sop[d]
      /\ sop' \in [ShClients -> FileOps \cup RenameOps \cup {None}]
  BY <1>2, ZenonT(30) DEF ShInv, ShTypes
<1>5. /\ sdisk'[p] = 0 /\ sheld'[p] = {}
      /\ \A q \in ShPaths : q # p => sdisk'[q] = sdisk[q] /\ sheld'[q] = sheld[q]
      /\ sdisk' \in [ShPaths -> 0..Len(sfd)] /\ sheld' \in [ShPaths -> SUBSET Nat]
  <2>1. Len(sfd) \in Nat /\ sdisk \in [ShPaths -> 0..Len(sfd)] /\ sheld \in [ShPaths -> SUBSET Nat]
    BY FdOf, ZenonT(30) DEF ShInv, FdTypes, ShTypes
  <2> QED
    BY <1>2, <1>3, <2>1
<1>6. FdTypes' /\ ShTypes'
  BY <1>2, <1>4, <1>5, ZenonT(30) DEF ShInv, FdTypes, ShTypes
<1>7. MapsFit' /\ RetiredFit'
  BY <1>2, ZenonT(30) DEF ShInv, MapsFit, RetiredFit
<1>8. PinsFit'
  BY <1>2, ZenonT(30) DEF ShInv, PinsFit, ReadAtGen
<1>9. OpsFit'
  <2>1. ASSUME NEW d \in ShClients, sop'[d] # None PROVE OpFits(d)'
    <3>1. /\ sop[d] # None /\ sop[d].paths \cap {p} = {} /\ sop'[d] = sop[d] /\ spin'[d] = spin[d]
          /\ \A q \in ShPaths : q \notin {p} =>
                sfiles'[q] = sfiles[q] /\ sactive'[q] = sactive[q] /\ sdisk'[q] = sdisk[q]
          /\ \A i \in 1..Len(sfd) : sfd'[i].ino = sfd[i].ino
      <4>1. d # c /\ sop[d] # None /\ sop'[d] = sop[d]
        BY <1>4, <2>1, ZenonT(30)
      <4>2. sop[c].paths \cap sop[d].paths = {}
        BY <1>2, <4>1, ZenonT(30) DEF ShInv, OpsFit
      <4> QED
        BY <1>2, <1>3, <1>5, <4>1, <4>2, ZenonT(30)
    <3> QED
      BY <3>1, OpElsewhere, ZenonT(30)
  <2>2. ASSUME NEW d \in ShClients, NEW e \in ShClients,
               d # e, sop'[d] # None, sop'[e] # None, sop'[d].op \in {"rename", "unlink"}
        PROVE  sop'[d].paths \cap sop'[e].paths = {}
    BY <1>4, <2>2, ZenonT(30) DEF ShInv, OpsFit
  <2> QED
    BY <2>1, <2>2, ZenonT(30) DEF OpsFit
<1>10. DiskFits'
  <2>1. \A q \in ShPaths : Settled(q)' => Settled(q)
    BY <1>2, <1>4, ZenonT(30) DEF Settled
  <2>2. \A q \in ShPaths : sheld'[q] = OnDisk(q)'
    <3>1. sheld'[p] = OnDisk(p)'
      BY <1>5, ZenonT(30) DEF OnDisk
    <3>2. \A q \in ShPaths : q # p => sheld'[q] = OnDisk(q)'
      BY <1>2, <1>5, ZenonT(30) DEF ShInv, DiskFits, OnDisk
    <3> QED
      BY <3>1, <3>2, ZenonT(30)
  <2>3. \A q, u \in ShPaths : sdisk'[q] # 0 /\ sdisk'[q] = sdisk'[u] => q = u
    BY <1>5 DEF ShInv, DiskFits
  <2>4. \A q \in ShPaths : sfiles[q] # 0 /\ Settled(q)' => sdisk'[q] = sfd[sfiles[q]].ino
    BY <1>3, <1>5, <2>1, ZenonT(30) DEF ShInv, DiskFits
  <2> QED
    BY <1>2, <2>2, <2>3, <2>4, ZenonT(30) DEF ShInv, DiskFits
<1> QED
  BY <1>6, <1>7, <1>8, <1>9, <1>10, ZenonT(30) DEF ShInv

-----------------------------------------------------------------------------
(* Rename                                                                  *)

\* The shadow of a, with its generation, is now that of b.
Moved(a, b) ==
    /\ a \in ShPaths /\ b \in ShPaths /\ a # b
    /\ sfiles[a] # 0 /\ sfiles[b] = 0
    /\ sfiles' \in [ShPaths -> 0..Len(sfd)] /\ sactive' \in [ShPaths -> 0..snextGen]
    /\ sfiles'[b] = sfiles[a] /\ sfiles'[a] = 0
    /\ sactive'[b] = sactive[a] /\ sactive'[a] = 0
    /\ \A q \in ShPaths : q \notin {a, b} => sfiles'[q] = sfiles[q] /\ sactive'[q] = sactive[q]
    /\ sgenFile' = sgenFile /\ srefs' = srefs /\ sretired' = sretired /\ snextGen' = snextGen
    /\ sfd' = sfd /\ sdata' = sdata /\ sdisk' = sdisk /\ spin' = spin /\ sheld' = sheld /\ swrites' = swrites

LEMMA MovedFits ==
    ASSUME ShInv, NEW a, NEW b, Moved(a, b)
    PROVE  FdTypes' /\ MapsFit' /\ RetiredFit' /\ PinsFit'
<1>0. /\ a \in ShPaths /\ b \in ShPaths /\ a # b /\ sfiles[a] # 0 /\ sfiles[b] = 0
      /\ sfiles'[b] = sfiles[a] /\ sfiles'[a] = 0 /\ sactive'[b] = sactive[a] /\ sactive'[a] = 0
      /\ \A q \in ShPaths : q \notin {a, b} => sfiles'[q] = sfiles[q] /\ sactive'[q] = sactive[q]
  BY ZenonT(30) DEF Moved
<1>1. FdTypes'
  BY ZenonT(30) DEF Moved, ShInv, FdTypes
<1>2. sactive[b] = 0
  BY <1>0, ZenonT(30) DEF ShInv, MapsFit
<1>3. MapsFit'
  <2>1. \A q \in ShPaths : sfiles'[q] # 0 => sfd[sfiles'[q]].open
    BY <1>0, ZenonT(30) DEF ShInv, MapsFit
  <2>2. \A q, u \in ShPaths : sfiles'[q] # 0 /\ sfiles'[q] = sfiles'[u] => q = u
    <3>1. \A q, u \in ShPaths : sfiles[q] # 0 /\ sfiles[q] = sfiles[u] => q = u
      BY ZenonT(30) DEF ShInv, MapsFit
    <3> QED
      BY <1>0, <3>1
  <2>3. \A q \in ShPaths : sactive'[q] # 0 => sfiles'[q] # 0 /\ sgenFile[sactive'[q]] = sfiles'[q]
    BY <1>0 DEF ShInv, MapsFit
  <2>4. \A q, u \in ShPaths : sactive'[q] # 0 /\ sactive'[q] = sactive'[u] => q = u
    <3>1. \A q, u \in ShPaths : sactive[q] # 0 /\ sactive[q] = sactive[u] => q = u
      BY ZenonT(30) DEF ShInv, MapsFit
    <3> QED
      BY <1>0, <3>1, ZenonT(30)
  <2>5. ASSUME NEW h \in Gens, sgenFile[h] # 0 PROVE \E q \in ShPaths : sactive'[q] = h
    <3>1. PICK q \in ShPaths : sactive[q] = h
      BY <2>5, ZenonT(30) DEF ShInv, MapsFit
    <3>2. CASE q = a
      BY <1>0, <3>1, <3>2, ZenonT(30)
    <3>3. CASE q # a
      <4>1. q # b
        BY <1>2, <3>1 DEF Gens
      <4> QED
        BY <1>0, <3>1, <3>3, <4>1, ZenonT(30)
    <3> QED
      BY <3>2, <3>3, ZenonT(30)
  <2> QED
    BY <2>1, <2>2, <2>3, <2>4, <2>5, ZenonT(30) DEF MapsFit, Moved
<1>4. RetiredFit'
  <2>1. \A g \in Gens, q \in ShPaths : sretired[g] # 0 => sfiles'[q] # sretired[g]
    BY <1>0, ZenonT(30) DEF ShInv, RetiredFit
  <2> QED
    BY <2>1, ZenonT(30) DEF ShInv, RetiredFit, Moved
<1>5. PinsFit'
  BY ZenonT(30) DEF ShInv, PinsFit, ReadAtGen, Moved
<1> QED
  BY <1>1, <1>3, <1>4, <1>5, ZenonT(30)

LEMMA RenameMapsStep ==
    ASSUME ShInv, ~Overlap, NEW c \in ShClients, NEW old \in ShPaths, NEW new \in ShPaths, RenameMaps(c, old, new)
    PROVE  ShInv'
<1>r. PICK r : r = [op |-> "rename", paths |-> {old, new}, path |-> new,
                    from |-> old, gen |-> sactive[old], fd |-> sfiles[old]]
  BY ZenonT(30)
<1>1. /\ old # new /\ sfiles[old] # 0 /\ sfiles[new] = 0 /\ sdisk[new] = 0
      /\ sfiles' = [sfiles EXCEPT ![new] = sfiles[old], ![old] = 0]
      /\ sactive' = IF sactive[old] = 0 THEN sactive
                    ELSE [sactive EXCEPT ![new] = sactive[old], ![old] = 0]
      /\ sop' = [sop EXCEPT ![c] = r]
      /\ UNCHANGED <<sgenFile, srefs, sretired, snextGen, sfd, sdata, sdisk, spin, sheld, swrites>>
  BY <1>r, ZenonT(30) DEF RenameMaps, ShNone
<1>2. sop[c] = None /\ \A d \in ShClients : sop[d] # None => sop[d].paths \cap {old, new} = {}
  BY StartsFreeAlone, ZenonT(30) DEF RenameMaps
<1>3. /\ Len(sfd) \in Nat /\ sfiles \in [ShPaths -> 0..Len(sfd)] /\ Len(sfd) <= MaxFds
      /\ sactive \in [ShPaths -> 0..snextGen] /\ snextGen \in 0..MaxGens /\ sactive[new] = 0
  BY <1>1, FdOf, ZenonT(30) DEF ShInv, FdTypes, ShTypes, MapsFit
<1>4. Moved(old, new)
  <2>1. /\ sfiles' \in [ShPaths -> 0..Len(sfd)] /\ sfiles'[new] = sfiles[old] /\ sfiles'[old] = 0
        /\ \A q \in ShPaths : q \notin {old, new} => sfiles'[q] = sfiles[q]
    BY <1>1, <1>3, ZenonT(30)
  <2>2. /\ sactive' \in [ShPaths -> 0..snextGen] /\ sactive'[new] = sactive[old] /\ sactive'[old] = 0
        /\ \A q \in ShPaths : q \notin {old, new} => sactive'[q] = sactive[q]
    BY <1>1, <1>3, ZenonT(30)
  <2> QED
    BY <1>1, <2>1, <2>2, ZenonT(30) DEF Moved
<1>5. FdTypes' /\ MapsFit' /\ RetiredFit' /\ PinsFit'
  BY <1>4, MovedFits, ZenonT(30)
<1>6. /\ r.op = "rename" /\ r.paths = {old, new} /\ r.path = new /\ r.from = old
      /\ r.gen = sactive[old] /\ r.fd = sfiles[old]
  BY <1>r, ZenonT(30)
<1>7. r \in RenameOps /\ r # None
  <2>1. sactive[old] \in 0..MaxGens /\ sfiles[old] \in {ShNone} \cup Fds
    BY <1>1, <1>3, BoundsNat DEF ShNone, Fds
  <2> QED
    BY <1>r, <2>1, ShAssumption DEF RenameOps
<1>8. /\ sop'[c] = r /\ \A d \in ShClients : d # c => sop'[d] = sop[d]
      /\ sop' \in [ShClients -> FileOps \cup RenameOps \cup {None}]
  BY <1>1, <1>7, ZenonT(30) DEF ShInv, ShTypes
<1>9. ShTypes'
  BY <1>4, <1>8, ZenonT(30) DEF ShInv, ShTypes, Moved
<1>10. sdisk[old] = sfd[sfiles[old]].ino
  <2>1. Settled(old)
    BY <1>2, ZenonT(30) DEF Settled
  <2> QED
    BY <1>1, <2>1, ZenonT(30) DEF ShInv, DiskFits
<1>11. OpsFit'
  <2>1. ASSUME NEW d \in ShClients, sop'[d] # None PROVE OpFits(d)'
    <3>1. CASE d = c
      BY <1>1, <1>4, <1>6, <1>8, <1>10, <3>1, ZenonT(30) DEF OpFits, Moved
    <3>2. CASE d # c
      <4>1. /\ sop[d] # None /\ sop[d].paths \cap {old, new} = {} /\ sop'[d] = sop[d] /\ spin'[d] = spin[d]
            /\ \A q \in ShPaths : q \notin {old, new} =>
                  sfiles'[q] = sfiles[q] /\ sactive'[q] = sactive[q] /\ sdisk'[q] = sdisk[q]
            /\ \A i \in 1..Len(sfd) : sfd'[i].ino = sfd[i].ino
        BY <1>2, <1>4, <1>8, <2>1, <3>2, ZenonT(30) DEF Moved
      <4> QED
        BY <4>1, OpElsewhere, ZenonT(30)
    <3> QED
      BY <3>1, <3>2, ZenonT(30)
  <2>2. ASSUME NEW d \in ShClients, NEW e \in ShClients,
               d # e, sop'[d] # None, sop'[e] # None, sop'[d].op \in {"rename", "unlink"}
        PROVE  sop'[d].paths \cap sop'[e].paths = {}
    <3>1. CASE d = c
      BY <1>2, <1>6, <1>8, <2>2, <3>1, ZenonT(30)
    <3>2. CASE e = c
      BY <1>2, <1>6, <1>8, <2>2, <3>2
    <3>3. CASE d # c /\ e # c
      BY <1>8, <2>2, <3>3, ZenonT(30) DEF ShInv, OpsFit
    <3> QED
      BY <3>1, <3>2, <3>3, ZenonT(30)
  <2> QED
    BY <2>1, <2>2, ZenonT(30) DEF OpsFit
<1>12. DiskFits'
  <2>1. \A q \in ShPaths : Settled(q)' => Settled(q) /\ q \notin {old, new}
    <3>1. \A q \in ShPaths : Settled(q)' => q \notin {old, new}
      BY <1>6, <1>7, <1>8, ZenonT(30) DEF Settled
    <3>2. \A q \in ShPaths : Settled(q)' => Settled(q)
      BY <1>2, <1>8, ZenonT(30) DEF Settled
    <3> QED
      BY <3>1, <3>2, ZenonT(30)
  <2>2. \A q \in ShPaths : sfiles'[q] # 0 /\ Settled(q)' => sdisk[q] = sfd[sfiles'[q]].ino
    BY <1>4, <2>1, ZenonT(30) DEF ShInv, DiskFits, Moved
  <2> QED
    BY <1>1, <2>2, ZenonT(30) DEF ShInv, DiskFits, OnDisk
<1> QED
  BY <1>5, <1>9, <1>11, <1>12, ZenonT(30) DEF ShInv

OpEnds(c) == sop' = [sop EXCEPT ![c] = None]

\* The rename of a to b by c is over; its first step has moved the maps and
\* the disk has not followed.
RenameFound(c, a, b) ==
    /\ a \in ShPaths /\ b \in ShPaths /\ a # b /\ sop[c] # None /\ sop[c].op = "rename"
    /\ sop[c].paths = {a, b} /\ sop[c].fd # 0
    /\ sfiles[b] = sop[c].fd /\ sactive[b] = sop[c].gen /\ sfiles[a] = 0 /\ sactive[a] = 0
    /\ sdisk[b] = 0 /\ sdisk[a] = sfd[sop[c].fd].ino
    /\ sop'[c] = None /\ \A d \in ShClients : d # c => sop'[d] = sop[d]
    /\ sop' \in [ShClients -> FileOps \cup RenameOps \cup {None}]
    /\ \A d \in ShClients : d # c /\ sop[d] # None => sop[d].paths \cap {a, b} = {}
    /\ \A q \in ShPaths : q \notin {a, b} /\ Settled(q)' => Settled(q)

\* What the second step of a rename finds.
LEMMA RenameFinds ==
    ASSUME ShInv, NEW c \in ShClients, Doing(c, "rename"), NEW a, NEW b, a = sop[c].from, b = sop[c].path, OpEnds(c)
    PROVE  RenameFound(c, a, b)
<1>1. sop[c] # None /\ sop[c].op = "rename"
  BY ZenonT(30) DEF Doing
<1>2. a \in ShPaths /\ b \in ShPaths
  BY <1>1, OpTyped, ZenonT(30) DEF ShInv
<1>3. /\ a # b /\ sop[c].paths = {a, b} /\ sop[c].fd # 0
      /\ sfiles[b] = sop[c].fd /\ sactive[b] = sop[c].gen /\ sfiles[a] = 0
      /\ sdisk[b] = 0 /\ sdisk[a] = sfd[sop[c].fd].ino
  BY <1>1, ZenonT(30) DEF ShInv, OpsFit, OpFits
<1>4. sactive[a] = 0
  BY <1>2, <1>3, ZenonT(30) DEF ShInv, MapsFit
<1>5. /\ sop'[c] = None /\ \A d \in ShClients : d # c => sop'[d] = sop[d]
      /\ sop' \in [ShClients -> FileOps \cup RenameOps \cup {None}]
  BY ZenonT(30) DEF OpEnds, ShInv, ShTypes
<1>6. \A d \in ShClients : d # c /\ sop[d] # None => sop[d].paths \cap {a, b} = {}
  BY <1>1, <1>3, ZenonT(30) DEF ShInv, OpsFit
<1>7. \A q \in ShPaths : q \notin {a, b} /\ Settled(q)' => Settled(q)
  BY <1>3, <1>5, ZenonT(30) DEF Settled
<1> QED
  BY <1>1, <1>2, <1>3, <1>4, <1>5, <1>6, <1>7, ZenonT(30) DEF RenameFound

\* The rename is over for its client and nothing changed for the others.
LEMMA RenameEnds ==
    ASSUME ShInv, NEW c \in ShClients, NEW a, NEW b,
           sop'[c] = None, \A d \in ShClients : d # c => sop'[d] = sop[d],
           \A d \in ShClients : d # c /\ sop[d] # None => sop[d].paths \cap {a, b} = {},
           spin' = spin, sfd' = sfd,
           \A q \in ShPaths : q \notin {a, b} =>
               sfiles'[q] = sfiles[q] /\ sactive'[q] = sactive[q] /\ sdisk'[q] = sdisk[q]
    PROVE  OpsFit'
<1>1. ASSUME NEW d \in ShClients, sop'[d] # None PROVE OpFits(d)'
  <2>1. /\ sop[d] # None /\ sop[d].paths \cap {a, b} = {} /\ sop'[d] = sop[d] /\ spin'[d] = spin[d]
        /\ \A i \in 1..Len(sfd) : sfd'[i].ino = sfd[i].ino
    BY <1>1, ZenonT(30)
  <2> QED
    BY <2>1, OpElsewhere, ZenonT(30)
<1>2. ASSUME NEW d \in ShClients, NEW e \in ShClients,
             d # e, sop'[d] # None, sop'[e] # None, sop'[d].op \in {"rename", "unlink"}
      PROVE  sop'[d].paths \cap sop'[e].paths = {}
  BY <1>2, ZenonT(30) DEF ShInv, OpsFit
<1> QED
  BY <1>1, <1>2, ZenonT(30) DEF OpsFit

LEMMA RenameDiskStep ==
    ASSUME ShInv, NEW c \in ShClients, RenameDisk(c)
    PROVE  ShInv'
<1>1. PICK a : a = sop[c].from
  BY ZenonT(30)
<1>2. PICK b : b = sop[c].path
  BY ZenonT(30)
<1>3. /\ Doing(c, "rename") /\ sop' = [sop EXCEPT ![c] = None]
      /\ sdisk' = [sdisk EXCEPT ![b] = sdisk[a], ![a] = 0]
      /\ sheld' = [sheld EXCEPT ![b] = sheld[a], ![a] = {}]
      /\ sfiles' = sfiles /\ sactive' = sactive /\ sgenFile' = sgenFile /\ srefs' = srefs
      /\ sretired' = sretired /\ snextGen' = snextGen
      /\ sfd' = sfd /\ sdata' = sdata /\ spin' = spin /\ swrites' = swrites
  BY <1>1, <1>2, ZenonT(30) DEF RenameDisk, memory, ShNone
<1>4. /\ a \in ShPaths /\ b \in ShPaths /\ a # b /\ sop[c] # None /\ sop[c].op = "rename"
      /\ sop[c].paths = {a, b} /\ sop[c].fd # 0
      /\ sfiles[b] = sop[c].fd /\ sactive[b] = sop[c].gen /\ sfiles[a] = 0 /\ sactive[a] = 0
      /\ sdisk[b] = 0 /\ sdisk[a] = sfd[sop[c].fd].ino
      /\ sop'[c] = None /\ \A d \in ShClients : d # c => sop'[d] = sop[d]
      /\ sop' \in [ShClients -> FileOps \cup RenameOps \cup {None}]
      /\ \A d \in ShClients : d # c /\ sop[d] # None => sop[d].paths \cap {a, b} = {}
      /\ \A q \in ShPaths : q \notin {a, b} /\ Settled(q)' => Settled(q)
  <2>1. Doing(c, "rename") /\ OpEnds(c)
    BY <1>3, ZenonT(30) DEF OpEnds
  <2>2. RenameFound(c, a, b)
    BY <1>1, <1>2, <2>1, RenameFinds, ZenonT(30)
  <2> QED
    BY <2>2, ZenonT(30) DEF RenameFound
<1>5. /\ sdisk'[b] = sdisk[a] /\ sdisk'[a] = 0 /\ sheld'[b] = sheld[a] /\ sheld'[a] = {}
      /\ \A q \in ShPaths : q \notin {a, b} => sdisk'[q] = sdisk[q] /\ sheld'[q] = sheld[q]
      /\ sdisk' \in [ShPaths -> 0..Len(sfd)] /\ sheld' \in [ShPaths -> SUBSET Nat]
  <2>1. Len(sfd) \in Nat /\ sdisk \in [ShPaths -> 0..Len(sfd)] /\ sheld \in [ShPaths -> SUBSET Nat]
    BY FdOf, ZenonT(30) DEF ShInv, FdTypes, ShTypes
  <2>2. a \in ShPaths /\ b \in ShPaths /\ a # b
    BY <1>4, ZenonT(30)
  <2> QED
    BY <1>3, <2>1, <2>2
<1>6. FdTypes' /\ ShTypes'
  BY <1>3, <1>4, <1>5, ZenonT(30) DEF ShInv, FdTypes, ShTypes
<1>7. MapsFit' /\ RetiredFit'
  BY <1>3, ZenonT(30) DEF ShInv, MapsFit, RetiredFit
<1>8. PinsFit'
  BY <1>3, ZenonT(30) DEF ShInv, PinsFit, ReadAtGen
<1>9. OpsFit'
  <2>1. \A q \in ShPaths : q \notin {a, b} =>
            sfiles'[q] = sfiles[q] /\ sactive'[q] = sactive[q] /\ sdisk'[q] = sdisk[q]
    BY <1>3, <1>5, ZenonT(30)
  <2> QED
    BY <1>3, <1>4, <2>1, RenameEnds, ZenonT(30)
<1>10. DiskFits'
  <2>1. \A q \in ShPaths : sheld'[q] = OnDisk(q)'
    <3>1. sheld'[a] = OnDisk(a)'
      BY <1>5, ZenonT(30) DEF OnDisk
    <3>2. sheld'[b] = OnDisk(b)'
      BY <1>3, <1>4, <1>5, ZenonT(30) DEF ShInv, DiskFits, OnDisk
    <3>3. \A q \in ShPaths : q \notin {a, b} => sheld'[q] = OnDisk(q)'
      BY <1>3, <1>5, ZenonT(30) DEF ShInv, DiskFits, OnDisk
    <3> QED
      BY <3>1, <3>2, <3>3, ZenonT(30)
  <2>2. \A q, u \in ShPaths : sdisk'[q] # 0 /\ sdisk'[q] = sdisk'[u] => q = u
    <3>1. \A q, u \in ShPaths : sdisk[q] # 0 /\ sdisk[q] = sdisk[u] => q = u
      BY ZenonT(30) DEF ShInv, DiskFits
    <3>2. a \in ShPaths /\ b \in ShPaths
      BY <1>4, ZenonT(30)
    <3> QED
      BY <1>5, <3>1, <3>2, ZenonT(30)
  <2>3. \A q \in ShPaths : sfiles[q] # 0 /\ Settled(q)' => sdisk'[q] = sfd[sfiles[q]].ino
    <3>1. sdisk'[b] = sfd[sfiles[b]].ino /\ sfiles[a] = 0
      BY <1>4, <1>5, ZenonT(30)
    <3>2. \A q \in ShPaths : q \notin {a, b} /\ sfiles[q] # 0 /\ Settled(q)' => sdisk'[q] = sfd[sfiles[q]].ino
      BY <1>4, <1>5, ZenonT(30) DEF ShInv, DiskFits
    <3> QED
      BY <3>1, <3>2, ZenonT(30)
  <2> QED
    BY <1>3, <2>1, <2>2, <2>3, ZenonT(30) DEF ShInv, DiskFits
<1> QED
  BY <1>6, <1>7, <1>8, <1>9, <1>10, ZenonT(30) DEF ShInv

LEMMA RenameRollbackStep ==
    ASSUME ShInv, NEW c \in ShClients, RenameRollback(c)
    PROVE  ShInv'
<1>1. PICK a : a = sop[c].from
  BY ZenonT(30)
<1>2. PICK b : b = sop[c].path
  BY ZenonT(30)
<1>3. /\ Doing(c, "rename") /\ sop' = [sop EXCEPT ![c] = None]
      /\ sfiles' = [sfiles EXCEPT ![a] = sop[c].fd, ![b] = 0]
      /\ sactive' = IF sop[c].gen = 0 THEN sactive ELSE [sactive EXCEPT ![a] = sop[c].gen, ![b] = 0]
      /\ sgenFile' = sgenFile /\ srefs' = srefs /\ sretired' = sretired /\ snextGen' = snextGen
      /\ sfd' = sfd /\ sdata' = sdata /\ sdisk' = sdisk /\ spin' = spin /\ sheld' = sheld /\ swrites' = swrites
  BY <1>1, <1>2, ZenonT(30) DEF RenameRollback, ShNone
<1>4. /\ a \in ShPaths /\ b \in ShPaths /\ a # b /\ sop[c] # None /\ sop[c].op = "rename"
      /\ sop[c].paths = {a, b} /\ sop[c].fd # 0
      /\ sfiles[b] = sop[c].fd /\ sactive[b] = sop[c].gen /\ sfiles[a] = 0 /\ sactive[a] = 0
      /\ sdisk[b] = 0 /\ sdisk[a] = sfd[sop[c].fd].ino
      /\ sop'[c] = None /\ \A d \in ShClients : d # c => sop'[d] = sop[d]
      /\ sop' \in [ShClients -> FileOps \cup RenameOps \cup {None}]
      /\ \A d \in ShClients : d # c /\ sop[d] # None => sop[d].paths \cap {a, b} = {}
      /\ \A q \in ShPaths : q \notin {a, b} /\ Settled(q)' => Settled(q)
  <2>1. Doing(c, "rename") /\ OpEnds(c)
    BY <1>3, ZenonT(30) DEF OpEnds
  <2>2. RenameFound(c, a, b)
    BY <1>1, <1>2, <2>1, RenameFinds, ZenonT(30)
  <2> QED
    BY <2>2, ZenonT(30) DEF RenameFound
<1>5. Moved(b, a)
  <2>1. /\ Len(sfd) \in Nat /\ sfiles \in [ShPaths -> 0..Len(sfd)] /\ sactive \in [ShPaths -> 0..snextGen]
        /\ snextGen \in Nat
    <3>1. /\ Len(sfd) \in Nat /\ sfiles \in [ShPaths -> 0..Len(sfd)] /\ sactive \in [ShPaths -> 0..snextGen]
          /\ snextGen \in 0..MaxGens
      BY FdOf, ZenonT(30) DEF ShInv, FdTypes, ShTypes
    <3> QED
      BY <3>1, BoundsNat
  <2>2. /\ sfiles' = [sfiles EXCEPT ![a] = sfiles[b], ![b] = 0]
        /\ sactive' = IF sactive[b] = 0 THEN sactive ELSE [sactive EXCEPT ![a] = sactive[b], ![b] = 0]
    BY <1>3, <1>4, ZenonT(30)
  <2>3. a \in ShPaths /\ b \in ShPaths /\ a # b /\ sfiles[b] # 0 /\ sfiles[a] = 0 /\ sactive[a] = 0
    BY <1>4, ZenonT(30)
  <2>4. /\ sfiles' \in [ShPaths -> 0..Len(sfd)] /\ sfiles'[a] = sfiles[b] /\ sfiles'[b] = 0
        /\ \A q \in ShPaths : q \notin {a, b} => sfiles'[q] = sfiles[q]
    BY <2>1, <2>2, <2>3, ZenonT(30)
  <2>5. /\ sactive' \in [ShPaths -> 0..snextGen] /\ sactive'[a] = sactive[b] /\ sactive'[b] = 0
        /\ \A q \in ShPaths : q \notin {a, b} => sactive'[q] = sactive[q]
    BY <2>1, <2>2, <2>3, ZenonT(30)
  <2> QED
    BY <1>3, <2>3, <2>4, <2>5, ZenonT(30) DEF Moved
<1>6. FdTypes' /\ MapsFit' /\ RetiredFit' /\ PinsFit'
  BY <1>5, MovedFits, ZenonT(30)
<1>7. ShTypes'
  BY <1>4, <1>5, ZenonT(30) DEF ShInv, ShTypes, Moved
<1>8. OpsFit'
  <2>1. \A q \in ShPaths : q \notin {a, b} =>
            sfiles'[q] = sfiles[q] /\ sactive'[q] = sactive[q] /\ sdisk'[q] = sdisk[q]
    BY <1>5, ZenonT(30) DEF Moved
  <2> QED
    BY <1>3, <1>4, <2>1, RenameEnds, ZenonT(30)
<1>9. DiskFits'
  <2>1. \A q \in ShPaths : sfiles'[q] # 0 /\ Settled(q)' => sdisk[q] = sfd[sfiles'[q]].ino
    <3>1. sdisk[a] = sfd[sfiles'[a]].ino /\ sfiles'[b] = 0
      BY <1>4, <1>5, ZenonT(30) DEF Moved
    <3>2. \A q \in ShPaths : q \notin {a, b} /\ sfiles'[q] # 0 /\ Settled(q)' => sdisk[q] = sfd[sfiles'[q]].ino
      <4>1. ASSUME NEW q \in ShPaths, q \notin {a, b}, sfiles'[q] # 0, Settled(q)'
            PROVE  sdisk[q] = sfd[sfiles'[q]].ino
        <5>1. sfiles'[q] = sfiles[q] /\ Settled(q)
          BY <1>4, <1>5, <4>1, ZenonT(30) DEF Moved
        <5> QED
          BY <4>1, <5>1, ZenonT(30) DEF ShInv, DiskFits
      <4> QED
        BY <4>1, ZenonT(30)
    <3> QED
      BY <3>1, <3>2, ZenonT(30)
  <2> QED
    BY <1>3, <2>1, ZenonT(30) DEF ShInv, DiskFits, OnDisk
<1> QED
  BY <1>6, <1>7, <1>8, <1>9, ZenonT(30) DEF ShInv

-----------------------------------------------------------------------------
(* The end of the process, and the theorems                                *)

LEMMA RestartStep ==
    ASSUME ShInv, ClientsCount, ShRestart
    PROVE  ShInv'
<1>1. /\ sfiles' = [p \in ShPaths |-> 0] /\ sactive' = [p \in ShPaths |-> 0]
      /\ sgenFile' = [g \in Gens |-> 0] /\ srefs' = [g \in Gens |-> 0] /\ sretired' = [g \in Gens |-> 0]
      /\ snextGen' = 0 /\ sfd' = [f \in DOMAIN sfd |-> Closed(f)]
      /\ sop' = [c \in ShClients |-> None] /\ spin' = [c \in ShClients |-> None]
      /\ UNCHANGED <<sdata, sdisk, sheld, swrites>>
  BY ZenonT(30) DEF ShRestart, ShNone
<1>2. Len(sfd) \in Nat /\ DOMAIN sfd = 1..Len(sfd) /\ sfd \in [1..Len(sfd) -> FdRecord]
  BY FdOf, ZenonT(30) DEF ShInv, FdTypes
<1>3. /\ sfd' \in Seq(FdRecord) /\ Len(sfd') = Len(sfd)
      /\ \A f \in 1..Len(sfd) : sfd'[f].ino = sfd[f].ino
  <2>1. \A f \in 1..Len(sfd) : Closed(f) \in FdRecord /\ Closed(f).ino = sfd[f].ino
    BY <1>2, ZenonT(30) DEF Closed, FdRecord
  <2>2. sfd' \in [1..Len(sfd) -> FdRecord]
    BY <1>1, <1>2, <2>1, ZenonT(30)
  <2>3. \A f \in 1..Len(sfd) : sfd'[f] = Closed(f)
    BY <1>1, <1>2, ZenonT(30)
  <2> QED
    BY <1>2, <2>1, <2>2, <2>3, FdListed, ZenonT(30)
<1>4. FdTypes'
  BY <1>1, <1>2, <1>3 DEF ShInv, FdTypes
<1>5. ShTypes'
  BY <1>1, BoundsNat DEF ShInv, ShTypes
<1>6. MapsFit' /\ RetiredFit'
  BY <1>1, ZenonT(30) DEF MapsFit, RetiredFit
<1>7. PinsFit'
  <2>1. \A g \in Gens : Pinners(spin', g) = {}
    BY <1>1, ZenonT(30) DEF Pinners
  <2>2. Cardinality({}) = 0
    BY ZenonT(30) DEF ClientsCount
  <2>3. \A g \in Gens : srefs'[g] = Cardinality(Pinners(spin', g)) /\ sretired'[g] = 0
    BY <1>1, <2>1, <2>2, ZenonT(30)
  <2>4. \A c \in ShClients : spin'[c] = None
    BY <1>1, ZenonT(30)
  <2> QED
    BY <2>3, <2>4, ZenonT(30) DEF PinsFit
<1>8. OpsFit'
  <2>1. \A c \in ShClients : sop'[c] = None
    BY <1>1, ZenonT(30)
  <2> QED
    BY <2>1, ZenonT(30) DEF OpsFit
<1>9. DiskFits'
  <2>1. \A p \in ShPaths : sfiles'[p] = 0
    BY <1>1, ZenonT(30)
  <2> QED
    BY <1>1, <1>3, <2>1, ZenonT(30) DEF ShInv, DiskFits, OnDisk
<1> QED
  BY <1>4, <1>5, <1>6, <1>7, <1>8, <1>9, ZenonT(30) DEF ShInv

LEMMA ShStep ==
    ASSUME ShInv, ClientsCount, ~Overlap, [ShNext]_shvars
    PROVE  ShInv'
<1>1. CASE UNCHANGED shvars
  <2>1. FdTypes' /\ ShTypes'
    BY <1>1, ZenonT(30) DEF shvars, ShInv, FdTypes, ShTypes
  <2>2. MapsFit' /\ RetiredFit'
    BY <1>1, ZenonT(30) DEF shvars, ShInv, MapsFit, RetiredFit
  <2>3. PinsFit'
    BY <1>1, ZenonT(30) DEF shvars, ShInv, PinsFit, ReadAtGen
  <2>4. OpsFit' /\ DiskFits'
    BY <1>1, ZenonT(30) DEF shvars, ShInv, OpsFit, OpFits, DiskFits, OnDisk, Settled
  <2> QED
    BY <2>1, <2>2, <2>3, <2>4, ZenonT(30) DEF ShInv
<1>2. ASSUME NEW c \in ShClients, NEW p \in ShPaths,
             NEW kind \in {"writeAt", "writeFull", "truncate", "ensure"}, EnsureShadowFile(c, p, kind)
      PROVE  ShInv'
  BY <1>2, EnsureStep, ZenonT(30)
<1>3. ASSUME NEW c \in ShClients, NEW p \in ShPaths, PinIfExists(c, p) PROVE ShInv'
  BY <1>3, PinIfExistsStep, ZenonT(30)
<1>4. ASSUME NEW c \in ShClients, NEW p \in ShPaths, RemoveRetires(c, p) PROVE ShInv'
  BY <1>4, RemoveRetiresStep, ZenonT(30)
<1>5. ASSUME NEW c \in ShClients, NEW p \in ShPaths, RemoveCloses(c, p) PROVE ShInv'
  BY <1>5, RemoveClosesStep, ZenonT(30)
<1>6. ASSUME NEW c \in ShClients, NEW p \in ShPaths, ReadAtLoads(c, p) PROVE ShInv'
  BY <1>6, ReadAtLoadsStep, ZenonT(30)
<1>7. ASSUME NEW c \in ShClients, NEW p \in ShPaths, NEW q \in ShPaths, RenameMaps(c, p, q) PROVE ShInv'
  BY <1>7, RenameMapsStep, ZenonT(30)
<1>8. ASSUME NEW c \in ShClients, ShWriteAt(c) \/ ShWriteFull(c) \/ ShTruncate(c) \/ ShEnsure(c) PROVE ShInv'
  BY <1>8, WriteSteps, ZenonT(30)
<1>9. ASSUME NEW c \in ShClients, ShPin(c) PROVE ShInv'
  BY <1>9, PinStep, ZenonT(30)
<1>10. ASSUME NEW c \in ShClients, Unpin(c) PROVE ShInv'
  BY <1>10, UnpinStep, ZenonT(30)
<1>11. ASSUME NEW c \in ShClients, Unlink(c) PROVE ShInv'
  BY <1>11, UnlinkStep, ZenonT(30)
<1>12. ASSUME NEW c \in ShClients, RenameDisk(c) PROVE ShInv'
  BY <1>12, RenameDiskStep, ZenonT(30)
<1>13. ASSUME NEW c \in ShClients, RenameRollback(c) PROVE ShInv'
  BY <1>13, RenameRollbackStep, ZenonT(30)
<1>14. CASE ShRestart
  BY <1>14, RestartStep, ZenonT(30)
<1> QED
  BY <1>1, <1>2, <1>3, <1>4, <1>5, <1>6, <1>7, <1>8, <1>9, <1>10, <1>11, <1>12, <1>13, <1>14, ZenonT(30) DEF ShNext

LEMMA ShInvGivesReadable == ShInv => PinnedStaysReadable
<1> SUFFICES ASSUME ShInv PROVE PinnedStaysReadable
  BY ZenonT(30)
<1>1. ASSUME NEW c \in ShClients, spin[c] # None
      PROVE  /\ ReadAtGen(spin[c].gen) # ShNone /\ ReadAtGen(spin[c].gen) = spin[c].fd
             /\ sfd[ReadAtGen(spin[c].gen)].open
  <2>1. PICK g : g = spin[c].gen
    BY ZenonT(30)
  <2>2. g \in Gens /\ ReadAtGen(g) = spin[c].fd /\ spin[c].fd # 0
    BY <1>1, <2>1, ZenonT(30) DEF ShInv, ShTypes, Pins, PinsFit
  <2>3. sfd[ReadAtGen(g)].open
    <3>1. CASE sgenFile[g] # 0
      <4>1. PICK p \in ShPaths : sactive[p] = g
        BY <2>2, <3>1, ZenonT(30) DEF ShInv, MapsFit
      <4>2. sfiles[p] # 0 /\ sgenFile[g] = sfiles[p] /\ sfd[sfiles[p]].open
        BY <2>2, <4>1, BoundsNat DEF ShInv, MapsFit, Gens
      <4> QED
        BY <3>1, <4>2, ZenonT(30) DEF ReadAtGen, ShNone
    <3>2. CASE sgenFile[g] = 0
      <4>1. ReadAtGen(g) = sretired[g] /\ sretired[g] # 0
        BY <2>2, <3>2, ZenonT(30) DEF ReadAtGen, ShNone
      <4> QED
        BY <2>2, <4>1, ZenonT(30) DEF ShInv, RetiredFit
    <3> QED
      BY <3>1, <3>2, ZenonT(30)
  <2> QED
    BY <2>1, <2>2, <2>3, ZenonT(30) DEF ShNone
<1>2. \A g \in Gens : sretired[g] # ShNone => srefs[g] > 0
  BY ZenonT(30) DEF ShInv, PinsFit, ShNone
<1> QED
  BY <1>1, <1>2, ZenonT(30) DEF PinnedStaysReadable

LEMMA ShInvGivesWrites == ShInv => ServesItsWrites
<1> SUFFICES ASSUME ShInv, NEW p \in ShPaths, \A c \in ShClients : p \notin Touched(c)
             PROVE  ReadAll(p) = sheld[p]
  BY ZenonT(30) DEF ServesItsWrites
<1>1. Settled(p)
  BY ZenonT(30) DEF Settled, Touched
<1>2. sheld[p] = OnDisk(p)
  BY ZenonT(30) DEF ShInv, DiskFits
<1>3. CASE sfiles[p] # 0
  <2>1. sdisk[p] = sfd[sfiles[p]].ino /\ sdisk[p] # 0
    <3>1. sfiles[p] \in 1..Len(sfd)
      BY <1>3, FdOf DEF ShInv, FdTypes
    <3> QED
      BY <1>1, <1>3, <3>1 DEF ShInv, DiskFits, FdTypes
  <2> QED
    BY <1>2, <1>3, <2>1, ZenonT(30) DEF ReadAll, OnDisk, ShNone
<1>4. CASE sfiles[p] = 0
  BY <1>2, <1>4, ZenonT(30) DEF ReadAll, OnDisk, ShNone
<1> QED
  BY <1>3, <1>4, ZenonT(30)

FS == INSTANCE FiniteSetTheorems

LEMMA ClientsAreCounted == ClientsCount
<1> SUFFICES ASSUME NEW S \in SUBSET ShClients
             PROVE  /\ Cardinality(S) \in Nat
                    /\ Cardinality(S) = 0 <=> S = {}
                    /\ \A c \in ShClients : /\ c \notin S => Cardinality(S \cup {c}) = Cardinality(S) + 1
                                            /\ c \in S => Cardinality(S \ {c}) = Cardinality(S) - 1
  BY ZenonT(30) DEF ClientsCount
<1>1. \A T : (FS!IsFiniteSet(T) <=> IsFiniteSet(T)) /\ FS!Cardinality(T) = Cardinality(T)
  BY ZenonT(30) DEF FS!IsFiniteSet, IsFiniteSet, FS!Cardinality, Cardinality
<1>2. FS!IsFiniteSet(S)
  BY <1>1, ShAssumption, FS!FS_Subset, ZenonT(30)
<1>3. Cardinality(S) \in Nat
  BY <1>1, <1>2, FS!FS_CardinalityType, ZenonT(30)
<1>4. Cardinality(S) = 0 <=> S = {}
  BY <1>1, <1>2, FS!FS_EmptySet, ZenonT(30)
<1>5. \A c : c \notin S => Cardinality(S \cup {c}) = Cardinality(S) + 1
  BY <1>1, <1>2, FS!FS_AddElement, ZenonT(30)
<1>6. \A c : c \in S => Cardinality(S \ {c}) = Cardinality(S) - 1
  BY <1>1, <1>2, FS!FS_RemoveElement, ZenonT(30)
<1> QED
  BY <1>3, <1>4, <1>5, <1>6, ZenonT(30)

LEMMA ShInitFits == ShInit => ShInv
<1> SUFFICES ASSUME ShInit PROVE ShInv
  BY ZenonT(30)
<1>1. \A g \in Gens : Pinners(spin, g) = {}
  BY ZenonT(30) DEF ShInit, Pinners
<1>2. Cardinality({}) = 0
  BY ClientsAreCounted, ZenonT(30) DEF ClientsCount
<1>3. \A g \in Gens : srefs[g] = Cardinality(Pinners(spin, g)) /\ sretired[g] = 0
  BY <1>1, <1>2, ZenonT(30) DEF ShInit, NewShadowStore, ShNone
<1>4. \A c \in ShClients : spin[c] = None
  BY ZenonT(30) DEF ShInit
<1>5. PinsFit
  BY <1>3, <1>4, ZenonT(30) DEF PinsFit
<1> QED
  BY <1>5, ShStart, ZenonT(30) DEF ShInv

\* For any requests, paths, files and generations: a handle that pinned a
\* shadow goes on reading the very file it pinned, open, through the removal
\* of the shadow, its rename and new shadows at its path, until it unpins it;
\* and no file is kept that nobody pinned (Pin, PinIfExists, Remove, Rename,
\* Unpin, ReadAtGen in shadow.go) - as long as a Remove or Rename of a path
\* overlaps no other operation on it.
THEOREM PinnedFilesStayReadable ==
    ASSUME ~Overlap
    PROVE  ShSpec => []PinnedStaysReadable
<1>0. ClientsCount
  BY ClientsAreCounted, ZenonT(30)
<1>1. ShInit => ShInv
  BY ShInitFits, ZenonT(30)
<1>2. ShInv /\ [ShNext]_shvars => ShInv'
  BY <1>0, ShStep, ZenonT(30)
<1>3. ShInv => PinnedStaysReadable
  BY ShInvGivesReadable, ZenonT(30)
<1> QED
  BY <1>1, <1>2, <1>3, PTL DEF ShSpec

\* For any requests, paths and files, under the same discipline: what the
\* store serves for a path is what was written there since it was last
\* removed, whatever was opened, renamed, rolled back or lost with the process
\* in between (ReadAll, WriteAt, WriteFull, Truncate, Ensure, Remove, Rename).
THEOREM StoreServesItsWrites ==
    ASSUME ~Overlap
    PROVE  ShSpec => []ServesItsWrites
<1>0. ClientsCount
  BY ClientsAreCounted, ZenonT(30)
<1>1. ShInit => ShInv
  BY ShInitFits, ZenonT(30)
<1>2. ShInv /\ [ShNext]_shvars => ShInv'
  BY <1>0, ShStep, ZenonT(30)
<1>3. ShInv => ServesItsWrites
  BY ShInvGivesWrites, ZenonT(30)
<1> QED
  BY <1>1, <1>2, <1>3, PTL DEF ShSpec
=============================================================================
