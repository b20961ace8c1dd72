------------------------------ MODULE MCMount ------------------------------
(* What a mount keeps of remote files: the caches that follow the server's   *)
(* change events, the shadow files of pending writes and the write buffer of *)
(* an open handle.  A behaviour belongs to one of them, and the others stay  *)
(* in an initial state.                                                      *)
EXTENDS Events, ShadowStore, WriteBuffer, TLC

CONSTANT MountModes

VARIABLE mmode

mvars == <<evVars, shvars, wvars, mmode>>

\* The accesses for which each way of opening keeps the file's content.
MCPatterns ==
    [lazy      |-> {"inplace", "append", "path"},
     cached    |-> {"inplace", "append", "shrink", "grow"},
     stream    |-> {"append", "path"},
     spill     |-> {"inplace", "append", "gap", "shrink", "grow", "same", "path"},
     closesync |-> {"inplace", "append"},
     writesync |-> {"inplace", "append"}]

\* ftruncate on a file that was opened without reading it
MCShrink == [lazy |-> {"shrink"}]

MInit ==
    /\ mmode \in MountModes
    /\ EvInit /\ ShInit /\ WbInit
    /\ mmode # "events" => ecache = "names"
    /\ mmode # "buffer" => wmode = "lazy" /\ wfh.orig = 0 /\ wfh.thr = 0

MNext ==
    \/ mmode = "events" /\ EvNext /\ UNCHANGED <<shvars, wvars, mmode>>
    \/ mmode = "shadow" /\ ShNext /\ UNCHANGED <<evVars, wvars, mmode>>
    \/ mmode = "buffer" /\ WbNext /\ UNCHANGED <<evVars, shvars, mmode>>

MSpec == MInit /\ [][MNext]_mvars

\* Names of files and clients of the shadow store share their identifiers: one
\* symmetry serves either component.
MountSymmetry == Permutations(EvNames) \cup Permutations(ShPaths)
=============================================================================
