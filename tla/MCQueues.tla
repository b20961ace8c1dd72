------------------------------ MODULE MCQueues ------------------------------
(* The semantic task queue and the upload handlers, the two halves of what   *)
(* follows a large write: a behaviour belongs to one of them, and the other  *)
(* stays in its initial state.                                               *)
EXTENDS SemanticTasks, Uploads, TLC

CONSTANTS u1, u2, QueueModes

VARIABLE qmode

qvars == <<vars, uploadsVars, qmode>>

\* Expected revisions: any, and those of create-if-absent and of a first overwrite.
NoRevs == {-1}
AllRevs == {-1, 0, 1}

\* two uploads of different sizes
MCSize == [u \in Uploads |-> IF u = u1 THEN 1 ELSE 2]

QInit == qmode \in QueueModes /\ Init /\ UploadsInit

QNext ==
    \/ qmode = "semantic" /\ Next /\ UNCHANGED <<uploadsVars, qmode>>
    \/ qmode = "uploads" /\ UploadsNext /\ UNCHANGED <<vars, qmode>>

QSpec == QInit /\ [][QNext]_qvars

\* Workers are interchangeable, and so are the requests of the handlers.  The
\* instances give both the same names: one symmetry serves either component.
QueueSymmetry == Permutations(Workers)
=============================================================================
