---------------------------- MODULE MCNamespace ----------------------------
(* Instances of Namespace: two paths in one directory, one in another. *)
EXTENDS Namespace, TLC

CONSTANTS a, b, c, f1, f2, r1, r2, c1, c2

TwoDirs == [p \in Paths |-> IF p = c THEN "y" ELSE "x"]

\* Neither copies nor writes overlap a rename, no write overlaps a blind one, and
\* the removal of a directory overlaps nothing.
Writes == {"write", "blindWrite"}
Disciplined ==
    {{"copy", "rename"}} \cup {{w, "rename"} : w \in Writes} \cup {{w, "blindWrite"} : w \in Writes}
        \cup {{op, rm} : op \in AllOps, rm \in {"deleteDir", "deleteEmptyDir"}}

\* Copies may overlap renames, as in the code.
CopiesAtAnyTime == Disciplined \ {{"copy", "rename"}}

Symmetry == Permutations({a, b}) \cup Permutations(Files)
            \cup Permutations(Refs) \cup Permutations(Clients)
=============================================================================
