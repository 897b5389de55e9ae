-------------------------- MODULE MCRTBreakpoints --------------------------
EXTENDS RTBreakpoints, TLC

CONSTANTS f1, f2, c1, c2, t1, t2, tid1

\* Both targets have the same TID: the second takes it after the first exits.
SameTid == (t1 :> tid1) @@ (t2 :> tid1)
OneTid == (t1 :> tid1)

CallerSymmetry == Permutations({c1, c2})
Symmetry == Permutations({f1, f2}) \cup CallerSymmetry
=============================================================================
