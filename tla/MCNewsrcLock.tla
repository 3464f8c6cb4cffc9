----------------------------- MODULE MCNewsrcLock ------------------------------
EXTENDS NewsrcLock, TLC
CONSTANTS p1, p2, p3, f1, f2
MCHostOf == (p1 :> 1 @@ p2 :> 1 @@ p3 :> 2)
\* One group of two newsrcs, one of one of them that names it twice.
MCGroups == << <<f1>>, <<f1, f2>>, <<f2, f2>> >>
MCSymmetry == Permutations({p1, p2})
================================================================================
