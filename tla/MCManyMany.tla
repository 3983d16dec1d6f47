---------------------------- MODULE MCManyMany ----------------------------
(* Small instances of the many-many library for TLC.                       *)
EXTENDS ManyMany, TLC

CONSTANTS t1, t2, t3

Symmetry == Permutations(KThread)

NoPairs       == {}
KillChild     == {<<t1, t2>>}
KillSelf      == {<<t2, t2>>}
JoinChild     == {<<t1, t2>>}
TwoJoiners    == {<<t1, t2>>, <<t3, t2>>}
MutualJoin    == {<<t1, t2>>, <<t2, t1>>}
JoinChain     == {<<t1, t2>>, <<t2, t3>>}
=============================================================================
