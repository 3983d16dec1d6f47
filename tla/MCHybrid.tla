------------------------------ MODULE MCHybrid ------------------------------
(* Small instances of the hybrid library for TLC.                          *)
EXTENDS Hybrid, TLC

CONSTANTS t1, t2, t3, t4

Symmetry == Permutations(KThread)

NoPairs    == {}
\* Every combination of types, and two joiners for each of t3 and t4.
MixedJoins == {<<t1, t2>>, <<t1, t3>>, <<t1, t4>>, <<t2, t3>>, <<t2, t4>>}
\* A many-many thread signals a one-one thread, which never joins.
KillOO     == {<<t2, t3>>}
\* A many-many thread joins a one-one thread.
MMJoinsOO  == {<<t2, t3>>}
\* A one-one and a many-many thread join the same one-one thread.
TwoJoiners == {<<t1, t3>>, <<t2, t3>>}
\* A one-one and a many-many thread each join a many-many thread.
JoinChain  == {<<t1, t2>>, <<t2, t3>>}
\* Signals from either type to a many-many thread.
KillMM     == {<<t1, t3>>, <<t2, t3>>}
\* A one-one thread that may be in thread_join is signalled.
JoinChild  == {<<t1, t2>>}
KillJoiner == {<<t2, t1>>}
=============================================================================
