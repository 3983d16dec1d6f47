---------------------------- MODULE MCOneOneCntl ----------------------------
(* Small instances of the life of one-one threads for TLC.                 *)
EXTENDS OneOneCntl, TLC

CONSTANTS t1, t2, t3, t4

NoPairs    == {}
\* Two joiners of t2, one of which also joins t4; signals to those that never join.
ChildJoins == {<<t1, t2>>, <<t3, t2>>, <<t3, t4>>}
KillTarget == {<<t1, t2>>, <<t3, t4>>, <<t2, t4>>}
TwoJoiners == {<<t1, t2>>, <<t3, t2>>}
MutualJoin == {<<t1, t2>>, <<t2, t1>>}
JoinMain   == {<<t2, t1>>}
KillMain   == {<<t2, t1>>}
KillSelf   == {<<t2, t2>>}
=============================================================================
