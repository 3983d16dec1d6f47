-------------------------- MODULE OneOneCntlProofs --------------------------
(***************************************************************************)
(* Proofs, for every set of threads, that a thread that registers with the *)
(* target of thread_join unmaps its stack once, whatever the clients do;   *)
(* and that with disciplined clients thread_join of the one-one library    *)
(* waits for its target and no stack is unmapped that somebody runs on.    *)
(***************************************************************************)
EXTENDS OneOneCntl, TLAPS

\* The client lets t join u, or signal u.
MayJoin(t, u) == <<t, u>> \in JoinPairs
MayKill(t, u) == <<t, u>> \in KillPairs

\* Inside thread_join.
InJoin(t) == pc[t] \in {"join_lock", "join_check"} \/ Joins(t)

\* The kernel's hand on the wait word: it is set exactly while the thread lives.
WordIsLife ==
  \A t \in Thread : td[t].wait = TID <=> pc[t] \notin {"unborn", "gone"}

\* A thread is started by one creator, and thread_main by main().
OneCreator ==
  /\ \A t \in Thread : pc[t] = "create_clone" =>
       /\ arg[t] \in Thread \ {Main}
       /\ pc[arg[t]] = "unborn"
       /\ \A u \in Thread : pc[u] = "create_clone" /\ arg[u] = arg[t] => u = t
  /\ \A t \in Thread : pc[t] = "create_store" =>
       arg[t] \in Thread /\ pc[arg[t]] # "unborn"
  /\ mpc \in {"create", "clone"} => pc[Main] = "unborn"
  /\ mpc \notin {"create", "clone"} => pc[Main] # "unborn"
  /\ mpc \in {"free", "return", "done"} => pc[Main] = "gone"

\* A join and a signal are for a thread that was started, and that the client lets
\* the caller join or signal.
CallKnown ==
  \A t \in Thread :
    /\ InJoin(t) => arg[t] \in Thread /\ pc[arg[t]] # "unborn" /\ MayJoin(t, arg[t])
    /\ pc[t] = "kill_send" =>
         arg[t] \in Thread /\ pc[arg[t]] # "unborn" /\ MayKill(t, arg[t])

\* Whoever is past the check is the one registered in the target, and only threads
\* that were started have somebody registered.
JoinRegistered ==
  /\ \A t \in Thread : Joins(t) => td[arg[t]].join_td = t
  /\ \A u \in Thread : td[u].join_td # NULL =>
       pc[u] # "unborn" /\ MayJoin(td[u].join_td, u)

\* The joining thread of u has come and gone.
JoinPast(u) == td[u].join_td # NULL /\ ~JoinPending(u)

\* What has been unmapped: JoinerFrees, and the stack of thread_main by its joining
\* thread and by main().
StacksCounted ==
  /\ JoinerFrees
  /\ freed[Main] <= (IF JoinPast(Main) THEN 1 ELSE 0)
                    + (IF mpc \in {"return", "done"} THEN 1 ELSE 0)

\* The inductive invariant, for every client.
IInv == /\ TypeOK /\ WordIsLife /\ OneCreator /\ CallKnown /\ JoinRegistered
        /\ StacksCounted

\* The target of a join is one whose ktid is stored.
JoinKnown == \A t \in Thread : InJoin(t) => td[arg[t]].ktid = TID

\* A sleeper's target lives, so that its end will wake the sleeper.
SleepWhileAlive ==
  \A t \in Thread : pc[t] = "join_sleep" => pc[arg[t]] # "gone"

\* What is added to the inductive invariant for disciplined clients.
DInv == JoinKnown /\ SleepWhileAlive /\ JoinAfterExit /\ StackInUse

-----------------------------------------------------------------------------
(* What the steps that write descriptors leave in them.                    *)

\* The fields of td'[v] other than state and mem_lock that a step keeps.
Same(v) == /\ td'[v].wait = td[v].wait
           /\ td'[v].ktid = td[v].ktid
           /\ td'[v].join_td = td[v].join_td

\* clone sets the wait word of the child.
LEMMA CloneTd ==
  ASSUME TypeOK, NEW t \in Thread, NEW u \in Thread, clone(u)
  PROVE  /\ td' \in [Thread -> Descr]
         /\ \A v \in Thread : v # u => Same(v)
         /\ td'[u].wait = TID
         /\ td'[u].ktid = td[u].ktid
         /\ td'[u].join_td = td[u].join_td
<1>0. td \in [Thread -> Descr]
      BY DEF TypeOK
<1>1. td' \in [Thread -> Descr]
      BY <1>0 DEF clone, Descr, Same
<1>2. \A v \in Thread : v # u => Same(v)
      BY <1>0 DEF clone, Descr, Same
<1>3. td'[u].wait = TID
      BY <1>0 DEF clone, Descr, Same
<1>4. td'[u].ktid = td[u].ktid
      BY <1>0 DEF clone, Descr, Same
<1>5. td'[u].join_td = td[u].join_td
      BY <1>0 DEF clone, Descr, Same
<1>6. QED
      BY <1>1, <1>2, <1>3, <1>4, <1>5

\* thread_create stores the ktid.
LEMMA StoreTd ==
  ASSUME TypeOK, NEW t \in Thread, arg[t] \in Thread, CreateStore(t)
  PROVE  /\ td' \in [Thread -> Descr]
         /\ \A v \in Thread : v # arg[t] => Same(v)
         /\ td'[arg[t]].ktid = TID
         /\ td'[arg[t]].wait = td[arg[t]].wait
         /\ td'[arg[t]].join_td = td[arg[t]].join_td
<1>0. td \in [Thread -> Descr]
      BY DEF TypeOK
<1>1. td' \in [Thread -> Descr]
      BY <1>0 DEF CreateStore, Descr, Same
<1>2. \A v \in Thread : v # arg[t] => Same(v)
      BY <1>0 DEF CreateStore, Descr, Same
<1>3. td'[arg[t]].ktid = TID
      BY <1>0 DEF CreateStore, Descr, Same
<1>4. td'[arg[t]].wait = td[arg[t]].wait
      BY <1>0 DEF CreateStore, Descr, Same
<1>5. td'[arg[t]].join_td = td[arg[t]].join_td
      BY <1>0 DEF CreateStore, Descr, Same
<1>6. QED
      BY <1>1, <1>2, <1>3, <1>4, <1>5

\* thread_join registers with a target nobody joins.
LEMMA CheckTd ==
  ASSUME TypeOK, NEW t \in Thread, arg[t] \in Thread, JoinCheck(t)
  PROVE  /\ td' \in [Thread -> Descr]
         /\ \A v \in Thread : v # arg[t] => Same(v)
         /\ td'[arg[t]].ktid = td[arg[t]].ktid
         /\ td'[arg[t]].wait = td[arg[t]].wait
         /\ td'[arg[t]].join_td = IF td[arg[t]].join_td = NULL THEN t
                               ELSE td[arg[t]].join_td
<1>0. td \in [Thread -> Descr]
      BY DEF TypeOK
<1>1. td' \in [Thread -> Descr]
      BY <1>0 DEF JoinCheck, Descr, Same
<1>2. \A v \in Thread : v # arg[t] => Same(v)
      BY <1>0 DEF JoinCheck, Descr, Same
<1>3. td'[arg[t]].ktid = td[arg[t]].ktid
      BY <1>0 DEF JoinCheck, Descr, Same
<1>4. td'[arg[t]].wait = td[arg[t]].wait
      BY <1>0 DEF JoinCheck, Descr, Same
<1>5. td'[arg[t]].join_td = IF td[arg[t]].join_td = NULL THEN t
                               ELSE td[arg[t]].join_td
      BY <1>0 DEF JoinCheck, Descr, Same
<1>6. QED
      BY <1>1, <1>2, <1>3, <1>4, <1>5

\* A thread whose wait is over writes its state.
LEMMA WokenTd ==
  ASSUME TypeOK, NEW t \in Thread, JoinWoken(t)
  PROVE  /\ td' \in [Thread -> Descr]
         /\ \A v \in Thread : Same(v)
<1>0. td \in [Thread -> Descr]
      BY DEF TypeOK
<1>1. td' \in [Thread -> Descr]
      BY <1>0 DEF JoinWoken, Descr, Same
<1>2. \A v \in Thread : Same(v)
      BY <1>0 DEF JoinWoken, Descr, Same
<1>3. QED
      BY <1>1, <1>2

\* The end of thread_join writes only the state of the target.
LEMMA MarkTd ==
  ASSUME TypeOK, NEW t \in Thread, arg[t] \in Thread, JoinMark(t)
  PROVE  /\ td' \in [Thread -> Descr]
         /\ \A v \in Thread : Same(v)
<1>0. td \in [Thread -> Descr]
      BY DEF TypeOK
<1>1. td' \in [Thread -> Descr]
      BY <1>0 DEF JoinMark, Descr, Same
<1>2. \A v \in Thread : Same(v)
      BY <1>0 DEF JoinMark, Descr, Same
<1>3. QED
      BY <1>1, <1>2

\* thread_join takes the lock of its target.
LEMMA LockTd ==
  ASSUME TypeOK, NEW t \in Thread, arg[t] \in Thread, JoinLock(t)
  PROVE  /\ td' \in [Thread -> Descr]
         /\ \A v \in Thread : Same(v)
<1>0. td \in [Thread -> Descr]
      BY DEF TypeOK
<1>1. td' \in [Thread -> Descr]
      BY <1>0 DEF JoinLock, Descr, Same
<1>2. \A v \in Thread : Same(v)
      BY <1>0 DEF JoinLock, Descr, Same
<1>3. QED
      BY <1>1, <1>2

\* main() stores the ktid of the thread of thread_main.
LEMMA MainStoreTd ==
  ASSUME TypeOK, MainStore
  PROVE  /\ td' \in [Thread -> Descr]
         /\ \A v \in Thread : v # Main => Same(v)
         /\ td'[Main].ktid = TID
         /\ td'[Main].wait = td[Main].wait
         /\ td'[Main].join_td = td[Main].join_td
<1>0. td \in [Thread -> Descr] /\ Main \in Thread
      BY HandleAssumption DEF TypeOK
<1>1. td' \in [Thread -> Descr]
      BY <1>0 DEF MainStore, Descr
<1>2. \A v \in Thread : v # Main => Same(v)
      BY <1>0 DEF MainStore, Descr, Same
<1>3. td'[Main].ktid = TID
      BY <1>0 DEF MainStore, Descr
<1>4. td'[Main].wait = td[Main].wait
      BY <1>0 DEF MainStore, Descr
<1>5. td'[Main].join_td = td[Main].join_td
      BY <1>0 DEF MainStore, Descr
<1>6. QED
      BY <1>1, <1>2, <1>3, <1>4, <1>5

\* thread_exit writes only the state.
LEMMA ExitTd ==
  ASSUME TypeOK, NEW t \in Thread, ThreadExit(t)
  PROVE  /\ td' \in [Thread -> Descr]
         /\ \A v \in Thread : Same(v)
<1>0. td \in [Thread -> Descr]
      BY DEF TypeOK
<1>1. td' \in [Thread -> Descr]
      BY <1>0 DEF ThreadExit, StartReturns, Descr, Same
<1>2. \A v \in Thread : Same(v)
      BY <1>0 DEF ThreadExit, StartReturns, Descr, Same
<1>3. QED
      BY <1>1, <1>2

\* The kernel clears the wait word.
LEMMA EndTd ==
  ASSUME TypeOK, NEW t \in Thread, KernelExit(t)
  PROVE  /\ td' \in [Thread -> Descr]
         /\ \A v \in Thread : v # t => Same(v)
         /\ td'[t].wait = ZERO
         /\ td'[t].ktid = td[t].ktid
         /\ td'[t].join_td = td[t].join_td
<1>0. td \in [Thread -> Descr]
      BY DEF TypeOK
<1>1. td' \in [Thread -> Descr]
      BY <1>0 DEF KernelExit, Descr, Same
<1>2. \A v \in Thread : v # t => Same(v)
      BY <1>0 DEF KernelExit, Descr, Same
<1>3. td'[t].wait = ZERO
      BY <1>0 DEF KernelExit, Descr, Same
<1>4. td'[t].ktid = td[t].ktid
      BY <1>0 DEF KernelExit, Descr, Same
<1>5. td'[t].join_td = td[t].join_td
      BY <1>0 DEF KernelExit, Descr, Same
<1>6. QED
      BY <1>1, <1>2, <1>3, <1>4, <1>5

-----------------------------------------------------------------------------
(* What is kept for every client                                           *)

\* A step that frees nothing, changes no joining thread, and leaves who is past the
\* check of thread_join there, keeps the count of what has been unmapped.
LEMMA CountKept ==
  ASSUME IInv, freed' = freed,
         \A v \in Thread : td'[v].join_td = td[v].join_td,
         \A t \in Thread : Joins(t)' <=> Joins(t),
         \A t \in Thread : Joins(t) => arg'[t] = arg[t],
         mpc \in {"return", "done"} => mpc' \in {"return", "done"}
  PROVE  StacksCounted'
<1>1. \A u \in Thread : JoinPending(u)' <=> JoinPending(u)
      BY DEF JoinPending
<1>2. \A u \in Thread : JoinPast(u)' <=> JoinPast(u)
      BY <1>1 DEF JoinPast
<1>3. JoinerFrees'
  <2> SUFFICES ASSUME NEW u \in Thread \ {Main}
               PROVE freed'[u] = IF td'[u].join_td = NULL \/ JoinPending(u)' THEN 0 ELSE 1
      BY DEF JoinerFrees
  <2>1. freed[u] = IF td[u].join_td = NULL \/ JoinPending(u) THEN 0 ELSE 1
        BY DEF IInv, StacksCounted, JoinerFrees
  <2>2. QED
        BY <1>1, <2>1
<1>4. freed[Main] \in Nat
      BY HandleAssumption DEF IInv, TypeOK
<1>5. QED
      BY <1>2, <1>3, <1>4, HandleAssumption DEF IInv, StacksCounted

\* main() before its first call satisfies the invariant.
LEMMA InitIInv == Init => IInv
<1> SUFFICES ASSUME Init PROVE IInv
      OBVIOUS
<1>1. TypeOK
      BY HandleAssumption
      DEF Init, TypeOK, td_init, Descr, Label, MainLabel, ZERO, TID, JUNK
<1>2. WordIsLife /\ OneCreator
      BY HandleAssumption DEF Init, WordIsLife, OneCreator, td_init, ZERO, TID
<1>3. CallKnown /\ JoinRegistered
      BY DEF Init, CallKnown, JoinRegistered, InJoin, Joins, td_init
<1>4. StacksCounted
  <2>1. \A u \in Thread : freed[u] = 0 /\ td[u].join_td = NULL
        BY DEF Init, td_init
  <2>2. QED
        BY <2>1, HandleAssumption DEF StacksCounted, JoinerFrees, JoinPast, Init
<1>5. QED
      BY <1>1, <1>2, <1>3, <1>4 DEF IInv

\* thread_join registers: the stack of the target is there, and is now its to unmap.
LEMMA RegisterCounted ==
  ASSUME IInv, NEW t \in Thread, NEW u \in Thread, u = arg[t], pc[t] = "join_check",
         td[u].join_td = NULL, td'[u].join_td = t,
         \A v \in Thread : v # u => Same(v),
         NEW l \in {"join_futex", "join_mark"}, Goto(t, l), arg' = arg, mpc' = mpc,
         freed' = freed
  PROVE  StacksCounted'
<1>1. pc \in [Thread -> Label] /\ freed[Main] \in Nat
      BY HandleAssumption DEF IInv, TypeOK
<1>2. JoinPending(u)'
      BY <1>1 DEF JoinPending, Joins, Goto
<1>3. \A v \in Thread \ {u} : JoinPending(v)' <=> JoinPending(v)
      BY <1>1 DEF JoinPending, Joins, Goto, Same
<1>4. \A v \in Thread \ {u} : td'[v].join_td = td[v].join_td
      BY DEF Same
<1>5. ~JoinPast(u) /\ ~JoinPast(u)' /\ \A v \in Thread \ {u} : JoinPast(v)' <=> JoinPast(v)
      BY <1>2, <1>3, <1>4 DEF JoinPast
<1>6. JoinerFrees'
  <2> SUFFICES ASSUME NEW v \in Thread \ {Main}
               PROVE freed'[v] = IF td'[v].join_td = NULL \/ JoinPending(v)' THEN 0 ELSE 1
      BY DEF JoinerFrees
  <2>1. freed[v] = IF td[v].join_td = NULL \/ JoinPending(v) THEN 0 ELSE 1
        BY DEF IInv, StacksCounted, JoinerFrees
  <2>2. QED
        BY <1>2, <1>3, <1>4, <2>1
<1>7. JoinPast(Main)' <=> JoinPast(Main)
      BY <1>5, HandleAssumption
<1>8. QED
      BY <1>1, <1>6, <1>7 DEF IInv, StacksCounted

\* thread_join returns: it has unmapped the stack, which nobody had before.
LEMMA FreeCounted ==
  ASSUME IInv, NEW t \in Thread, JoinFree(t)
  PROVE  StacksCounted' /\ freed' \in [Thread -> 0..2]
<1>1. PICK u \in Thread : u = arg[t] /\ pc[t] = "join_free" /\ td[u].join_td = t
      BY DEF IInv, CallKnown, JoinRegistered, InJoin, Joins, JoinFree
<1>2. /\ pc \in [Thread -> Label] /\ arg \in [Thread -> Thread \cup {NULL}]
      /\ freed \in [Thread -> 0..2]
      BY DEF IInv, TypeOK
<1>3. /\ freed' = [freed EXCEPT ![u] = @ + 1] /\ td' = td /\ mpc' = mpc
      /\ pc' = [pc EXCEPT ![t] = "client"] /\ arg' = [arg EXCEPT ![t] = NULL]
      BY <1>1 DEF JoinFree, Return, Goto
<1>4. JoinPending(u) /\ ~JoinPending(u)' /\ t # NULL
      BY <1>1, <1>2, <1>3, HandleAssumption DEF JoinPending, Joins
<1>5. \A v \in Thread \ {u} : JoinPending(v)' <=> JoinPending(v)
      BY <1>1, <1>2, <1>3, HandleAssumption DEF JoinPending, Joins
<1>6. ~JoinPast(u) /\ JoinPast(u)' /\ \A v \in Thread \ {u} : JoinPast(v)' <=> JoinPast(v)
      BY <1>1, <1>3, <1>4, <1>5 DEF JoinPast
<1>7. freed[Main] <= (IF JoinPast(Main) THEN 1 ELSE 0)
                     + (IF mpc \in {"return", "done"} THEN 1 ELSE 0)
      BY DEF IInv, StacksCounted
<1>8. \A v \in Thread \ {Main} :
        freed[v] = IF td[v].join_td = NULL \/ JoinPending(v) THEN 0 ELSE 1
      BY DEF IInv, StacksCounted, JoinerFrees
<1>9. freed[u] <= 1
      BY <1>2, <1>4, <1>6, <1>7, <1>8
<1>10. freed' \in [Thread -> 0..2]
      BY <1>2, <1>3, <1>9
<1>11. JoinerFrees'
  <2> SUFFICES ASSUME NEW v \in Thread \ {Main}
               PROVE freed'[v] = IF td'[v].join_td = NULL \/ JoinPending(v)' THEN 0 ELSE 1
      BY DEF JoinerFrees
  <2>1. CASE v = u
        BY <1>1, <1>2, <1>3, <1>4, <1>8, <2>1
  <2>2. CASE v # u
        BY <1>2, <1>3, <1>5, <1>8, <2>2
  <2>3. QED
        BY <2>1, <2>2
<1>12. freed'[Main] <= (IF JoinPast(Main)' THEN 1 ELSE 0)
                       + (IF mpc' \in {"return", "done"} THEN 1 ELSE 0)
  <2>1. CASE Main = u
        BY <1>2, <1>3, <1>6, <1>7, <2>1
  <2>2. CASE Main # u
        BY <1>2, <1>3, <1>6, <1>7, <2>2, HandleAssumption
  <2>3. QED
        BY <2>1, <2>2
<1>13. QED
      BY <1>10, <1>11, <1>12 DEF StacksCounted

\* main() unmaps the stack of thread_main, which its joining thread may have done.
LEMMA MainFreeCounted ==
  ASSUME IInv, MainFree
  PROVE  StacksCounted' /\ freed' \in [Thread -> 0..2]
<1>1. mpc = "free" /\ mpc' = "return" /\ td' = td /\ pc' = pc /\ arg' = arg
      BY DEF MainFree
<1>2. freed \in [Thread -> 0..2] /\ Main \in Thread
      BY HandleAssumption DEF IInv, TypeOK
<1>3. \A u \in Thread : JoinPending(u)' <=> JoinPending(u)
      BY <1>1 DEF JoinPending, Joins
<1>4. JoinPast(Main)' <=> JoinPast(Main)
      BY <1>1, <1>2, <1>3 DEF JoinPast
<1>5. freed[Main] <= IF JoinPast(Main) THEN 1 ELSE 0
      BY <1>1, <1>2 DEF IInv, StacksCounted
<1>6. freed' \in [Thread -> 0..2] /\ freed'[Main] <= freed[Main] + 1
      BY <1>2, <1>5 DEF MainFree
<1>7. \A u \in Thread \ {Main} : freed'[u] = freed[u]
      BY <1>2 DEF MainFree
<1>8. JoinerFrees'
      BY <1>1, <1>3, <1>7 DEF IInv, StacksCounted, JoinerFrees
<1>9. QED
      BY <1>1, <1>2, <1>4, <1>5, <1>6, <1>8 DEF StacksCounted

\* Every step keeps the invariant: one case per action.
LEMMA NextIInv ==
  ASSUME IInv, [Next]_vars
  PROVE  IInv'
<1>0. TypeOK
      BY DEF IInv
<1> DEFINE Rest == TypeOK /\ WordIsLife /\ OneCreator /\ CallKnown /\ JoinRegistered
<1>a. IInv' <=> Rest' /\ StacksCounted'
      BY DEF IInv
<1>b. /\ td \in [Thread -> Descr] /\ pc \in [Thread -> Label]
      /\ arg \in [Thread -> Thread \cup {NULL}]
      BY <1>0 DEF TypeOK
<1> HIDE DEF Rest
<1>1. ASSUME NEW t \in Thread, NEW u \in Thread, CreateCall(t, u) PROVE IInv'
  <2>1. Rest'
        BY <1>1, HandleAssumption
        DEF Rest, IInv, TypeOK, WordIsLife, OneCreator, CallKnown, JoinRegistered, InJoin,
            Joins, CreateCall, Call, Goto, td_init, Descr, Label, ZERO, TID, JUNK
  <2>2. td[u].join_td = NULL
        BY <1>1 DEF IInv, JoinRegistered, CreateCall
  <2>3. StacksCounted'
        BY <1>1, <1>b, <2>2, CountKept DEF CreateCall, Call, Goto, td_init, Joins
  <2>4. QED
        BY <1>a, <2>1, <2>3
<1>2. ASSUME NEW t \in Thread, CreateClone(t) PROVE IInv'
  <2>1. CASE /\ clone(arg[t])
             /\ pc' = [pc EXCEPT ![arg[t]] = "client", ![t] = "create_store"]
             /\ UNCHANGED <<arg, mpc, freed, sent, got>>
    <3>1. PICK u \in Thread : /\ u = arg[t] /\ u # Main /\ pc[u] = "unborn"
                              /\ pc[t] = "create_clone" /\ t # u
          BY <1>2 DEF CreateClone, IInv, OneCreator
    <3>2. /\ td' \in [Thread -> Descr]
          /\ \A v \in Thread : v # u => Same(v)
          /\ td'[u].wait = TID
          /\ td'[u].ktid = td[u].ktid /\ td'[u].join_td = td[u].join_td
          BY <2>1, <3>1, <1>0, CloneTd
    <3>3. TypeOK' /\ WordIsLife'
          BY <2>1, <3>1, <3>2 DEF IInv, TypeOK, WordIsLife, Same, Label, ZERO, TID
    <3>4. OneCreator'
          BY <2>1, <3>1, <1>b, HandleAssumption DEF IInv, OneCreator
    <3>5. CallKnown' /\ JoinRegistered'
          BY <2>1, <3>1, <3>2, <1>b DEF IInv, CallKnown, JoinRegistered, InJoin, Joins, Same
    <3>6. StacksCounted'
          BY <2>1, <3>1, <3>2, <1>b, CountKept DEF Same, Joins
    <3>7. QED
          BY <1>a, <3>3, <3>4, <3>5, <3>6 DEF Rest
  <2>2. CASE Return(t) /\ UNCHANGED <<td, mpc, freed, sent, got>>
    <3>1. pc[t] = "create_clone"
          BY <1>2 DEF CreateClone
    <3>2. Rest'
          BY <2>2, <3>1, HandleAssumption
          DEF Rest, IInv, TypeOK, WordIsLife, OneCreator, CallKnown, JoinRegistered, InJoin,
              Joins, Return, Goto, Label
    <3>3. StacksCounted'
          BY <2>2, <3>1, <1>b, CountKept DEF Return, Goto, Joins
    <3>4. QED
          BY <1>a, <3>2, <3>3
  <2>3. QED
        BY <1>2, <2>1, <2>2 DEF CreateClone
<1>3. ASSUME NEW t \in Thread, CreateStore(t) PROVE IInv'
  <2>1. PICK u \in Thread : u = arg[t]
        BY <1>3 DEF CreateStore, IInv, OneCreator
  <2>2. /\ td' \in [Thread -> Descr]
        /\ \A v \in Thread : td'[v].wait = td[v].wait /\ td'[v].join_td = td[v].join_td
        BY <1>3, <2>1, <1>0, StoreTd DEF Same
  <2>3. pc[t] = "create_store" /\ Return(t) /\ UNCHANGED <<mpc, freed, sent, got>>
        BY <1>3 DEF CreateStore
  <2>4. Rest'
        BY <2>2, <2>3, HandleAssumption
        DEF Rest, IInv, TypeOK, WordIsLife, OneCreator, CallKnown, JoinRegistered, InJoin,
            Joins, Return, Goto, Label
  <2>5. StacksCounted'
        BY <2>2, <2>3, <1>b, CountKept DEF Return, Goto, Joins
  <2>6. QED
        BY <1>a, <2>4, <2>5
<1>4. ASSUME NEW t \in Thread, NEW u \in Thread, JoinCall(t, u) PROVE IInv'
  <2>1. Rest'
        BY <1>4, HandleAssumption
        DEF Rest, IInv, TypeOK, WordIsLife, OneCreator, CallKnown, JoinRegistered, InJoin,
            Joins, JoinCall, Known, Call, Goto, Label, MayJoin
  <2>2. StacksCounted'
        BY <1>4, <1>b, CountKept DEF JoinCall, Call, Goto, Joins
  <2>3. QED
        BY <1>a, <2>1, <2>2
<1>5. ASSUME NEW t \in Thread, JoinLock(t) PROVE IInv'
  <2>1. arg[t] \in Thread
        BY <1>5 DEF JoinLock, IInv, CallKnown, InJoin
  <2>2. td' \in [Thread -> Descr] /\ \A v \in Thread : Same(v)
        BY <1>5, <2>1, <1>0, LockTd
  <2>3. /\ pc[t] = "join_lock" /\ Goto(t, "join_check")
        /\ UNCHANGED <<arg, mpc, freed, sent, got>>
        BY <1>5 DEF JoinLock
  <2>4. Rest'
        BY <2>1, <2>2, <2>3, HandleAssumption
        DEF Rest, IInv, TypeOK, WordIsLife, OneCreator, CallKnown, JoinRegistered, InJoin,
            Joins, Goto, Label, Same
  <2>5. StacksCounted'
        BY <2>2, <2>3, <1>b, CountKept DEF Goto, Joins, Same
  <2>6. QED
        BY <1>a, <2>4, <2>5
<1>6. ASSUME NEW t \in Thread, JoinCheck(t) PROVE IInv'
  <2>1. PICK u \in Thread : /\ u = arg[t] /\ pc[t] = "join_check"
                            /\ pc[u] # "unborn" /\ MayJoin(t, u)
        BY <1>6 DEF JoinCheck, IInv, CallKnown, InJoin
  <2>2. /\ td' \in [Thread -> Descr]
        /\ \A v \in Thread : v # u => Same(v)
        /\ td'[u].wait = td[u].wait
        /\ td'[u].join_td = IF td[u].join_td = NULL THEN t ELSE td[u].join_td
        BY <1>6, <2>1, <1>0, CheckTd
  <2>3. CASE td[u].join_td # NULL
    <3>1. Return(t) /\ UNCHANGED <<mpc, freed, sent, got>>
          BY <1>6, <2>1, <2>3 DEF JoinCheck
    <3>2. Rest'
          BY <2>1, <2>2, <2>3, <3>1, HandleAssumption
          DEF Rest, IInv, TypeOK, WordIsLife, OneCreator, CallKnown, JoinRegistered, InJoin,
              Joins, Return, Goto, Label, Same
    <3>3. StacksCounted'
          BY <2>1, <2>2, <2>3, <3>1, <1>b, CountKept DEF Return, Goto, Joins, Same
    <3>4. QED
          BY <1>a, <3>2, <3>3
  <2>4. CASE td[u].join_td = NULL
    <3>1. PICK l \in {"join_futex", "join_mark"} :
            Goto(t, l) /\ UNCHANGED <<arg, mpc, freed, sent, got>>
          BY <1>6, <2>1, <2>4 DEF JoinCheck
    <3>2. Rest'
          BY <2>1, <2>2, <2>4, <3>1, HandleAssumption
          DEF Rest, IInv, TypeOK, WordIsLife, OneCreator, CallKnown, JoinRegistered, InJoin,
              Joins, Goto, Label, Same
    <3>3. StacksCounted'
          BY <2>1, <2>2, <2>4, <3>1, <1>0, RegisterCounted
    <3>4. QED
          BY <1>a, <3>2, <3>3
  <2>5. QED
        BY <2>3, <2>4
<1>7. ASSUME NEW t \in Thread, JoinFutex(t) PROVE IInv'
  <2>1. PICK l \in {"join_sleep", "join_woken"} :
          pc[t] = "join_futex" /\ Goto(t, l) /\ UNCHANGED <<td, arg, mpc, freed, sent, got>>
        BY <1>7 DEF JoinFutex
  <2>2. Rest'
        BY <2>1, HandleAssumption
        DEF Rest, IInv, TypeOK, WordIsLife, OneCreator, CallKnown, JoinRegistered, InJoin,
            Joins, Goto, Label
  <2>3. StacksCounted'
        BY <2>1, <1>b, CountKept DEF Goto, Joins
  <2>4. QED
        BY <1>a, <2>2, <2>3
<1>8. ASSUME NEW t \in Thread, JoinWoken(t) \/ JoinMark(t) PROVE IInv'
  <2>1. arg[t] \in Thread
        BY <1>8 DEF JoinWoken, JoinMark, IInv, CallKnown, InJoin, Joins
  <2>2. td' \in [Thread -> Descr] /\ \A v \in Thread : Same(v)
        BY <1>8, <2>1, <1>0, WokenTd, MarkTd
  <2>3. PICK l \in {"join_mark", "join_free"} :
          /\ pc[t] \in {"join_woken", "join_mark"} /\ Goto(t, l)
          /\ UNCHANGED <<arg, mpc, freed, sent, got>>
        BY <1>8 DEF JoinWoken, JoinMark
  <2>4. Rest'
        BY <2>2, <2>3, HandleAssumption
        DEF Rest, IInv, TypeOK, WordIsLife, OneCreator, CallKnown, JoinRegistered, InJoin,
            Joins, Goto, Label, Same
  <2>5. StacksCounted'
        BY <2>2, <2>3, <1>b, CountKept DEF Goto, Joins, Same
  <2>6. QED
        BY <1>a, <2>4, <2>5
<1>9. ASSUME NEW t \in Thread, JoinFree(t) PROVE IInv'
  <2>1. StacksCounted' /\ freed' \in [Thread -> 0..2]
        BY <1>9, FreeCounted
  <2>2. pc[t] = "join_free" /\ Return(t) /\ UNCHANGED <<td, mpc, sent, got>>
        BY <1>9 DEF JoinFree
  <2>3. Rest'
        BY <2>1, <2>2, HandleAssumption
        DEF Rest, IInv, TypeOK, WordIsLife, OneCreator, CallKnown, JoinRegistered, InJoin,
            Joins, Return, Goto, Label
  <2>4. QED
        BY <1>a, <2>1, <2>3
<1>10. ASSUME NEW t \in Thread, ThreadExit(t) PROVE IInv'
  <2>1. td' \in [Thread -> Descr] /\ \A v \in Thread : Same(v)
        BY <1>10, <1>0, ExitTd
  <2>2. /\ pc[t] = "client" /\ Goto(t, "exiting")
        /\ UNCHANGED <<arg, mpc, freed, sent, got>>
        BY <1>10 DEF ThreadExit, StartReturns
  <2>3. TypeOK' /\ WordIsLife'
        BY <2>1, <2>2 DEF IInv, TypeOK, WordIsLife, Goto, Label, Same
  <2>4. OneCreator'
        BY <2>2, <1>b, HandleAssumption DEF IInv, OneCreator, Goto
  <2>5. CallKnown' /\ JoinRegistered'
        BY <2>1, <2>2, <1>b DEF IInv, CallKnown, JoinRegistered, InJoin, Joins, Goto, Same
  <2>6. StacksCounted'
        BY <2>1, <2>2, <1>b, CountKept DEF Goto, Joins, Same
  <2>7. QED
        BY <1>a, <2>3, <2>4, <2>5, <2>6 DEF Rest
<1>11. ASSUME NEW t \in Thread, KernelExit(t) PROVE IInv'
  <2>1. /\ td' \in [Thread -> Descr]
        /\ \A v \in Thread : v # t => Same(v)
        /\ td'[t].wait = ZERO
        /\ td'[t].join_td = td[t].join_td
        BY <1>11, <1>0, EndTd
  <2>2. /\ pc[t] = "exiting" /\ UNCHANGED <<arg, mpc, freed, sent, got>>
        /\ pc'[t] = "gone" /\ pc' \in [Thread -> Label]
        /\ \A v \in Thread \ {t} :
             pc'[v] = pc[v] \/ (pc[v] = "join_sleep" /\ pc'[v] = "join_woken")
        BY <1>11, <1>b DEF KernelExit, Sleepers, Goto, Label
  <2>3. TypeOK' /\ WordIsLife'
        BY <2>1, <2>2 DEF IInv, TypeOK, WordIsLife, Same, ZERO, TID
  <2>4. OneCreator'
        BY <2>2, HandleAssumption DEF IInv, OneCreator
  <2>5. CallKnown' /\ JoinRegistered'
        BY <2>1, <2>2 DEF IInv, CallKnown, JoinRegistered, InJoin, Joins, Same
  <2>6. StacksCounted'
        BY <2>1, <2>2, CountKept DEF Joins, Same
  <2>7. QED
        BY <1>a, <2>3, <2>4, <2>5, <2>6 DEF Rest
<1>12. ASSUME NEW t \in Thread, NEW u \in Thread, KillCall(t, u) PROVE IInv'
  <2>1. Rest'
        BY <1>12, HandleAssumption
        DEF Rest, IInv, TypeOK, WordIsLife, OneCreator, CallKnown, JoinRegistered, InJoin,
            Joins, KillCall, Known, Call, Goto, Label, MayKill
  <2>2. StacksCounted'
        BY <1>12, <1>b, CountKept DEF KillCall, Call, Goto, Joins
  <2>3. QED
        BY <1>a, <2>1, <2>2
<1>13. ASSUME NEW t \in Thread, KillSend(t) PROVE IInv'
  <2>1. PICK u \in Thread : u = arg[t] /\ pc[t] = "kill_send"
        BY <1>13 DEF KillSend, IInv, CallKnown
  <2>2. /\ UNCHANGED <<td, mpc, freed>> /\ arg' = [arg EXCEPT ![t] = NULL]
        /\ sent' = sent \cup {u} /\ got' \in {got, got \cup {u}}
        /\ pc'[t] = "client" /\ pc' \in [Thread -> Label]
        /\ \A v \in Thread \ {t} :
             pc'[v] = pc[v] \/ (pc[v] = "join_sleep" /\ pc'[v] = "join_woken")
        BY <1>13, <1>b, <2>1 DEF KillSend, Goto, Label
  <2>3. TypeOK' /\ WordIsLife'
        BY <2>1, <2>2, HandleAssumption DEF IInv, TypeOK, WordIsLife
  <2>4. OneCreator'
        BY <2>1, <2>2, <1>b, HandleAssumption DEF IInv, OneCreator
  <2>5. CallKnown' /\ JoinRegistered'
        BY <2>1, <2>2, <1>b DEF IInv, CallKnown, JoinRegistered, InJoin, Joins
  <2>6. StacksCounted'
        BY <2>1, <2>2, <1>b, CountKept DEF Joins
  <2>7. QED
        BY <1>a, <2>3, <2>4, <2>5, <2>6 DEF Rest
<1>14. CASE MainCreate
  <2>1. pc[Main] = "unborn" /\ Main \in Thread
        BY <1>14, HandleAssumption DEF MainCreate, IInv, OneCreator
  <2>2. Rest'
        BY <1>14, <2>1, HandleAssumption
        DEF Rest, IInv, TypeOK, WordIsLife, OneCreator, CallKnown, JoinRegistered, InJoin,
            Joins, MainCreate, MainLabel, td_init, Descr, ZERO, TID, JUNK
  <2>3. td[Main].join_td = NULL
        BY <2>1 DEF IInv, JoinRegistered
  <2>4. StacksCounted'
        BY <1>14, <1>b, <2>1, <2>3, CountKept DEF MainCreate, td_init, Joins
  <2>5. QED
        BY <1>a, <2>2, <2>4
<1>15. CASE MainClone
  <2>0. pc[Main] = "unborn" /\ Main \in Thread
        BY <1>15, HandleAssumption DEF MainClone, IInv, OneCreator
  <2>1. /\ td' \in [Thread -> Descr]
        /\ \A v \in Thread : v # Main => Same(v)
        /\ td'[Main].wait = TID
        /\ td'[Main].join_td = td[Main].join_td
        BY <1>15, <2>0, <1>0, CloneTd DEF MainClone
  <2>2. /\ mpc = "clone" /\ mpc' = "store" /\ pc' = [pc EXCEPT ![Main] = "client"]
        /\ UNCHANGED <<arg, freed, sent, got>>
        BY <1>15 DEF MainClone, Goto
  <2>3. TypeOK' /\ WordIsLife'
        BY <2>0, <2>1, <2>2
        DEF IInv, TypeOK, WordIsLife, Same, Label, MainLabel, ZERO, TID
  <2>4. OneCreator'
        BY <2>0, <2>2, <1>b DEF IInv, OneCreator
  <2>5. CallKnown' /\ JoinRegistered'
        BY <2>0, <2>1, <2>2, <1>b DEF IInv, CallKnown, JoinRegistered, InJoin, Joins, Same
  <2>6. StacksCounted'
        BY <2>0, <2>1, <2>2, <1>b, CountKept DEF Joins, Same
  <2>7. QED
        BY <1>a, <2>3, <2>4, <2>5, <2>6 DEF Rest
<1>16. CASE MainStore
  <2>1. /\ td' \in [Thread -> Descr]
        /\ \A v \in Thread : td'[v].wait = td[v].wait /\ td'[v].join_td = td[v].join_td
        BY <1>16, <1>0, MainStoreTd DEF Same
  <2>2. mpc = "store" /\ mpc' = "spin" /\ UNCHANGED <<pc, arg, freed, sent, got>>
        BY <1>16 DEF MainStore
  <2>3. Rest'
        BY <2>1, <2>2, HandleAssumption
        DEF Rest, IInv, TypeOK, WordIsLife, OneCreator, CallKnown, JoinRegistered, InJoin,
            Joins, MainLabel
  <2>4. StacksCounted'
        BY <2>1, <2>2, CountKept DEF Joins
  <2>5. QED
        BY <1>a, <2>3, <2>4
<1>17. CASE MainSpin \/ MainReturn
  <2>1. /\ UNCHANGED <<td, pc, arg, freed, sent, got>>
        /\ \/ mpc = "spin" /\ mpc' = "free" /\ td[Main].wait = ZERO
           \/ mpc = "return" /\ mpc' = "done"
        BY <1>17 DEF MainSpin, MainReturn
  <2>2. Rest'
        BY <2>1, HandleAssumption
        DEF Rest, IInv, TypeOK, WordIsLife, OneCreator, CallKnown, JoinRegistered, InJoin,
            Joins, MainLabel, ZERO, TID
  <2>3. StacksCounted'
        BY <2>1, CountKept DEF Joins
  <2>4. QED
        BY <1>a, <2>2, <2>3
<1>18. CASE MainFree
  <2>1. StacksCounted' /\ freed' \in [Thread -> 0..2]
        BY <1>18, MainFreeCounted
  <2>2. mpc = "free" /\ mpc' = "return" /\ UNCHANGED <<td, pc, arg, sent, got>>
        BY <1>18 DEF MainFree
  <2>3. Rest'
        BY <2>1, <2>2, HandleAssumption
        DEF Rest, IInv, TypeOK, WordIsLife, OneCreator, CallKnown, JoinRegistered, InJoin,
            Joins, MainLabel
  <2>4. QED
        BY <1>a, <2>1, <2>3
<1>19. CASE UNCHANGED vars
  <2>1. Rest'
        BY <1>19
        DEF Rest, IInv, TypeOK, WordIsLife, OneCreator, CallKnown, JoinRegistered, InJoin,
            Joins, vars
  <2>2. StacksCounted'
        BY <1>19, CountKept DEF Joins, vars
  <2>3. QED
        BY <1>a, <2>1, <2>2
<1>20. QED
      BY <1>1, <1>2, <1>3, <1>4, <1>5, <1>6, <1>7, <1>8, <1>9, <1>10, <1>11,
         <1>12, <1>13, <1>14, <1>15, <1>16, <1>17, <1>18, <1>19
      DEF Next, MainStep, Library, Client, Finished

\* The wait words, the creators, the joining threads and the count of the stacks
\* unmapped stay consistent, whatever the clients do.
THEOREM Invariance == Spec => []IInv
<1>1. IInv /\ [Next]_vars => IInv'
      BY NextIInv
<1>2. QED
      BY <1>1, InitIInv, PTL DEF Spec

\* thread_join: the thread that registers with a target unmaps its stack once, also
\* when a signal ends its wait, a handle is used before its ktid is stored, or other
\* joins are refused.
THEOREM JoinerUnmaps == Spec => []JoinerFrees
<1>1. IInv => JoinerFrees
      BY DEF IInv, StacksCounted
<1>2. QED
      BY <1>1, Invariance, PTL

\* Concurrent joins and main() unmap a stack once, if thread_main is not joined.
THEOREM FreeOnce == ASSUME MainUnjoined PROVE Spec => []FreedOnce
<1>1. IInv => FreedOnce
  <2> SUFFICES ASSUME IInv, NEW u \in Thread
               PROVE freed[u] <= 1
      BY DEF FreedOnce
  <2>1. CASE u # Main
        BY <2>1 DEF IInv, StacksCounted, JoinerFrees
  <2>2. CASE u = Main
    <3>1. td[Main].join_td \in Thread \cup {NULL} /\ freed[Main] \in Nat
          BY HandleAssumption DEF IInv, TypeOK, Descr
    <3>2. td[Main].join_td = NULL
          BY <3>1, HandleAssumption DEF IInv, JoinRegistered, MayJoin, MainUnjoined
    <3>3. QED
          BY <2>2, <3>1, <3>2 DEF IInv, StacksCounted, JoinPast
  <2>3. QED
        BY <2>1, <2>2
<1>2. QED
      BY <1>1, Invariance, PTL

-----------------------------------------------------------------------------
(* What is kept for disciplined clients                                    *)

\* A step keeps DInv that leaves who is in a join, and how far, alone; it lets no
\* thread that is over come back, forgets no ktid of a thread that was started and
\* unmaps nothing.
LEMMA JoinsStay ==
  ASSUME IInv, DInv, freed' = freed,
         \A t \in Thread : InJoin(t)' => pc'[t] = pc[t] /\ arg'[t] = arg[t],
         \A u \in Thread : pc[u] # "unborn" =>
           /\ pc'[u] = "gone" <=> pc[u] = "gone"
           /\ td[u].ktid = TID => td'[u].ktid = TID,
         \A u \in Thread : pc[u] = "gone" => pc'[u] = "gone"
  PROVE  DInv'
<1>1. \A t \in Thread : InJoin(t)' => InJoin(t)
      BY DEF InJoin, Joins
<1>2. JoinKnown'
      BY <1>1 DEF IInv, CallKnown, DInv, JoinKnown
<1>3. SleepWhileAlive'
      BY <1>1 DEF IInv, CallKnown, DInv, SleepWhileAlive, InJoin, Joins
<1>4. JoinAfterExit'
      BY <1>1 DEF IInv, CallKnown, DInv, JoinAfterExit, InJoin, Joins
<1>5. StackInUse'
      BY DEF DInv, StackInUse
<1>6. QED
      BY <1>2, <1>3, <1>4, <1>5 DEF DInv

\* Init satisfies what is added.
LEMMA InitDInv == Init => DInv
<1> SUFFICES ASSUME Init PROVE DInv
      OBVIOUS
<1>1. \A t \in Thread : pc[t] = "unborn" /\ freed[t] = 0
      BY DEF Init
<1>2. QED
      BY <1>1
      DEF DInv, JoinKnown, SleepWhileAlive, JoinAfterExit, StackInUse, InJoin, Joins

\* A thread that is signalled is not in a join.
LEMMA SignalledApart ==
  ASSUME Disciplined, IInv, NEW t \in Thread, pc[t] = "kill_send"
  PROVE  pc[arg[t]] # "join_sleep"
<1> SUFFICES ASSUME pc[arg[t]] = "join_sleep" PROVE FALSE
      OBVIOUS
<1>1. PICK u \in Thread : u = arg[t] /\ <<t, u>> \in KillPairs
      BY DEF IInv, CallKnown, MayKill
<1>2. PICK v \in Thread : <<u, v>> \in JoinPairs
      BY <1>1 DEF IInv, CallKnown, MayJoin, InJoin, Joins
<1>3. <<t, u>>[2] # <<u, v>>[1]
      BY <1>1, <1>2 DEF Disciplined
<1>4. QED
      BY <1>3

\* Every step keeps what is added.
LEMMA NextDInv ==
  ASSUME Disciplined, IInv, DInv, [Next]_vars
  PROVE  DInv'
<1>0. TypeOK
      BY DEF IInv
<1>b. /\ td \in [Thread -> Descr] /\ pc \in [Thread -> Label]
      /\ arg \in [Thread -> Thread \cup {NULL}]
      BY <1>0 DEF TypeOK
<1>1. ASSUME NEW t \in Thread, NEW u \in Thread, CreateCall(t, u) PROVE DInv'
      BY <1>1, <1>b, JoinsStay DEF CreateCall, Call, Goto, InJoin, Joins
<1>2. ASSUME NEW t \in Thread, CreateClone(t) PROVE DInv'
  <2>1. PICK u \in Thread : u = arg[t] /\ pc[u] = "unborn" /\ pc[t] = "create_clone"
        BY <1>2 DEF CreateClone, IInv, OneCreator
  <2>2. CASE /\ clone(u) /\ UNCHANGED <<arg, freed>>
             /\ pc' = [pc EXCEPT ![u] = "client", ![t] = "create_store"]
    <3>1. \A v \in Thread : td'[v].ktid = td[v].ktid
          BY <2>1, <2>2, <1>0, CloneTd DEF Same
    <3>2. QED
          BY <2>1, <2>2, <3>1, <1>b, JoinsStay DEF InJoin, Joins
  <2>3. CASE Return(t) /\ UNCHANGED <<td, freed>>
        BY <2>1, <2>3, <1>b, JoinsStay DEF Return, Goto, InJoin, Joins
  <2>4. QED
        BY <1>2, <2>1, <2>2, <2>3 DEF CreateClone
<1>3. ASSUME NEW t \in Thread, CreateStore(t) PROVE DInv'
  <2>1. arg[t] \in Thread
        BY <1>3 DEF CreateStore, IInv, OneCreator
  <2>2. \A v \in Thread : td[v].ktid = TID => td'[v].ktid = TID
        BY <1>3, <2>1, <1>0, StoreTd DEF Same
  <2>3. QED
        BY <1>3, <2>2, <1>b, JoinsStay DEF CreateStore, Return, Goto, InJoin, Joins
<1>4. ASSUME NEW t \in Thread, NEW u \in Thread, JoinCall(t, u) PROVE DInv'
  <2>1. /\ td[u].ktid = TID /\ pc[t] = "client" /\ UNCHANGED <<td, freed>>
        /\ pc' = [pc EXCEPT ![t] = "join_lock"] /\ arg' = [arg EXCEPT ![t] = u]
        BY <1>4 DEF JoinCall, Known, Disciplined, Call, Goto
  <2>2. JoinKnown'
        BY <2>1, <1>b DEF DInv, JoinKnown, InJoin, Joins
  <2>3. SleepWhileAlive' /\ JoinAfterExit'
        BY <2>1, <1>b DEF IInv, CallKnown, DInv, SleepWhileAlive, JoinAfterExit, InJoin, Joins
  <2>4. StackInUse'
        BY <2>1, <1>b DEF DInv, StackInUse
  <2>5. QED
        BY <2>2, <2>3, <2>4 DEF DInv
<1>5. ASSUME NEW t \in Thread, JoinLock(t) \/ JoinWoken(t) \/ JoinMark(t) PROVE DInv'
  <2>1. arg[t] \in Thread
        BY <1>5 DEF JoinLock, JoinWoken, JoinMark, IInv, CallKnown, InJoin, Joins
  <2>2. \A v \in Thread : td'[v].ktid = td[v].ktid
        BY <1>5, <2>1, <1>0, LockTd, WokenTd, MarkTd DEF Same
  <2>3. PICK l \in {"join_check", "join_mark", "join_free"} :
          /\ pc' = [pc EXCEPT ![t] = l] /\ UNCHANGED <<arg, freed>>
          /\ \/ pc[t] = "join_lock" /\ l = "join_check"
             \/ pc[t] \in {"join_woken", "join_mark"} /\ l # "join_check"
        BY <1>5 DEF JoinLock, JoinWoken, JoinMark, Goto
  <2>4. JoinKnown'
        BY <2>2, <2>3, <1>b DEF IInv, CallKnown, DInv, JoinKnown, InJoin, Joins
  <2>5. SleepWhileAlive' /\ JoinAfterExit' /\ StackInUse'
        BY <2>3, <1>b DEF IInv, CallKnown, DInv, SleepWhileAlive, JoinAfterExit, StackInUse,
           InJoin, Joins
  <2>6. QED
        BY <2>4, <2>5 DEF DInv
<1>6. ASSUME NEW t \in Thread, JoinCheck(t) PROVE DInv'
  <2>1. PICK u \in Thread : u = arg[t] /\ pc[t] = "join_check" /\ pc[u] # "unborn"
        BY <1>6 DEF JoinCheck, IInv, CallKnown, InJoin
  <2>2. \A v \in Thread : td'[v].ktid = td[v].ktid
        BY <1>6, <2>1, <1>0, CheckTd DEF Same
  <2>3. CASE Return(t) /\ freed' = freed
        BY <2>1, <2>2, <2>3, <1>b, JoinsStay DEF Return, Goto, InJoin, Joins
  <2>4. CASE \E l \in {"join_futex", "join_mark"} :
               /\ pc' = [pc EXCEPT ![t] = l] /\ UNCHANGED <<arg, freed>>
               /\ l = "join_mark" => td[u].wait = ZERO
    <3>1. PICK l \in {"join_futex", "join_mark"} :
            /\ pc' = [pc EXCEPT ![t] = l] /\ UNCHANGED <<arg, freed>>
            /\ l = "join_mark" => td[u].wait = ZERO
          BY <2>4
    <3>2. l = "join_mark" => pc[u] = "gone"
          BY <2>1, <3>1 DEF IInv, WordIsLife, ZERO, TID
    <3>3. JoinKnown'
          BY <2>1, <2>2, <3>1, <1>b DEF IInv, CallKnown, DInv, JoinKnown, InJoin, Joins
    <3>4. SleepWhileAlive' /\ JoinAfterExit' /\ StackInUse'
          BY <2>1, <3>1, <3>2, <1>b DEF IInv, CallKnown, DInv, SleepWhileAlive,
             JoinAfterExit, StackInUse, InJoin, Joins
    <3>5. QED
          BY <3>3, <3>4 DEF DInv
  <2>5. QED
        BY <1>6, <2>1, <2>3, <2>4 DEF JoinCheck, Goto
<1>7. ASSUME NEW t \in Thread, JoinFutex(t) PROVE DInv'
  <2>1. PICK u \in Thread : /\ u = arg[t] /\ pc[t] = "join_futex" /\ pc[u] # "unborn"
                            /\ td[u].ktid = TID
        BY <1>7 DEF JoinFutex, IInv, CallKnown, DInv, JoinKnown, InJoin, Joins
  <2>2. PICK l \in {"join_sleep", "join_woken"} :
          /\ pc' = [pc EXCEPT ![t] = l] /\ UNCHANGED <<td, arg, freed>>
          /\ l = "join_sleep" <=> td[u].wait = TID
        BY <1>7, <2>1 DEF JoinFutex, Goto
  <2>3. l = "join_woken" <=> pc[u] = "gone"
        BY <2>1, <2>2 DEF IInv, WordIsLife
  <2>4. JoinKnown'
        BY <2>2, <2>1, <1>b DEF DInv, JoinKnown, InJoin, Joins
  <2>5. SleepWhileAlive' /\ JoinAfterExit' /\ StackInUse'
        BY <2>1, <2>2, <2>3, <1>b DEF IInv, CallKnown, DInv, SleepWhileAlive,
           JoinAfterExit, StackInUse, InJoin, Joins
  <2>6. QED
        BY <2>4, <2>5 DEF DInv
<1>8. ASSUME NEW t \in Thread, JoinFree(t) PROVE DInv'
  <2>1. PICK u \in Thread : u = arg[t] /\ pc[t] = "join_free" /\ pc[u] = "gone"
        BY <1>8 DEF JoinFree, IInv, CallKnown, DInv, JoinAfterExit, InJoin, Joins
  <2>2. /\ pc' = [pc EXCEPT ![t] = "client"] /\ arg' = [arg EXCEPT ![t] = NULL]
        /\ td' = td /\ \A v \in Thread \ {u} : freed'[v] = freed[v]
        BY <1>8, <2>1 DEF JoinFree, Return, Goto, IInv, TypeOK
  <2>3. JoinKnown' /\ SleepWhileAlive' /\ JoinAfterExit'
        BY <2>1, <2>2, <1>b DEF IInv, CallKnown, DInv, JoinKnown, SleepWhileAlive,
           JoinAfterExit, InJoin, Joins
  <2>4. StackInUse'
        BY <2>1, <2>2, <1>b DEF DInv, StackInUse
  <2>5. QED
        BY <2>3, <2>4 DEF DInv
<1>9. ASSUME NEW t \in Thread, ThreadExit(t) PROVE DInv'
  <2>1. \A v \in Thread : td'[v].ktid = td[v].ktid
        BY <1>9, <1>0, ExitTd DEF Same
  <2>2. QED
        BY <1>9, <2>1, <1>b, JoinsStay DEF ThreadExit, StartReturns, Goto, InJoin, Joins
<1>10. ASSUME NEW t \in Thread, KernelExit(t) PROVE DInv'
  <2>1. \A v \in Thread : td'[v].ktid = td[v].ktid
        BY <1>10, <1>0, EndTd DEF Same
  <2>2. /\ pc[t] = "exiting" /\ pc'[t] = "gone" /\ UNCHANGED <<arg, freed>>
        /\ \A v \in Thread \ {t} :
             \/ pc'[v] = pc[v]
             \/ pc[v] = "join_sleep" /\ arg[v] = t /\ pc'[v] = "join_woken"
        BY <1>10, <1>b DEF KernelExit, Sleepers, Goto
  <2>3. \A v \in Thread : pc[v] = "join_sleep" /\ arg[v] = t => pc'[v] # "join_sleep"
    <3> SUFFICES ASSUME NEW v \in Thread, v \in Sleepers(t) PROVE pc'[v] # "join_sleep"
        BY DEF Sleepers
    <3>1. PICK w \in Sleepers(t) : pc' = [pc EXCEPT ![t] = "gone", ![w] = "join_woken"]
          BY <1>10 DEF KernelExit
    <3>2. w \in Thread /\ pc[w] = "join_sleep" /\ arg[w] = t
          BY <3>1 DEF Sleepers
    <3>3. pc[v] = "join_sleep" /\ arg[v] = t
          BY DEF Sleepers
    <3>4. v = td[t].join_td /\ w = td[t].join_td
          BY <3>2, <3>3 DEF IInv, JoinRegistered, Joins
    <3>5. QED
          BY <3>1, <3>2, <3>4, <1>b
  <2>4. JoinKnown'
        BY <2>1, <2>2 DEF IInv, CallKnown, DInv, JoinKnown, InJoin, Joins
  <2>5. SleepWhileAlive'
        BY <2>2, <2>3 DEF IInv, CallKnown, DInv, SleepWhileAlive, InJoin, Joins
  <2>6. JoinAfterExit'
        BY <2>2 DEF IInv, CallKnown, DInv, JoinAfterExit, InJoin, Joins
  <2>7. StackInUse'
        BY <2>2 DEF DInv, StackInUse
  <2>8. QED
        BY <2>4, <2>5, <2>6, <2>7 DEF DInv
<1>11. ASSUME NEW t \in Thread, NEW u \in Thread, KillCall(t, u) PROVE DInv'
      BY <1>11, <1>b, JoinsStay DEF KillCall, Call, Goto, InJoin, Joins
<1>12. ASSUME NEW t \in Thread, KillSend(t) PROVE DInv'
  <2>1. pc[t] = "kill_send" /\ pc[arg[t]] # "join_sleep"
        BY <1>12, SignalledApart DEF KillSend
  <2>2. /\ pc' = [pc EXCEPT ![t] = "client"] /\ arg' = [arg EXCEPT ![t] = NULL]
        /\ UNCHANGED <<td, freed>>
        BY <1>12, <2>1 DEF KillSend, Goto
  <2>3. QED
        BY <2>1, <2>2, <1>b, JoinsStay DEF InJoin, Joins
<1>13. CASE MainCreate
  <2>1. pc[Main] = "unborn"
        BY <1>13 DEF MainCreate, IInv, OneCreator
  <2>2. QED
        BY <1>13, <2>1, <1>b, JoinsStay DEF MainCreate, InJoin, Joins
<1>14. CASE MainClone
  <2>1. pc[Main] = "unborn" /\ Main \in Thread
        BY <1>14, HandleAssumption DEF MainClone, IInv, OneCreator
  <2>2. \A v \in Thread : td'[v].ktid = td[v].ktid
        BY <1>14, <2>1, <1>0, CloneTd DEF MainClone, Same
  <2>3. QED
        BY <1>14, <2>1, <2>2, <1>b, JoinsStay DEF MainClone, Goto, InJoin, Joins
<1>15. CASE MainStore
  <2>1. \A v \in Thread : td[v].ktid = TID => td'[v].ktid = TID
        BY <1>15, <1>0, MainStoreTd DEF Same
  <2>2. QED
        BY <1>15, <2>1, <1>b, JoinsStay DEF MainStore, InJoin, Joins
<1>16. CASE MainSpin \/ MainReturn
      BY <1>16, JoinsStay DEF MainSpin, MainReturn, InJoin, Joins
<1>17. CASE MainFree
  <2>1. pc[Main] = "gone" /\ UNCHANGED <<td, pc, arg>>
        BY <1>17 DEF MainFree, IInv, OneCreator
  <2>2. \A v \in Thread \ {Main} : freed'[v] = freed[v]
        BY <1>17 DEF MainFree, IInv, TypeOK
  <2>3. QED
        BY <2>1, <2>2 DEF DInv, JoinKnown, SleepWhileAlive, JoinAfterExit, StackInUse,
           InJoin, Joins
<1>18. CASE UNCHANGED vars
      BY <1>18, JoinsStay DEF vars, InJoin, Joins
<1>19. QED
      BY <1>1, <1>2, <1>3, <1>4, <1>5, <1>6, <1>7, <1>8, <1>9, <1>10, <1>11,
         <1>12, <1>13, <1>14, <1>15, <1>16, <1>17, <1>18
      DEF Next, MainStep, Library, Client, Finished

\* With disciplined clients a join waits for the end of its target, which finds no
\* sleeper left, and stacks are there while somebody runs on them.
THEOREM DisciplinedInvariance == ASSUME Disciplined PROVE Spec => [](IInv /\ DInv)
<1>1. IInv /\ DInv /\ [Next]_vars => DInv'
      BY NextDInv
<1>2. QED
      BY <1>1, InitDInv, Invariance, PTL DEF Spec

\* thread_join reads the return value, and frees the stack, of a target that
\* the kernel has ended, although its futex wait is not repeated.
THEOREM JoinWaits == ASSUME Disciplined PROVE Spec => []JoinAfterExit
<1>1. DInv => JoinAfterExit
      BY DEF DInv
<1>2. QED
      BY <1>1, DisciplinedInvariance, PTL

\* Neither thread_join nor main() unmaps a stack that its thread runs on.
THEOREM StackSafe == ASSUME Disciplined PROVE Spec => []StackInUse
<1>1. DInv => StackInUse
      BY DEF DInv
<1>2. QED
      BY <1>1, DisciplinedInvariance, PTL

\* No joiner sleeps on the wait word of a thread that is over: the end of the
\* target between the check and the futex call is noticed.
THEOREM SleeperWoken == ASSUME Disciplined PROVE Spec => []NoSleepOnOver
<1>1. DInv => NoSleepOnOver
      BY DEF DInv, SleepWhileAlive, NoSleepOnOver, Sleepers
<1>2. QED
      BY <1>1, DisciplinedInvariance, PTL
=============================================================================
