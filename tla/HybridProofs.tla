---------------------------- MODULE HybridProofs ----------------------------
(***************************************************************************)
(* The hybrid library keeps its safety properties for every set of threads *)
(* of either type, every set of kernel threads and every client.  The      *)
(* parts of the inductive invariant IInv come first, then lemmas on what a *)
(* step does to the fields, the lists and the locks, then one lemma        *)
(* <Action>Keeps per action, and the theorems.  What thread_join and the   *)
(* freeing of stacks need besides, under a discipline of the client, is a  *)
(* second and smaller induction (JInv) at the end.                         *)
(***************************************************************************)
EXTENDS Hybrid, TLAPS

(* The places of a thread, by what holds there                             *)

\* thread_create has not started the new thread yet.
NewPc == {"create_clone", "create_lock", "create_enq"}

\* The thread is registered with the target of its thread_join, and has not
\* stopped waiting for it.
WaiterPc == {"join_check", "join_futex", "join_sleep", "join_parked", "join_done"}

\* The thread is registered with the target of its thread_join.
JoinerPc == WaiterPc \cup {"join_free"}

JoinPc == JoinerPc \cup {"join_lock", "join_refuse"}

KillPc == {"kill_lock", "kill_set"}

\* thread_exit of a one-one thread.
ExitPc == {"exit_lock", "exit_check", "exit_list", "exit_enq", "exiting", "gone"}

\* The places of a many-many thread that has gone back to its dispatcher.
AwayPc == {"join_parked", "yielded", "exited"}

\* The places of a many-many thread that is in its context and cannot be preempted.
OnCpuPc == {"create_lock", "create_enq", "join_lock", "join_check", "join_done",
            "kill_lock", "kill_set"}

\* The dispatcher has set the wait word of its thread.
OverPc == {"exit_check", "futex_wake", "wake_lock", "wake"}

IdlePc == {"loop", "get_lock", "get", "returned"}

\* The dispatcher that t came back to has not yet looked at its state.
Posting(t) == \E k \in KThread : kt[k].cur = t /\ kt[k].pc = "post"

\* t is neither in the ready list nor on a kernel thread.
Off(t) == ~Ready(t) /\ ~Dispatched(t)

-----------------------------------------------------------------------------
(* The parts of the invariant                                              *)

Distinct(s) == \A i, j \in 1..Len(s) : s[i] = s[j] => i = j

\* OnePlace, in the words of this module.
Places ==
  /\ Distinct(mmrll)
  /\ \A k, l \in KThread : kt[k].cur = kt[l].cur /\ kt[k].cur # NULL => k = l
  /\ \A t \in Thread : Ready(t) => ~Dispatched(t)

\* What the place l and the argument a of t say of the state s, the wait target f
\* and the interrupt flag i in its descriptor.  A joiner that a signal has
\* woken may set its target JOINED wherever the target is.
Agrees(t, l, a, s, f, i) ==
  /\ l \in NewPc \cup JoinPc \cup {"create_store"} => a \in Thread \ {t}
  /\ l \in KillPc => a \in Thread \X Signal
  /\ l \in ExitPc \cup {"join_futex", "join_sleep"} => t \in OneOne
  /\ l \in AwayPc => t \in MMThread
  /\ l \in {"join_check", "join_parked", "exited"} => s # "RUNNING"
  /\ s = "WAIT_JOIN" => l \in WaiterPc
  /\ s = "EXITED" => l \in ExitPc \cup {"exited"}
  /\ l \in OnCpuPc \cup AwayPc /\ t \in MMThread => i
  /\ l \in WaiterPc => f = a

Descriptors ==
  \A t \in Thread : Agrees(t, ut[t].pc, ut[t].arg, td[t].state, td[t].wait_join_td,
                           td[t].intr_off)

\* The place of a dispatcher agrees with the place of its thread.
Dispatchers ==
  /\ \A k \in KThread : kt[k].cur = NULL <=> kt[k].pc \in IdlePc
  /\ \A k \in KThread, t \in Thread : kt[k].cur = t =>
       /\ kt[k].pc \in OverPc \cup {"exit_lock", "exit_over"} => ut[t].pc = "exited"
       /\ kt[k].pc \in {"sig_lock", "sig_send", "enq_lock", "enq"} =>
            ut[t].pc \notin {"join_parked", "exited"}
       /\ kt[k].pc \in {"run", "user"} => ut[t].pc # "exited"
       /\ kt[k].pc \in OverPc <=> ~td[t].wait
  /\ \A t \in MMThread : /\ ut[t].pc \in OnCpuPc => Runs(t)
                         /\ ut[t].pc = "exited" => ~Ready(t)
                         /\ ~td[t].wait => ut[t].pc = "exited"

\* A handle is unborn until one thread_create has started its thread, and is used
\* by others only after it.
Births ==
  /\ \A u \in Thread : ut[u].pc = "unborn" =>
       ~td[u].given /\ td[u].join_td = NULL /\ (td[u].wait <=> u \in MMThread) /\ Off(u)
  /\ \A t \in Thread, u \in Thread : ut[t].arg = u =>
       /\ ut[t].pc \in NewPc => ut[u].pc = "unborn" /\ u # Main
       /\ ut[t].pc = "create_clone" => u \in OneOne
       /\ ut[t].pc \in {"create_lock", "create_enq"} => u \in MMThread
       /\ ut[t].pc = "create_store" => ut[u].pc # "unborn"
       /\ ut[t].pc \in JoinPc => td[u].given
  /\ \A t \in Thread : ut[t].pc \in KillPc => td[ut[t].arg[1]].given
  /\ \A t, s \in Thread :
       ut[t].pc \in NewPc /\ ut[s].pc \in NewPc /\ ut[t].arg = ut[s].arg => t = s
  /\ mpc = "create" <=> ut[Main].pc = "unborn"

\* t, or the dispatcher k, has taken the lock of the descriptor u and not released
\* it; the lock a parked joiner holds is released by its dispatcher.
HoldsT(t, u) ==
  \/ ut[t].pc \in {"join_refuse", "join_check"} /\ ut[t].arg = u
  \/ ut[t].pc = "join_parked" /\ Posting(t) /\ ut[t].arg = u
  \/ ut[t].pc = "kill_set" /\ ut[t].arg[1] = u
  \/ ut[t].pc = "exit_check" /\ t = u

HoldsK(k, u) == kt[k].pc \in {"sig_send", "exit_over", "exit_check"} /\ kt[k].cur = u

Locks ==
  /\ \A t, u \in Thread : HoldsT(t, u) => td[u].mem_lock = t
  /\ \A k \in KThread, u \in Thread : HoldsK(k, u) => td[u].mem_lock = k
  /\ \A t \in MMThread, u \in Thread : td[u].mem_lock = t => HoldsT(t, u)
  /\ \A t \in MMThread : mmrll_lk = t => ut[t].pc = "create_enq"

\* The end of x has not yet looked for the joiner of x.
Unwoken(x) ==
  IF x \in OneOne THEN ut[x].pc \notin {"exit_list", "exit_enq", "exiting", "gone"}
  ELSE td[x].wait \/ \E k \in KThread : kt[k].cur = x /\ kt[k].pc = "exit_check"

\* The end of x has found a many-many joiner and not yet made it ready.
Waking(x) ==
  \/ ut[x].pc \in {"exit_list", "exit_enq"}
  \/ \E k \in KThread : kt[k].cur = x /\ kt[k].pc \in {"wake_lock", "wake"}

\* j is about to park itself in its join of x, or has done so.
Parks(j, x) ==
  /\ ut[j].arg = x
  /\ \/ ut[j].pc = "join_check"
     \/ /\ ut[j].pc = "join_parked" /\ ~Ready(j)
        /\ Dispatched(j) => Posting(j)

\* Who joins whom.  A many-many joiner stays parked until the end of its target
\* finds it, and is made ready once.
Joiners ==
  /\ \A t, u \in Thread : ut[t].pc \in JoinerPc /\ ut[t].arg = u => td[u].join_td = t
  /\ \A u \in OneOne : ~td[u].wait /\ ut[u].pc # "unborn" => ut[u].pc = "gone"
  /\ \A x \in Thread, j \in MMThread : td[x].join_td = j /\ Unwoken(x) => Parks(j, x)
  /\ \A x \in Thread : Waking(x) =>
       \E j \in MMThread : /\ td[x].join_td = j /\ ut[j].arg = x
                           /\ ut[j].pc = "join_parked" /\ Off(j)
  /\ \A t, u \in Thread : ut[t].pc = "join_sleep" /\ ut[t].arg = u =>
       td[u].wait \/ \E k \in KThread : kt[k].cur = u /\ kt[k].pc \in {"exit_check", "futex_wake"}

\* main() has passed the point where it frees the stack of thread_main.
Spent(u) == IF u = Main /\ mpc \in {"deinit", "reap", "done"} THEN 1 ELSE 0

\* A stack is freed by the one thread that joins and, that of thread_main, by main().
Frees ==
  \A u \in Thread :
    /\ freed[u] <= Spent(u) + 1
    /\ td[u].join_td = NULL => freed[u] <= Spent(u)
    /\ \A t \in Thread : ut[t].pc \in JoinerPc /\ ut[t].arg = u => freed[u] <= Spent(u)

\* The inductive invariant.
IInv == /\ TypeOK
        /\ Places
        /\ Descriptors
        /\ Dispatchers
        /\ Births
        /\ Locks
        /\ Joiners
        /\ Frees

-----------------------------------------------------------------------------
(* What a step does to the fields: the facts the induction works with      *)

\* t goes to place l with the argument a; every other thread stays.
UtSet(t, l, a) ==
  \A x \in Thread : /\ ut'[x].pc = IF x = t THEN l ELSE ut[x].pc
                    /\ ut'[x].arg = IF x = t THEN a ELSE ut[x].arg

\* k goes to place l with the thread c; every other dispatcher stays.
KtSet(k, l, c) ==
  \A j \in KThread : /\ kt'[j].pc = IF j = k THEN l ELSE kt[j].pc
                     /\ kt'[j].cur = IF j = k THEN c ELSE kt[j].cur

KeepKt == \A j \in KThread : kt'[j].pc = kt[j].pc /\ kt'[j].cur = kt[j].cur

States == {"RUNNING", "EXITED", "JOINED", "WAIT_JOIN"}

Arg == Thread \cup (Thread \X Signal) \cup {NULL}

UtType == [Thread -> [pc: UserLabel, arg: Arg]]

KtType == [KThread -> [pc: DispatchLabel, cur: MMThread \cup {NULL},
                       pend: SUBSET Signal]]

TdType == [Thread -> [state: States, wait: BOOLEAN, given: BOOLEAN,
                      join_td: Thread \cup {NULL},
                      wait_join_td: Thread \cup {NULL}, intr_off: BOOLEAN,
                      pend_sig: SUBSET Signal, blocked: SUBSET Signal,
                      mem_lock: Lock]]

KeepWait == \A x \in Thread : td'[x].wait = td[x].wait
KeepGiven == \A x \in Thread : td'[x].given = td[x].given
GrowGiven == \A x \in Thread : /\ td[x].given => td'[x].given
                               /\ td'[x].given => td[x].given \/ ut[x].pc # "unborn"
KeepJoin == \A x \in Thread : td'[x].join_td = td[x].join_td
KeepLock == \A x \in Thread : td'[x].mem_lock = td[x].mem_lock

\* The state, the wait target and the interrupt flag of t become s, f and i; those
\* of the other threads stay.
DescrSet(t, s, f, i) ==
  \A x \in Thread : /\ td'[x].state = IF x = t THEN s ELSE td[x].state
                    /\ td'[x].wait_join_td = IF x = t THEN f ELSE td[x].wait_join_td
                    /\ td'[x].intr_off = IF x = t THEN i ELSE td[x].intr_off

KeepDescr == \A x \in Thread : /\ td'[x].state = td[x].state
                               /\ td'[x].wait_join_td = td[x].wait_join_td
                               /\ td'[x].intr_off = td[x].intr_off

\* The lock of the descriptor u gets the value h.
LockSet(u, h) ==
  \A x \in Thread : td'[x].mem_lock = IF x = u THEN h ELSE td[x].mem_lock

\* What holds of the sets of threads.
LEMMA Sets ==
  /\ Main \in OneOne /\ Main \in Thread
  /\ \A x \in Thread : x \in OneOne \/ x \in MMThread
  /\ \A x \in MMThread : x \in Thread /\ x \notin OneOne
  /\ \A x \in OneOne : x \in Thread /\ x \notin MMThread
  /\ NULL \notin Thread /\ NULL \notin KThread /\ NULL \notin MMThread
  /\ \A x \in Thread : x \notin KThread
  /\ NULL \in Lock /\ \A x \in Thread : x \in Lock
  /\ \A k \in KThread : k \in Lock
  BY HybridAssumption DEF MMThread, Lock

\* The type invariant, variable by variable.
LEMMA Types ==
  TypeOK <=>
    /\ td \in TdType /\ mmrll \in Seq(MMThread) /\ mmrll_lk \in Lock
    /\ kt \in KtType /\ ut \in UtType /\ enabled \in BOOLEAN /\ mpc \in MainLabel
    /\ freed \in [Thread -> 0..2] /\ got \in [Thread -> SUBSET Signal]
  BY DEF TypeOK, TdType, KtType, UtType, Arg, States

\* Every field is in its range, said field by field.
LEMMA Ranges ==
  ASSUME TypeOK
  PROVE /\ \A k \in KThread : /\ kt[k].cur \in MMThread \cup {NULL}
                              /\ kt[k].pc \in DispatchLabel
        /\ \A x \in Thread : /\ ut[x].pc \in UserLabel
                             /\ td[x].join_td \in Thread \cup {NULL}
                             /\ td[x].state \in States
                             /\ td[x].wait \in BOOLEAN
                             /\ freed[x] \in 0..2
        /\ mmrll \in Seq(MMThread)
  BY DEF TypeOK, States

\* A thread goes to another place of its call.
LEMMA GotoFacts ==
  ASSUME TypeOK, NEW t \in Thread, NEW l \in UserLabel, Goto(t, l)
  PROVE /\ UtSet(t, l, ut[t].arg)
        /\ ut' \in UtType
<1>1. ut \in UtType
      BY Types
<1>2. QED
      BY <1>1 DEF Goto, UtSet, UtType

\* A thread starts or ends a call.
LEMMA CallFacts ==
  ASSUME TypeOK, NEW t \in Thread, NEW l \in UserLabel, NEW a \in Arg,
         ut' = [ut EXCEPT ![t] = [pc |-> l, arg |-> a]]
  PROVE /\ UtSet(t, l, a)
        /\ ut' \in UtType
<1>1. ut \in UtType
      BY Types
<1>2. QED
      BY <1>1 DEF UtSet, UtType

\* A call returns.
LEMMA ReturnFacts ==
  ASSUME TypeOK, NEW t \in Thread, Return(t)
  PROVE /\ UtSet(t, "client", NULL)
        /\ ut' \in UtType
<1>1. "client" \in UserLabel /\ NULL \in Arg
      BY DEF UserLabel, Arg
<1>2. QED
      BY <1>1, CallFacts DEF Return

\* A dispatcher moves on.
LEMMA StepFacts ==
  ASSUME TypeOK, NEW k \in KThread, NEW l \in DispatchLabel,
         kt' = [kt EXCEPT ![k].pc = l]
  PROVE /\ KtSet(k, l, kt[k].cur)
        /\ kt' \in KtType
<1>1. kt \in KtType
      BY Types
<1>2. KtSet(k, l, kt[k].cur)
      BY <1>1 DEF KtSet, KtType
<1>3. QED
      BY <1>1, <1>2 DEF KtType

\* A dispatcher moves on and the signals pending for it change.
LEMMA SigFacts ==
  ASSUME TypeOK, NEW k \in KThread, NEW l \in DispatchLabel, NEW S \in SUBSET Signal,
         kt' = [kt EXCEPT ![k].pc = l, ![k].pend = S]
  PROVE /\ KtSet(k, l, kt[k].cur)
        /\ kt' \in KtType
<1>1. kt \in KtType
      BY Types
<1>2. KtSet(k, l, kt[k].cur)
      BY <1>1 DEF KtSet, KtType
<1>3. kt' = [[kt EXCEPT ![k].pc = l] EXCEPT ![k].pend = S]
      BY <1>1 DEF KtType
<1>4. QED
      BY <1>1, <1>2, <1>3 DEF KtType

\* A dispatcher takes or leaves a thread.
LEMMA CurFacts ==
  ASSUME TypeOK, NEW k \in KThread, NEW l \in DispatchLabel, NEW c \in MMThread \cup {NULL},
         \/ kt' = [kt EXCEPT ![k].pc = l, ![k].cur = c]
         \/ kt' = [kt EXCEPT ![k].cur = c, ![k].pc = l]
  PROVE /\ KtSet(k, l, c)
        /\ kt' \in KtType
<1>1. kt \in KtType
      BY Types
<1>2. KtSet(k, l, c)
      BY <1>1 DEF KtSet, KtType
<1>3. \/ kt' = [[kt EXCEPT ![k].pc = l] EXCEPT ![k].cur = c]
      \/ kt' = [[kt EXCEPT ![k].cur = c] EXCEPT ![k].pc = l]
      BY <1>1 DEF KtType
<1>4. QED
      BY <1>1, <1>2, <1>3 DEF KtType

\* A dispatcher goes back to its loop.
LEMMA ToLoopFacts ==
  ASSUME TypeOK, NEW k \in KThread, ToLoop(k)
  PROVE /\ KtSet(k, "loop", NULL)
        /\ kt' \in KtType
<1>1. "loop" \in DispatchLabel /\ NULL \in MMThread \cup {NULL}
      BY DEF DispatchLabel
<1>2. QED
      BY <1>1, CurFacts DEF ToLoop

\* A many-many thread goes back to its dispatcher.
LEMMA RetFacts ==
  ASSUME TypeOK, Places, NEW k \in KThread, NEW t \in MMThread, kt[k].cur = t, ret_cxt(t)
  PROVE /\ KtSet(k, "post", t)
        /\ kt' \in KtType
<1>1. kt \in KtType /\ "post" \in DispatchLabel
      BY Types DEF DispatchLabel
<1>2. \A j \in KThread : kt[j].cur = t <=> j = k
      BY Sets DEF Places
<1>3. KtSet(k, "post", t)
      BY <1>1, <1>2 DEF ret_cxt, KtSet, KtType
<1>4. kt' \in KtType
  <2>1. \A j \in KThread : kt[j] \in [pc: DispatchLabel, cur: MMThread \cup {NULL},
                                      pend: SUBSET Signal]
        BY <1>1 DEF KtType
  <2>2. QED
        BY <1>1, <2>1 DEF ret_cxt, KtType
<1>5. QED
      BY <1>3, <1>4

\* A descriptor with a new value in one field is one.
LEMMA TdUpdates ==
  ASSUME NEW d \in TdType, NEW t \in Thread
  PROVE /\ \A s \in States : [d EXCEPT ![t].state = s] \in TdType
        /\ \A i \in BOOLEAN : [d EXCEPT ![t].wait = i] \in TdType
        /\ \A i \in BOOLEAN : [d EXCEPT ![t].given = i] \in TdType
        /\ \A j \in Thread \cup {NULL} : [d EXCEPT ![t].join_td = j] \in TdType
        /\ \A j \in Thread \cup {NULL} : [d EXCEPT ![t].wait_join_td = j] \in TdType
        /\ \A i \in BOOLEAN : [d EXCEPT ![t].intr_off = i] \in TdType
        /\ \A S \in SUBSET Signal : [d EXCEPT ![t].pend_sig = S] \in TdType
        /\ \A S \in SUBSET Signal : [d EXCEPT ![t].blocked = S] \in TdType
        /\ \A h \in Lock : [d EXCEPT ![t].mem_lock = h] \in TdType
  BY DEF TdType

\* The interrupts of a thread are enabled or disabled.
LEMMA IntrFacts ==
  ASSUME TypeOK, NEW t \in Thread, NEW i \in BOOLEAN,
         td' = [td EXCEPT ![t].intr_off = i]
  PROVE /\ DescrSet(t, td[t].state, td[t].wait_join_td, i)
        /\ KeepWait /\ KeepGiven /\ KeepJoin /\ KeepLock
        /\ td' \in TdType
<1>1. td \in TdType
      BY Types
<1>2. QED
      BY <1>1 DEF DescrSet, KeepWait, KeepGiven, KeepJoin, KeepLock, TdType

\* The lock of a descriptor gets a new value.
LEMMA LockFacts ==
  ASSUME TypeOK, NEW u \in Thread, NEW h \in Lock,
         td' = [td EXCEPT ![u].mem_lock = h]
  PROVE /\ LockSet(u, h) /\ KeepDescr
        /\ KeepWait /\ KeepGiven /\ KeepJoin
        /\ td' \in TdType
<1>1. td \in TdType
      BY Types
<1>2. QED
      BY <1>1 DEF LockSet, KeepDescr, KeepWait, KeepGiven, KeepJoin, TdType

\* The descriptors agree with the places when that of the thread that makes the
\* step does, and the others and their threads stay.
LEMMA DescriptorsKept ==
  ASSUME Descriptors, NEW t \in Thread, NEW l, NEW a, NEW s, NEW f, NEW i,
         UtSet(t, l, a), DescrSet(t, s, f, i), Agrees(t, l, a, s, f, i)
  PROVE Descriptors'
<1> SUFFICES ASSUME NEW x \in Thread
             PROVE Agrees(x, ut'[x].pc, ut'[x].arg, td'[x].state, td'[x].wait_join_td,
                          td'[x].intr_off)
    BY DEF Descriptors
<1>1. CASE x = t
      BY <1>1 DEF UtSet, DescrSet
<1>2. CASE x # t
      BY <1>2 DEF UtSet, DescrSet, Descriptors
<1>3. QED
      BY <1>1, <1>2

\* The same, when no descriptor changes.
LEMMA DescriptorsSame ==
  ASSUME Descriptors, NEW t \in Thread, NEW l, NEW a, UtSet(t, l, a), KeepDescr,
         Agrees(t, l, a, td[t].state, td[t].wait_join_td, td[t].intr_off)
  PROVE Descriptors'
<1>1. DescrSet(t, td[t].state, td[t].wait_join_td, td[t].intr_off)
      BY DEF KeepDescr, DescrSet
<1>2. QED
      BY <1>1, DescriptorsKept

-----------------------------------------------------------------------------
(* Lists                                                                   *)

InList(t, s) == \E i \in 1..Len(s) : s[i] = t

\* list_enqueue adds one thread and keeps the others.
LEMMA AppendFacts ==
  ASSUME NEW s \in Seq(MMThread), NEW w \in MMThread
  PROVE /\ Append(s, w) \in Seq(MMThread)
        /\ \A x \in Thread : InList(x, Append(s, w)) <=> InList(x, s) \/ x = w
        /\ Distinct(s) /\ ~InList(w, s) => Distinct(Append(s, w))
<1>1. /\ Append(s, w) \in Seq(MMThread)
      /\ Len(s) \in Nat
      /\ Len(Append(s, w)) = Len(s) + 1
      /\ \A i \in 1..Len(s) : Append(s, w)[i] = s[i]
      /\ Append(s, w)[Len(s) + 1] = w
      OBVIOUS
<1> DEFINE q == Append(s, w)
<1> HIDE DEF q
<1>2. ASSUME NEW x \in Thread PROVE InList(x, q) <=> InList(x, s) \/ x = w
  <2>1. ASSUME InList(x, q) PROVE InList(x, s) \/ x = w
    <3>1. PICK i \in 1..Len(q) : q[i] = x
          BY <2>1 DEF InList
    <3>2. CASE i = Len(s) + 1
          BY <1>1, <3>1, <3>2 DEF q
    <3>3. CASE i # Len(s) + 1
      <4>1. i \in 1..Len(s)
            BY <1>1, <3>3 DEF q
      <4>2. QED
            BY <1>1, <3>1, <4>1 DEF q, InList
    <3>4. QED
          BY <3>2, <3>3
  <2>2. ASSUME InList(x, s) PROVE InList(x, q)
    <3>1. PICK i \in 1..Len(s) : s[i] = x
          BY <2>2 DEF InList
    <3>2. i \in 1..Len(q) /\ q[i] = x
          BY <1>1, <3>1 DEF q
    <3>3. QED
          BY <3>2 DEF InList
  <2>3. ASSUME x = w PROVE InList(x, q)
    <3>1. Len(s) + 1 \in 1..Len(q) /\ q[Len(s) + 1] = x
          BY <1>1, <2>3 DEF q
    <3>2. QED
          BY <3>1 DEF InList
  <2>4. QED
        BY <2>1, <2>2, <2>3
<1>3. ASSUME Distinct(s), ~InList(w, s) PROVE Distinct(q)
  <2> SUFFICES ASSUME NEW i \in 1..Len(q), NEW j \in 1..Len(q), q[i] = q[j]
               PROVE i = j
      BY DEF Distinct
  <2>1. \A h \in 1..Len(s) : q[h] # w /\ q[h] = s[h]
        BY <1>1, <1>3 DEF q, InList
  <2>2. CASE i = Len(s) + 1 \/ j = Len(s) + 1
        BY <1>1, <2>1, <2>2 DEF q
  <2>3. CASE i # Len(s) + 1 /\ j # Len(s) + 1
    <3>1. i \in 1..Len(s) /\ j \in 1..Len(s)
          BY <1>1, <2>3 DEF q
    <3>2. QED
          BY <1>3, <2>1, <3>1 DEF Distinct
  <2>4. QED
        BY <2>2, <2>3
<1>4. QED
      BY <1>1, <1>2, <1>3 DEF q

\* list_dequeue removes the first thread and keeps the others.
LEMMA TailFacts ==
  ASSUME NEW s \in Seq(MMThread), s # <<>>, Distinct(s)
  PROVE /\ Tail(s) \in Seq(MMThread)
        /\ Head(s) \in MMThread
        /\ InList(Head(s), s)
        /\ \A x \in Thread : InList(x, Tail(s)) <=> InList(x, s) /\ x # Head(s)
        /\ Distinct(Tail(s))
<1>1. /\ Tail(s) \in Seq(MMThread)
      /\ Len(s) \in Nat /\ Len(s) > 0
      /\ Len(Tail(s)) = Len(s) - 1
      /\ \A i \in 1..(Len(s) - 1) : Tail(s)[i] = s[i + 1]
      /\ Head(s) = s[1]
      /\ s[1] \in MMThread
      OBVIOUS
<1> DEFINE q == Tail(s)
<1> HIDE DEF q
<1>2. InList(s[1], s)
      BY <1>1 DEF InList
<1>3. ASSUME NEW x \in Thread PROVE InList(x, q) <=> InList(x, s) /\ x # s[1]
  <2>1. ASSUME InList(x, q) PROVE InList(x, s) /\ x # s[1]
    <3>1. PICK i \in 1..Len(q) : q[i] = x
          BY <2>1 DEF InList
    <3>2. i + 1 \in 1..Len(s) /\ s[i + 1] = x /\ i + 1 # 1 /\ 1 \in 1..Len(s)
          BY <1>1, <3>1 DEF q
    <3>3. QED
          BY <3>2 DEF InList, Distinct
  <2>2. ASSUME InList(x, s), x # s[1] PROVE InList(x, q)
    <3>1. PICK i \in 1..Len(s) : s[i] = x
          BY <2>2 DEF InList
    <3>2. i - 1 \in 1..Len(q) /\ i = (i - 1) + 1
          BY <1>1, <2>2, <3>1 DEF q
    <3>3. q[i - 1] = x
          BY <1>1, <3>1, <3>2 DEF q
    <3>4. QED
          BY <3>2, <3>3 DEF InList
  <2>3. QED
        BY <2>1, <2>2
<1>4. Distinct(q)
  <2> SUFFICES ASSUME NEW i \in 1..Len(q), NEW j \in 1..Len(q), q[i] = q[j]
               PROVE i = j
      BY DEF Distinct
  <2>1. /\ i + 1 \in 1..Len(s) /\ j + 1 \in 1..Len(s)
        /\ s[i + 1] = s[j + 1]
        BY <1>1 DEF q
  <2>2. i + 1 = j + 1
        BY <2>1 DEF Distinct
  <2>3. QED
        BY <1>1, <2>2 DEF q
<1>5. QED
      BY <1>1, <1>2, <1>3, <1>4 DEF q

-----------------------------------------------------------------------------
(* Where the threads are after a step                                      *)

\* x is on the kernel thread it was on, or on none as before.
SameOn(x) == /\ Dispatched(x)' <=> Dispatched(x)
             /\ Runs(x)' <=> Runs(x)
             /\ Posting(x)' <=> Posting(x)

\* x is where it was.
SameWhere(x) == SameOn(x) /\ (Ready(x)' <=> Ready(x))

\* A step of a thread in its own context moves nobody.
LEMMA WhereSame ==
  ASSUME KeepKt, mmrll' = mmrll
  PROVE \A x \in Thread : SameWhere(x)
  BY DEF KeepKt, SameWhere, SameOn, Ready, Dispatched, Runs, Posting

\* Nor does a dispatcher that has no thread.
LEMMA WhereIdle ==
  ASSUME NEW k \in KThread, kt[k].cur = NULL, NEW l,
         KtSet(k, l, NULL), mmrll' = mmrll
  PROVE \A x \in Thread : SameWhere(x)
  BY Sets DEF KtSet, SameWhere, SameOn, Ready, Dispatched, Runs, Posting

\* A thread on a kernel thread is on no other and not in the ready list.
LEMMA Held ==
  ASSUME Places, NEW k \in KThread, NEW t \in MMThread, kt[k].cur = t
  PROVE /\ \A j \in KThread : kt[j].cur = t => j = k
        /\ Dispatched(t) /\ ~Ready(t) /\ ~Off(t)
        /\ Posting(t) <=> kt[k].pc = "post"
        /\ Runs(t) <=> kt[k].pc = "user"
<1>1. \A j \in KThread : kt[j].cur = t => j = k
      BY Sets DEF Places
<1>2. QED
      BY <1>1, Sets DEF Places, Dispatched, Off, Posting, Runs

\* A dispatcher takes a step and keeps its thread.
LEMMA WhereStep ==
  ASSUME Places, NEW k \in KThread, NEW t \in MMThread, kt[k].cur = t,
         NEW l, KtSet(k, l, t)
  PROVE /\ \A x \in Thread \ {t} : SameOn(x)
        /\ Dispatched(t)'
        /\ Runs(t)' <=> l = "user"
        /\ Posting(t)' <=> l = "post"
<1>1. \A j \in KThread : kt[j].cur = t => j = k
      BY Held
<1>2. QED
      BY <1>1, Sets DEF KtSet, SameOn, Dispatched, Runs, Posting

\* A dispatcher goes back to its loop without its thread.
LEMMA WhereLoop ==
  ASSUME Places, NEW k \in KThread, NEW t \in MMThread, kt[k].cur = t,
         KtSet(k, "loop", NULL)
  PROVE /\ \A x \in Thread \ {t} : SameOn(x)
        /\ ~Dispatched(t)' /\ ~Runs(t)' /\ ~Posting(t)'
<1>1. \A j \in KThread : kt[j].cur = t => j = k
      BY Held
<1>2. QED
      BY <1>1, Sets DEF KtSet, SameOn, Dispatched, Runs, Posting

\* A dispatcher takes a thread from the ready list.
LEMMA WhereGet ==
  ASSUME Places, NEW k \in KThread, NEW t \in MMThread, kt[k].cur = NULL,
         ~Dispatched(t), NEW l, KtSet(k, l, t)
  PROVE /\ \A x \in Thread \ {t} : SameOn(x)
        /\ Dispatched(t)' /\ ~Runs(t) /\ ~Posting(t)
        /\ Runs(t)' <=> l = "user"
        /\ Posting(t)' <=> l = "post"
  BY Sets DEF KtSet, SameOn, Dispatched, Runs, Posting

-----------------------------------------------------------------------------
(* The steps of a thread that move nobody                                  *)

\* A thread goes to another place of a call that is not thread_exit: nobody moves,
\* no wait word or joiner changes.
LEMMA UserMoves ==
  ASSUME IInv, NEW t \in Thread, NEW l, NEW a, UtSet(t, l, a),
         KeepKt, mmrll' = mmrll, mpc' = mpc,
         KeepWait, KeepJoin, GrowGiven,
         ut[t].pc \notin ExitPc \cup {"unborn", "exited"},
         l \notin ExitPc \cup {"unborn", "exited", "join_parked", "create_store"},
         Runs(t),
         l \in NewPc =>
           \/ ut[t].pc = "create_lock" /\ l = "create_enq" /\ a = ut[t].arg
           \/ /\ a \in Thread \ {Main} /\ ut[a].pc = "unborn"
              /\ l = "create_clone" => a \in OneOne
              /\ l # "create_clone" => a \in MMThread
              /\ \A v \in Thread : ut[v].arg # a,
         l \in JoinPc => a \in Thread /\ td[a].given,
         l \in KillPc => a \in Thread \X Signal /\ td[a[1]].given,
         l \in JoinerPc => ut[t].pc \in JoinerPc /\ a = ut[t].arg,
         l = "join_sleep" => td[a].wait,
         \A x \in Thread : t \in MMThread /\ td[x].join_td = t => ~Unwoken(x)
  PROVE Places' /\ Dispatchers' /\ Births' /\ Joiners'
<1>1. \A x \in Thread : SameWhere(x)
      BY WhereSame
<1>2. \A x \in Thread : Off(x)' <=> Off(x)
      BY <1>1 DEF SameWhere, SameOn, Off
<1>3. Places'
      BY <1>1 DEF IInv, Places, KeepKt, SameWhere, SameOn
<1>4. Dispatchers'
      BY <1>1, Sets DEF IInv, Dispatchers, UtSet, KeepKt, KeepWait, SameWhere, SameOn, OnCpuPc,
         OverPc
<1>5. Births'
  <2>1. \A u \in Thread : ut'[u].pc = "unborn" <=> ut[u].pc = "unborn"
        BY DEF UtSet
  <2>2. \A u \in Thread : ut'[u].pc = "unborn" =>
          /\ ~td'[u].given /\ td'[u].join_td = NULL /\ Off(u)'
          /\ td'[u].wait <=> u \in MMThread
        BY <1>2, <2>1 DEF IInv, Births, GrowGiven, KeepJoin, KeepWait
  <2>3. ASSUME NEW x \in Thread, NEW u \in Thread, ut'[x].arg = u
        PROVE /\ ut'[x].pc \in NewPc => ut'[u].pc = "unborn" /\ u # Main
              /\ ut'[x].pc = "create_clone" => u \in OneOne
              /\ ut'[x].pc \in {"create_lock", "create_enq"} => u \in MMThread
              /\ ut'[x].pc = "create_store" => ut'[u].pc # "unborn"
              /\ ut'[x].pc \in JoinPc => td'[u].given
        BY <2>1, <2>3 DEF IInv, Births, UtSet, GrowGiven, NewPc
  <2>4. \A x \in Thread : ut'[x].pc \in KillPc => td'[ut'[x].arg[1]].given
    <3> SUFFICES ASSUME NEW x \in Thread, ut'[x].pc \in KillPc
                 PROVE td'[ut'[x].arg[1]].given
        OBVIOUS
    <3>1. CASE x = t
      <4>1. a[1] \in Thread /\ td[a[1]].given /\ ut'[x].arg = a
            BY <3>1 DEF UtSet
      <4>2. QED
            BY <4>1 DEF GrowGiven
    <3>2. CASE x # t
      <4>1. ut[x].arg = ut'[x].arg /\ ut[x].pc \in KillPc
            BY <3>2 DEF UtSet
      <4>2. ut[x].arg[1] \in Thread
            BY <4>1 DEF IInv, Descriptors, Agrees
      <4>3. QED
            BY <4>1, <4>2 DEF IInv, Births, GrowGiven
    <3>3. QED
          BY <3>1, <3>2
  <2>5. \A x, s \in Thread :
          ut'[x].pc \in NewPc /\ ut'[s].pc \in NewPc /\ ut'[x].arg = ut'[s].arg => x = s
        BY DEF IInv, Births, UtSet, NewPc
  <2>6. mpc' = "create" <=> ut'[Main].pc = "unborn"
        BY <2>1, Sets DEF IInv, Births
  <2>7. QED
        BY <2>2, <2>3, <2>4, <2>5, <2>6 DEF Births
<1>6. Joiners'
  <2>1. \A x \in Thread : Unwoken(x)' => Unwoken(x)
        BY DEF Unwoken, UtSet, KeepKt, KeepWait, ExitPc
  <2>2. \A x \in Thread : Waking(x)' => Waking(x)
        BY DEF Waking, UtSet, KeepKt, ExitPc
  <2>3. \A x \in Thread, j \in MMThread \ {t} : Parks(j, x) => Parks(j, x)'
        BY <1>1, Sets DEF Parks, UtSet, SameWhere, SameOn
  <2>4. \A x \in Thread, j \in MMThread : td'[x].join_td = j /\ Unwoken(x)' => Parks(j, x)'
        BY <2>1, <2>3 DEF IInv, Joiners, KeepJoin
  <2>5. \A x \in Thread : Waking(x)' =>
          \E j \in MMThread : /\ td'[x].join_td = j /\ ut'[j].arg = x
                              /\ ut'[j].pc = "join_parked" /\ Off(j)'
    <3>1. t \in MMThread => ~Off(t)
          BY Sets DEF Runs, Off, Dispatched
    <3>2. QED
          BY <1>2, <2>2, <3>1, Sets DEF IInv, Joiners, UtSet, KeepJoin
  <2>6. QED
        BY <2>4, <2>5, Sets DEF IInv, Joiners, UtSet, KeepKt, KeepJoin, KeepWait, JoinerPc,
           WaiterPc, ExitPc
<1>7. QED
      BY <1>3, <1>4, <1>5, <1>6

\* The same, when no stack is freed.
LEMMA UserApart ==
  ASSUME IInv, NEW t \in Thread, NEW l, NEW a, UtSet(t, l, a),
         KeepKt, mmrll' = mmrll, mpc' = mpc, freed' = freed,
         KeepWait, KeepJoin, GrowGiven,
         ut[t].pc \notin ExitPc \cup {"unborn", "exited"},
         l \notin ExitPc \cup {"unborn", "exited", "join_parked", "create_store"},
         Runs(t),
         l \in NewPc =>
           \/ ut[t].pc = "create_lock" /\ l = "create_enq" /\ a = ut[t].arg
           \/ /\ a \in Thread \ {Main} /\ ut[a].pc = "unborn"
              /\ l = "create_clone" => a \in OneOne
              /\ l # "create_clone" => a \in MMThread
              /\ \A v \in Thread : ut[v].arg # a,
         l \in JoinPc => a \in Thread /\ td[a].given,
         l \in KillPc => a \in Thread \X Signal /\ td[a[1]].given,
         l \in JoinerPc => ut[t].pc \in JoinerPc /\ a = ut[t].arg,
         l = "join_sleep" => td[a].wait,
         \A x \in Thread : t \in MMThread /\ td[x].join_td = t => ~Unwoken(x)
  PROVE Places' /\ Dispatchers' /\ Births' /\ Joiners' /\ Frees'
<1>1. Places' /\ Dispatchers' /\ Births' /\ Joiners'
      BY UserMoves
<1>2. Frees'
      BY Sets DEF IInv, Frees, Spent, UtSet, KeepJoin, JoinerPc, WaiterPc
<1>3. QED
      BY <1>1, <1>2
-----------------------------------------------------------------------------
(* The locks of the descriptors                                            *)

\* No lock changes hands.
LEMMA LocksKept ==
  ASSUME Locks, KeepLock,
         \A x, v \in Thread : HoldsT(x, v)' <=> HoldsT(x, v),
         \A k \in KThread, v \in Thread : HoldsK(k, v)' => HoldsK(k, v),
         \A x \in MMThread : mmrll_lk' = x => ut'[x].pc = "create_enq"
  PROVE Locks'
  BY Sets DEF Locks, KeepLock

\* h takes the lock of u.
LEMMA LocksTaken ==
  ASSUME Locks, NEW u \in Thread, NEW h, td[u].mem_lock = NULL, LockSet(u, h),
         \A x, v \in Thread : HoldsT(x, v)' <=> HoldsT(x, v) \/ (x = h /\ v = u),
         \A k \in KThread, v \in Thread :
           HoldsK(k, v)' => HoldsK(k, v) \/ (k = h /\ v = u),
         \A x \in MMThread : mmrll_lk' = x => ut'[x].pc = "create_enq"
  PROVE Locks'
  BY Sets DEF Locks, LockSet

\* h releases the lock of u.
LEMMA LocksReleased ==
  ASSUME Locks, NEW u \in Thread, NEW h, td[u].mem_lock = h, LockSet(u, NULL),
         \A x, v \in Thread : HoldsT(x, v)' <=> HoldsT(x, v) /\ ~(x = h /\ v = u),
         \A k \in KThread, v \in Thread :
           HoldsK(k, v)' => HoldsK(k, v) /\ ~(k = h /\ v = u),
         \A x \in MMThread : mmrll_lk' = x => ut'[x].pc = "create_enq"
  PROVE Locks'
  BY Sets DEF Locks, LockSet

\* A step of a thread that moves nobody changes at most what this thread holds.
LEMMA HoldsUser ==
  ASSUME NEW t \in Thread, NEW l, NEW a, UtSet(t, l, a), KeepKt
  PROVE /\ \A x \in Thread \ {t}, v \in Thread : HoldsT(x, v)' <=> HoldsT(x, v)
        /\ \A k \in KThread, v \in Thread : HoldsK(k, v)' <=> HoldsK(k, v)
  BY DEF UtSet, KeepKt, HoldsT, HoldsK, Posting

\* The lock of the ready list stays with whom it was, when t does not hold it or
\* nobody holds it.
LEMMA ListLock ==
  ASSUME Locks, NEW t \in Thread, NEW l, NEW a, UtSet(t, l, a),
         \/ mmrll_lk' = mmrll_lk /\ ut[t].pc # "create_enq"
         \/ mmrll_lk' \notin MMThread
  PROVE \A x \in MMThread : mmrll_lk' = x => ut'[x].pc = "create_enq"
  BY Sets DEF Locks, UtSet

\* A thread that runs is not in the hands of its dispatcher.
LEMMA Acting ==
  ASSUME IInv, NEW t \in Thread, Runs(t)
  PROVE /\ ut[t].pc # "exited"
        /\ ~Posting(t) /\ ~Ready(t)
        /\ t \in MMThread => /\ Dispatched(t) /\ ~Off(t)
                             /\ \E k \in KThread : kt[k].cur = t /\ kt[k].pc = "user"
        /\ ut[t].pc # "join_check" =>
             \A x \in Thread : t \in MMThread /\ td[x].join_td = t => ~Unwoken(x)
<1>1. CASE t \in MMThread
  <2>1. PICK k \in KThread : kt[k].cur = t /\ kt[k].pc = "user"
        BY <1>1, Sets DEF Runs
  <2>2. ~Posting(t) /\ ~Ready(t) /\ Dispatched(t) /\ ~Off(t)
        BY <1>1, <2>1, Held DEF IInv
  <2>3. ut[t].pc # "exited"
        BY <2>1 DEF IInv, Dispatchers
  <2>4. \A x \in Thread : td[x].join_td = t /\ Unwoken(x) => ut[t].pc = "join_check"
        BY <1>1, <2>2 DEF IInv, Joiners, Parks
  <2>5. QED
        BY <2>1, <2>2, <2>3, <2>4
<1>2. CASE t \in OneOne
  <2>1. \A k \in KThread : kt[k].cur # t
        BY <1>2, Ranges, Sets DEF IInv
  <2>2. ~Ready(t)
    <3>1. \A i \in 1..Len(mmrll) : mmrll[i] \in MMThread
          BY DEF IInv, TypeOK
    <3>2. QED
          BY <1>2, <3>1, Sets DEF Ready
  <2>3. ut[t].pc # "exited"
        BY <1>2, Sets DEF IInv, Descriptors, Agrees, AwayPc
  <2>4. QED
        BY <1>2, <2>1, <2>2, <2>3, Sets DEF Posting
<1>3. QED
      BY <1>1, <1>2, Sets

\* A lock that nobody holds is initialised.
LEMMA LocksReset ==
  ASSUME Locks, NEW u \in Thread, LockSet(u, NULL),
         \A x \in Thread : ~HoldsT(x, u), \A k \in KThread : ~HoldsK(k, u),
         \A x, v \in Thread : HoldsT(x, v)' <=> HoldsT(x, v),
         \A k \in KThread, v \in Thread : HoldsK(k, v)' => HoldsK(k, v),
         \A x \in MMThread : mmrll_lk' = x => ut'[x].pc = "create_enq"
  PROVE Locks'
  BY Sets DEF Locks, LockSet

-----------------------------------------------------------------------------
(* thread_kill                                                             *)

\* The interrupts of the caller are disabled.
LEMMA KillCallKeeps ==
  ASSUME IInv, NEW t \in Thread, NEW u \in Thread, NEW s \in Signal, KillCall(t, u, s)
  PROVE IInv'
<1>1. ut[t].pc = "client" /\ Runs(t) /\ td[u].given
      BY DEF KillCall, Calls, At
<1>2. UNCHANGED <<mmrll, mmrll_lk, kt, enabled, mpc, freed, got>> /\ KeepKt
      BY DEF KillCall, KeepKt
<1>3. PICK a \in Thread \X Signal : a = <<u, s>> /\ a[1] = u
  <2>1. <<u, s>> \in Thread \X Signal /\ <<u, s>>[1] = u
        OBVIOUS
  <2>2. QED
        BY <2>1
<1>4. UtSet(t, "kill_lock", a) /\ ut' \in UtType
  <2>1. "kill_lock" \in UserLabel /\ a \in Arg
        BY DEF UserLabel, Arg
  <2>2. QED
        BY <1>3, <2>1, CallFacts DEF KillCall, Calls, IInv
<1>5. /\ DescrSet(t, td[t].state, td[t].wait_join_td, intr(t, TRUE))
      /\ KeepWait /\ KeepGiven /\ KeepJoin /\ KeepLock
      /\ td' \in TdType
      BY IntrFacts DEF KillCall, IInv, intr
<1>6. TypeOK'
      BY <1>2, <1>4, <1>5, <1>3 DEF IInv, TypeOK, TdType, UtType, Arg, States, Lock
<1>7. Descriptors'
  <2>1. Agrees(t, "kill_lock", a, td[t].state, td[t].wait_join_td, intr(t, TRUE))
        BY <1>1, Sets DEF IInv, Descriptors, Agrees, NewPc, JoinPc, JoinerPc, WaiterPc, KillPc,
           ExitPc, AwayPc, OnCpuPc, intr
  <2>2. QED
        BY <1>4, <1>5, <2>1, DescriptorsKept DEF IInv
<1>8. Locks'
  <2>1. \A v \in Thread : ~HoldsT(t, v) /\ ~HoldsT(t, v)'
        BY <1>1, <1>4 DEF HoldsT, UtSet
  <2>2. QED
        BY <1>1, <1>2, <1>4, <1>5, <2>1, HoldsUser, ListLock, LocksKept DEF IInv
<1>9. Places' /\ Dispatchers' /\ Births' /\ Joiners' /\ Frees'
      BY <1>1, <1>2, <1>3, <1>4, <1>5, Acting, UserApart
      DEF NewPc, JoinPc, JoinerPc, WaiterPc, KillPc, ExitPc, KeepGiven, GrowGiven
<1>10. QED
      BY <1>6, <1>7, <1>8, <1>9 DEF IInv

\* td_lock of the target.
LEMMA KillLockKeeps ==
  ASSUME IInv, NEW t \in Thread, KillLock(t)
  PROVE IInv'
<1>1. ut[t].pc = "kill_lock" /\ Runs(t)
      BY DEF KillLock, At
<1>2. UNCHANGED <<mmrll, mmrll_lk, kt, enabled, mpc, freed, got>> /\ KeepKt
      BY DEF KillLock, KeepKt
<1>3. PICK u \in Thread, s \in Signal : ut[t].arg = <<u, s>> /\ ut[t].arg[1] = u
              /\ ut[t].arg[2] = s /\ td[u].given
              /\ td[u].mem_lock = NULL
  <2>1. ut[t].arg \in Thread \X Signal /\ td[ut[t].arg[1]].given
        BY <1>1 DEF IInv, Descriptors, Agrees, Births, KillPc
  <2>2. QED
        BY <2>1 DEF KillLock
<1>4. UtSet(t, "kill_set", ut[t].arg) /\ ut' \in UtType
  <2>1. "kill_set" \in UserLabel
        BY DEF UserLabel
  <2>2. QED
        BY <2>1, GotoFacts DEF KillLock, IInv
<1>5. /\ LockSet(u, t) /\ KeepDescr /\ KeepWait /\ KeepGiven /\ KeepJoin
      /\ td' \in TdType
      BY <1>3, Sets, LockFacts DEF KillLock, IInv
<1>6. TypeOK'
      BY <1>2, <1>4, <1>5, <1>3 DEF IInv, TypeOK, TdType, UtType, Arg, States, Lock
<1>7. Descriptors'
  <2>1. Agrees(t, "kill_set", ut[t].arg, td[t].state, td[t].wait_join_td, td[t].intr_off)
        BY <1>1, <1>3, Sets DEF IInv, Descriptors, Agrees, NewPc, JoinPc, JoinerPc, WaiterPc,
           KillPc,
           ExitPc, AwayPc, OnCpuPc, intr
  <2>2. QED
        BY <1>4, <1>5, <2>1, DescriptorsSame DEF IInv
<1>8. Locks'
  <2>1. \A v \in Thread : ~HoldsT(t, v) /\ (HoldsT(t, v)' <=> v = u)
        BY <1>1, <1>3, <1>4 DEF HoldsT, UtSet
  <2>2. QED
        BY <1>1, <1>2, <1>3, <1>4, <1>5, <2>1, Sets, HoldsUser, ListLock, LocksTaken DEF IInv
<1>9. Places' /\ Dispatchers' /\ Births' /\ Joiners' /\ Frees'
      BY <1>1, <1>2, <1>3, <1>4, <1>5, Acting, UserApart
      DEF NewPc, JoinPc, JoinerPc, WaiterPc, KillPc, ExitPc, KeepGiven, GrowGiven
<1>10. QED
      BY <1>6, <1>7, <1>8, <1>9 DEF IInv

\* The signal is marked, the lock released and the interrupts enabled.
LEMMA KillSetKeeps ==
  ASSUME IInv, NEW t \in Thread, KillSet(t)
  PROVE IInv'
<1>1. ut[t].pc = "kill_set" /\ Runs(t)
      BY DEF KillSet, At
<1>2. UNCHANGED <<mmrll, mmrll_lk, kt, enabled, mpc, freed, got>> /\ KeepKt
      BY DEF KillSet, KeepKt
<1>3. PICK u \in Thread, s \in Signal : ut[t].arg = <<u, s>> /\ ut[t].arg[1] = u
              /\ ut[t].arg[2] = s /\ td[u].given
  <2>1. ut[t].arg \in Thread \X Signal /\ td[ut[t].arg[1]].given
        BY <1>1 DEF IInv, Descriptors, Agrees, Births, KillPc
  <2>2. QED
        BY <2>1
<1>4. UtSet(t, "client", NULL) /\ ut' \in UtType
      BY ReturnFacts DEF KillSet, IInv
<1>5. /\ DescrSet(t, td[t].state, td[t].wait_join_td, FALSE)
      /\ LockSet(u, NULL) /\ KeepWait /\ KeepGiven /\ KeepJoin
      /\ td' \in TdType
  <2>1. td \in TdType /\ td[u].pend_sig \cup {s} \in SUBSET Signal /\ NULL \in Lock
        BY Types, Sets DEF IInv, TdType
  <2>2. td' = [td EXCEPT ![u].pend_sig = td[u].pend_sig \cup {s}, ![u].mem_lock = NULL,
                         ![t].intr_off = FALSE]
        BY <1>3, <2>1 DEF KillSet, TdType
  <2>3. td' = [[[td EXCEPT ![u].pend_sig = td[u].pend_sig \cup {s}]
                EXCEPT ![u].mem_lock = NULL] EXCEPT ![t].intr_off = FALSE]
        BY <2>1, <2>2 DEF TdType
  <2>4. td' \in TdType
    <3>1. /\ \A d \in TdType : [d EXCEPT ![u].pend_sig = td[u].pend_sig \cup {s}] \in TdType
          /\ \A d \in TdType : [d EXCEPT ![u].mem_lock = NULL] \in TdType
          /\ \A d \in TdType : [d EXCEPT ![t].intr_off = FALSE] \in TdType
          BY <2>1, TdUpdates
    <3>2. QED
          BY <2>1, <2>3, <3>1
  <2>5. DescrSet(t, td[t].state, td[t].wait_join_td, FALSE)
        BY <2>1, <2>2 DEF TdType, DescrSet
  <2>6. LockSet(u, NULL)
        BY <2>1, <2>2 DEF TdType, LockSet
  <2>7. KeepWait /\ KeepGiven /\ KeepJoin
        BY <2>1, <2>2 DEF TdType, KeepWait, KeepGiven, KeepJoin
  <2>8. QED
        BY <2>4, <2>5, <2>6, <2>7
<1>6. TypeOK'
      BY <1>2, <1>4, <1>5, <1>3 DEF IInv, TypeOK, TdType, UtType, Arg, States, Lock
<1>7. Descriptors'
  <2>1. Agrees(t, "client", NULL, td[t].state, td[t].wait_join_td, FALSE)
        BY <1>1, Sets DEF IInv, Descriptors, Agrees, NewPc, JoinPc, JoinerPc, WaiterPc, KillPc,
           ExitPc, AwayPc, OnCpuPc, intr
  <2>2. QED
        BY <1>4, <1>5, <2>1, DescriptorsKept DEF IInv
<1>8. Locks'
  <2>1. \A v \in Thread : (HoldsT(t, v) <=> v = u) /\ ~HoldsT(t, v)'
        BY <1>1, <1>3, <1>4 DEF HoldsT, UtSet
  <2>2. td[u].mem_lock = t
        BY <1>3, <2>1 DEF IInv, Locks
  <2>3. QED
        BY <1>1, <1>2, <1>3, <1>4, <1>5, <2>1, <2>2, Sets, HoldsUser, ListLock, LocksReleased
        DEF IInv
<1>9. Places' /\ Dispatchers' /\ Births' /\ Joiners' /\ Frees'
      BY <1>1, <1>2, <1>3, <1>4, <1>5, Acting, UserApart
      DEF NewPc, JoinPc, JoinerPc, WaiterPc, KillPc, ExitPc, KeepGiven, GrowGiven
<1>10. QED
      BY <1>6, <1>7, <1>8, <1>9 DEF IInv

-----------------------------------------------------------------------------
(* thread_join                                                             *)

\* The checks without the lock have passed, and the interrupts are disabled.
LEMMA JoinCallKeeps ==
  ASSUME IInv, NEW t \in Thread, NEW u \in Thread, JoinCall(t, u)
  PROVE IInv'
<1>1. ut[t].pc = "client" /\ Runs(t) /\ td[u].given /\ u # t
      BY DEF JoinCall, Calls, At
<1>2. UNCHANGED <<mmrll, mmrll_lk, kt, enabled, mpc, freed, got>> /\ KeepKt
      BY DEF JoinCall, KeepKt
<1>4. UtSet(t, "join_lock", u) /\ ut' \in UtType
  <2>1. "join_lock" \in UserLabel /\ u \in Arg
        BY DEF UserLabel, Arg
  <2>2. QED
        BY <2>1, CallFacts DEF JoinCall, Calls, IInv
<1>5. /\ DescrSet(t, td[t].state, td[t].wait_join_td, intr(t, TRUE))
      /\ KeepWait /\ KeepGiven /\ KeepJoin /\ KeepLock
      /\ td' \in TdType
      BY IntrFacts DEF JoinCall, IInv, intr
<1>6. TypeOK'
      BY <1>2, <1>4, <1>5 DEF IInv, TypeOK, TdType, UtType, Arg, States, Lock
<1>7. Descriptors'
  <2>1. Agrees(t, "join_lock", u, td[t].state, td[t].wait_join_td, intr(t, TRUE))
        BY <1>1, Sets DEF IInv, Descriptors, Agrees, NewPc, JoinPc, JoinerPc, WaiterPc, KillPc,
           ExitPc, AwayPc, OnCpuPc, intr
  <2>2. QED
        BY <1>4, <1>5, <2>1, DescriptorsKept DEF IInv
<1>8. Locks'
  <2>1. \A v \in Thread : ~HoldsT(t, v) /\ ~HoldsT(t, v)'
        BY <1>1, <1>4 DEF HoldsT, UtSet
  <2>2. QED
        BY <1>1, <1>2, <1>4, <1>5, <2>1, HoldsUser, ListLock, LocksKept DEF IInv
<1>9. Places' /\ Dispatchers' /\ Births' /\ Joiners' /\ Frees'
      BY <1>1, <1>2, <1>4, <1>5, Acting, UserApart
      DEF NewPc, JoinPc, JoinerPc, WaiterPc, KillPc, ExitPc, KeepGiven, GrowGiven
<1>10. QED
      BY <1>6, <1>7, <1>8, <1>9 DEF IInv

\* The lock of a descriptor and the interrupt flag of another get new values.
LEMMA LockIntrFacts ==
  ASSUME TypeOK, NEW t \in Thread, NEW u \in Thread, u # t, NEW h \in Lock,
         NEW i \in BOOLEAN, td' = [td EXCEPT ![u].mem_lock = h, ![t].intr_off = i]
  PROVE /\ DescrSet(t, td[t].state, td[t].wait_join_td, i)
        /\ LockSet(u, h) /\ KeepWait /\ KeepGiven /\ KeepJoin
        /\ td' \in TdType
<1>1. td \in TdType
      BY Types
<1>2. td' = [[td EXCEPT ![u].mem_lock = h] EXCEPT ![t].intr_off = i]
      BY <1>1 DEF TdType
<1>3. td' \in TdType
  <2>1. /\ \A d \in TdType : [d EXCEPT ![u].mem_lock = h] \in TdType
        /\ \A d \in TdType : [d EXCEPT ![t].intr_off = i] \in TdType
        BY TdUpdates
  <2>2. QED
        BY <1>1, <1>2, <2>1
<1>4. DescrSet(t, td[t].state, td[t].wait_join_td, i)
      BY <1>1 DEF TdType, DescrSet
<1>5. LockSet(u, h) /\ KeepWait /\ KeepGiven /\ KeepJoin
      BY <1>1 DEF TdType, LockSet, KeepWait, KeepGiven, KeepJoin
<1>6. QED
      BY <1>3, <1>4, <1>5

\* The two ways thread_join goes on with the lock of its target.
JoinRefused(t) ==
  /\ At(t, "join_lock")
  /\ td[ut[t].arg].mem_lock = NULL
  /\ td' = [td EXCEPT ![ut[t].arg].mem_lock = t, ![t].intr_off = FALSE]
  /\ Goto(t, "join_refuse")
  /\ UNCHANGED <<mmrll, mmrll_lk, kt, enabled, mpc, freed, got>>

\* The target has a joiner: the interrupts are enabled, the lock still held.
LEMMA JoinRefusedKeeps ==
  ASSUME IInv, NEW t \in Thread, JoinRefused(t)
  PROVE IInv'
<1>1. ut[t].pc = "join_lock" /\ Runs(t) /\ td[ut[t].arg].mem_lock = NULL
      BY DEF JoinRefused, At
<1>2. UNCHANGED <<mmrll, mmrll_lk, kt, enabled, mpc, freed, got>> /\ KeepKt
      BY DEF JoinRefused, KeepKt
<1>3. PICK u \in Thread : u = ut[t].arg /\ u # t /\ td[u].given
      BY <1>1 DEF IInv, Descriptors, Agrees, Births, JoinPc, JoinerPc, WaiterPc
<1>4. UtSet(t, "join_refuse", u) /\ ut' \in UtType
  <2>1. "join_refuse" \in UserLabel
        BY DEF UserLabel
  <2>2. QED
        BY <1>3, <2>1, GotoFacts DEF JoinRefused, IInv
<1>5. /\ DescrSet(t, td[t].state, td[t].wait_join_td, FALSE)
      /\ LockSet(u, t) /\ KeepWait /\ KeepGiven /\ KeepJoin
      /\ td' \in TdType
      BY <1>3, Sets, LockIntrFacts DEF JoinRefused, IInv
<1>6. TypeOK'
      BY <1>2, <1>4, <1>5, <1>3 DEF IInv, TypeOK, TdType, UtType, Arg, States, Lock
<1>7. Descriptors'
  <2>1. Agrees(t, "join_refuse", u, td[t].state, td[t].wait_join_td, FALSE)
        BY <1>1, <1>3, Sets DEF IInv, Descriptors, Agrees, NewPc, JoinPc, JoinerPc, WaiterPc,
           KillPc,
           ExitPc, AwayPc, OnCpuPc, intr
  <2>2. QED
        BY <1>4, <1>5, <2>1, DescriptorsKept DEF IInv
<1>8. Locks'
  <2>1. \A v \in Thread : ~HoldsT(t, v) /\ (HoldsT(t, v)' <=> v = u)
        BY <1>1, <1>3, <1>4 DEF HoldsT, UtSet
  <2>2. QED
        BY <1>1, <1>2, <1>3, <1>4, <1>5, <2>1, Sets, HoldsUser, ListLock, LocksTaken DEF IInv
<1>9. Places' /\ Dispatchers' /\ Births' /\ Joiners' /\ Frees'
      BY <1>1, <1>2, <1>3, <1>4, <1>5, Acting, UserApart
      DEF NewPc, JoinPc, JoinerPc, WaiterPc, KillPc, ExitPc, KeepGiven, GrowGiven
<1>10. QED
      BY <1>6, <1>7, <1>8, <1>9 DEF IInv

\* The lock is released and thread_join returns EINVAL.
LEMMA JoinRefuseKeeps ==
  ASSUME IInv, NEW t \in Thread, JoinRefuse(t)
  PROVE IInv'
<1>1. ut[t].pc = "join_refuse" /\ Runs(t)
      BY DEF JoinRefuse, At
<1>2. UNCHANGED <<mmrll, mmrll_lk, kt, enabled, mpc, freed, got>> /\ KeepKt
      BY DEF JoinRefuse, KeepKt
<1>3. PICK u \in Thread : u = ut[t].arg /\ u # t /\ td[u].given
      BY <1>1 DEF IInv, Descriptors, Agrees, Births, JoinPc, JoinerPc, WaiterPc
<1>4. UtSet(t, "client", NULL) /\ ut' \in UtType
      BY ReturnFacts DEF JoinRefuse, IInv
<1>5. /\ LockSet(u, NULL) /\ KeepDescr /\ KeepWait /\ KeepGiven /\ KeepJoin
      /\ td' \in TdType
      BY <1>3, Sets, LockFacts DEF JoinRefuse, IInv
<1>6. TypeOK'
      BY <1>2, <1>4, <1>5, <1>3 DEF IInv, TypeOK, TdType, UtType, Arg, States, Lock
<1>7. Descriptors'
  <2>1. Agrees(t, "client", NULL, td[t].state, td[t].wait_join_td, td[t].intr_off)
        BY <1>1, Sets DEF IInv, Descriptors, Agrees, NewPc, JoinPc, JoinerPc, WaiterPc, KillPc,
           ExitPc, AwayPc, OnCpuPc, intr
  <2>2. QED
        BY <1>4, <1>5, <2>1, DescriptorsSame DEF IInv
<1>8. Locks'
  <2>1. \A v \in Thread : (HoldsT(t, v) <=> v = u) /\ ~HoldsT(t, v)'
        BY <1>1, <1>3, <1>4 DEF HoldsT, UtSet
  <2>2. td[u].mem_lock = t
        BY <1>3, <2>1 DEF IInv, Locks
  <2>3. QED
        BY <1>1, <1>2, <1>3, <1>4, <1>5, <2>1, <2>2, Sets, HoldsUser, ListLock, LocksReleased
        DEF IInv
<1>9. Places' /\ Dispatchers' /\ Births' /\ Joiners' /\ Frees'
      BY <1>1, <1>2, <1>3, <1>4, <1>5, Acting, UserApart
      DEF NewPc, JoinPc, JoinerPc, WaiterPc, KillPc, ExitPc, KeepGiven, GrowGiven
<1>10. QED
      BY <1>6, <1>7, <1>8, <1>9 DEF IInv

\* The target is over, or the joiner is one-one and is about to wait on the futex.
JoinGoesOn(t, l) ==
  /\ At(t, "join_check")
  /\ \/ l = "join_done" /\ ~td[ut[t].arg].wait
     \/ l = "join_futex" /\ t \in OneOne
  /\ td' = [td EXCEPT ![ut[t].arg].mem_lock = NULL]
  /\ Goto(t, l)
  /\ UNCHANGED <<mmrll, mmrll_lk, kt, enabled, mpc, freed, got>>

\* The lock is released and the joiner does not park.
LEMMA JoinGoesOnKeeps ==
  ASSUME IInv, NEW t \in Thread, NEW l, JoinGoesOn(t, l)
  PROVE IInv'
<1>1. /\ ut[t].pc = "join_check" /\ Runs(t)
      /\ l = "join_done" \/ l = "join_futex"
      /\ l = "join_done" => ~td[ut[t].arg].wait
      /\ l = "join_futex" => t \in OneOne
      BY DEF JoinGoesOn, At
<1>2. UNCHANGED <<mmrll, mmrll_lk, kt, enabled, mpc, freed, got>> /\ KeepKt
      BY DEF JoinGoesOn, KeepKt
<1>3. PICK u \in Thread : u = ut[t].arg /\ u # t /\ td[u].given
      BY <1>1 DEF IInv, Descriptors, Agrees, Births, JoinPc, JoinerPc, WaiterPc
<1>11. \A x \in Thread : t \in MMThread /\ td[x].join_td = t => ~Unwoken(x)
  <2> SUFFICES ASSUME NEW x \in Thread, t \in MMThread, td[x].join_td = t, Unwoken(x)
               PROVE FALSE
      OBVIOUS
  <2>1. x = u /\ ~td[u].wait
        BY <1>1, <1>3, Sets DEF IInv, Joiners, Parks
  <2>2. td[u].mem_lock = t
        BY <1>1, <1>3 DEF IInv, Locks, HoldsT
  <2>3. \A k \in KThread : ~(kt[k].cur = u /\ kt[k].pc = "exit_check")
        BY <2>2, Sets DEF IInv, Locks, HoldsK
  <2>4. u \in OneOne => ut[u].pc = "gone"
        BY <1>3, <2>1 DEF IInv, Joiners, Births
  <2>5. QED
        BY <2>1, <2>3, <2>4 DEF Unwoken
<1>4. UtSet(t, l, u) /\ ut' \in UtType
  <2>1. l \in UserLabel
        BY <1>1 DEF UserLabel
  <2>2. QED
        BY <1>3, <2>1, GotoFacts DEF JoinGoesOn, IInv
<1>5. /\ LockSet(u, NULL) /\ KeepDescr /\ KeepWait /\ KeepGiven /\ KeepJoin
      /\ td' \in TdType
      BY <1>3, Sets, LockFacts DEF JoinGoesOn, IInv
<1>6. TypeOK'
      BY <1>2, <1>4, <1>5, <1>3 DEF IInv, TypeOK, TdType, UtType, Arg, States, Lock
<1>7. Descriptors'
  <2>1. Agrees(t, l, u, td[t].state, td[t].wait_join_td, td[t].intr_off)
        BY <1>1, <1>3, Sets DEF IInv, Descriptors, Agrees, NewPc, JoinPc, JoinerPc, WaiterPc,
           KillPc,
           ExitPc, AwayPc, OnCpuPc, intr
  <2>2. QED
        BY <1>4, <1>5, <2>1, DescriptorsSame DEF IInv
<1>8. Locks'
  <2>1. \A v \in Thread : (HoldsT(t, v) <=> v = u) /\ ~HoldsT(t, v)'
        BY <1>1, <1>3, <1>4 DEF HoldsT, UtSet
  <2>2. td[u].mem_lock = t
        BY <1>3, <2>1 DEF IInv, Locks
  <2>3. QED
        BY <1>1, <1>2, <1>3, <1>4, <1>5, <2>1, <2>2, Sets, HoldsUser, ListLock, LocksReleased
        DEF IInv
<1>9. Places' /\ Dispatchers' /\ Births' /\ Joiners' /\ Frees'
      BY <1>1, <1>2, <1>3, <1>4, <1>5, <1>11, UserApart
      DEF NewPc, JoinPc, JoinerPc, WaiterPc, KillPc, ExitPc, KeepGiven, GrowGiven
<1>10. QED
      BY <1>6, <1>7, <1>8, <1>9 DEF IInv

\* futex(FUTEX_WAIT): the caller sleeps if the wait word is set.
LEMMA JoinFutexKeeps ==
  ASSUME IInv, NEW t \in Thread, NEW l, JoinFutex(t),
         l = IF td[ut[t].arg].wait THEN "join_sleep" ELSE "join_done"
  PROVE IInv'
<1>1. /\ ut[t].pc = "join_futex" /\ Runs(t)
      /\ l = "join_done" \/ l = "join_sleep"
      /\ l = "join_sleep" => td[ut[t].arg].wait
      BY DEF JoinFutex, At
<1>2. UNCHANGED <<td, mmrll, mmrll_lk, kt, enabled, mpc, freed, got>> /\ KeepKt
      BY DEF JoinFutex, KeepKt
<1>3. PICK u \in Thread : u = ut[t].arg /\ u # t /\ td[u].given
      BY <1>1 DEF IInv, Descriptors, Agrees, Births, JoinPc, JoinerPc, WaiterPc
<1>4. UtSet(t, l, u) /\ ut' \in UtType
  <2>1. l \in UserLabel
        BY <1>1 DEF UserLabel
  <2>2. QED
        BY <1>3, <2>1, GotoFacts DEF JoinFutex, IInv
<1>5. /\ DescrSet(t, td[t].state, td[t].wait_join_td, td[t].intr_off)
      /\ KeepWait /\ KeepGiven /\ KeepJoin /\ KeepLock
      /\ td' \in TdType
  <2>1. td' = td /\ td \in TdType
        BY <1>2, Types DEF IInv
  <2>2. QED
        BY <2>1 DEF DescrSet, KeepWait, KeepGiven, KeepJoin, KeepLock
<1>6. TypeOK'
      BY <1>2, <1>4, <1>5, <1>3 DEF IInv, TypeOK, TdType, UtType, Arg, States, Lock
<1>7. Descriptors'
  <2>1. Agrees(t, l, u, td[t].state, td[t].wait_join_td, td[t].intr_off)
        BY <1>1, <1>3, Sets DEF IInv, Descriptors, Agrees, NewPc, JoinPc, JoinerPc, WaiterPc,
           KillPc,
           ExitPc, AwayPc, OnCpuPc, intr
  <2>2. QED
        BY <1>4, <1>5, <2>1, DescriptorsKept DEF IInv
<1>8. Locks'
  <2>1. \A v \in Thread : ~HoldsT(t, v) /\ ~HoldsT(t, v)'
        BY <1>1, <1>4 DEF HoldsT, UtSet
  <2>2. QED
        BY <1>1, <1>2, <1>4, <1>5, <2>1, HoldsUser, ListLock, LocksKept DEF IInv
<1>9. Places' /\ Dispatchers' /\ Births' /\ Joiners' /\ Frees'
      BY <1>1, <1>2, <1>3, <1>4, <1>5, Acting, UserApart
      DEF NewPc, JoinPc, JoinerPc, WaiterPc, KillPc, ExitPc, KeepGiven, GrowGiven
<1>10. QED
      BY <1>6, <1>7, <1>8, <1>9 DEF IInv

\* A many-many joiner has been dispatched again.
LEMMA JoinResumeKeeps ==
  ASSUME IInv, NEW t \in Thread, JoinResume(t)
  PROVE IInv'
<1>1. ut[t].pc = "join_parked" /\ Runs(t)
      BY DEF JoinResume, At
<1>2. UNCHANGED <<td, mmrll, mmrll_lk, kt, enabled, mpc, freed, got>> /\ KeepKt
      BY DEF JoinResume, KeepKt
<1>3. PICK u \in Thread : u = ut[t].arg /\ u # t /\ td[u].given
      BY <1>1 DEF IInv, Descriptors, Agrees, Births, JoinPc, JoinerPc, WaiterPc
<1>4. UtSet(t, "join_done", u) /\ ut' \in UtType
  <2>1. "join_done" \in UserLabel
        BY DEF UserLabel
  <2>2. QED
        BY <1>3, <2>1, GotoFacts DEF JoinResume, IInv
<1>5. /\ DescrSet(t, td[t].state, td[t].wait_join_td, td[t].intr_off)
      /\ KeepWait /\ KeepGiven /\ KeepJoin /\ KeepLock
      /\ td' \in TdType
  <2>1. td' = td /\ td \in TdType
        BY <1>2, Types DEF IInv
  <2>2. QED
        BY <2>1 DEF DescrSet, KeepWait, KeepGiven, KeepJoin, KeepLock
<1>6. TypeOK'
      BY <1>2, <1>4, <1>5, <1>3 DEF IInv, TypeOK, TdType, UtType, Arg, States, Lock
<1>7. Descriptors'
  <2>1. Agrees(t, "join_done", u, td[t].state, td[t].wait_join_td, td[t].intr_off)
        BY <1>1, <1>3, Sets DEF IInv, Descriptors, Agrees, NewPc, JoinPc, JoinerPc, WaiterPc,
           KillPc,
           ExitPc, AwayPc, OnCpuPc, intr
  <2>2. QED
        BY <1>4, <1>5, <2>1, DescriptorsKept DEF IInv
<1>8. Locks'
  <2>1. \A v \in Thread : ~HoldsT(t, v) /\ ~HoldsT(t, v)'
        BY <1>1, <1>4, Acting DEF HoldsT, UtSet
  <2>2. QED
        BY <1>1, <1>2, <1>4, <1>5, <2>1, HoldsUser, ListLock, LocksKept DEF IInv
<1>9. Places' /\ Dispatchers' /\ Births' /\ Joiners' /\ Frees'
      BY <1>1, <1>2, <1>3, <1>4, <1>5, Acting, UserApart
      DEF NewPc, JoinPc, JoinerPc, WaiterPc, KillPc, ExitPc, KeepGiven, GrowGiven
<1>10. QED
      BY <1>6, <1>7, <1>8, <1>9 DEF IInv

\* The state, the wait target and the interrupt flag of a thread get new values.
LEMMA WaitFacts ==
  ASSUME TypeOK, NEW t \in Thread, NEW s \in States, NEW f \in Thread \cup {NULL},
         NEW i \in BOOLEAN,
         td' = [td EXCEPT ![t].state = s, ![t].wait_join_td = f, ![t].intr_off = i]
  PROVE /\ DescrSet(t, s, f, i)
        /\ KeepWait /\ KeepGiven /\ KeepJoin /\ KeepLock
        /\ td' \in TdType
<1>1. td \in TdType
      BY Types
<1>2. td' = [[[td EXCEPT ![t].state = s] EXCEPT ![t].wait_join_td = f] EXCEPT ![t].intr_off = i]
      BY <1>1 DEF TdType
<1>3. td' \in TdType
  <2>1. /\ \A d \in TdType : [d EXCEPT ![t].state = s] \in TdType
        /\ \A d \in TdType : [d EXCEPT ![t].wait_join_td = f] \in TdType
        /\ \A d \in TdType : [d EXCEPT ![t].intr_off = i] \in TdType
        BY TdUpdates
  <2>2. QED
        BY <1>1, <1>2, <2>1
<1>4. DescrSet(t, s, f, i)
      BY <1>1 DEF TdType, DescrSet
<1>5. KeepWait /\ KeepGiven /\ KeepJoin /\ KeepLock
      BY <1>1 DEF TdType, KeepWait, KeepGiven, KeepJoin, KeepLock
<1>6. QED
      BY <1>3, <1>4, <1>5

\* The joiner has stopped waiting.
LEMMA JoinDoneKeeps ==
  ASSUME IInv, NEW t \in Thread, JoinDone(t)
  PROVE IInv'
<1>1. ut[t].pc = "join_done" /\ Runs(t)
      BY DEF JoinDone, At
<1>2. UNCHANGED <<mmrll, mmrll_lk, kt, enabled, mpc, freed, got>> /\ KeepKt
      BY DEF JoinDone, KeepKt
<1>3. PICK u \in Thread : u = ut[t].arg /\ u # t /\ td[u].given
      BY <1>1 DEF IInv, Descriptors, Agrees, Births, JoinPc, JoinerPc, WaiterPc
<1>4. UtSet(t, "join_free", u) /\ ut' \in UtType
  <2>1. "join_free" \in UserLabel
        BY DEF UserLabel
  <2>2. QED
        BY <1>3, <2>1, GotoFacts DEF JoinDone, IInv
<1>5. /\ DescrSet(t, "RUNNING", NULL, FALSE)
      /\ KeepWait /\ KeepGiven /\ KeepJoin /\ KeepLock
      /\ td' \in TdType
      BY WaitFacts DEF JoinDone, IInv, States
<1>6. TypeOK'
      BY <1>2, <1>4, <1>5, <1>3 DEF IInv, TypeOK, TdType, UtType, Arg, States, Lock
<1>7. Descriptors'
  <2>1. Agrees(t, "join_free", u, "RUNNING", NULL, FALSE)
        BY <1>1, <1>3, Sets DEF IInv, Descriptors, Agrees, NewPc, JoinPc, JoinerPc, WaiterPc,
           KillPc,
           ExitPc, AwayPc, OnCpuPc, intr
  <2>2. QED
        BY <1>4, <1>5, <2>1, DescriptorsKept DEF IInv
<1>8. Locks'
  <2>1. \A v \in Thread : ~HoldsT(t, v) /\ ~HoldsT(t, v)'
        BY <1>1, <1>4 DEF HoldsT, UtSet
  <2>2. QED
        BY <1>1, <1>2, <1>4, <1>5, <2>1, HoldsUser, ListLock, LocksKept DEF IInv
<1>9. Places' /\ Dispatchers' /\ Births' /\ Joiners' /\ Frees'
      BY <1>1, <1>2, <1>3, <1>4, <1>5, Acting, UserApart
      DEF NewPc, JoinPc, JoinerPc, WaiterPc, KillPc, ExitPc, KeepGiven, GrowGiven
<1>10. QED
      BY <1>6, <1>7, <1>8, <1>9 DEF IInv

-----------------------------------------------------------------------------
(* thread_yield and thread_sigmask                                         *)

\* A thread that has yielded is dispatched again.
LEMMA YieldBackKeeps ==
  ASSUME IInv, NEW t \in Thread, YieldBack(t)
  PROVE IInv'
<1>1. ut[t].pc = "yielded" /\ Runs(t)
      BY DEF YieldBack, At
<1>2. UNCHANGED <<mmrll, mmrll_lk, kt, enabled, mpc, freed, got>> /\ KeepKt
      BY DEF YieldBack, KeepKt
<1>4. UtSet(t, "client", NULL) /\ ut' \in UtType
      BY ReturnFacts DEF YieldBack, IInv
<1>5. /\ DescrSet(t, td[t].state, td[t].wait_join_td, FALSE)
      /\ KeepWait /\ KeepGiven /\ KeepJoin /\ KeepLock
      /\ td' \in TdType
      BY IntrFacts DEF YieldBack, IInv
<1>6. TypeOK'
      BY <1>2, <1>4, <1>5 DEF IInv, TypeOK, TdType, UtType, Arg, States, Lock
<1>7. Descriptors'
  <2>1. Agrees(t, "client", NULL, td[t].state, td[t].wait_join_td, FALSE)
        BY <1>1, Sets DEF IInv, Descriptors, Agrees, NewPc, JoinPc, JoinerPc, WaiterPc, KillPc,
           ExitPc, AwayPc, OnCpuPc, intr
  <2>2. QED
        BY <1>4, <1>5, <2>1, DescriptorsKept DEF IInv
<1>8. Locks'
  <2>1. \A v \in Thread : ~HoldsT(t, v) /\ ~HoldsT(t, v)'
        BY <1>1, <1>4 DEF HoldsT, UtSet
  <2>2. QED
        BY <1>1, <1>2, <1>4, <1>5, <2>1, HoldsUser, ListLock, LocksKept DEF IInv
<1>9. Places' /\ Dispatchers' /\ Births' /\ Joiners' /\ Frees'
      BY <1>1, <1>2, <1>4, <1>5, Acting, UserApart
      DEF NewPc, JoinPc, JoinerPc, WaiterPc, KillPc, ExitPc, KeepGiven, GrowGiven
<1>10. QED
      BY <1>6, <1>7, <1>8, <1>9 DEF IInv

\* A signal mask gets a new value.
LEMMA MaskFacts ==
  ASSUME IInv, NEW t \in Thread, NEW S \in SUBSET Signal, ThreadSigmask(t, S)
  PROVE /\ \E i \in BOOLEAN : /\ DescrSet(t, td[t].state, td[t].wait_join_td, i)
                              /\ t \in OneOne \/ ~i
        /\ KeepWait /\ KeepGiven /\ KeepJoin /\ KeepLock
        /\ td' \in TdType /\ KeepKt /\ kt' \in KtType
        /\ got' \in [Thread -> SUBSET Signal]
<1>1. td \in TdType /\ kt \in KtType /\ got \in [Thread -> SUBSET Signal]
      BY Types DEF IInv
<1>2. CASE /\ t \in OneOne
           /\ td' = [td EXCEPT ![t].blocked = S, ![t].pend_sig = @ \cap S]
           /\ got' = [got EXCEPT ![t] = @ \cup (td[t].pend_sig \ S)]
           /\ UNCHANGED kt
  <2>1. td' = [[td EXCEPT ![t].blocked = S] EXCEPT ![t].pend_sig = td[t].pend_sig \cap S]
        BY <1>1, <1>2 DEF TdType
  <2>2. td[t].pend_sig \in SUBSET Signal /\ td[t].pend_sig \cap S \in SUBSET Signal
        BY <1>1 DEF TdType
  <2>3. td' \in TdType
    <3>1. /\ \A d \in TdType : [d EXCEPT ![t].blocked = S] \in TdType
          /\ \A d \in TdType : [d EXCEPT ![t].pend_sig = td[t].pend_sig \cap S] \in TdType
          BY <2>2, TdUpdates
    <3>2. QED
          BY <1>1, <2>1, <3>1
  <2>4. DescrSet(t, td[t].state, td[t].wait_join_td, td[t].intr_off)
        BY <1>1, <1>2 DEF TdType, DescrSet
  <2>5. KeepWait /\ KeepGiven /\ KeepJoin /\ KeepLock
        BY <1>1, <1>2 DEF TdType, KeepWait, KeepGiven, KeepJoin, KeepLock
  <2>6. got' \in [Thread -> SUBSET Signal]
        BY <1>1, <1>2, <2>2
  <2>7. td[t].intr_off \in BOOLEAN
        BY <1>1 DEF TdType
  <2>8. QED
        BY <1>1, <1>2, <2>3, <2>4, <2>5, <2>6, <2>7 DEF KeepKt
<1>3. ASSUME NEW k \in KThread,
             td' = [td EXCEPT ![t].blocked = S, ![t].intr_off = FALSE],
             kt' = [kt EXCEPT ![k].pend = @ \cap S],
             got' = [got EXCEPT ![t] = @ \cup (kt[k].pend \ S)]
      PROVE /\ DescrSet(t, td[t].state, td[t].wait_join_td, FALSE)
            /\ KeepWait /\ KeepGiven /\ KeepJoin /\ KeepLock
            /\ td' \in TdType /\ KeepKt /\ kt' \in KtType
            /\ got' \in [Thread -> SUBSET Signal]
  <2>1. td' = [[td EXCEPT ![t].blocked = S] EXCEPT ![t].intr_off = FALSE]
        BY <1>1, <1>3 DEF TdType
  <2>2. td' \in TdType
    <3>1. /\ \A d \in TdType : [d EXCEPT ![t].blocked = S] \in TdType
          /\ \A d \in TdType : [d EXCEPT ![t].intr_off = FALSE] \in TdType
          BY TdUpdates
    <3>2. QED
          BY <1>1, <2>1, <3>1
  <2>3. DescrSet(t, td[t].state, td[t].wait_join_td, FALSE)
        BY <1>1, <1>3 DEF TdType, DescrSet
  <2>4. KeepWait /\ KeepGiven /\ KeepJoin /\ KeepLock
        BY <1>1, <1>3 DEF TdType, KeepWait, KeepGiven, KeepJoin, KeepLock
  <2>5. kt[k].pend \in SUBSET Signal
        BY <1>1 DEF KtType
  <2>6. got' \in [Thread -> SUBSET Signal]
        BY <1>1, <1>3, <2>5
  <2>7. KeepKt /\ kt' \in KtType
        BY <1>1, <1>3, <2>5 DEF KtType, KeepKt
  <2>8. QED
        BY <2>2, <2>3, <2>4, <2>6, <2>7
<1>4. QED
      BY <1>2, <1>3 DEF ThreadSigmask

\* thread_sigmask gives the caller another mask, and enables its interrupts.
LEMMA ThreadSigmaskKeeps ==
  ASSUME IInv, NEW t \in Thread, NEW S \in SUBSET Signal, ThreadSigmask(t, S)
  PROVE IInv'
<1>1. ut[t].pc = "client" /\ Runs(t)
      BY DEF ThreadSigmask, At
<1>2. UNCHANGED <<mmrll, mmrll_lk, ut, enabled, mpc, freed>>
      BY DEF ThreadSigmask
<1>3. PICK i \in BOOLEAN : /\ DescrSet(t, td[t].state, td[t].wait_join_td, i)
                           /\ KeepWait /\ KeepGiven /\ KeepJoin /\ KeepLock
                           /\ td' \in TdType /\ kt' \in KtType /\ KeepKt
                           /\ got' \in [Thread -> SUBSET Signal]
      BY MaskFacts
<1>4. UtSet(t, "client", ut[t].arg) /\ ut' \in UtType
      BY <1>1, <1>2, Types DEF IInv, UtSet
<1>5. /\ DescrSet(t, td[t].state, td[t].wait_join_td, i)
      /\ KeepWait /\ KeepGiven /\ KeepJoin /\ KeepLock
      /\ td' \in TdType
      BY <1>3
<1>6. TypeOK'
      BY <1>2, <1>4, <1>5, <1>3 DEF IInv, TypeOK, TdType, KtType, UtType, Arg, States, Lock
<1>7. Descriptors'
  <2>1. Agrees(t, "client", ut[t].arg, td[t].state, td[t].wait_join_td, i)
        BY <1>1, Sets DEF IInv, Descriptors, Agrees, NewPc, JoinPc, JoinerPc, WaiterPc, KillPc,
           ExitPc, AwayPc, OnCpuPc, intr
  <2>2. QED
        BY <1>4, <1>5, <2>1, DescriptorsKept DEF IInv
<1>8. Locks'
  <2>1. \A v \in Thread : ~HoldsT(t, v) /\ ~HoldsT(t, v)'
        BY <1>1, <1>4 DEF HoldsT, UtSet
  <2>2. QED
        BY <1>1, <1>2, <1>3, <1>4, <1>5, <2>1, HoldsUser, ListLock, LocksKept DEF IInv
<1>9. Places' /\ Dispatchers' /\ Births' /\ Joiners' /\ Frees'
      BY <1>1, <1>2, <1>3, <1>4, <1>5, Acting, UserApart
      DEF NewPc, JoinPc, JoinerPc, WaiterPc, KillPc, ExitPc, KeepGiven, GrowGiven
<1>10. QED
      BY <1>6, <1>7, <1>8, <1>9 DEF IInv

-----------------------------------------------------------------------------
(* thread_kill of a one-one thread                                         *)

\* The signal is handled or is pending: no place of a thread changes, except that a
\* futex sleep of the target ends.
LEMMA KillOneOneKeeps ==
  ASSUME IInv, NEW t \in Thread, NEW u \in Thread, NEW s \in Signal, KillOneOne(t, u, s)
  PROVE IInv'
<1>1. ut[t].pc = "client" /\ Runs(t) /\ u \in OneOne /\ Runs(u)
      BY DEF KillOneOne, At, Runs
<1>2. UNCHANGED <<mmrll, mmrll_lk, enabled, mpc, freed>> /\ kt' = kt /\ KeepKt
      BY DEF KillOneOne, KeepKt
<1>3. /\ DescrSet(t, td[t].state, td[t].wait_join_td, td[t].intr_off) /\ KeepDescr
      /\ KeepWait /\ KeepGiven /\ KeepJoin /\ KeepLock
      /\ td' \in TdType
  <2>1. td \in TdType
        BY Types DEF IInv
  <2>2. CASE td' = td
        BY <2>1, <2>2 DEF DescrSet, KeepDescr, KeepWait, KeepGiven, KeepJoin, KeepLock
  <2>3. CASE td' = [td EXCEPT ![u].pend_sig = td[u].pend_sig \cup {s}]
    <3>1. td[u].pend_sig \cup {s} \in SUBSET Signal
          BY <2>1 DEF TdType
    <3>2. td' \in TdType
          BY <2>1, <2>3, <3>1, TdUpdates
    <3>3. QED
          BY <2>1, <2>3, <3>2
          DEF DescrSet, KeepDescr, KeepWait, KeepGiven, KeepJoin, KeepLock, TdType
  <2>4. QED
        BY <2>2, <2>3 DEF KillOneOne
<1>4. got' \in [Thread -> SUBSET Signal]
      BY Types DEF IInv, KillOneOne
<1>5. CASE ut' = ut
  <2>1. UtSet(t, "client", ut[t].arg) /\ ut' \in UtType
        BY <1>1, <1>5, Types DEF IInv, UtSet
  <2>2. TypeOK'
        BY <1>2, <1>3, <1>4, <2>1 DEF IInv, TypeOK, TdType, UtType, Arg, States
  <2>3. Descriptors'
        BY <1>3, <1>5 DEF IInv, Descriptors, KeepDescr
  <2>4. Locks'
    <3>1. \A v \in Thread : ~HoldsT(t, v) /\ ~HoldsT(t, v)'
          BY <1>1, <2>1 DEF HoldsT, UtSet
    <3>2. QED
          BY <1>1, <1>2, <1>3, <2>1, <3>1, HoldsUser, ListLock, LocksKept DEF IInv
  <2>5. Places' /\ Dispatchers' /\ Births' /\ Joiners' /\ Frees'
        BY <1>1, <1>2, <1>3, <2>1, Acting, UserApart
        DEF NewPc, JoinPc, JoinerPc, WaiterPc, KillPc, ExitPc, KeepGiven, GrowGiven
  <2>6. QED
        BY <2>2, <2>3, <2>4, <2>5 DEF IInv
<1>6. CASE ut[u].pc = "join_sleep" /\ ut' = [ut EXCEPT ![u].pc = "join_done"]
  <2>1. UtSet(u, "join_done", ut[u].arg) /\ ut' \in UtType
    <3>1. "join_done" \in UserLabel
          BY DEF UserLabel
    <3>2. QED
          BY <1>6, <3>1, GotoFacts DEF IInv, Goto
  <2>2. TypeOK'
        BY <1>2, <1>3, <1>4, <2>1 DEF IInv, TypeOK, TdType, UtType, Arg, States
  <2>3. Descriptors'
    <3>1. Agrees(u, "join_done", ut[u].arg, td[u].state, td[u].wait_join_td, td[u].intr_off)
          BY <1>1, <1>6, Sets DEF IInv, Descriptors, Agrees, NewPc, JoinPc, JoinerPc, WaiterPc,
             KillPc, ExitPc, AwayPc, OnCpuPc
    <3>2. QED
          BY <1>3, <2>1, <3>1, DescriptorsSame DEF IInv
  <2>4. Locks'
    <3>1. \A v \in Thread : ~HoldsT(u, v) /\ ~HoldsT(u, v)'
          BY <1>6, <2>1 DEF HoldsT, UtSet
    <3>2. QED
          BY <1>2, <1>3, <1>6, <2>1, <3>1, HoldsUser, ListLock, LocksKept DEF IInv
  <2>5. Places' /\ Dispatchers' /\ Births' /\ Joiners' /\ Frees'
    <3>1. ut[u].arg \in Thread /\ td[ut[u].arg].given
          BY <1>6 DEF IInv, Descriptors, Agrees, Births, JoinPc, JoinerPc, WaiterPc
    <3>2. QED
          BY <1>1, <1>2, <1>3, <1>6, <2>1, <3>1, Acting, UserApart
          DEF NewPc, JoinPc, JoinerPc, WaiterPc, KillPc, ExitPc, KeepGiven, GrowGiven
  <2>6. QED
        BY <2>2, <2>3, <2>4, <2>5 DEF IInv
<1>7. QED
      BY <1>5, <1>6 DEF KillOneOne

-----------------------------------------------------------------------------
(* thread_create                                                           *)

\* The lock of the ready list is taken.
LEMMA CreateLockKeeps ==
  ASSUME IInv, NEW t \in Thread, CreateLock(t)
  PROVE IInv'
<1>1. ut[t].pc = "create_lock" /\ Runs(t)
      BY DEF CreateLock, At
<1>2. UNCHANGED <<td, mmrll, kt, enabled, mpc, freed, got>> /\ KeepKt
      BY DEF CreateLock, KeepKt
<1>3. PICK u \in Thread : u = ut[t].arg /\ u # t
      BY <1>1 DEF IInv, Descriptors, Agrees, NewPc
<1>11. mmrll_lk' = t /\ mmrll_lk' \in Lock
      BY Sets DEF CreateLock, mmrll_lock
<1>4. UtSet(t, "create_enq", u) /\ ut' \in UtType
  <2>1. "create_enq" \in UserLabel
        BY DEF UserLabel
  <2>2. QED
        BY <1>3, <2>1, GotoFacts DEF CreateLock, IInv
<1>5. /\ DescrSet(t, td[t].state, td[t].wait_join_td, td[t].intr_off)
      /\ KeepWait /\ KeepGiven /\ KeepJoin /\ KeepLock
      /\ td' \in TdType
  <2>1. td' = td /\ td \in TdType
        BY <1>2, Types DEF IInv
  <2>2. QED
        BY <2>1 DEF DescrSet, KeepWait, KeepGiven, KeepJoin, KeepLock
<1>6. TypeOK'
      BY <1>11, <1>2, <1>4, <1>5, <1>3 DEF IInv, TypeOK, TdType, UtType, Arg, States, Lock
<1>7. Descriptors'
  <2>1. Agrees(t, "create_enq", u, td[t].state, td[t].wait_join_td, td[t].intr_off)
        BY <1>1, <1>3, Sets DEF IInv, Descriptors, Agrees, NewPc, JoinPc, JoinerPc, WaiterPc,
           KillPc,
           ExitPc, AwayPc, OnCpuPc, intr
  <2>2. QED
        BY <1>4, <1>5, <2>1, DescriptorsKept DEF IInv
<1>8. Locks'
  <2>1. \A v \in Thread : ~HoldsT(t, v) /\ ~HoldsT(t, v)'
        BY <1>1, <1>4 DEF HoldsT, UtSet
  <2>2. \A x \in MMThread : mmrll_lk' = x => ut'[x].pc = "create_enq"
        BY <1>4, <1>11 DEF UtSet
  <2>3. QED
        BY <1>2, <1>4, <1>5, <2>1, <2>2, HoldsUser, LocksKept DEF IInv
<1>9. Places' /\ Dispatchers' /\ Births' /\ Joiners' /\ Frees'
      BY <1>1, <1>2, <1>3, <1>4, <1>5, Acting, UserApart
      DEF NewPc, JoinPc, JoinerPc, WaiterPc, KillPc, ExitPc, KeepGiven, GrowGiven
<1>10. QED
      BY <1>6, <1>7, <1>8, <1>9 DEF IInv

\* clone has failed, and thread_create returns EAGAIN.
CreateFails(t) ==
  /\ At(t, "create_clone") /\ Return(t)
  /\ UNCHANGED <<td, mmrll, mmrll_lk, kt, enabled, mpc, freed, got>>

\* The handle stays unborn.
LEMMA CreateFailsKeeps ==
  ASSUME IInv, NEW t \in Thread, CreateFails(t)
  PROVE IInv'
<1>1. ut[t].pc = "create_clone" /\ Runs(t)
      BY DEF CreateFails, At
<1>2. UNCHANGED <<td, mmrll, mmrll_lk, kt, enabled, mpc, freed, got>> /\ KeepKt
      BY DEF CreateFails, KeepKt
<1>4. UtSet(t, "client", NULL) /\ ut' \in UtType
      BY ReturnFacts DEF CreateFails, IInv
<1>5. /\ DescrSet(t, td[t].state, td[t].wait_join_td, td[t].intr_off)
      /\ KeepWait /\ KeepGiven /\ KeepJoin /\ KeepLock
      /\ td' \in TdType
  <2>1. td' = td /\ td \in TdType
        BY <1>2, Types DEF IInv
  <2>2. QED
        BY <2>1 DEF DescrSet, KeepWait, KeepGiven, KeepJoin, KeepLock
<1>6. TypeOK'
      BY <1>2, <1>4, <1>5 DEF IInv, TypeOK, TdType, UtType, Arg, States, Lock
<1>7. Descriptors'
  <2>1. Agrees(t, "client", NULL, td[t].state, td[t].wait_join_td, td[t].intr_off)
        BY <1>1, Sets DEF IInv, Descriptors, Agrees, NewPc, JoinPc, JoinerPc, WaiterPc, KillPc,
           ExitPc, AwayPc, OnCpuPc, intr
  <2>2. QED
        BY <1>4, <1>5, <2>1, DescriptorsKept DEF IInv
<1>8. Locks'
  <2>1. \A v \in Thread : ~HoldsT(t, v) /\ ~HoldsT(t, v)'
        BY <1>1, <1>4 DEF HoldsT, UtSet
  <2>2. QED
        BY <1>1, <1>2, <1>4, <1>5, <2>1, HoldsUser, ListLock, LocksKept DEF IInv
<1>9. Places' /\ Dispatchers' /\ Births' /\ Joiners' /\ Frees'
      BY <1>1, <1>2, <1>4, <1>5, Acting, UserApart
      DEF NewPc, JoinPc, JoinerPc, WaiterPc, KillPc, ExitPc, KeepGiven, GrowGiven
<1>10. QED
      BY <1>6, <1>7, <1>8, <1>9 DEF IInv

\* The handle is given out.
LEMMA CreateStoreKeeps ==
  ASSUME IInv, NEW t \in Thread, CreateStore(t)
  PROVE IInv'
<1>1. ut[t].pc = "create_store" /\ Runs(t)
      BY DEF CreateStore, At
<1>2. UNCHANGED <<mmrll, mmrll_lk, kt, enabled, mpc, freed, got>> /\ KeepKt
      BY DEF CreateStore, KeepKt
<1>3. PICK u \in Thread : u = ut[t].arg /\ ut[u].pc # "unborn"
      BY <1>1 DEF IInv, Descriptors, Agrees, NewPc, Births
<1>4. UtSet(t, "client", NULL) /\ ut' \in UtType
      BY ReturnFacts DEF CreateStore, IInv
<1>5. /\ DescrSet(t, td[t].state, td[t].wait_join_td, td[t].intr_off)
      /\ KeepWait /\ GrowGiven /\ KeepJoin /\ KeepLock
      /\ td' \in TdType
  <2>1. td \in TdType /\ td' = [td EXCEPT ![u].given = TRUE]
        BY <1>3, Types DEF IInv, CreateStore
  <2>2. td' \in TdType
        BY <2>1 DEF TdType
  <2>3. QED
        BY <1>3, <2>1, <2>2 DEF TdType, DescrSet, KeepWait, GrowGiven, KeepJoin, KeepLock
<1>6. TypeOK'
      BY <1>2, <1>4, <1>5, <1>3 DEF IInv, TypeOK, TdType, UtType, Arg, States, Lock
<1>7. Descriptors'
  <2>1. Agrees(t, "client", NULL, td[t].state, td[t].wait_join_td, td[t].intr_off)
        BY <1>1, Sets DEF IInv, Descriptors, Agrees, NewPc, JoinPc, JoinerPc, WaiterPc, KillPc,
           ExitPc, AwayPc, OnCpuPc, intr
  <2>2. QED
        BY <1>4, <1>5, <2>1, DescriptorsKept DEF IInv
<1>8. Locks'
  <2>1. \A v \in Thread : ~HoldsT(t, v) /\ ~HoldsT(t, v)'
        BY <1>1, <1>4 DEF HoldsT, UtSet
  <2>2. QED
        BY <1>1, <1>2, <1>4, <1>5, <2>1, HoldsUser, ListLock, LocksKept DEF IInv
<1>9. Places' /\ Dispatchers' /\ Births' /\ Joiners' /\ Frees'
      BY <1>1, <1>2, <1>3, <1>4, <1>5, Acting, UserApart
      DEF NewPc, JoinPc, JoinerPc, WaiterPc, KillPc, ExitPc, KeepGiven, GrowGiven
<1>10. QED
      BY <1>6, <1>7, <1>8, <1>9 DEF IInv

TdRec == [state: States, wait: BOOLEAN, given: BOOLEAN, join_td: Thread \cup {NULL},
          wait_join_td: Thread \cup {NULL}, intr_off: BOOLEAN,
          pend_sig: SUBSET Signal, blocked: SUBSET Signal, mem_lock: Lock]

\* The values that td_oo_init and td_mm_init give to a descriptor.
LEMMA InitRecord ==
  ASSUME NEW u \in Thread, NEW S \in SUBSET Signal
  PROVE \E r \in TdRec :
          /\ r = td_init(u, S)
          /\ r.state = "RUNNING" /\ r.join_td = NULL /\ ~r.given /\ r.mem_lock = NULL
          /\ r.wait <=> u \in MMThread
<1>1. PICK b \in BOOLEAN : b = (u \notin OneOne)
      OBVIOUS
<1>2. b <=> u \in MMThread
      BY <1>1, Sets
<1>3. td_init(u, S) = [state |-> "RUNNING", wait |-> b, given |-> FALSE, join_td |-> NULL,
                       wait_join_td |-> NULL, intr_off |-> FALSE, pend_sig |-> {},
                       blocked |-> S, mem_lock |-> NULL]
      BY <1>1 DEF td_init
<1>4. td_init(u, S) \in TdRec
      BY <1>3, Sets DEF TdRec, States
<1>5. QED
      BY <1>2, <1>3, <1>4

\* Thread t makes the descriptor of u, and its own interrupts are off as i says.
MakesDescr(t, u, i, S) ==
  td' = [td EXCEPT ![u] = td_init(u, S), ![t].intr_off = i]

\* What the step leaves in the descriptors.
DescrMade(t, u, i) ==
  /\ \A x \in Thread \ {t, u} :
       /\ td'[x].state = td[x].state /\ td'[x].wait_join_td = td[x].wait_join_td
       /\ td'[x].intr_off = td[x].intr_off
  /\ td'[t].state = td[t].state /\ td'[t].wait_join_td = td[t].wait_join_td
  /\ td'[t].intr_off = i
  /\ td'[u].state = "RUNNING"
  /\ LockSet(u, NULL) /\ KeepWait /\ KeepGiven /\ KeepJoin
  /\ td' \in TdType

\* td_oo_init and td_mm_init: the descriptor of a new handle gets its values, which
\* it has already where others could have looked.
LEMMA InitFacts ==
  ASSUME IInv, NEW u \in Thread, ut[u].pc = "unborn", NEW t \in Thread, t # u,
         NEW i \in BOOLEAN, NEW S \in SUBSET Signal,
         MakesDescr(t, u, i, S)
  PROVE DescrMade(t, u, i)
<1>1. td \in TdType
      BY Types DEF IInv
<1>2. PICK r \in TdRec :
        /\ r = td_init(u, S)
        /\ r.state = "RUNNING" /\ r.join_td = NULL /\ ~r.given /\ r.mem_lock = NULL
        /\ r.wait <=> u \in MMThread
      BY InitRecord
<1>3. td' = [[td EXCEPT ![u] = r] EXCEPT ![t].intr_off = i]
      BY <1>1, <1>2 DEF TdType, MakesDescr
<1>4. PICK e \in TdType : e = [td EXCEPT ![u] = r]
      BY <1>1 DEF TdType, TdRec
<1>5. td' \in TdType
  <2>1. \A d \in TdType : [d EXCEPT ![t].intr_off = i] \in TdType
        BY TdUpdates
  <2>2. QED
        BY <1>3, <1>4, <2>1
<1>6. ~td[u].given /\ td[u].join_td = NULL /\ (td[u].wait <=> u \in MMThread)
      BY DEF IInv, Births
<1>7. \A x \in Thread : e[x] = IF x = u THEN r ELSE td[x]
      BY <1>1, <1>4 DEF TdType
<1>8. /\ \A x \in Thread : x # t => td'[x] = e[x]
      /\ td'[t] = [e[t] EXCEPT !.intr_off = i]
      BY <1>3, <1>4 DEF TdType
<1>9. e[t] = td[t] /\ td[t] \in TdRec
      BY <1>1, <1>7 DEF TdType, TdRec
<1>10. /\ td'[t].state = td[t].state /\ td'[t].wait_join_td = td[t].wait_join_td
       /\ td'[t].intr_off = i /\ td'[t].wait = td[t].wait /\ td'[t].given = td[t].given
       /\ td'[t].join_td = td[t].join_td /\ td'[t].mem_lock = td[t].mem_lock
      BY <1>8, <1>9 DEF TdRec
<1>11. td'[u] = r /\ \A x \in Thread \ {t, u} : td'[x] = td[x]
      BY <1>7, <1>8
<1>12. r.wait = td[u].wait /\ r.given = td[u].given
  <2>1. /\ td[u].wait \in BOOLEAN /\ td[u].given \in BOOLEAN
        /\ r.given \in BOOLEAN /\ r.wait \in BOOLEAN
        BY <1>1, <1>2 DEF TdType, TdRec
  <2>2. QED
        BY <1>2, <1>6, <2>1
<1>13. KeepWait /\ KeepGiven /\ KeepJoin
      BY <1>2, <1>6, <1>10, <1>11, <1>12 DEF KeepWait, KeepGiven, KeepJoin
<1>14. LockSet(u, NULL)
  <2>1. td'[u].mem_lock = NULL /\ \A x \in Thread : x # u => td'[x].mem_lock = td[x].mem_lock
        BY <1>2, <1>10, <1>11
  <2>2. QED
        BY ONLY <2>1 DEF LockSet
<1>15. QED
      BY <1>2, <1>5, <1>10, <1>11, <1>13, <1>14 DEF DescrMade

\* The descriptor is made, and the caller is on its way to start the thread.
LEMMA CreateCallKeeps ==
  ASSUME IInv, NEW t \in Thread, NEW u \in Thread, CreateCall(t, u)
  PROVE IInv'
<1>1. /\ ut[t].pc = "client" /\ Runs(t) /\ ut[u].pc = "unborn" /\ u # Main /\ t # u
      /\ \A v \in Thread : ut[v].arg # u
      BY DEF CreateCall, Calls, At
<1>2. UNCHANGED <<mmrll, mmrll_lk, kt, enabled, mpc, freed, got>> /\ KeepKt
      BY DEF CreateCall, KeepKt
<1>3. PICK l \in {"create_clone", "create_lock"} :
        /\ l = IF u \in OneOne THEN "create_clone" ELSE "create_lock"
        /\ l = "create_clone" => u \in OneOne
        /\ l # "create_clone" => u \in MMThread
      BY Sets
<1>4. UtSet(t, l, u) /\ ut' \in UtType
  <2>1. l \in UserLabel /\ u \in Arg
        BY DEF UserLabel, Arg
  <2>2. QED
        BY <1>3, <2>1, CallFacts DEF CreateCall, Calls, IInv
<1>5. PICK i \in BOOLEAN :
        i = intr(t, u \in MMThread) /\ (t \in MMThread /\ u \in MMThread => i)
  <2>1. CASE t \in OneOne
        BY <2>1, Sets DEF intr
  <2>2. CASE t \notin OneOne /\ u \in MMThread
    <3>1. (u \in MMThread) = TRUE
          BY <2>2
    <3>2. intr(t, u \in MMThread) = TRUE
          BY <2>2, <3>1 DEF intr
    <3>3. QED
          BY <3>2
  <2>3. CASE t \notin OneOne /\ u \notin MMThread
    <3>1. (u \in MMThread) = FALSE
          BY <2>3
    <3>2. intr(t, u \in MMThread) = FALSE
          BY <2>3, <3>1 DEF intr
    <3>3. QED
          BY <2>3, <3>2
  <2>4. QED
        BY <2>1, <2>2, <2>3
<1>6. /\ \A x \in Thread \ {t, u} :
           /\ td'[x].state = td[x].state /\ td'[x].wait_join_td = td[x].wait_join_td
           /\ td'[x].intr_off = td[x].intr_off
      /\ td'[t].state = td[t].state /\ td'[t].wait_join_td = td[t].wait_join_td
      /\ td'[t].intr_off = i
      /\ td'[u].state = "RUNNING"
      /\ LockSet(u, NULL) /\ KeepWait /\ KeepGiven /\ KeepJoin
      /\ td' \in TdType
  <2>1. PICK S \in SUBSET Signal : S = td[t].blocked
        BY Types DEF IInv, TdType
  <2>2. MakesDescr(t, u, i, S)
        BY <1>5, <2>1 DEF CreateCall, MakesDescr
  <2>3. IInv /\ ut[u].pc = "unborn" /\ t # u
        BY <1>1
  <2>4. DescrMade(t, u, i)
        BY <2>2, <2>3, InitFacts
  <2>5. QED
        BY ONLY <2>4 DEF DescrMade
<1>7. TypeOK'
      BY <1>2, <1>4, <1>6 DEF IInv, TypeOK, TdType, UtType, Arg, States
<1>8. Descriptors'
  <2> SUFFICES ASSUME NEW x \in Thread
               PROVE Agrees(x, ut'[x].pc, ut'[x].arg, td'[x].state, td'[x].wait_join_td,
                            td'[x].intr_off)
      BY DEF Descriptors
  <2>1. CASE x = t
    <3>1. Agrees(t, l, u, td[t].state, td[t].wait_join_td, i)
          BY <1>1, <1>3, <1>5, Sets DEF IInv, Descriptors, Agrees, NewPc, JoinPc, JoinerPc,
             WaiterPc, KillPc, ExitPc, AwayPc, OnCpuPc
    <3>2. QED
          BY <1>4, <1>6, <2>1, <3>1 DEF UtSet
  <2>2. CASE x = u
        BY <1>1, <1>4, <1>6, <2>2 DEF Agrees, UtSet, NewPc, JoinPc,
           JoinerPc, WaiterPc, KillPc, ExitPc, AwayPc, OnCpuPc
  <2>3. CASE x # t /\ x # u
        BY <1>4, <1>6, <2>3 DEF IInv, Descriptors, UtSet
  <2>4. QED
        BY <2>1, <2>2, <2>3
<1>9. Locks'
  <2>1. \A v \in Thread : ~HoldsT(t, v) /\ ~HoldsT(t, v)'
        BY <1>1, <1>3, <1>4 DEF HoldsT, UtSet
  <2>2. \A x \in Thread : ~HoldsT(x, u)
    <3>1. ~td[u].given
          BY <1>1 DEF IInv, Births
    <3>2. QED
          BY <1>1, <3>1 DEF IInv, Births, HoldsT, JoinPc, JoinerPc, WaiterPc, KillPc
  <2>3. \A k \in KThread : ~HoldsK(k, u)
        BY <1>1 DEF IInv, Births, Off, Dispatched, HoldsK
  <2>4. QED
        BY <1>1, <1>2, <1>4, <1>6, <2>1, <2>2, <2>3, HoldsUser, ListLock, LocksReset DEF IInv
<1>10. Places' /\ Dispatchers' /\ Births' /\ Joiners' /\ Frees'
      BY <1>1, <1>2, <1>3, <1>4, <1>6, Acting, UserApart
      DEF NewPc, JoinPc, JoinerPc, WaiterPc, KillPc, ExitPc, KeepGiven, GrowGiven
<1>11. QED
      BY <1>7, <1>8, <1>9, <1>10 DEF IInv

\* The new thread u is in its client's code and its creator, if it is a thread, on
\* its way back.
Born(u) ==
  /\ ut'[u].pc = "client"
  /\ \A x \in Thread \ {u} :
       \/ /\ ut'[x].pc = ut[x].pc /\ ut'[x].arg = ut[x].arg
          /\ ut[x].pc \in NewPc => ut[x].arg # u
       \/ /\ ut[x].pc \in NewPc /\ ut[x].arg = u
          /\ \/ ut'[x].pc = "client"
             \/ ut'[x].pc = "create_store" /\ ut'[x].arg = u

\* The birth of a thread concerns nobody but its creator.
LEMMA BirthApart ==
  ASSUME IInv, NEW u \in Thread, ut[u].pc = "unborn", Born(u), KeepKt, KeepJoin,
         freed' = freed, \A x \in Thread : Spent(x)' = Spent(x),
         mpc' = "create" <=> ut'[Main].pc = "unborn",
         td'[u].wait,
         \A x \in Thread \ {u} : td'[x].wait = td[x].wait /\ td'[x].given = td[x].given,
         \A x \in Thread \ {u} : Ready(x)' <=> Ready(x)
  PROVE Dispatchers' /\ Births' /\ Joiners' /\ Frees'
<1>1. /\ \A x \in Thread : SameOn(x)
      /\ ~Dispatched(u) /\ ~Ready(u) /\ ~td[u].given /\ td[u].join_td = NULL
      BY DEF KeepKt, SameOn, Dispatched, Runs, Posting, IInv, Births, Off
<1>2. \A x \in Thread \ {u} : Off(x)' <=> Off(x)
      BY <1>1 DEF SameOn, Off
<1>3. \A k \in KThread : kt[k].cur # u /\ kt'[k].cur # u
      BY <1>1 DEF KeepKt, Dispatched
<1>4. Dispatchers'
      BY <1>1, <1>3, Sets DEF IInv, Dispatchers, Born, NewPc, KeepKt, SameOn, OnCpuPc, OverPc
<1>5. Births'
  <2>1. \A x \in Thread : ut'[x].pc = "unborn" <=> ut[x].pc = "unborn" /\ x # u
        BY DEF Born, NewPc
  <2>2. \A x \in Thread : ut'[x].pc = "unborn" =>
          /\ ~td'[x].given /\ td'[x].join_td = NULL /\ Off(x)'
          /\ td'[x].wait <=> x \in MMThread
        BY <1>2, <2>1 DEF IInv, Births, KeepJoin
  <2>3. ASSUME NEW x \in Thread, NEW v \in Thread, ut'[x].arg = v
        PROVE /\ ut'[x].pc \in NewPc => ut'[v].pc = "unborn" /\ v # Main
              /\ ut'[x].pc = "create_clone" => v \in OneOne
              /\ ut'[x].pc \in {"create_lock", "create_enq"} => v \in MMThread
              /\ ut'[x].pc = "create_store" => ut'[v].pc # "unborn"
              /\ ut'[x].pc \in JoinPc => td'[v].given
        BY <1>1, <2>1, <2>3 DEF IInv, Births, Born, NewPc, JoinPc, JoinerPc, WaiterPc
  <2>4. ASSUME NEW x \in Thread, ut'[x].pc \in KillPc
        PROVE td'[ut'[x].arg[1]].given
    <3>1. x # u /\ ut[x].arg = ut'[x].arg /\ ut[x].pc \in KillPc
          BY <2>4 DEF Born, KillPc
    <3>2. ut[x].arg[1] \in Thread /\ td[ut[x].arg[1]].given
          BY <3>1 DEF IInv, Descriptors, Agrees, Births
    <3>3. QED
          BY <1>1, <3>1, <3>2
  <2>5. \A x, s \in Thread :
          ut'[x].pc \in NewPc /\ ut'[s].pc \in NewPc /\ ut'[x].arg = ut'[s].arg => x = s
        BY DEF IInv, Births, Born, NewPc
  <2>6. QED
        BY <2>2, <2>3, <2>4, <2>5 DEF Births
<1>6. Joiners'
  <2>1. \A x \in Thread \ {u} : Unwoken(x)' => Unwoken(x)
        BY DEF Unwoken, Born, NewPc, KeepKt
  <2>2. \A x \in Thread : Waking(x)' => Waking(x) /\ x # u
        BY <1>3 DEF Waking, Born, KeepKt
  <2>3. \A x \in Thread, j \in MMThread \ {u} : Parks(j, x) => Parks(j, x)'
        BY <1>1, Sets DEF Parks, Born, NewPc, SameOn
  <2>4. \A x \in Thread : td[x].join_td = u /\ u \in MMThread => ~Unwoken(x)
        BY DEF IInv, Joiners, Parks
  <2>5. \A x \in Thread, j \in MMThread : td'[x].join_td = j /\ Unwoken(x)' => Parks(j, x)'
        BY <1>1, <2>1, <2>3, <2>4, Sets DEF IInv, Joiners, KeepJoin
  <2>6. \A x \in Thread : Waking(x)' =>
          \E j \in MMThread : /\ td'[x].join_td = j /\ ut'[j].arg = x
                              /\ ut'[j].pc = "join_parked" /\ Off(j)'
    <3>1. \A j \in MMThread : ut[j].pc = "join_parked" =>
            j # u /\ ut'[j].pc = "join_parked" /\ ut'[j].arg = ut[j].arg
          BY Sets DEF Born, NewPc
    <3>2. QED
          BY <1>2, <2>2, <3>1, Sets DEF IInv, Joiners, KeepJoin
  <2>7. \A x, v \in Thread : ut'[x].pc \in JoinerPc /\ ut'[x].arg = v => td'[v].join_td = x
        BY DEF IInv, Joiners, Born, KeepJoin, JoinerPc, WaiterPc
  <2>8. \A v \in OneOne : ~td'[v].wait /\ ut'[v].pc # "unborn" => ut'[v].pc = "gone"
        BY Sets DEF IInv, Joiners, Born, NewPc
  <2>9. \A x, v \in Thread : ut'[x].pc = "join_sleep" /\ ut'[x].arg = v =>
          \/ td'[v].wait
          \/ \E k \in KThread : kt'[k].cur = v /\ kt'[k].pc \in {"exit_check", "futex_wake"}
        BY DEF IInv, Joiners, Born, KeepKt
  <2>10. QED
        BY <2>5, <2>6, <2>7, <2>8, <2>9 DEF Joiners
<1>7. Frees'
      BY DEF IInv, Frees, Born, KeepJoin, JoinerPc, WaiterPc
<1>8. QED
      BY <1>4, <1>5, <1>6, <1>7

\* A thread in the hands of its creator starts.
LEMMA HoldsBirth ==
  ASSUME NEW u \in Thread, ut[u].pc = "unborn", Born(u), KeepKt
  PROVE /\ \A x, v \in Thread : HoldsT(x, v)' <=> HoldsT(x, v)
        /\ \A k \in KThread, v \in Thread : HoldsK(k, v)' => HoldsK(k, v)
<1>1. \A x \in Thread : Posting(x)' <=> Posting(x)
      BY DEF Posting, KeepKt
<1>2. QED
      BY <1>1 DEF HoldsT, HoldsK, Born, NewPc, KeepKt

\* td_oo_create has succeeded.
CreateStarts(t) ==
  /\ At(t, "create_clone")
  /\ td' = [td EXCEPT ![ut[t].arg].wait = TRUE]
  /\ ut' = [ut EXCEPT ![ut[t].arg].pc = "client", ![t].pc = "create_store"]
  /\ UNCHANGED <<mmrll, mmrll_lk, kt, enabled, mpc, freed, got>>

\* Two threads go to other places.
LEMMA TwoFacts ==
  ASSUME TypeOK, NEW u \in Thread, NEW t \in Thread, u # t, NEW m \in UserLabel,
         NEW l \in UserLabel, ut' = [ut EXCEPT ![u].pc = m, ![t].pc = l]
  PROVE /\ ut'[u].pc = m /\ ut'[u].arg = ut[u].arg
        /\ ut'[t].pc = l /\ ut'[t].arg = ut[t].arg
        /\ \A x \in Thread \ {t, u} : ut'[x].pc = ut[x].pc /\ ut'[x].arg = ut[x].arg
        /\ ut' \in UtType
<1>1. ut \in UtType
      BY Types
<1>2. ut' = [[ut EXCEPT ![u].pc = m] EXCEPT ![t].pc = l]
      BY <1>1 DEF UtType
<1>3. PICK e \in UtType : e = [ut EXCEPT ![u].pc = m]
      BY <1>1 DEF UtType
<1>4. ut' \in UtType
      BY <1>2, <1>3 DEF UtType
<1>5. QED
      BY <1>1, <1>4 DEF UtType

\* The kernel has set the wait word and started the new thread.
LEMMA CreateStartsKeeps ==
  ASSUME IInv, NEW t \in Thread, CreateStarts(t)
  PROVE IInv'
<1>1. ut[t].pc = "create_clone" /\ Runs(t)
      BY DEF CreateStarts, At
<1>2. UNCHANGED <<mmrll, mmrll_lk, kt, enabled, mpc, freed, got>> /\ KeepKt
      BY DEF CreateStarts, KeepKt
<1>3. PICK u \in Thread : /\ u = ut[t].arg /\ u # t /\ ut[u].pc = "unborn" /\ u # Main
                          /\ u \in OneOne
      BY <1>1 DEF IInv, Descriptors, Agrees, Births, NewPc
<1>4. /\ ut'[u].pc = "client" /\ ut'[u].arg = ut[u].arg
      /\ ut'[t].pc = "create_store" /\ ut'[t].arg = u
      /\ \A x \in Thread \ {t, u} : ut'[x].pc = ut[x].pc /\ ut'[x].arg = ut[x].arg
      /\ ut' \in UtType
  <2>1. "client" \in UserLabel /\ "create_store" \in UserLabel
        BY DEF UserLabel
  <2>2. ut' = [ut EXCEPT ![u].pc = "client", ![t].pc = "create_store"]
        BY <1>3 DEF CreateStarts
  <2>3. /\ ut'[u].pc = "client" /\ ut'[u].arg = ut[u].arg
        /\ ut'[t].pc = "create_store" /\ ut'[t].arg = ut[t].arg
        /\ \A x \in Thread \ {t, u} : ut'[x].pc = ut[x].pc /\ ut'[x].arg = ut[x].arg
        /\ ut' \in UtType
    <3>1. PICK m \in UserLabel, l \in UserLabel : m = "client" /\ l = "create_store"
          BY <2>1
    <3>2. TypeOK /\ u # t /\ ut' = [ut EXCEPT ![u].pc = m, ![t].pc = l]
          BY <1>3, <2>2, <3>1 DEF IInv
    <3>3. /\ ut'[u].pc = m /\ ut'[u].arg = ut[u].arg
          /\ ut'[t].pc = l /\ ut'[t].arg = ut[t].arg
          /\ \A x \in Thread \ {t, u} : ut'[x].pc = ut[x].pc /\ ut'[x].arg = ut[x].arg
          /\ ut' \in UtType
          BY <3>2, TwoFacts
    <3>4. QED
          BY <3>1, <3>3
  <2>4. QED
        BY <1>3, <2>3
<1>5. /\ KeepDescr /\ KeepGiven /\ KeepJoin /\ KeepLock
      /\ td'[u].wait /\ \A x \in Thread \ {u} : td'[x].wait = td[x].wait
      /\ td' \in TdType
  <2>1. td \in TdType /\ td' = [td EXCEPT ![u].wait = TRUE]
        BY <1>3, Types DEF IInv, CreateStarts
  <2>2. td' \in TdType
        BY <2>1 DEF TdType
  <2>3. QED
        BY <2>1, <2>2 DEF TdType, KeepDescr, KeepGiven, KeepJoin, KeepLock
<1>6. Born(u)
  <2>1. \A x \in Thread : ut[x].pc \in NewPc /\ ut[x].arg = u => x = t
        BY <1>1, <1>3 DEF IInv, Births, NewPc
  <2>2. QED
        BY <1>1, <1>3, <1>4, <2>1 DEF Born, NewPc
<1>7. TypeOK'
      BY <1>2, <1>4, <1>5 DEF IInv, TypeOK, TdType, UtType, Arg, States
<1>8. Descriptors'
  <2> SUFFICES ASSUME NEW x \in Thread
               PROVE Agrees(x, ut'[x].pc, ut'[x].arg, td[x].state, td[x].wait_join_td,
                            td[x].intr_off)
      BY <1>5 DEF Descriptors, KeepDescr
  <2>1. Agrees(x, ut[x].pc, ut[x].arg, td[x].state, td[x].wait_join_td, td[x].intr_off)
        BY DEF IInv, Descriptors
  <2>2. CASE x = t
        BY <1>1, <1>3, <1>4, <2>1, <2>2 DEF Agrees, NewPc, JoinPc, JoinerPc, WaiterPc, KillPc,
           ExitPc, AwayPc, OnCpuPc
  <2>3. CASE x = u
        BY <1>3, <1>4, <2>1, <2>3 DEF Agrees, NewPc, JoinPc, JoinerPc, WaiterPc, KillPc,
           ExitPc, AwayPc, OnCpuPc
  <2>4. CASE x # t /\ x # u
        BY <1>4, <2>1, <2>4
  <2>5. QED
        BY <2>2, <2>3, <2>4
<1>9. Locks'
  <2>1. \A x \in MMThread : mmrll_lk' = x => ut'[x].pc = "create_enq"
        BY <1>1, <1>2, <1>3, <1>4, Sets DEF IInv, Locks
  <2>2. QED
        BY <1>2, <1>3, <1>5, <1>6, <2>1, HoldsBirth, LocksKept DEF IInv
<1>10. Places'
  <2>1. \A x \in Thread : SameWhere(x)
        BY <1>2, WhereSame
  <2>2. QED
        BY <1>2, <2>1 DEF IInv, Places, SameWhere, SameOn
<1>11. Dispatchers' /\ Births' /\ Joiners' /\ Frees'
  <2>1. /\ \A x \in Thread : Spent(x)' = Spent(x)
        /\ \A x \in Thread : Ready(x)' <=> Ready(x)
        BY <1>2 DEF Spent, Ready
  <2>2. mpc' = "create" <=> ut'[Main].pc = "unborn"
        BY <1>1, <1>2, <1>3, <1>4, Sets DEF IInv, Births
  <2>3. QED
        BY <1>2, <1>3, <1>5, <1>6, <2>1, <2>2, BirthApart DEF KeepGiven
<1>12. QED
      BY <1>7, <1>8, <1>9, <1>10, <1>11 DEF IInv

\* The new many-many thread is in the ready list.
LEMMA CreateEnqKeeps ==
  ASSUME IInv, NEW t \in Thread, CreateEnq(t)
  PROVE IInv'
<1>1. ut[t].pc = "create_enq" /\ Runs(t)
      BY DEF CreateEnq, At
<1>2. UNCHANGED <<kt, enabled, mpc, freed, got>> /\ KeepKt /\ mmrll_lk' = NULL
      BY DEF CreateEnq, KeepKt, mmrll_enqueue
<1>3. PICK u \in Thread : /\ u = ut[t].arg /\ u # t /\ ut[u].pc = "unborn" /\ u # Main
                          /\ u \in MMThread
      BY <1>1 DEF IInv, Descriptors, Agrees, Births, NewPc
<1>4. /\ ut'[u].pc = "client" /\ ut'[u].arg = ut[u].arg
      /\ ut'[t].pc = "client" /\ ut'[t].arg = NULL
      /\ \A x \in Thread \ {t, u} : ut'[x].pc = ut[x].pc /\ ut'[x].arg = ut[x].arg
      /\ ut' \in UtType
  <2>1. ut \in UtType /\ "client" \in UserLabel /\ NULL \in Arg
        BY Types DEF IInv, UserLabel, Arg
  <2>2. ut' = [[ut EXCEPT ![u].pc = "client"] EXCEPT ![t] = [pc |-> "client", arg |-> NULL]]
        BY <1>3, <2>1 DEF CreateEnq, UtType
  <2>3. PICK e \in UtType : e = [ut EXCEPT ![u].pc = "client"]
        BY <2>1 DEF UtType
  <2>4. ut' \in UtType
        BY <2>1, <2>2, <2>3 DEF UtType
  <2>5. QED
        BY <1>3, <2>1, <2>2, <2>4 DEF UtType
<1>5. /\ DescrSet(t, td[t].state, td[t].wait_join_td, FALSE)
      /\ KeepWait /\ KeepJoin /\ KeepLock
      /\ \A x \in Thread \ {u} : td'[x].given = td[x].given
      /\ td' \in TdType
  <2>1. td \in TdType /\ td' = [td EXCEPT ![t].intr_off = FALSE, ![u].given = TRUE]
        BY <1>3, Types DEF IInv, CreateEnq
  <2>2. td' = [[td EXCEPT ![t].intr_off = FALSE] EXCEPT ![u].given = TRUE]
        BY <1>3, <2>1 DEF TdType
  <2>3. /\ \A d \in TdType : [d EXCEPT ![t].intr_off = FALSE] \in TdType
        /\ \A d \in TdType : [d EXCEPT ![u].given = TRUE] \in TdType
        BY TdUpdates
  <2>4. td' \in TdType
        BY <2>1, <2>2, <2>3
  <2>5. DescrSet(t, td[t].state, td[t].wait_join_td, FALSE)
        BY <1>3, <2>1 DEF TdType, DescrSet
  <2>6. KeepWait
        BY <2>1 DEF TdType, KeepWait
  <2>7. KeepJoin
        BY <2>1 DEF TdType, KeepJoin
  <2>8. KeepLock
        BY <2>1 DEF TdType, KeepLock
  <2>9. \A x \in Thread \ {u} : td'[x].given = td[x].given
        BY <2>1 DEF TdType
  <2>10. QED
        BY <2>4, <2>5, <2>6, <2>7, <2>8, <2>9
<1>6. Born(u)
  <2>1. \A x \in Thread : ut[x].pc \in NewPc /\ ut[x].arg = u => x = t
        BY <1>1, <1>3 DEF IInv, Births, NewPc
  <2>2. QED
        BY <1>1, <1>3, <1>4, <2>1 DEF Born, NewPc
<1>7. /\ mmrll' \in Seq(MMThread) /\ Distinct(mmrll')
      /\ \A x \in Thread : Ready(x)' <=> Ready(x) \/ x = u
  <2>1. mmrll \in Seq(MMThread) /\ Distinct(mmrll) /\ ~InList(u, mmrll)
        BY <1>3, Types DEF IInv, Places, Births, Off, Ready, InList
  <2>2. mmrll' = Append(mmrll, u)
        BY <1>3 DEF CreateEnq, mmrll_enqueue
  <2>3. /\ mmrll' \in Seq(MMThread) /\ Distinct(mmrll')
        /\ \A x \in Thread : InList(x, mmrll') <=> InList(x, mmrll) \/ x = u
        BY <1>3, <2>1, <2>2, AppendFacts
  <2>4. QED
        BY <2>3 DEF Ready, InList
<1>8. TypeOK'
      BY <1>2, <1>4, <1>5, <1>7, Sets DEF IInv, TypeOK, TdType, UtType, Arg, States
<1>9. Descriptors'
  <2> SUFFICES ASSUME NEW x \in Thread
               PROVE Agrees(x, ut'[x].pc, ut'[x].arg, td'[x].state, td'[x].wait_join_td,
                            td'[x].intr_off)
      BY DEF Descriptors
  <2>1. Agrees(x, ut[x].pc, ut[x].arg, td[x].state, td[x].wait_join_td, td[x].intr_off)
        BY DEF IInv, Descriptors
  <2>2. CASE x = t
        BY <1>1, <1>4, <1>5, <2>1, <2>2 DEF Agrees, DescrSet, NewPc, JoinPc, JoinerPc, WaiterPc,
           KillPc, ExitPc, AwayPc, OnCpuPc
  <2>3. CASE x = u
        BY <1>3, <1>4, <1>5, <2>1, <2>3 DEF Agrees, DescrSet, NewPc, JoinPc, JoinerPc, WaiterPc,
           KillPc, ExitPc, AwayPc, OnCpuPc
  <2>4. CASE x # t /\ x # u
        BY <1>4, <1>5, <2>1, <2>4 DEF DescrSet
  <2>5. QED
        BY <2>2, <2>3, <2>4
<1>10. Locks'
  <2>1. \A x \in MMThread : mmrll_lk' = x => ut'[x].pc = "create_enq"
        BY <1>2, Sets
  <2>2. QED
        BY <1>2, <1>3, <1>5, <1>6, <2>1, HoldsBirth, LocksKept DEF IInv
<1>11. Places'
  <2>1. \A x \in Thread : Dispatched(x)' <=> Dispatched(x)
        BY <1>2 DEF Dispatched
  <2>2. ~Dispatched(u)
        BY <1>3 DEF IInv, Births, Off
  <2>3. QED
        BY <1>2, <1>7, <2>1, <2>2 DEF IInv, Places
<1>12. Dispatchers' /\ Births' /\ Joiners' /\ Frees'
  <2>1. \A x \in Thread : Spent(x)' = Spent(x)
        BY <1>2 DEF Spent
  <2>2. mpc' = "create" <=> ut'[Main].pc = "unborn"
        BY <1>1, <1>2, <1>3, <1>4, Sets DEF IInv, Births
  <2>3. td'[u].wait
        BY <1>3, <1>5 DEF IInv, Births, KeepWait
  <2>4. \A x \in Thread \ {u} : td'[x].wait = td[x].wait /\ td'[x].given = td[x].given
        BY <1>5 DEF KeepWait
  <2>5. QED
        BY <1>2, <1>3, <1>5, <1>6, <1>7, <2>1, <2>2, <2>3, <2>4, BirthApart
<1>13. QED
      BY <1>8, <1>9, <1>10, <1>11, <1>12 DEF IInv

\* Nobody joins the target yet: the caller registers.
JoinRegisters(t) ==
  /\ At(t, "join_lock")
  /\ td[ut[t].arg].mem_lock = NULL
  /\ td[ut[t].arg].join_td = NULL
  /\ td' = [td EXCEPT ![ut[t].arg].mem_lock = t, ![ut[t].arg].join_td = t,
                      ![t].wait_join_td = ut[t].arg, ![t].state = "WAIT_JOIN"]
  /\ Goto(t, "join_check")
  /\ UNCHANGED <<mmrll, mmrll_lk, kt, enabled, mpc, freed, got>>

\* The fields that a registration sets.
LEMMA RegisterFacts ==
  ASSUME TypeOK, NEW t \in Thread, NEW u \in Thread, u # t,
         td' = [td EXCEPT ![u].mem_lock = t, ![u].join_td = t,
                          ![t].wait_join_td = u, ![t].state = "WAIT_JOIN"]
  PROVE /\ DescrSet(t, "WAIT_JOIN", u, td[t].intr_off)
        /\ LockSet(u, t) /\ KeepWait /\ KeepGiven
        /\ \A x \in Thread : td'[x].join_td = IF x = u THEN t ELSE td[x].join_td
        /\ td' \in TdType
<1>1. td \in TdType /\ t \in Lock /\ t \in Thread \cup {NULL} /\ u \in Thread \cup {NULL}
      /\ "WAIT_JOIN" \in States
      BY Types, Sets DEF States
<1>2. td' = [[[[td EXCEPT ![u].mem_lock = t] EXCEPT ![u].join_td = t]
               EXCEPT ![t].wait_join_td = u] EXCEPT ![t].state = "WAIT_JOIN"]
      BY <1>1 DEF TdType
<1>3. td' \in TdType
  <2>1. /\ \A d \in TdType : [d EXCEPT ![u].mem_lock = t] \in TdType
        /\ \A d \in TdType : [d EXCEPT ![u].join_td = t] \in TdType
        /\ \A d \in TdType : [d EXCEPT ![t].wait_join_td = u] \in TdType
        /\ \A d \in TdType : [d EXCEPT ![t].state = "WAIT_JOIN"] \in TdType
        BY <1>1, TdUpdates
  <2>2. QED
        BY <1>1, <1>2, <2>1
<1>4. DescrSet(t, "WAIT_JOIN", u, td[t].intr_off)
      BY <1>1 DEF TdType, DescrSet
<1>5. LockSet(u, t)
      BY <1>1 DEF TdType, LockSet
<1>6. KeepWait /\ KeepGiven
      BY <1>1 DEF TdType, KeepWait, KeepGiven
<1>7. \A x \in Thread : td'[x].join_td = IF x = u THEN t ELSE td[x].join_td
      BY <1>1 DEF TdType
<1>8. QED
      BY <1>3, <1>4, <1>5, <1>6, <1>7

\* The caller is the one joiner of its target, and holds the target's lock.
LEMMA JoinRegistersKeeps ==
  ASSUME IInv, NEW t \in Thread, JoinRegisters(t)
  PROVE IInv'
<1>1. /\ ut[t].pc = "join_lock" /\ Runs(t) /\ td[ut[t].arg].mem_lock = NULL
      /\ td[ut[t].arg].join_td = NULL
      BY DEF JoinRegisters, At
<1>2. UNCHANGED <<mmrll, mmrll_lk, kt, enabled, mpc, freed, got>> /\ KeepKt
      BY DEF JoinRegisters, KeepKt
<1>3. PICK u \in Thread : u = ut[t].arg /\ u # t /\ td[u].given /\ td[u].join_td = NULL
      BY <1>1 DEF IInv, Descriptors, Agrees, Births, JoinPc, JoinerPc, WaiterPc
<1>4. UtSet(t, "join_check", u) /\ ut' \in UtType
  <2>1. "join_check" \in UserLabel
        BY DEF UserLabel
  <2>2. QED
        BY <1>3, <2>1, GotoFacts DEF JoinRegisters, IInv
<1>5. /\ DescrSet(t, "WAIT_JOIN", u, td[t].intr_off)
      /\ LockSet(u, t) /\ KeepWait /\ KeepGiven
      /\ \A x \in Thread : td'[x].join_td = IF x = u THEN t ELSE td[x].join_td
      /\ td' \in TdType
      BY <1>3, RegisterFacts DEF JoinRegisters, IInv
<1>6. TypeOK'
      BY <1>2, <1>4, <1>5, <1>3 DEF IInv, TypeOK, TdType, UtType, Arg, States, Lock
<1>7. Descriptors'
  <2>1. Agrees(t, "join_check", u, "WAIT_JOIN", u, td[t].intr_off)
        BY <1>1, <1>3, Sets DEF IInv, Descriptors, Agrees, NewPc, JoinPc, JoinerPc, WaiterPc,
           KillPc, ExitPc, AwayPc, OnCpuPc
  <2>2. QED
        BY <1>4, <1>5, <2>1, DescriptorsKept DEF IInv
<1>8. Locks'
  <2>1. \A v \in Thread : ~HoldsT(t, v) /\ (HoldsT(t, v)' <=> v = u)
        BY <1>1, <1>3, <1>4 DEF HoldsT, UtSet
  <2>2. QED
        BY <1>1, <1>2, <1>3, <1>4, <1>5, <2>1, Sets, HoldsUser, ListLock, LocksTaken DEF IInv
<1>9. \A x \in Thread : SameWhere(x) /\ (Off(x)' <=> Off(x))
  <2>1. \A x \in Thread : SameWhere(x)
        BY <1>2, WhereSame
  <2>2. QED
        BY <2>1 DEF SameWhere, SameOn, Off
<1>10. Places'
      BY <1>2, <1>9 DEF IInv, Places, KeepKt, SameWhere, SameOn
<1>11. Dispatchers'
      BY <1>1, <1>2, <1>4, <1>5, <1>9, Sets DEF IInv, Dispatchers, UtSet, KeepKt, KeepWait,
         SameWhere, SameOn, OnCpuPc, OverPc
<1>12. Births'
  <2>1. \A x \in Thread : ut'[x].pc = "unborn" <=> ut[x].pc = "unborn"
        BY <1>1, <1>4 DEF UtSet
  <2>2. \A x \in Thread : ut'[x].pc = "unborn" =>
          /\ ~td'[x].given /\ td'[x].join_td = NULL /\ Off(x)'
          /\ td'[x].wait <=> x \in MMThread
        BY <1>3, <1>5, <1>9, <2>1 DEF IInv, Births, KeepGiven, KeepWait
  <2>3. ASSUME NEW x \in Thread, NEW v \in Thread, ut'[x].arg = v
        PROVE /\ ut'[x].pc \in NewPc => ut'[v].pc = "unborn" /\ v # Main
              /\ ut'[x].pc = "create_clone" => v \in OneOne
              /\ ut'[x].pc \in {"create_lock", "create_enq"} => v \in MMThread
              /\ ut'[x].pc = "create_store" => ut'[v].pc # "unborn"
              /\ ut'[x].pc \in JoinPc => td'[v].given
        BY <1>3, <1>4, <1>5, <2>1, <2>3 DEF IInv, Births, UtSet, KeepGiven, NewPc
  <2>4. ASSUME NEW x \in Thread, ut'[x].pc \in KillPc
        PROVE td'[ut'[x].arg[1]].given
    <3>1. ut[x].arg = ut'[x].arg /\ ut[x].pc \in KillPc
          BY <1>4, <2>4 DEF UtSet, KillPc
    <3>2. ut[x].arg[1] \in Thread
          BY <3>1 DEF IInv, Descriptors, Agrees
    <3>3. QED
          BY <1>5, <3>1, <3>2 DEF IInv, Births, KeepGiven
  <2>5. \A x, s \in Thread :
          ut'[x].pc \in NewPc /\ ut'[s].pc \in NewPc /\ ut'[x].arg = ut'[s].arg => x = s
        BY <1>4 DEF IInv, Births, UtSet, NewPc
  <2>6. mpc' = "create" <=> ut'[Main].pc = "unborn"
        BY <1>2, <2>1, Sets DEF IInv, Births
  <2>7. QED
        BY <2>2, <2>3, <2>4, <2>5, <2>6 DEF Births
<1>13. Joiners'
  <2>1. \A x \in Thread : /\ Unwoken(x)' <=> Unwoken(x)
                          /\ Waking(x)' <=> Waking(x)
        BY <1>1, <1>2, <1>4, <1>5 DEF Unwoken, Waking, UtSet, KeepKt, KeepWait
  <2>2. \A x, v \in Thread : ut'[x].pc \in JoinerPc /\ ut'[x].arg = v => td'[v].join_td = x
        BY <1>3, <1>4, <1>5, Sets DEF IInv, Joiners, UtSet
  <2>3. \A v \in OneOne : ~td'[v].wait /\ ut'[v].pc # "unborn" => ut'[v].pc = "gone"
        BY <1>1, <1>4, <1>5, Sets DEF IInv, Joiners, UtSet, KeepWait
  <2>4. ASSUME NEW x \in Thread, NEW j \in MMThread, td'[x].join_td = j, Unwoken(x)'
        PROVE Parks(j, x)'
    <3>1. CASE x = u
          BY <1>4, <1>5, <2>4, <3>1 DEF Parks, UtSet
    <3>2. CASE x # u
      <4>1. td[x].join_td = j /\ Parks(j, x)
            BY <1>5, <2>1, <2>4, <3>2 DEF IInv, Joiners
      <4>2. j # t
            BY <1>1, <4>1 DEF Parks
      <4>3. QED
            BY <1>4, <1>9, <4>1, <4>2, Sets DEF Parks, UtSet, SameWhere, SameOn
    <3>3. QED
          BY <3>1, <3>2
  <2>5. ASSUME NEW x \in Thread, Waking(x)'
        PROVE \E j \in MMThread : /\ td'[x].join_td = j /\ ut'[j].arg = x
                                  /\ ut'[j].pc = "join_parked" /\ Off(j)'
    <3>1. PICK j \in MMThread : /\ td[x].join_td = j /\ ut[j].arg = x
                                /\ ut[j].pc = "join_parked" /\ Off(j)
          BY <2>1, <2>5 DEF IInv, Joiners
    <3>2. j # t /\ x # u
          BY <1>1, <1>3, <3>1, Sets
    <3>3. QED
          BY <1>4, <1>5, <1>9, <3>1, <3>2, Sets DEF UtSet
  <2>6. \A x, v \in Thread : ut'[x].pc = "join_sleep" /\ ut'[x].arg = v =>
          \/ td'[v].wait
          \/ \E k \in KThread : kt'[k].cur = v /\ kt'[k].pc \in {"exit_check", "futex_wake"}
        BY <1>2, <1>4, <1>5 DEF IInv, Joiners, UtSet, KeepKt, KeepWait
  <2>7. QED
        BY <2>2, <2>3, <2>4, <2>5, <2>6 DEF Joiners
<1>14. Frees'
      BY <1>2, <1>3, <1>4, <1>5, Sets DEF IInv, Frees, Spent, UtSet
<1>15. QED
      BY <1>6, <1>7, <1>8, <1>10, <1>11, <1>12, <1>13, <1>14 DEF IInv

\* td_lock of the target in thread_join.
LEMMA JoinLockKeeps ==
  ASSUME IInv, NEW t \in Thread, JoinLock(t)
  PROVE IInv'
<1>1. JoinRefused(t) \/ JoinRegisters(t)
      BY DEF JoinLock, JoinRefused, JoinRegisters
<1>2. QED
      BY <1>1, JoinRefusedKeeps, JoinRegistersKeeps

\* The stack of the target is freed by its one joiner.
LEMMA JoinFreeKeeps ==
  ASSUME IInv, NEW t \in Thread, JoinFree(t)
  PROVE IInv'
<1>1. ut[t].pc = "join_free" /\ Runs(t)
      BY DEF JoinFree, At
<1>2. UNCHANGED <<mmrll, mmrll_lk, kt, enabled, mpc, got>> /\ KeepKt
      BY DEF JoinFree, KeepKt
<1>3. PICK u \in Thread : u = ut[t].arg /\ u # t /\ td[u].join_td = t
      BY <1>1 DEF IInv, Descriptors, Agrees, Joiners, JoinPc, JoinerPc, WaiterPc
<1>4. UtSet(t, "client", NULL) /\ ut' \in UtType
      BY ReturnFacts DEF JoinFree, IInv
<1>5. /\ \A x \in Thread : td'[x].state = IF x = u THEN "JOINED" ELSE td[x].state
      /\ \A x \in Thread : /\ td'[x].wait_join_td = td[x].wait_join_td
                           /\ td'[x].intr_off = td[x].intr_off
      /\ KeepWait /\ KeepGiven /\ KeepJoin /\ KeepLock
      /\ td' \in TdType
  <2>1. td \in TdType /\ td' = [td EXCEPT ![u].state = "JOINED"] /\ "JOINED" \in States
        BY <1>3, Types DEF JoinFree, IInv, States
  <2>2. td' \in TdType
        BY <2>1, TdUpdates
  <2>3. QED
        BY <2>1, <2>2 DEF TdType, KeepWait, KeepGiven, KeepJoin, KeepLock
<1>6. /\ \A x \in Thread : freed'[x] = IF x = u THEN freed[u] + 1 ELSE freed[x]
      /\ freed[u] <= Spent(u) /\ Spent(u) \in {0, 1} /\ freed[u] \in Nat
      /\ freed' \in [Thread -> 0..2]
  <2>1. freed \in [Thread -> 0..2] /\ freed' = [freed EXCEPT ![u] = freed[u] + 1]
        BY <1>3 DEF JoinFree, IInv, TypeOK
  <2>2. freed[u] <= Spent(u) /\ Spent(u) \in {0, 1}
        BY <1>1, <1>3 DEF IInv, Frees, Spent, JoinerPc
  <2>3. QED
        BY <2>1, <2>2
<1>7. TypeOK'
      BY <1>2, <1>4, <1>5, <1>6 DEF IInv, TypeOK, TdType, UtType, Arg, States
<1>8. Descriptors'
  <2> SUFFICES ASSUME NEW x \in Thread
               PROVE Agrees(x, ut'[x].pc, ut'[x].arg, td'[x].state, td'[x].wait_join_td,
                            td'[x].intr_off)
      BY DEF Descriptors
  <2>1. Agrees(x, ut[x].pc, ut[x].arg, td[x].state, td[x].wait_join_td, td[x].intr_off)
        BY DEF IInv, Descriptors
  <2>2. CASE x = t
    <3>1. Agrees(t, "client", NULL, td[t].state, td[t].wait_join_td, td[t].intr_off)
          BY <1>1, <2>1, <2>2 DEF Agrees, NewPc, JoinPc, JoinerPc, WaiterPc, KillPc, ExitPc,
             AwayPc, OnCpuPc
    <3>2. QED
          BY <1>3, <1>4, <1>5, <2>2, <3>1 DEF UtSet
  <2>3. CASE x = u
    <3>1. Agrees(u, ut[u].pc, ut[u].arg, "JOINED", td[u].wait_join_td, td[u].intr_off)
          BY <2>1, <2>3 DEF Agrees
    <3>2. QED
          BY <1>3, <1>4, <1>5, <2>3, <3>1 DEF UtSet
  <2>4. CASE x # t /\ x # u
        BY <1>4, <1>5, <2>1, <2>4 DEF UtSet
  <2>5. QED
        BY <2>2, <2>3, <2>4
<1>9. Locks'
  <2>1. \A v \in Thread : ~HoldsT(t, v) /\ ~HoldsT(t, v)'
        BY <1>1, <1>4 DEF HoldsT, UtSet
  <2>2. QED
        BY <1>1, <1>2, <1>4, <1>5, <2>1, HoldsUser, ListLock, LocksKept DEF IInv
<1>10. Places' /\ Dispatchers' /\ Births' /\ Joiners'
      BY <1>1, <1>2, <1>3, <1>4, <1>5, Acting, UserMoves
      DEF NewPc, JoinPc, JoinerPc, WaiterPc, KillPc, ExitPc, KeepGiven, GrowGiven
<1>11. Frees'
  <2> SUFFICES ASSUME NEW v \in Thread
               PROVE /\ freed'[v] <= Spent(v) + 1
                     /\ td'[v].join_td = NULL => freed'[v] <= Spent(v)
                     /\ \A x \in Thread :
                          ut'[x].pc \in JoinerPc /\ ut'[x].arg = v => freed'[v] <= Spent(v)
      BY <1>2 DEF Frees, Spent
  <2>1. CASE v = u
    <3>1. \A x \in Thread : ut[x].pc \in JoinerPc /\ ut[x].arg = u => x = t
          BY <1>3 DEF IInv, Joiners
    <3>2. \A x \in Thread : ~(ut'[x].pc \in JoinerPc /\ ut'[x].arg = u)
          BY <1>4, <3>1, Sets DEF UtSet
    <3>3. td'[u].join_td # NULL
          BY <1>3, <1>5, Sets DEF KeepJoin
    <3>4. QED
          BY <1>6, <2>1, <3>2, <3>3
  <2>2. CASE v # u
        BY <1>4, <1>5, <1>6, <2>2, Sets DEF IInv, Frees, UtSet, KeepJoin, JoinerPc, WaiterPc
  <2>3. QED
        BY <2>1, <2>2
<1>12. QED
      BY <1>7, <1>8, <1>9, <1>10, <1>11 DEF IInv

\* td_oo_create in thread_create.
LEMMA CreateCloneKeeps ==
  ASSUME IInv, NEW t \in Thread, CreateClone(t)
  PROVE IInv'
<1>1. CreateStarts(t) \/ CreateFails(t)
      BY DEF CreateClone, CreateStarts, CreateFails
<1>2. QED
      BY <1>1, CreateStartsKeeps, CreateFailsKeeps

-----------------------------------------------------------------------------
(* The steps of a many-many thread back to its dispatcher                  *)

\* A many-many thread leaves the processor with its interrupts off: it is in the
\* hands of its dispatcher, and parks only in the join that its target waits for.
LEMMA ParkApart ==
  ASSUME IInv, NEW k \in KThread, NEW t \in MMThread, kt[k].cur = t, kt[k].pc = "user",
         KtSet(k, "post", t), NEW l, UtSet(t, l, ut[t].arg),
         mmrll' = mmrll, mpc' = mpc, freed' = freed, KeepWait, KeepJoin, KeepGiven,
         \/ ut[t].pc = "client" /\ l \in {"yielded", "exited"}
         \/ ut[t].pc = "join_check" /\ l = "join_parked"
  PROVE Places' /\ Dispatchers' /\ Births' /\ Joiners' /\ Frees'
<1>1. /\ \A x \in Thread \ {t} : SameOn(x)
      /\ Dispatched(t)' /\ ~Runs(t)' /\ Posting(t)'
      /\ \A x \in Thread : Ready(x)' <=> Ready(x)
      BY WhereStep DEF IInv, Ready
<1>2. /\ \A x \in Thread : Off(x)' <=> Off(x)
      /\ \A x \in Thread : Dispatched(x)' <=> Dispatched(x)
      /\ t \in Thread /\ Dispatched(t) /\ ~Ready(t) /\ Runs(t)
      BY <1>1, Held, Sets DEF SameOn, Off, IInv
<1>3. Places'
      BY <1>1, <1>2 DEF IInv, Places, KtSet
<1>4. Dispatchers'
  <2>1. \A j \in KThread : kt'[j].cur = NULL <=> kt'[j].pc \in IdlePc
        BY Sets DEF IInv, Dispatchers, KtSet, IdlePc
  <2>2. td[t].wait
        BY DEF IInv, Dispatchers, OverPc
  <2>3. ASSUME NEW j \in KThread, NEW x \in Thread, kt'[j].cur = x
        PROVE /\ kt'[j].pc \in OverPc \cup {"exit_lock", "exit_over"} => ut'[x].pc = "exited"
              /\ kt'[j].pc \in {"sig_lock", "sig_send", "enq_lock", "enq"} =>
                   ut'[x].pc \notin {"join_parked", "exited"}
              /\ kt'[j].pc \in {"run", "user"} => ut'[x].pc # "exited"
              /\ kt'[j].pc \in OverPc <=> ~td'[x].wait
    <3>1. CASE j = k
      <4>1. x = t /\ kt'[j].pc = "post"
            BY <2>3, <3>1 DEF KtSet
      <4>2. QED
            BY <2>2, <4>1, <1>2 DEF KeepWait, OverPc
    <3>2. CASE j # k
      <4>1. kt[j].cur = x /\ kt'[j].pc = kt[j].pc
            BY <2>3, <3>2 DEF KtSet
      <4>2. x # t
            BY <3>2, <4>1, Sets DEF IInv, Places
      <4>3. QED
            BY <4>1, <4>2 DEF IInv, Dispatchers, UtSet, KeepWait
    <3>3. QED
          BY <3>1, <3>2
  <2>4. \A x \in MMThread : /\ ut'[x].pc \in OnCpuPc => Runs(x)'
                            /\ ut'[x].pc = "exited" => ~Ready(x)'
                            /\ ~td'[x].wait => ut'[x].pc = "exited"
        BY <1>1, <1>2, <2>2, Sets DEF IInv, Dispatchers, UtSet, KeepWait, SameOn, OnCpuPc
  <2>5. QED
        BY <2>1, <2>3, <2>4 DEF Dispatchers
<1>5. Births'
  <2>1. \A u \in Thread : ut'[u].pc = "unborn" <=> ut[u].pc = "unborn"
        BY DEF UtSet
  <2>2. \A u \in Thread : ut'[u].pc = "unborn" =>
          /\ ~td'[u].given /\ td'[u].join_td = NULL /\ Off(u)'
          /\ td'[u].wait <=> u \in MMThread
        BY <1>2, <2>1 DEF IInv, Births, KeepGiven, KeepJoin, KeepWait
  <2>3. ASSUME NEW x \in Thread, NEW u \in Thread, ut'[x].arg = u
        PROVE /\ ut'[x].pc \in NewPc => ut'[u].pc = "unborn" /\ u # Main
              /\ ut'[x].pc = "create_clone" => u \in OneOne
              /\ ut'[x].pc \in {"create_lock", "create_enq"} => u \in MMThread
              /\ ut'[x].pc = "create_store" => ut'[u].pc # "unborn"
              /\ ut'[x].pc \in JoinPc => td'[u].given
        BY <2>1, <2>3 DEF IInv, Births, UtSet, KeepGiven, NewPc, JoinPc, JoinerPc, WaiterPc
  <2>4. ASSUME NEW x \in Thread, ut'[x].pc \in KillPc
        PROVE td'[ut'[x].arg[1]].given
    <3>1. ut[x].arg = ut'[x].arg /\ ut[x].pc \in KillPc
          BY <2>4 DEF UtSet, KillPc
    <3>2. ut[x].arg[1] \in Thread
          BY <3>1 DEF IInv, Descriptors, Agrees
    <3>3. QED
          BY <3>1, <3>2 DEF IInv, Births, KeepGiven
  <2>5. \A x, s \in Thread :
          ut'[x].pc \in NewPc /\ ut'[s].pc \in NewPc /\ ut'[x].arg = ut'[s].arg => x = s
        BY DEF IInv, Births, UtSet, NewPc
  <2>6. mpc' = "create" <=> ut'[Main].pc = "unborn"
        BY <2>1, Sets DEF IInv, Births
  <2>7. QED
        BY <2>2, <2>3, <2>4, <2>5, <2>6 DEF Births
<1>6. Joiners'
  <2>1. \A x \in Thread : /\ Unwoken(x)' => Unwoken(x)
                          /\ Waking(x)' => Waking(x)
        BY <1>2, Sets DEF Unwoken, Waking, UtSet, KtSet, KeepWait
  <2>2. ASSUME NEW x \in Thread, NEW j \in MMThread, td'[x].join_td = j, Unwoken(x)'
        PROVE Parks(j, x)'
    <3>1. Parks(j, x)
          BY <2>1, <2>2 DEF IInv, Joiners, KeepJoin
    <3>2. CASE j = t
      <4>1. ut[t].pc = "join_check" /\ ut[t].arg = x
            BY <3>1, <3>2 DEF Parks
      <4>2. QED
            BY <1>1, <1>2, <3>2, <4>1 DEF Parks, UtSet
    <3>3. CASE j # t
          BY <1>1, <3>1, <3>3, Sets DEF Parks, UtSet, SameOn
    <3>4. QED
          BY <3>2, <3>3
  <2>3. ASSUME NEW x \in Thread, Waking(x)'
        PROVE \E j \in MMThread : /\ td'[x].join_td = j /\ ut'[j].arg = x
                                  /\ ut'[j].pc = "join_parked" /\ Off(j)'
    <3>1. PICK j \in MMThread : /\ td[x].join_td = j /\ ut[j].arg = x
                                /\ ut[j].pc = "join_parked" /\ Off(j)
          BY <2>1, <2>3 DEF IInv, Joiners
    <3>2. j # t
          BY <3>1
    <3>3. QED
          BY <1>2, <3>1, <3>2, Sets DEF UtSet, KeepJoin
  <2>4. \A x, v \in Thread : ut'[x].pc \in JoinerPc /\ ut'[x].arg = v => td'[v].join_td = x
        BY DEF IInv, Joiners, UtSet, KeepJoin, JoinerPc, WaiterPc
  <2>5. \A v \in OneOne : ~td'[v].wait /\ ut'[v].pc # "unborn" => ut'[v].pc = "gone"
        BY Sets DEF IInv, Joiners, UtSet, KeepWait
  <2>6. \A x, v \in Thread : ut'[x].pc = "join_sleep" /\ ut'[x].arg = v =>
          \/ td'[v].wait
          \/ \E j \in KThread : kt'[j].cur = v /\ kt'[j].pc \in {"exit_check", "futex_wake"}
        BY DEF IInv, Joiners, UtSet, KtSet, KeepWait
  <2>7. QED
        BY <2>2, <2>3, <2>4, <2>5, <2>6 DEF Joiners
<1>7. Frees'
      BY Sets DEF IInv, Frees, Spent, UtSet, KeepJoin, JoinerPc, WaiterPc
<1>8. QED
      BY <1>3, <1>4, <1>5, <1>6, <1>7

\* What a thread that goes back to its dispatcher holds.
LEMMA HoldsPark ==
  ASSUME IInv, NEW k \in KThread, NEW t \in MMThread, kt[k].cur = t, kt[k].pc = "user",
         KtSet(k, "post", t), NEW l, UtSet(t, l, ut[t].arg),
         \/ ut[t].pc = "client" /\ l \in {"yielded", "exited"}
         \/ ut[t].pc = "join_check" /\ l = "join_parked"
  PROVE /\ \A x, v \in Thread : HoldsT(x, v)' <=> HoldsT(x, v)
        /\ \A j \in KThread, v \in Thread : HoldsK(j, v)' => HoldsK(j, v)
<1>1. /\ \A x \in Thread \ {t} : SameOn(x)
      /\ Posting(t)' /\ t \in Thread
      BY WhereStep, Sets DEF IInv
<1>2. \A v \in Thread : HoldsT(t, v)' <=> HoldsT(t, v)
      BY <1>1 DEF HoldsT, UtSet
<1>3. \A x \in Thread \ {t}, v \in Thread : HoldsT(x, v)' <=> HoldsT(x, v)
      BY <1>1 DEF HoldsT, UtSet, SameOn
<1>4. \A j \in KThread, v \in Thread : HoldsK(j, v)' => HoldsK(j, v)
      BY DEF HoldsK, KtSet
<1>5. QED
      BY <1>2, <1>3, <1>4

\* The target is not over: a many-many caller goes back to its dispatcher with the
\* lock of the target.
JoinParks(t) ==
  /\ At(t, "join_check") /\ t \in MMThread
  /\ Goto(t, "join_parked") /\ ret_cxt(t)
  /\ UNCHANGED <<td, mmrll, mmrll_lk, enabled, mpc, freed, got>>

\* The caller is parked, and its dispatcher is to release the lock.
LEMMA JoinParksKeeps ==
  ASSUME IInv, NEW t \in Thread, JoinParks(t)
  PROVE IInv'
<1>1. ut[t].pc = "join_check" /\ Runs(t) /\ t \in MMThread
      BY DEF JoinParks, At
<1>2. UNCHANGED <<td, mmrll, mmrll_lk, enabled, mpc, freed, got>>
      BY DEF JoinParks
<1>3. PICK k \in KThread : kt[k].cur = t /\ kt[k].pc = "user"
      BY <1>1, Sets DEF Runs
<1>4. KtSet(k, "post", t) /\ kt' \in KtType
      BY <1>1, <1>3, RetFacts DEF JoinParks, IInv
<1>5. UtSet(t, "join_parked", ut[t].arg) /\ ut' \in UtType
  <2>1. "join_parked" \in UserLabel
        BY DEF UserLabel
  <2>2. QED
        BY <2>1, GotoFacts DEF JoinParks, IInv
<1>6. KeepDescr /\ KeepWait /\ KeepGiven /\ KeepJoin /\ KeepLock
      BY <1>2 DEF KeepDescr, KeepWait, KeepGiven, KeepJoin, KeepLock
<1>7. TypeOK'
      BY <1>2, <1>4, <1>5 DEF IInv, TypeOK, KtType, UtType, Arg
<1>8. Descriptors'
  <2>1. Agrees(t, ut[t].pc, ut[t].arg, td[t].state, td[t].wait_join_td, td[t].intr_off)
        BY DEF IInv, Descriptors
  <2>2. Agrees(t, "join_parked", ut[t].arg, td[t].state, td[t].wait_join_td, td[t].intr_off)
        BY <1>1, <2>1, Sets DEF Agrees, NewPc, JoinPc, JoinerPc, WaiterPc,
           KillPc, ExitPc, AwayPc, OnCpuPc
  <2>3. QED
        BY <1>5, <1>6, <2>2, DescriptorsSame DEF IInv
<1>9. Locks'
      BY <1>1, <1>2, <1>3, <1>4, <1>5, <1>6, HoldsPark, ListLock, LocksKept DEF IInv
<1>10. Places' /\ Dispatchers' /\ Births' /\ Joiners' /\ Frees'
      BY <1>1, <1>2, <1>3, <1>4, <1>5, <1>6, ParkApart
<1>11. QED
      BY <1>7, <1>8, <1>9, <1>10 DEF IInv

\* td_unlock, or the way to the dispatcher, in thread_join.
LEMMA JoinCheckKeeps ==
  ASSUME IInv, NEW t \in Thread, JoinCheck(t)
  PROVE IInv'
<1>1. JoinGoesOn(t, "join_done") \/ JoinGoesOn(t, "join_futex") \/ JoinParks(t)
      BY DEF JoinCheck, JoinGoesOn, JoinParks
<1>2. QED
      BY <1>1, JoinGoesOnKeeps, JoinParksKeeps

\* thread_yield: the thread is back in its dispatcher with its interrupts off.
LEMMA ThreadYieldKeeps ==
  ASSUME IInv, NEW t \in Thread, ThreadYield(t)
  PROVE IInv'
<1>1. ut[t].pc = "client" /\ Runs(t) /\ t \in MMThread
      BY DEF ThreadYield, At
<1>2. UNCHANGED <<mmrll, mmrll_lk, enabled, mpc, freed, got>>
      BY DEF ThreadYield
<1>3. PICK k \in KThread : kt[k].cur = t /\ kt[k].pc = "user"
      BY <1>1, Sets DEF Runs
<1>4. KtSet(k, "post", t) /\ kt' \in KtType
      BY <1>1, <1>3, RetFacts DEF ThreadYield, IInv
<1>5. UtSet(t, "yielded", ut[t].arg) /\ ut' \in UtType
  <2>1. "yielded" \in UserLabel
        BY DEF UserLabel
  <2>2. QED
        BY <2>1, GotoFacts DEF ThreadYield, IInv
<1>6. /\ DescrSet(t, td[t].state, td[t].wait_join_td, TRUE)
      /\ KeepWait /\ KeepGiven /\ KeepJoin /\ KeepLock
      /\ td' \in TdType
      BY IntrFacts DEF ThreadYield, IInv
<1>7. TypeOK'
      BY <1>2, <1>4, <1>5, <1>6 DEF IInv, TypeOK, TdType, States, KtType, UtType, Arg
<1>8. Descriptors'
  <2>1. Agrees(t, ut[t].pc, ut[t].arg, td[t].state, td[t].wait_join_td, td[t].intr_off)
        BY DEF IInv, Descriptors
  <2>2. Agrees(t, "yielded", ut[t].arg, td[t].state, td[t].wait_join_td, TRUE)
        BY <1>1, <2>1, Sets DEF Agrees, NewPc, JoinPc, JoinerPc, WaiterPc,
           KillPc, ExitPc, AwayPc, OnCpuPc
  <2>3. QED
        BY <1>5, <1>6, <2>2, DescriptorsKept DEF IInv
<1>9. Locks'
      BY <1>1, <1>2, <1>3, <1>4, <1>5, <1>6, HoldsPark, ListLock, LocksKept DEF IInv
<1>10. Places' /\ Dispatchers' /\ Births' /\ Joiners' /\ Frees'
      BY <1>1, <1>2, <1>3, <1>4, <1>5, <1>6, ParkApart
<1>11. QED
      BY <1>7, <1>8, <1>9, <1>10 DEF IInv

\* The fields that thread_exit sets.
LEMMA ExitFacts ==
  ASSUME IInv, NEW t \in Thread,
         td' = [td EXCEPT ![t].intr_off = intr(t, TRUE), ![t].state = "EXITED"]
  PROVE /\ DescrSet(t, "EXITED", td[t].wait_join_td, intr(t, TRUE))
        /\ KeepWait /\ KeepGiven /\ KeepJoin /\ KeepLock
        /\ td' \in TdType
<1>1. PICK i \in BOOLEAN : i = intr(t, TRUE)
      BY DEF intr
<1>2. td \in TdType /\ "EXITED" \in States
      BY Types DEF IInv, States
<1>3. td' = [td EXCEPT ![t].intr_off = i, ![t].state = "EXITED"]
      BY <1>1
<1>4. td' = [[td EXCEPT ![t].intr_off = i] EXCEPT ![t].state = "EXITED"]
      BY <1>2, <1>3 DEF TdType
<1>5. td' \in TdType
  <2>1. /\ \A d \in TdType : [d EXCEPT ![t].intr_off = i] \in TdType
        /\ \A d \in TdType : [d EXCEPT ![t].state = "EXITED"] \in TdType
        BY <1>2, TdUpdates
  <2>2. QED
        BY <1>2, <1>4, <2>1
<1>6. DescrSet(t, "EXITED", td[t].wait_join_td, i)
  <2>1. t \in Thread
        OBVIOUS
  <2>2. QED
        BY ONLY <1>2, <1>3, <2>1, i \in BOOLEAN DEF TdType, DescrSet
<1>7. KeepWait /\ KeepGiven
      BY <1>2, <1>3 DEF TdType, KeepWait, KeepGiven
<1>8. KeepJoin /\ KeepLock
      BY <1>2, <1>3 DEF TdType, KeepJoin, KeepLock
<1>9. QED
      BY <1>1, <1>5, <1>6, <1>7, <1>8

\* thread_exit of a many-many thread.
ExitBack(t) ==
  /\ At(t, "client") /\ t \in MMThread
  /\ td' = [td EXCEPT ![t].intr_off = intr(t, TRUE), ![t].state = "EXITED"]
  /\ Goto(t, "exited") /\ ret_cxt(t)
  /\ UNCHANGED <<mmrll, mmrll_lk, enabled, mpc, freed, got>>

\* The thread has left its context for ever; its dispatcher does the rest.
LEMMA ExitBackKeeps ==
  ASSUME IInv, NEW t \in Thread, ExitBack(t)
  PROVE IInv'
<1>1. ut[t].pc = "client" /\ Runs(t) /\ t \in MMThread
      BY DEF ExitBack, At
<1>2. UNCHANGED <<mmrll, mmrll_lk, enabled, mpc, freed, got>>
      BY DEF ExitBack
<1>3. PICK k \in KThread : kt[k].cur = t /\ kt[k].pc = "user"
      BY <1>1, Sets DEF Runs
<1>4. KtSet(k, "post", t) /\ kt' \in KtType
      BY <1>1, <1>3, RetFacts DEF ExitBack, IInv
<1>5. UtSet(t, "exited", ut[t].arg) /\ ut' \in UtType
  <2>1. "exited" \in UserLabel
        BY DEF UserLabel
  <2>2. QED
        BY <2>1, GotoFacts DEF ExitBack, IInv
<1>6. /\ DescrSet(t, "EXITED", td[t].wait_join_td, intr(t, TRUE))
      /\ KeepWait /\ KeepGiven /\ KeepJoin /\ KeepLock
      /\ td' \in TdType
      BY ExitFacts DEF ExitBack
<1>7. TypeOK'
      BY <1>2, <1>4, <1>5, <1>6 DEF IInv, TypeOK, TdType, States, KtType, UtType, Arg
<1>8. Descriptors'
  <2>1. Agrees(t, ut[t].pc, ut[t].arg, td[t].state, td[t].wait_join_td, td[t].intr_off)
        BY DEF IInv, Descriptors
  <2>2. Agrees(t, "exited", ut[t].arg, "EXITED", td[t].wait_join_td, intr(t, TRUE))
        BY <1>1, <2>1, Sets DEF Agrees, NewPc, JoinPc, JoinerPc, WaiterPc,
           KillPc, ExitPc, AwayPc, OnCpuPc, intr
  <2>3. QED
        BY <1>5, <1>6, <2>2, DescriptorsKept DEF IInv
<1>9. Locks'
      BY <1>1, <1>2, <1>3, <1>4, <1>5, <1>6, HoldsPark, ListLock, LocksKept DEF IInv
<1>10. Places' /\ Dispatchers' /\ Births' /\ Joiners' /\ Frees'
      BY <1>1, <1>2, <1>3, <1>4, <1>5, <1>6, ParkApart
<1>11. QED
      BY <1>7, <1>8, <1>9, <1>10 DEF IInv

-----------------------------------------------------------------------------
(* thread_exit of a one-one thread                                         *)

\* A one-one thread goes on in thread_exit: nobody moves, and a thread whose exit is
\* about to make a joiner ready has one that is parked.
LEMMA ExitApart ==
  ASSUME IInv, NEW t \in OneOne, NEW l, UtSet(t, l, ut[t].arg), KeepKt, mmrll' = mmrll,
         mpc' = mpc, freed' = freed, KeepWait, KeepJoin, KeepGiven,
         ut[t].pc \in {"client", "exit_lock", "exit_check", "exit_list"},
         l \in {"exit_lock", "exit_check", "exit_list", "exit_enq", "exiting"},
         ut[t].pc = "exit_list" => l = "exit_enq",
         l \in {"exit_list", "exit_enq"} =>
           \E j \in MMThread : /\ td[t].join_td = j /\ ut[j].arg = t
                               /\ ut[j].pc = "join_parked" /\ Off(j)
  PROVE Places' /\ Dispatchers' /\ Births' /\ Joiners' /\ Frees'
<1>1. /\ \A x \in Thread : SameWhere(x)
      /\ t \in Thread /\ t \notin MMThread
      BY WhereSame, Sets
<1>2. \A x \in Thread : Off(x)' <=> Off(x)
      BY <1>1 DEF SameWhere, SameOn, Off
<1>3. Places'
      BY <1>1 DEF IInv, Places, KeepKt, SameWhere, SameOn
<1>4. Dispatchers'
  <2>1. \A k \in KThread : kt[k].cur # t
        BY <1>1, Ranges, Sets DEF IInv
  <2>2. QED
        BY <1>1, <2>1, Sets DEF IInv, Dispatchers, UtSet, KeepKt, KeepWait, SameWhere, SameOn
<1>5. Births'
  <2>1. \A u \in Thread : ut'[u].pc = "unborn" <=> ut[u].pc = "unborn"
        BY DEF UtSet
  <2>2. \A u \in Thread : ut'[u].pc = "unborn" =>
          /\ ~td'[u].given /\ td'[u].join_td = NULL /\ Off(u)'
          /\ td'[u].wait <=> u \in MMThread
        BY <1>2, <2>1 DEF IInv, Births, KeepGiven, KeepJoin, KeepWait
  <2>3. ASSUME NEW x \in Thread, NEW u \in Thread, ut'[x].arg = u
        PROVE /\ ut'[x].pc \in NewPc => ut'[u].pc = "unborn" /\ u # Main
              /\ ut'[x].pc = "create_clone" => u \in OneOne
              /\ ut'[x].pc \in {"create_lock", "create_enq"} => u \in MMThread
              /\ ut'[x].pc = "create_store" => ut'[u].pc # "unborn"
              /\ ut'[x].pc \in JoinPc => td'[u].given
        BY <2>1, <2>3 DEF IInv, Births, UtSet, KeepGiven, NewPc, JoinPc, JoinerPc, WaiterPc
  <2>4. ASSUME NEW x \in Thread, ut'[x].pc \in KillPc
        PROVE td'[ut'[x].arg[1]].given
    <3>1. ut[x].arg = ut'[x].arg /\ ut[x].pc \in KillPc
          BY <2>4 DEF UtSet, KillPc
    <3>2. ut[x].arg[1] \in Thread
          BY <3>1 DEF IInv, Descriptors, Agrees
    <3>3. QED
          BY <3>1, <3>2 DEF IInv, Births, KeepGiven
  <2>5. \A x, s \in Thread :
          ut'[x].pc \in NewPc /\ ut'[s].pc \in NewPc /\ ut'[x].arg = ut'[s].arg => x = s
        BY DEF IInv, Births, UtSet, NewPc
  <2>6. mpc' = "create" <=> ut'[Main].pc = "unborn"
        BY <2>1, Sets DEF IInv, Births
  <2>7. QED
        BY <2>2, <2>3, <2>4, <2>5, <2>6 DEF Births
<1>6. Joiners'
  <2>1. \A x \in Thread : Unwoken(x)' => Unwoken(x)
        BY DEF Unwoken, UtSet, KeepKt, KeepWait
  <2>2. \A x \in Thread : Waking(x)' => Waking(x) \/ (x = t /\ l \in {"exit_list", "exit_enq"})
        BY DEF Waking, UtSet, KeepKt
  <2>3. \A x \in Thread, j \in MMThread : Parks(j, x) => Parks(j, x)'
        BY <1>1, Sets DEF Parks, UtSet, SameWhere, SameOn
  <2>4. \A x \in Thread, j \in MMThread : td'[x].join_td = j /\ Unwoken(x)' => Parks(j, x)'
        BY <2>1, <2>3 DEF IInv, Joiners, KeepJoin
  <2>5. ASSUME NEW x \in Thread, Waking(x)'
        PROVE \E j \in MMThread : /\ td'[x].join_td = j /\ ut'[j].arg = x
                                  /\ ut'[j].pc = "join_parked" /\ Off(j)'
    <3>1. PICK j \in MMThread : /\ td[x].join_td = j /\ ut[j].arg = x
                                /\ ut[j].pc = "join_parked" /\ Off(j)
          BY <2>2, <2>5 DEF IInv, Joiners
    <3>2. j # t
          BY <1>1
    <3>3. QED
          BY <1>2, <3>1, <3>2, Sets DEF UtSet, KeepJoin
  <2>6. \A x, v \in Thread : ut'[x].pc \in JoinerPc /\ ut'[x].arg = v => td'[v].join_td = x
        BY DEF IInv, Joiners, UtSet, KeepJoin, JoinerPc, WaiterPc
  <2>7. \A v \in OneOne : ~td'[v].wait /\ ut'[v].pc # "unborn" => ut'[v].pc = "gone"
        BY Sets DEF IInv, Joiners, UtSet, KeepWait
  <2>8. \A x, v \in Thread : ut'[x].pc = "join_sleep" /\ ut'[x].arg = v =>
          \/ td'[v].wait
          \/ \E k \in KThread : kt'[k].cur = v /\ kt'[k].pc \in {"exit_check", "futex_wake"}
        BY DEF IInv, Joiners, UtSet, KeepKt, KeepWait
  <2>9. QED
        BY <2>4, <2>5, <2>6, <2>7, <2>8 DEF Joiners
<1>7. Frees'
      BY Sets DEF IInv, Frees, Spent, UtSet, KeepJoin, JoinerPc, WaiterPc
<1>8. QED
      BY <1>3, <1>4, <1>5, <1>6, <1>7

\* thread_exit of a one-one thread.
ExitCall(t) ==
  /\ At(t, "client") /\ t \in OneOne
  /\ td' = [td EXCEPT ![t].intr_off = intr(t, TRUE), ![t].state = "EXITED"]
  /\ Goto(t, "exit_lock")
  /\ UNCHANGED <<mmrll, mmrll_lk, kt, enabled, mpc, freed, got>>

\* The thread is EXITED and goes for its lock.
LEMMA ExitCallKeeps ==
  ASSUME IInv, NEW t \in Thread, ExitCall(t)
  PROVE IInv'
<1>1. ut[t].pc = "client" /\ Runs(t) /\ t \in OneOne
      BY DEF ExitCall, At
<1>2. UNCHANGED <<mmrll, mmrll_lk, kt, enabled, mpc, freed, got>> /\ KeepKt
      BY DEF ExitCall, KeepKt
<1>3. UtSet(t, "exit_lock", ut[t].arg) /\ ut' \in UtType
  <2>1. "exit_lock" \in UserLabel
        BY DEF UserLabel
  <2>2. QED
        BY <2>1, GotoFacts DEF ExitCall, IInv
<1>4. /\ DescrSet(t, "EXITED", td[t].wait_join_td, intr(t, TRUE))
      /\ KeepWait /\ KeepGiven /\ KeepJoin /\ KeepLock
      /\ td' \in TdType
      BY ExitFacts DEF ExitCall
<1>5. TypeOK'
      BY <1>2, <1>3, <1>4 DEF IInv, TypeOK, TdType, States, UtType, Arg
<1>6. Descriptors'
  <2>1. Agrees(t, ut[t].pc, ut[t].arg, td[t].state, td[t].wait_join_td, td[t].intr_off)
        BY DEF IInv, Descriptors
  <2>2. Agrees(t, "exit_lock", ut[t].arg, "EXITED", td[t].wait_join_td, intr(t, TRUE))
        BY <1>1, <2>1, Sets DEF Agrees, NewPc, JoinPc, JoinerPc, WaiterPc,
           KillPc, ExitPc, AwayPc, OnCpuPc, intr
  <2>3. QED
        BY <1>3, <1>4, <2>2, DescriptorsKept DEF IInv
<1>7. Locks'
  <2>1. \A v \in Thread : ~HoldsT(t, v) /\ ~HoldsT(t, v)'
        BY <1>1, <1>3 DEF HoldsT, UtSet
  <2>2. QED
        BY <1>1, <1>2, <1>3, <1>4, <2>1, HoldsUser, ListLock, LocksKept DEF IInv
<1>8. Places' /\ Dispatchers' /\ Births' /\ Joiners' /\ Frees'
      BY <1>1, <1>2, <1>3, <1>4, ExitApart
<1>9. QED
      BY <1>5, <1>6, <1>7, <1>8 DEF IInv

\* thread_exit.
LEMMA ThreadExitKeeps ==
  ASSUME IInv, NEW t \in Thread, ThreadExit(t)
  PROVE IInv'
<1>1. ExitBack(t) \/ ExitCall(t)
      BY DEF ThreadExit, ExitBack, ExitCall
<1>2. QED
      BY <1>1, ExitBackKeeps, ExitCallKeeps

\* td_lock of the exiting thread itself.
LEMMA OneOneLockKeeps ==
  ASSUME IInv, NEW t \in Thread, OneOneLock(t)
  PROVE IInv'
<1>1. /\ ut[t].pc = "exit_lock" /\ td[t].mem_lock = NULL /\ t \in OneOne
      BY DEF OneOneLock, At, IInv, Descriptors, Agrees, ExitPc
<1>2. UNCHANGED <<mmrll, mmrll_lk, kt, enabled, mpc, freed, got>> /\ KeepKt
      BY DEF OneOneLock, KeepKt
<1>3. UtSet(t, "exit_check", ut[t].arg) /\ ut' \in UtType
  <2>1. "exit_check" \in UserLabel
        BY DEF UserLabel
  <2>2. QED
        BY <2>1, GotoFacts DEF OneOneLock, IInv
<1>4. /\ LockSet(t, t) /\ KeepDescr /\ KeepWait /\ KeepGiven /\ KeepJoin
      /\ td' \in TdType
      BY Sets, LockFacts DEF OneOneLock, IInv
<1>5. TypeOK'
      BY <1>2, <1>3, <1>4 DEF IInv, TypeOK, TdType, States, UtType, Arg, Lock
<1>6. Descriptors'
  <2>1. Agrees(t, ut[t].pc, ut[t].arg, td[t].state, td[t].wait_join_td, td[t].intr_off)
        BY DEF IInv, Descriptors
  <2>2. Agrees(t, "exit_check", ut[t].arg, td[t].state, td[t].wait_join_td, td[t].intr_off)
        BY <1>1, <2>1, Sets DEF Agrees, NewPc, JoinPc, JoinerPc, WaiterPc,
           KillPc, ExitPc, AwayPc, OnCpuPc
  <2>3. QED
        BY <1>3, <1>4, <2>2, DescriptorsSame DEF IInv
<1>7. Locks'
  <2>1. \A v \in Thread : ~HoldsT(t, v) /\ (HoldsT(t, v)' <=> v = t)
        BY <1>1, <1>3 DEF HoldsT, UtSet
  <2>2. QED
        BY <1>1, <1>2, <1>3, <1>4, <2>1, Sets, HoldsUser, ListLock, LocksTaken DEF IInv
<1>8. Places' /\ Dispatchers' /\ Births' /\ Joiners' /\ Frees'
      BY <1>1, <1>2, <1>3, <1>4, ExitApart
<1>9. QED
      BY <1>5, <1>6, <1>7, <1>8 DEF IInv

\* The exiting thread keeps its lock for ever when a one-one thread joins it, and
\* releases it otherwise; a many-many joiner it finds is parked by then.
LEMMA OneOneCheckKeeps ==
  ASSUME IInv, NEW t \in Thread, OneOneCheck(t)
  PROVE IInv'
<1>1. ut[t].pc = "exit_check" /\ t \in OneOne
      BY DEF OneOneCheck, At, IInv, Descriptors, Agrees, ExitPc
<1>2. UNCHANGED <<mmrll, mmrll_lk, kt, enabled, mpc, freed, got>> /\ KeepKt
      BY DEF OneOneCheck, KeepKt
<1>3. PICK l \in {"exiting", "exit_list"} :
        /\ Goto(t, l)
        /\ l = "exit_list" => td[t].join_td \in MMThread
        /\ UNCHANGED td \/ td' = [td EXCEPT ![t].mem_lock = NULL]
  <2>1. td[t].join_td \in Thread \cup {NULL}
        BY Ranges DEF IInv
  <2>2. CASE td[t].join_td \in OneOne
        BY <2>2 DEF OneOneCheck
  <2>3. CASE td[t].join_td = NULL
        BY <2>3, Sets DEF OneOneCheck
  <2>4. CASE td[t].join_td \in MMThread
        BY <2>4, Sets DEF OneOneCheck
  <2>5. QED
        BY <2>1, <2>2, <2>3, <2>4, Sets
<1>4. UtSet(t, l, ut[t].arg) /\ ut' \in UtType
  <2>1. l \in UserLabel
        BY DEF UserLabel
  <2>2. QED
        BY <1>3, <2>1, GotoFacts DEF IInv
<1>5. /\ KeepLock \/ LockSet(t, NULL)
      /\ KeepDescr /\ KeepWait /\ KeepGiven /\ KeepJoin
      /\ td' \in TdType
  <2>1. CASE UNCHANGED td
        BY <2>1, Types DEF IInv, KeepLock, KeepDescr, KeepWait, KeepGiven, KeepJoin
  <2>2. CASE td' = [td EXCEPT ![t].mem_lock = NULL]
        BY <2>2, Sets, LockFacts DEF IInv
  <2>3. QED
        BY <1>3, <2>1, <2>2
<1>6. TypeOK'
      BY <1>2, <1>4, <1>5 DEF IInv, TypeOK, TdType, States, UtType, Arg
<1>7. Descriptors'
  <2>1. Agrees(t, ut[t].pc, ut[t].arg, td[t].state, td[t].wait_join_td, td[t].intr_off)
        BY DEF IInv, Descriptors
  <2>2. Agrees(t, l, ut[t].arg, td[t].state, td[t].wait_join_td, td[t].intr_off)
        BY <1>1, <2>1, Sets DEF Agrees, NewPc, JoinPc, JoinerPc, WaiterPc,
           KillPc, ExitPc, AwayPc, OnCpuPc
  <2>3. QED
        BY <1>4, <1>5, <2>2, DescriptorsSame DEF IInv
<1>8. td[t].mem_lock = t /\ \A v \in Thread : (HoldsT(t, v) <=> v = t) /\ ~HoldsT(t, v)'
      BY <1>1, <1>4 DEF HoldsT, UtSet, IInv, Locks
<1>9. Locks'
  <2>1. CASE LockSet(t, NULL)
        BY <1>1, <1>2, <1>4, <1>8, <2>1, Sets, HoldsUser, ListLock, LocksReleased DEF IInv
  <2>2. CASE KeepLock
    <3>1. \A x \in Thread, v \in Thread : HoldsT(x, v)' <=> HoldsT(x, v) /\ x # t
          BY <1>2, <1>4, <1>8, HoldsUser
    <3>2. \A k \in KThread, v \in Thread : HoldsK(k, v)' <=> HoldsK(k, v)
          BY <1>2, <1>4, HoldsUser
    <3>3. \A x \in MMThread : mmrll_lk' = x => ut'[x].pc = "create_enq"
          BY <1>1, <1>2, <1>4, ListLock DEF IInv
    <3>4. QED
          BY <1>1, <2>2, <3>1, <3>2, <3>3, Sets DEF IInv, Locks, KeepLock
  <2>3. QED
        BY <1>5, <2>1, <2>2
<1>10. ASSUME l = "exit_list"
       PROVE \E j \in MMThread : /\ td[t].join_td = j /\ ut[j].arg = t
                                 /\ ut[j].pc = "join_parked" /\ Off(j)
  <2>1. PICK j \in MMThread : td[t].join_td = j
        BY <1>3, <1>10
  <2>2. Parks(j, t)
        BY <1>1, <2>1 DEF IInv, Joiners, Unwoken
  <2>3. ~HoldsT(j, t)
        BY <1>1, <1>8, Sets DEF IInv, Locks
  <2>4. QED
        BY <2>1, <2>2, <2>3 DEF Parks, HoldsT, Off
<1>11. Places' /\ Dispatchers' /\ Births' /\ Joiners' /\ Frees'
      BY <1>1, <1>2, <1>4, <1>5, <1>10, ExitApart
<1>12. QED
      BY <1>6, <1>7, <1>9, <1>11 DEF IInv

\* The lock of the ready list is taken for the joiner.
LEMMA OneOneListKeeps ==
  ASSUME IInv, NEW t \in Thread, OneOneList(t)
  PROVE IInv'
<1>1. ut[t].pc = "exit_list" /\ t \in OneOne
      BY DEF OneOneList, At, IInv, Descriptors, Agrees, ExitPc
<1>2. UNCHANGED <<td, mmrll, kt, enabled, mpc, freed, got>> /\ KeepKt /\ mmrll_lk' = t
      BY DEF OneOneList, KeepKt, mmrll_lock
<1>3. UtSet(t, "exit_enq", ut[t].arg) /\ ut' \in UtType
  <2>1. "exit_enq" \in UserLabel
        BY DEF UserLabel
  <2>2. QED
        BY <2>1, GotoFacts DEF OneOneList, IInv
<1>4. KeepLock /\ KeepDescr /\ KeepWait /\ KeepGiven /\ KeepJoin
      BY <1>2 DEF KeepLock, KeepDescr, KeepWait, KeepGiven, KeepJoin
<1>5. TypeOK'
      BY <1>2, <1>3 DEF IInv, TypeOK, UtType, Arg, Lock
<1>6. Descriptors'
  <2>1. Agrees(t, ut[t].pc, ut[t].arg, td[t].state, td[t].wait_join_td, td[t].intr_off)
        BY DEF IInv, Descriptors
  <2>2. Agrees(t, "exit_enq", ut[t].arg, td[t].state, td[t].wait_join_td, td[t].intr_off)
        BY <1>1, <2>1, Sets DEF Agrees, NewPc, JoinPc, JoinerPc, WaiterPc,
           KillPc, ExitPc, AwayPc, OnCpuPc
  <2>3. QED
        BY <1>3, <1>4, <2>2, DescriptorsSame DEF IInv
<1>7. Locks'
  <2>1. \A v \in Thread : ~HoldsT(t, v) /\ ~HoldsT(t, v)'
        BY <1>1, <1>3 DEF HoldsT, UtSet
  <2>2. QED
        BY <1>1, <1>2, <1>3, <1>4, <2>1, Sets, HoldsUser, ListLock, LocksKept DEF IInv
<1>8. \E j \in MMThread : /\ td[t].join_td = j /\ ut[j].arg = t
                          /\ ut[j].pc = "join_parked" /\ Off(j)
      BY <1>1 DEF IInv, Joiners, Waking
<1>9. Places' /\ Dispatchers' /\ Births' /\ Joiners' /\ Frees'
      BY <1>1, <1>2, <1>3, <1>4, <1>8, ExitApart
<1>10. QED
      BY <1>5, <1>6, <1>7, <1>9 DEF IInv

\* The places that Births says something about.
NamedPc == NewPc \cup JoinPc \cup KillPc \cup {"unborn", "create_store"}

\* Nobody is born, and whoever changes its place leaves thread_create and
\* thread_kill alone.
LEMMA BirthsKept ==
  ASSUME Births, Descriptors, KeepGiven, KeepJoin,
         \A x \in Thread :
           /\ ut'[x].arg = ut[x].arg
           /\ ut'[x].pc \in NamedPc =>
                ut'[x].pc = ut[x].pc \/ (ut'[x].pc \in JoinPc /\ ut[x].pc \in JoinPc)
           /\ ut[x].pc = "unborn" => ut'[x].pc = "unborn" /\ Off(x)' /\ td'[x].wait = td[x].wait,
         mpc' = "create" <=> mpc = "create"
  PROVE Births'
<1>1. \A u \in Thread : ut'[u].pc = "unborn" <=> ut[u].pc = "unborn"
      BY DEF NamedPc, JoinPc, JoinerPc, WaiterPc
<1>2. \A u \in Thread : ut'[u].pc = "unborn" =>
        /\ ~td'[u].given /\ td'[u].join_td = NULL /\ Off(u)'
        /\ td'[u].wait <=> u \in MMThread
      BY <1>1 DEF Births, KeepGiven, KeepJoin
<1>3. \A x \in Thread : /\ ut'[x].pc \in NewPc => ut[x].pc = ut'[x].pc
                        /\ ut'[x].pc = "create_store" => ut[x].pc = "create_store"
                        /\ ut'[x].pc \in JoinPc => ut[x].pc \in JoinPc
                        /\ ut'[x].pc \in KillPc => ut[x].pc \in KillPc
      BY DEF NamedPc, NewPc, JoinPc, JoinerPc, WaiterPc, KillPc
<1>4. ASSUME NEW x \in Thread, NEW u \in Thread, ut'[x].arg = u
      PROVE /\ ut'[x].pc \in NewPc => ut'[u].pc = "unborn" /\ u # Main
            /\ ut'[x].pc = "create_clone" => u \in OneOne
            /\ ut'[x].pc \in {"create_lock", "create_enq"} => u \in MMThread
            /\ ut'[x].pc = "create_store" => ut'[u].pc # "unborn"
            /\ ut'[x].pc \in JoinPc => td'[u].given
      BY <1>1, <1>3, <1>4 DEF Births, KeepGiven, NewPc
<1>5. ASSUME NEW x \in Thread, ut'[x].pc \in KillPc
      PROVE td'[ut'[x].arg[1]].given
  <2>1. ut[x].arg[1] \in Thread /\ ut[x].pc \in KillPc
        BY <1>3, <1>5 DEF Descriptors, Agrees
  <2>2. QED
        BY <2>1 DEF Births, KeepGiven
<1>6. \A x, s \in Thread :
        ut'[x].pc \in NewPc /\ ut'[s].pc \in NewPc /\ ut'[x].arg = ut'[s].arg => x = s
      BY <1>3 DEF Births
<1>7. mpc' = "create" <=> ut'[Main].pc = "unborn"
      BY <1>1, Sets DEF Births
<1>8. QED
      BY <1>2, <1>4, <1>5, <1>6, <1>7 DEF Births

\* The joiner is in the ready list, once, and the exiting thread goes to its end.
LEMMA OneOneEnqKeeps ==
  ASSUME IInv, NEW t \in Thread, OneOneEnq(t)
  PROVE IInv'
<1>1. ut[t].pc = "exit_enq" /\ t \in OneOne
      BY DEF OneOneEnq, At, IInv, Descriptors, Agrees, ExitPc
<1>2. UNCHANGED <<td, kt, enabled, mpc, freed, got>> /\ KeepKt /\ mmrll_lk' = NULL
      BY DEF OneOneEnq, KeepKt, mmrll_enqueue
<1>3. UtSet(t, "exiting", ut[t].arg) /\ ut' \in UtType
  <2>1. "exiting" \in UserLabel
        BY DEF UserLabel
  <2>2. QED
        BY <2>1, GotoFacts DEF OneOneEnq, IInv
<1>4. KeepLock /\ KeepDescr /\ KeepWait /\ KeepGiven /\ KeepJoin
      BY <1>2 DEF KeepLock, KeepDescr, KeepWait, KeepGiven, KeepJoin
<1>5. PICK w \in MMThread : /\ td[t].join_td = w /\ ut[w].arg = t
                            /\ ut[w].pc = "join_parked" /\ Off(w)
      BY <1>1 DEF IInv, Joiners, Waking
<1>6. /\ mmrll' \in Seq(MMThread) /\ Distinct(mmrll')
      /\ \A x \in Thread : Ready(x)' <=> Ready(x) \/ x = w
  <2>1. mmrll \in Seq(MMThread) /\ Distinct(mmrll) /\ ~InList(w, mmrll)
        BY <1>5, Types DEF IInv, Places, Off, Ready, InList
  <2>2. mmrll' = Append(mmrll, w)
        BY <1>5 DEF OneOneEnq, mmrll_enqueue
  <2>3. /\ mmrll' \in Seq(MMThread) /\ Distinct(mmrll')
        /\ \A x \in Thread : InList(x, mmrll') <=> InList(x, mmrll) \/ x = w
        BY <2>1, <2>2, AppendFacts
  <2>4. QED
        BY <2>3 DEF Ready, InList
<1>7. TypeOK'
      BY <1>2, <1>3, <1>6, Sets DEF IInv, TypeOK, UtType, Arg
<1>8. Descriptors'
  <2>1. Agrees(t, ut[t].pc, ut[t].arg, td[t].state, td[t].wait_join_td, td[t].intr_off)
        BY DEF IInv, Descriptors
  <2>2. Agrees(t, "exiting", ut[t].arg, td[t].state, td[t].wait_join_td, td[t].intr_off)
        BY <1>1, <2>1, Sets DEF Agrees, NewPc, JoinPc, JoinerPc, WaiterPc,
           KillPc, ExitPc, AwayPc, OnCpuPc
  <2>3. QED
        BY <1>3, <1>4, <2>2, DescriptorsSame DEF IInv
<1>9. Locks'
  <2>1. \A v \in Thread : ~HoldsT(t, v) /\ ~HoldsT(t, v)'
        BY <1>1, <1>3 DEF HoldsT, UtSet
  <2>2. QED
        BY <1>1, <1>2, <1>3, <1>4, <2>1, Sets, HoldsUser, ListLock, LocksKept DEF IInv
<1>10. /\ \A x \in Thread : SameOn(x)
       /\ \A x \in Thread \ {w} : Off(x)' <=> Off(x)
       /\ w \in Thread /\ w # t
  <2>1. \A x \in Thread : SameOn(x)
        BY <1>2 DEF SameOn, Dispatched, Runs, Posting
  <2>2. QED
        BY <1>1, <1>6, <2>1, Sets DEF SameOn, Off
<1>11. Places'
  <2>1. ~Dispatched(w)
        BY <1>5 DEF Off
  <2>2. QED
        BY <1>2, <1>6, <1>10, <2>1 DEF IInv, Places, SameOn
<1>12. Dispatchers'
  <2>1. \A k \in KThread : kt[k].cur # t
        BY <1>1, Ranges, Sets DEF IInv
  <2>2. QED
        BY <1>1, <1>2, <1>3, <1>5, <1>6, <1>10, <2>1, Sets DEF IInv, Dispatchers, UtSet, SameOn,
           OnCpuPc
<1>13. Births'
      BY <1>1, <1>2, <1>3, <1>4, <1>5, <1>10, BirthsKept
      DEF IInv, UtSet, NamedPc, NewPc, JoinPc, JoinerPc, WaiterPc, KillPc, Births
<1>14. Joiners'
  <2>1. \A x \in Thread : /\ Unwoken(x)' => Unwoken(x) /\ x # t
                          /\ Waking(x)' => Waking(x) /\ x # t
    <3>1. \A k \in KThread : kt[k].cur # t
          BY <1>1, Ranges, Sets DEF IInv
    <3>2. QED
          BY <1>1, <1>2, <1>3, <3>1 DEF Unwoken, Waking, UtSet
  <2>2. ASSUME NEW x \in Thread, NEW j \in MMThread, td'[x].join_td = j, Unwoken(x)'
        PROVE Parks(j, x)'
    <3>1. Parks(j, x) /\ x # t
          BY <1>2, <2>1, <2>2 DEF IInv, Joiners
    <3>2. j # w /\ j # t
          BY <1>1, <1>5, <3>1, Sets DEF Parks
    <3>3. QED
          BY <1>3, <1>6, <1>10, <3>1, <3>2, Sets DEF Parks, UtSet, SameOn
  <2>3. ASSUME NEW x \in Thread, Waking(x)'
        PROVE \E j \in MMThread : /\ td'[x].join_td = j /\ ut'[j].arg = x
                                  /\ ut'[j].pc = "join_parked" /\ Off(j)'
    <3>1. PICK j \in MMThread : /\ td[x].join_td = j /\ ut[j].arg = x
                                /\ ut[j].pc = "join_parked" /\ Off(j)
          BY <2>1, <2>3 DEF IInv, Joiners
    <3>2. j # t /\ j # w
          BY <1>1, <1>5, <2>1, <2>3, <3>1, Sets
    <3>3. QED
          BY <1>2, <1>3, <1>10, <3>1, <3>2, Sets DEF UtSet
  <2>4. \A x, v \in Thread : ut'[x].pc \in JoinerPc /\ ut'[x].arg = v => td'[v].join_td = x
        BY <1>2, <1>3 DEF IInv, Joiners, UtSet, JoinerPc, WaiterPc
  <2>5. \A v \in OneOne : ~td'[v].wait /\ ut'[v].pc # "unborn" => ut'[v].pc = "gone"
        BY <1>1, <1>2, <1>3, Sets DEF IInv, Joiners, UtSet
  <2>6. \A x, v \in Thread : ut'[x].pc = "join_sleep" /\ ut'[x].arg = v =>
          \/ td'[v].wait
          \/ \E k \in KThread : kt'[k].cur = v /\ kt'[k].pc \in {"exit_check", "futex_wake"}
        BY <1>2, <1>3 DEF IInv, Joiners, UtSet
  <2>7. QED
        BY <2>2, <2>3, <2>4, <2>5, <2>6 DEF Joiners
<1>15. Frees'
      BY <1>2, <1>3, Sets DEF IInv, Frees, Spent, UtSet, JoinerPc, WaiterPc
<1>16. QED
      BY <1>7, <1>8, <1>9, <1>11, <1>12, <1>13, <1>14, <1>15 DEF IInv

\* A thread is joined by one thread at most, so that one wake is enough.
LEMMA OneSleeper ==
  ASSUME IInv, NEW u \in Thread, NEW x \in Sleepers(u), NEW y \in Sleepers(u)
  PROVE x = y /\ x \in OneOne
  BY DEF IInv, Joiners, Descriptors, Agrees, Sleepers, JoinerPc, WaiterPc

\* The kernel ends the thread, clears its wait word and wakes its sleeper.
LEMMA KernelExitFacts ==
  ASSUME IInv, NEW t \in OneOne, ut[t].pc = "exiting",
         \/ Sleepers(t) = {} /\ Goto(t, "gone")
         \/ \E u \in Sleepers(t) :
              ut' = [ut EXCEPT ![t].pc = "gone", ![u].pc = "join_done"]
  PROVE /\ ut'[t].pc = "gone" /\ ut' \in UtType
        /\ \A x \in Thread : ut'[x].arg = ut[x].arg
        /\ \A x \in Thread \ {t} : \/ ut'[x].pc = ut[x].pc
                                   \/ /\ ut[x].pc = "join_sleep" /\ ut[x].arg = t
                                      /\ x \in OneOne /\ ut'[x].pc = "join_done"
        /\ \A x \in Thread : ut'[x].pc = "join_sleep" => ut[x].arg # t
<1>1. t \in Thread /\ "gone" \in UserLabel /\ "join_done" \in UserLabel /\ TypeOK
      BY Sets DEF UserLabel, IInv
<1>2. CASE Sleepers(t) = {} /\ Goto(t, "gone")
  <2>1. UtSet(t, "gone", ut[t].arg) /\ ut' \in UtType
        BY <1>1, <1>2, GotoFacts
  <2>2. \A x \in Thread : ~(ut[x].pc = "join_sleep" /\ ut[x].arg = t)
        BY <1>2 DEF Sleepers
  <2>3. QED
        BY <1>1, <2>1, <2>2 DEF UtSet
<1>3. ASSUME NEW u \in Sleepers(t),
             ut' = [ut EXCEPT ![t].pc = "gone", ![u].pc = "join_done"]
      PROVE /\ ut'[t].pc = "gone" /\ ut' \in UtType
            /\ \A x \in Thread : ut'[x].arg = ut[x].arg
            /\ \A x \in Thread \ {t} : \/ ut'[x].pc = ut[x].pc
                                       \/ /\ ut[x].pc = "join_sleep" /\ ut[x].arg = t
                                          /\ x \in OneOne /\ ut'[x].pc = "join_done"
            /\ \A x \in Thread : ut'[x].pc = "join_sleep" => ut[x].arg # t
  <2>1. /\ u \in Thread /\ u # t /\ ut[u].pc = "join_sleep" /\ ut[u].arg = t
        BY DEF Sleepers
  <2>2. \A x \in Thread : ut[x].pc = "join_sleep" /\ ut[x].arg = t => x = u
        BY <1>1, OneSleeper DEF Sleepers
  <2>3. u \in OneOne
        BY <1>1, OneSleeper
  <2>4. PICK m \in UserLabel, l \in UserLabel : m = "gone" /\ l = "join_done"
        BY <1>1
  <2>5. ut' = [ut EXCEPT ![t].pc = m, ![u].pc = l]
        BY <1>3, <2>4
  <2>6. /\ ut'[t].pc = m /\ ut'[t].arg = ut[t].arg
        /\ ut'[u].pc = l /\ ut'[u].arg = ut[u].arg
        /\ \A x \in Thread \ {u, t} : ut'[x].pc = ut[x].pc /\ ut'[x].arg = ut[x].arg
        /\ ut' \in UtType
    <3>1. t # u
          BY <2>1
    <3>2. QED
          BY ONLY <1>1, <2>1, <2>5, <3>1, TwoFacts, m \in UserLabel, l \in UserLabel
  <2>7. QED
        BY <2>1, <2>2, <2>3, <2>4, <2>6
<1>4. QED
      BY <1>2, <1>3

\* The kernel's part of thread_exit.
LEMMA KernelExitKeeps ==
  ASSUME IInv, NEW t \in Thread, KernelExit(t)
  PROVE IInv'
<1>1. ut[t].pc = "exiting" /\ t \in OneOne /\ t \notin MMThread
      BY Sets DEF KernelExit, At, IInv, Descriptors, Agrees, ExitPc
<1>2. UNCHANGED <<mmrll, mmrll_lk, kt, enabled, mpc, freed, got>> /\ KeepKt
      BY DEF KernelExit, KeepKt
<1>3. /\ ut'[t].pc = "gone" /\ ut' \in UtType
      /\ \A x \in Thread : ut'[x].arg = ut[x].arg
      /\ \A x \in Thread \ {t} : \/ ut'[x].pc = ut[x].pc
                                 \/ /\ ut[x].pc = "join_sleep" /\ ut[x].arg = t
                                    /\ x \in OneOne /\ ut'[x].pc = "join_done"
      /\ \A x \in Thread : ut'[x].pc = "join_sleep" => ut[x].arg # t
      BY <1>1, KernelExitFacts DEF KernelExit
<1>4. /\ KeepDescr /\ KeepGiven /\ KeepJoin /\ KeepLock
      /\ \A x \in Thread : td'[x].wait = IF x = t THEN FALSE ELSE td[x].wait
      /\ td' \in TdType
  <2>1. td \in TdType /\ td' = [td EXCEPT ![t].wait = FALSE]
        BY Types DEF IInv, KernelExit
  <2>2. td' \in TdType
        BY <2>1, TdUpdates
  <2>3. QED
        BY <2>1, <2>2 DEF TdType, KeepDescr, KeepGiven, KeepJoin, KeepLock
<1>5. TypeOK'
      BY <1>2, <1>3, <1>4 DEF IInv, TypeOK, TdType, States, UtType, Arg
<1>6. \A x \in Thread : SameWhere(x) /\ (Off(x)' <=> Off(x))
  <2>1. \A x \in Thread : SameWhere(x)
        BY <1>2, WhereSame
  <2>2. QED
        BY <2>1 DEF SameWhere, SameOn, Off
<1>7. Places'
      BY <1>2, <1>6 DEF IInv, Places, KeepKt, SameWhere, SameOn
<1>8. Descriptors'
  <2> SUFFICES ASSUME NEW x \in Thread
               PROVE Agrees(x, ut'[x].pc, ut[x].arg, td[x].state, td[x].wait_join_td,
                            td[x].intr_off)
      BY <1>3, <1>4 DEF Descriptors, KeepDescr
  <2>1. Agrees(x, ut[x].pc, ut[x].arg, td[x].state, td[x].wait_join_td, td[x].intr_off)
        BY DEF IInv, Descriptors
  <2>2. CASE x = t
        BY <1>1, <1>3, <2>1, <2>2 DEF Agrees, NewPc, JoinPc, JoinerPc, WaiterPc, KillPc, ExitPc,
           AwayPc, OnCpuPc
  <2>3. CASE x # t /\ ut'[x].pc # ut[x].pc
    <3>1. ut[x].pc = "join_sleep" /\ ut'[x].pc = "join_done" /\ x \in OneOne /\ x \notin MMThread
          BY <1>3, <2>3, Sets
    <3>2. QED
          BY <2>1, <3>1 DEF Agrees, NewPc, JoinPc, JoinerPc, WaiterPc, KillPc, ExitPc,
             AwayPc, OnCpuPc
  <2>4. CASE x # t /\ ut'[x].pc = ut[x].pc
        BY <2>1, <2>4
  <2>5. QED
        BY <2>2, <2>3, <2>4
<1>9. Locks'
  <2>1. \A x, v \in Thread : HoldsT(x, v)' <=> HoldsT(x, v)
    <3>1. \A v \in Thread : ~HoldsT(t, v) /\ ~HoldsT(t, v)'
          BY <1>1, <1>3 DEF HoldsT
    <3>2. \A x \in Thread \ {t}, v \in Thread : HoldsT(x, v)' <=> HoldsT(x, v)
          BY <1>3, <1>6 DEF HoldsT, SameWhere, SameOn
    <3>3. QED
          BY <3>1, <3>2
  <2>2. \A k \in KThread, v \in Thread : HoldsK(k, v)' => HoldsK(k, v)
        BY <1>2 DEF HoldsK
  <2>3. \A x \in MMThread : mmrll_lk' = x => ut'[x].pc = "create_enq"
        BY <1>1, <1>2, <1>3, Sets DEF IInv, Locks
  <2>4. QED
        BY <1>4, <2>1, <2>2, <2>3, LocksKept DEF IInv
<1>10. Dispatchers'
  <2>1. \A k \in KThread : kt[k].cur # t
        BY <1>1, Ranges, Sets DEF IInv
  <2>2. \A x \in MMThread : x \in Thread /\ ut'[x].pc = ut[x].pc /\ td'[x].wait = td[x].wait
        BY <1>1, <1>3, <1>4, Sets
  <2>3. \A k \in KThread : kt[k].cur = NULL \/ kt[k].cur \in MMThread
        BY Ranges DEF IInv
  <2>4. QED
        BY <1>2, <1>6, <2>1, <2>2, <2>3, Sets DEF IInv, Dispatchers, SameWhere, SameOn
<1>11. Births'
      BY <1>1, <1>2, <1>3, <1>4, <1>6, BirthsKept
      DEF IInv, NamedPc, NewPc, JoinPc, JoinerPc, WaiterPc, KillPc, Births
<1>12. Joiners'
  <2>1. \A x \in Thread : Unwoken(x)' => Unwoken(x)
        BY <1>1, <1>2, <1>3, <1>4, Sets DEF Unwoken
  <2>2. \A x \in Thread : Waking(x)' => Waking(x)
        BY <1>2, <1>3 DEF Waking
  <2>3. \A x \in MMThread : x \in Thread /\ ut'[x].pc = ut[x].pc
        BY <1>1, <1>3, Sets
  <2>4. \A x \in Thread, j \in MMThread : td'[x].join_td = j /\ Unwoken(x)' => Parks(j, x)'
        BY <1>3, <1>4, <1>6, <2>1, <2>3 DEF IInv, Joiners, KeepJoin, Parks, SameWhere, SameOn
  <2>5. ASSUME NEW x \in Thread, Waking(x)'
        PROVE \E j \in MMThread : /\ td'[x].join_td = j /\ ut'[j].arg = x
                                  /\ ut'[j].pc = "join_parked" /\ Off(j)'
    <3>1. PICK j \in MMThread : /\ td[x].join_td = j /\ ut[j].arg = x
                                /\ ut[j].pc = "join_parked" /\ Off(j)
          BY <2>2, <2>5 DEF IInv, Joiners
    <3>2. QED
          BY <1>3, <1>4, <1>6, <2>3, <3>1 DEF KeepJoin
  <2>6. \A x, v \in Thread : ut'[x].pc \in JoinerPc /\ ut'[x].arg = v => td'[v].join_td = x
        BY <1>3, <1>4 DEF IInv, Joiners, KeepJoin, JoinerPc, WaiterPc
  <2>7. \A v \in OneOne : ~td'[v].wait /\ ut'[v].pc # "unborn" => ut'[v].pc = "gone"
    <3> SUFFICES ASSUME NEW v \in OneOne, v # t, ~td'[v].wait, ut'[v].pc # "unborn"
                 PROVE ut'[v].pc = "gone"
        BY <1>3
    <3>1. v \in Thread /\ ~td[v].wait
          BY <1>4, Sets
    <3>2. ut[v].pc = "gone" \/ ut[v].pc = "unborn"
          BY <3>1 DEF IInv, Joiners
    <3>3. QED
          BY <1>3, <3>1, <3>2
  <2>8. ASSUME NEW x \in Thread, NEW v \in Thread, ut'[x].pc = "join_sleep", ut'[x].arg = v
        PROVE td'[v].wait \/ \E k \in KThread : /\ kt'[k].cur = v
                                                /\ kt'[k].pc \in {"exit_check", "futex_wake"}
    <3>1. x # t /\ v # t /\ ut[x].pc = "join_sleep" /\ ut[x].arg = v
          BY <1>3, <2>8
    <3>2. td[v].wait \/ \E k \in KThread : /\ kt[k].cur = v
                                            /\ kt[k].pc \in {"exit_check", "futex_wake"}
          BY <3>1 DEF IInv, Joiners
    <3>3. td'[v].wait = td[v].wait /\ kt' = kt
          BY <1>2, <1>4, <3>1
    <3>4. QED
          BY <3>2, <3>3
  <2>9. QED
        BY <2>4, <2>5, <2>6, <2>7, <2>8 DEF Joiners
<1>13. Frees'
      BY <1>2, <1>3, <1>4 DEF IInv, Frees, Spent, KeepJoin, JoinerPc, WaiterPc
<1>14. QED
      BY <1>5, <1>7, <1>8, <1>9, <1>10, <1>11, <1>12, <1>13 DEF IInv

-----------------------------------------------------------------------------
(* The dispatcher without a thread                                         *)

\* A dispatcher that has no thread moves nobody.
LEMMA IdleKeeps ==
  ASSUME IInv, NEW k \in KThread, kt[k].pc \in IdlePc, NEW l \in IdlePc,
         KtSet(k, l, NULL), kt' \in KtType,
         mmrll_lk' \in {mmrll_lk, k, NULL},
         UNCHANGED <<td, mmrll, ut, enabled, mpc, freed, got>>
  PROVE IInv'
<1>1. kt[k].cur = NULL
      BY DEF IInv, Dispatchers
<1>2. \A x \in Thread : SameWhere(x) /\ (Off(x)' <=> Off(x))
  <2>1. \A x \in Thread : SameWhere(x)
        BY <1>1, WhereIdle
  <2>2. QED
        BY <2>1 DEF SameWhere, SameOn, Off
<1>3. TypeOK'
      BY Sets DEF IInv, TypeOK, KtType
<1>4. Places'
      BY <1>2 DEF IInv, Places, KtSet, SameWhere, SameOn
<1>5. Descriptors'
      BY DEF IInv, Descriptors
<1>6. Dispatchers'
      BY <1>1, <1>2, Sets DEF IInv, Dispatchers, KtSet, SameWhere, SameOn
<1>7. Births'
  <2>1. KeepGiven /\ KeepJoin
        BY DEF KeepGiven, KeepJoin
  <2>2. \A x \in Thread : ut[x].pc = "unborn" => Off(x)'
        BY <1>2 DEF IInv, Births
  <2>3. QED
        BY <2>1, <2>2, BirthsKept DEF IInv
<1>8. Locks'
  <2>1. KeepLock
        BY DEF KeepLock
  <2>2. \A x, v \in Thread : HoldsT(x, v)' <=> HoldsT(x, v)
        BY <1>2 DEF HoldsT, SameWhere, SameOn
  <2>3. \A j \in KThread, v \in Thread : HoldsK(j, v)' => HoldsK(j, v)
        BY Sets DEF HoldsK, KtSet
  <2>4. \A x \in MMThread : mmrll_lk' = x => ut'[x].pc = "create_enq"
        BY Sets DEF IInv, Locks
  <2>5. QED
        BY <2>1, <2>2, <2>3, <2>4, LocksKept DEF IInv
<1>9. Joiners'
  <2>1. \A x \in Thread : /\ Unwoken(x)' => Unwoken(x)
                          /\ Waking(x)' => Waking(x)
        BY Sets DEF Unwoken, Waking, KtSet
  <2>2. \A x \in Thread, j \in MMThread : td'[x].join_td = j /\ Unwoken(x)' => Parks(j, x)'
        BY <1>2, <2>1, Sets DEF IInv, Joiners, Parks, SameWhere, SameOn
  <2>3. \A x \in Thread : Waking(x)' =>
          \E j \in MMThread : /\ td'[x].join_td = j /\ ut'[j].arg = x
                              /\ ut'[j].pc = "join_parked" /\ Off(j)'
        BY <1>2, <2>1, Sets DEF IInv, Joiners
  <2>4. \A x, v \in Thread : ut'[x].pc = "join_sleep" /\ ut'[x].arg = v =>
          \/ td'[v].wait
          \/ \E j \in KThread : kt'[j].cur = v /\ kt'[j].pc \in {"exit_check", "futex_wake"}
        BY <1>1, Sets DEF IInv, Joiners, KtSet
  <2>5. QED
        BY <2>2, <2>3, <2>4 DEF IInv, Joiners
<1>10. Frees'
      BY DEF IInv, Frees, Spent
<1>11. QED
      BY <1>3, <1>4, <1>5, <1>6, <1>7, <1>8, <1>9, <1>10 DEF IInv

\* A dispatcher that goes from one idle place to another.
LEMMA IdleStep ==
  ASSUME IInv, NEW k \in KThread, NEW m \in IdlePc, NEW l \in IdlePc, Step(k, m, l)
  PROVE kt[k].pc \in IdlePc /\ KtSet(k, l, NULL) /\ kt' \in KtType
<1>1. kt[k].pc = m /\ kt' = [kt EXCEPT ![k].pc = l]
      BY DEF Step
<1>2. kt[k].cur = NULL /\ l \in DispatchLabel
      BY <1>1 DEF IInv, Dispatchers, IdlePc, DispatchLabel
<1>3. QED
      BY <1>1, <1>2, StepFacts DEF IInv

\* while (mmsched_enabled)
LEMMA LoopKeeps ==
  ASSUME IInv, NEW k \in KThread, Loop(k)
  PROVE IInv'
<1>1. PICK l \in IdlePc : Step(k, "loop", l)
      BY DEF Loop, IdlePc
<1>2. kt[k].pc \in IdlePc /\ KtSet(k, l, NULL) /\ kt' \in KtType
      BY <1>1, IdleStep DEF IdlePc
<1>3. UNCHANGED <<td, mmrll, mmrll_lk, ut, enabled, mpc, freed, got>>
      BY DEF Loop
<1>4. QED
      BY <1>2, <1>3, IdleKeeps

\* The lock of the ready list is the dispatcher's.
LEMMA GetLockKeeps ==
  ASSUME IInv, NEW k \in KThread, GetLock(k)
  PROVE IInv'
<1>1. "get_lock" \in IdlePc /\ "get" \in IdlePc /\ Step(k, "get_lock", "get")
      BY DEF GetLock, IdlePc
<1>2. kt[k].pc \in IdlePc /\ KtSet(k, "get", NULL) /\ kt' \in KtType
      BY <1>1, IdleStep
<1>3. UNCHANGED <<td, mmrll, ut, enabled, mpc, freed, got>> /\ mmrll_lk' = k
      BY DEF GetLock, mmrll_lock
<1>4. QED
      BY <1>1, <1>2, <1>3, IdleKeeps

\* The ready list is empty.
LEMMA GetNothingKeeps ==
  ASSUME IInv, NEW k \in KThread, kt[k].pc = "get", ToLoop(k), mmrll_lk' = NULL,
         UNCHANGED <<td, mmrll, ut, enabled, mpc, freed, got>>
  PROVE IInv'
<1>1. KtSet(k, "loop", NULL) /\ kt' \in KtType
      BY ToLoopFacts DEF IInv
<1>2. "loop" \in IdlePc /\ kt[k].pc \in IdlePc
      BY DEF IdlePc
<1>3. QED
      BY <1>1, <1>2, IdleKeeps

-----------------------------------------------------------------------------
(* The dispatcher with its thread                                          *)

\* A dispatcher goes on with its thread.  What it may do follows from where the
\* thread left off: it sets the wait word of a thread that has exited, and looks
\* for a joiner that is parked.
LEMMA KeptApart ==
  ASSUME IInv, NEW k \in KThread, NEW t \in MMThread, kt[k].cur = t,
         NEW l \in DispatchLabel \ IdlePc, KtSet(k, l, t),
         UNCHANGED <<mmrll, ut, mpc, freed>>, KeepDescr, KeepJoin, KeepGiven,
         \A x \in Thread \ {t} : td'[x].wait = td[x].wait,
         td'[t].wait <=> l \notin OverPc,
         l \in OverPc \cup {"exit_lock", "exit_over"} => ut[t].pc = "exited",
         l \in {"sig_lock", "sig_send", "enq_lock", "enq"} =>
           ut[t].pc \notin {"join_parked", "exited"},
         l \in {"run", "user"} => ut[t].pc # "exited",
         kt[k].pc = "user" => ut[t].pc \notin OnCpuPc,
         ut[t].pc = "join_parked" => kt[k].pc # "post",
         kt[k].pc \in OverPc => l \in OverPc,
         l = "exit_check" => kt[k].pc = "exit_over",
         l \in {"wake_lock", "wake"} =>
           /\ Sleepers(t) = {}
           /\ \E j \in MMThread : /\ td[t].join_td = j /\ ut[j].arg = t
                                  /\ ut[j].pc = "join_parked" /\ Off(j)
  PROVE Places' /\ Descriptors' /\ Dispatchers' /\ Births' /\ Joiners' /\ Frees'
<1>1. /\ \A x \in Thread \ {t} : SameOn(x)
      /\ Dispatched(t)'
      /\ Posting(t)' <=> l = "post"
      /\ \A x \in Thread : Ready(x)' <=> Ready(x)
      BY WhereStep DEF IInv, Ready
<1>2. /\ \A x \in Thread : Off(x)' <=> Off(x)
      /\ \A x \in Thread : Dispatched(x)' <=> Dispatched(x)
      /\ t \in Thread /\ Dispatched(t) /\ ~Ready(t) /\ ~Off(t)
      /\ Posting(t) <=> kt[k].pc = "post"
      /\ Runs(t) <=> kt[k].pc = "user"
      /\ \A j \in KThread : kt[j].cur = t => j = k
      BY <1>1, Held, Sets DEF SameOn, Off, IInv
<1>3. Places'
      BY <1>1, <1>2 DEF IInv, Places, KtSet
<1>4. Descriptors'
      BY DEF IInv, Descriptors, KeepDescr
<1>5. td[t].wait <=> kt[k].pc \notin OverPc
      BY <1>2 DEF IInv, Dispatchers
<1>6. Dispatchers'
  <2>1. \A j \in KThread : kt'[j].cur = NULL <=> kt'[j].pc \in IdlePc
        BY Sets DEF IInv, Dispatchers, KtSet
  <2>2. ASSUME NEW j \in KThread, NEW x \in Thread, kt'[j].cur = x
        PROVE /\ kt'[j].pc \in OverPc \cup {"exit_lock", "exit_over"} => ut'[x].pc = "exited"
              /\ kt'[j].pc \in {"sig_lock", "sig_send", "enq_lock", "enq"} =>
                   ut'[x].pc \notin {"join_parked", "exited"}
              /\ kt'[j].pc \in {"run", "user"} => ut'[x].pc # "exited"
              /\ kt'[j].pc \in OverPc <=> ~td'[x].wait
    <3>1. CASE j = k
      <4>1. x = t /\ kt'[j].pc = l
            BY <2>2, <3>1 DEF KtSet
      <4>2. QED
            BY <4>1
    <3>2. CASE j # k
      <4>1. kt[j].cur = x /\ kt'[j].pc = kt[j].pc /\ x # t
            BY <1>2, <2>2, <3>2 DEF KtSet
      <4>2. QED
            BY <4>1 DEF IInv, Dispatchers
    <3>3. QED
          BY <3>1, <3>2
  <2>3. ASSUME NEW x \in MMThread
        PROVE /\ ut'[x].pc \in OnCpuPc => Runs(x)'
              /\ ut'[x].pc = "exited" => ~Ready(x)'
              /\ ~td'[x].wait => ut'[x].pc = "exited"
    <3>1. CASE x = t
          BY <1>1, <1>2, <3>1 DEF IInv, Dispatchers
    <3>2. CASE x # t
          BY <1>1, <3>2, Sets DEF IInv, Dispatchers, SameOn
    <3>3. QED
          BY <3>1, <3>2
  <2>4. QED
        BY <2>1, <2>2, <2>3 DEF Dispatchers
<1>7. Births'
  <2>1. \A x \in Thread : ut[x].pc = "unborn" => x # t /\ Off(x)'
        BY <1>2 DEF IInv, Births
  <2>2. QED
        BY <2>1, BirthsKept DEF IInv
<1>8. Joiners'
  <2>1. \A x \in Thread : Unwoken(x)' => Unwoken(x)
    <3>1. ASSUME NEW x \in Thread, x # t PROVE Unwoken(x)' => Unwoken(x)
          BY <3>1 DEF Unwoken, KtSet
    <3>2. ASSUME Unwoken(t)' PROVE Unwoken(t)
      <4>1. td'[t].wait \/ l = "exit_check"
            BY <1>2, <3>2, Sets DEF Unwoken, KtSet
      <4>2. td[t].wait
            BY <1>5, <4>1 DEF OverPc
      <4>3. QED
            BY <4>2, Sets DEF Unwoken
    <3>3. QED
          BY <3>1, <3>2
  <2>2. \A x \in Thread : Waking(x)' => Waking(x) \/ (x = t /\ l \in {"wake_lock", "wake"})
        BY DEF Waking, KtSet
  <2>3. ASSUME NEW x \in Thread, NEW j \in MMThread, td'[x].join_td = j, Unwoken(x)'
        PROVE Parks(j, x)'
    <3>1. Parks(j, x)
          BY <2>1, <2>3 DEF IInv, Joiners, KeepJoin
    <3>2. CASE j = t
          BY <1>1, <1>2, <3>1, <3>2 DEF Parks
    <3>3. CASE j # t
          BY <1>1, <3>1, <3>3, Sets DEF Parks, SameOn
    <3>4. QED
          BY <3>2, <3>3
  <2>4. ASSUME NEW x \in Thread, Waking(x)'
        PROVE \E j \in MMThread : /\ td'[x].join_td = j /\ ut'[j].arg = x
                                  /\ ut'[j].pc = "join_parked" /\ Off(j)'
    <3>1. PICK j \in MMThread : /\ td[x].join_td = j /\ ut[j].arg = x
                                /\ ut[j].pc = "join_parked" /\ Off(j)
          BY <2>2, <2>4 DEF IInv, Joiners
    <3>2. QED
          BY <1>2, <3>1, Sets DEF KeepJoin
  <2>5. \A x, v \in Thread : ut'[x].pc \in JoinerPc /\ ut'[x].arg = v => td'[v].join_td = x
        BY DEF IInv, Joiners, KeepJoin
  <2>6. \A v \in OneOne : ~td'[v].wait /\ ut'[v].pc # "unborn" => ut'[v].pc = "gone"
        BY Sets DEF IInv, Joiners
  <2>7. ASSUME NEW x \in Thread, NEW v \in Thread, ut'[x].pc = "join_sleep", ut'[x].arg = v
        PROVE td'[v].wait \/ \E j \in KThread : /\ kt'[j].cur = v
                                                /\ kt'[j].pc \in {"exit_check", "futex_wake"}
    <3>1. td[v].wait \/ \E j \in KThread : /\ kt[j].cur = v
                                           /\ kt[j].pc \in {"exit_check", "futex_wake"}
          BY <2>7 DEF IInv, Joiners
    <3>2. CASE v = t
      <4>1. l \notin {"wake_lock", "wake"}
            BY <2>7, <3>2 DEF Sleepers
      <4>2. kt'[k].pc = l /\ kt'[k].cur = t
            BY DEF KtSet
      <4>3. QED
            BY <3>2, <4>1, <4>2 DEF OverPc
    <3>3. CASE v # t
          BY <3>1, <3>3 DEF KtSet
    <3>4. QED
          BY <3>2, <3>3
  <2>8. QED
        BY <2>3, <2>4, <2>5, <2>6, <2>7 DEF Joiners
<1>9. Frees'
      BY DEF IInv, Frees, Spent, KeepJoin
<1>10. QED
      BY <1>3, <1>4, <1>6, <1>7, <1>8, <1>9

\* What is held when a dispatcher goes on with its thread.
LEMMA HoldsStep ==
  ASSUME IInv, NEW k \in KThread, NEW t \in MMThread, kt[k].cur = t, NEW l,
         KtSet(k, l, t), ut' = ut,
         ut[t].pc = "join_parked" => kt[k].pc # "post" /\ l # "post"
  PROVE /\ \A x, v \in Thread : HoldsT(x, v)' <=> HoldsT(x, v)
        /\ \A j \in KThread \ {k}, v \in Thread : HoldsK(j, v)' <=> HoldsK(j, v)
        /\ \A v \in Thread :
             HoldsK(k, v)' <=> v = t /\ l \in {"sig_send", "exit_over", "exit_check"}
<1>1. /\ \A x \in Thread \ {t} : SameOn(x)
      /\ Posting(t)' <=> l = "post"
      /\ Posting(t) <=> kt[k].pc = "post"
      BY WhereStep, Held DEF IInv
<1>2. \A x, v \in Thread : HoldsT(x, v)' <=> HoldsT(x, v)
      BY <1>1 DEF HoldsT, SameOn
<1>3. QED
      BY <1>2 DEF HoldsK, KtSet

\* A dispatcher that is not idle has a thread.
LEMMA Busy ==
  ASSUME IInv, NEW k \in KThread, kt[k].pc \notin IdlePc
  PROVE \E t \in MMThread :
          /\ kt[k].cur = t /\ t \in Thread
          /\ kt[k].pc \in OverPc \cup {"exit_lock", "exit_over"} => ut[t].pc = "exited"
          /\ kt[k].pc \in {"sig_lock", "sig_send", "enq_lock", "enq"} =>
               ut[t].pc \notin {"join_parked", "exited"}
          /\ kt[k].pc \in {"run", "user"} => ut[t].pc # "exited"
          /\ kt[k].pc \in OverPc <=> ~td[t].wait
          /\ ut[t].pc \in OnCpuPc => kt[k].pc = "user"
<1>1. PICK t \in MMThread : kt[k].cur = t
      BY Ranges DEF IInv, Dispatchers
<1>2. t \in Thread /\ (Runs(t) <=> kt[k].pc = "user")
      BY <1>1, Held, Sets DEF IInv
<1>3. QED
      BY <1>1, <1>2 DEF IInv, Dispatchers

\* Nobody sleeps on the wait word of a thread that a many-many thread joins.
LEMMA NoSleeper ==
  ASSUME IInv, NEW u \in Thread, td[u].join_td \notin OneOne
  PROVE Sleepers(u) = {}
  BY DEF IInv, Joiners, Descriptors, Agrees, Sleepers, JoinerPc, WaiterPc

\* A dispatcher goes on with its thread and leaves the descriptors alone.
LEMMA KeptSame ==
  ASSUME IInv, NEW k \in KThread, NEW t \in MMThread, kt[k].cur = t,
         NEW l \in DispatchLabel \ (IdlePc \cup {"sig_send", "exit_over", "exit_check"}),
         KtSet(k, l, t), kt' \in KtType,
         UNCHANGED <<td, mmrll, ut, enabled, mpc, freed>>, got' \in [Thread -> SUBSET Signal],
         mmrll_lk' \in {mmrll_lk, k},
         kt[k].pc \in OverPc <=> l \in OverPc,
         l \in OverPc \cup {"exit_lock"} => ut[t].pc = "exited",
         l \in {"sig_lock", "enq_lock", "enq"} => ut[t].pc \notin {"join_parked", "exited"},
         l \in {"run", "user"} => ut[t].pc # "exited",
         kt[k].pc = "user" => ut[t].pc \notin OnCpuPc,
         ut[t].pc = "join_parked" => kt[k].pc # "post" /\ l # "post",
         l \in {"wake_lock", "wake"} =>
           /\ Sleepers(t) = {}
           /\ \E j \in MMThread : /\ td[t].join_td = j /\ ut[j].arg = t
                                  /\ ut[j].pc = "join_parked" /\ Off(j)
  PROVE IInv'
<1>1. KeepDescr /\ KeepJoin /\ KeepGiven /\ KeepLock
      BY DEF KeepDescr, KeepJoin, KeepGiven, KeepLock
<1>2. td'[t].wait <=> l \notin OverPc
      BY Sets DEF IInv, Dispatchers
<1>3. TypeOK'
      BY Sets DEF IInv, TypeOK, KtType
<1>4. Places' /\ Descriptors' /\ Dispatchers' /\ Births' /\ Joiners' /\ Frees'
      BY <1>1, <1>2, KeptApart
<1>5. Locks'
  <2>1. \A x, v \in Thread : HoldsT(x, v)' <=> HoldsT(x, v)
        BY HoldsStep
  <2>2. \A j \in KThread, v \in Thread : HoldsK(j, v)' => HoldsK(j, v)
    <3>1. \A j \in KThread \ {k}, v \in Thread : HoldsK(j, v)' <=> HoldsK(j, v)
          BY HoldsStep
    <3>2. \A v \in Thread : ~HoldsK(k, v)'
          BY DEF HoldsK, KtSet
    <3>3. QED
          BY <3>1, <3>2
  <2>3. \A x \in MMThread : mmrll_lk' = x => ut'[x].pc = "create_enq"
        BY Sets DEF IInv, Locks
  <2>4. QED
        BY <1>1, <2>1, <2>2, <2>3, LocksKept DEF IInv
<1>6. QED
      BY <1>3, <1>4, <1>5 DEF IInv

\* SIGALRM finds the interrupts on: the thread holds no lock.
LEMMA PreemptKeeps ==
  ASSUME IInv, NEW k \in KThread, Preempt(k)
  PROVE IInv'
<1>1. kt[k].pc = "user" /\ kt' = [kt EXCEPT ![k].pc = "post"]
      BY DEF Preempt, Step
<1>2. UNCHANGED <<td, mmrll, mmrll_lk, ut, enabled, mpc, freed, got>>
      BY DEF Preempt
<1>3. PICK t \in MMThread :
          /\ kt[k].cur = t /\ t \in Thread
          /\ kt[k].pc \in OverPc \cup {"exit_lock", "exit_over"} => ut[t].pc = "exited"
          /\ kt[k].pc \in {"sig_lock", "sig_send", "enq_lock", "enq"} =>
               ut[t].pc \notin {"join_parked", "exited"}
          /\ kt[k].pc \in {"run", "user"} => ut[t].pc # "exited"
          /\ kt[k].pc \in OverPc <=> ~td[t].wait
          /\ ut[t].pc \in OnCpuPc => kt[k].pc = "user"
      BY <1>1, Busy DEF IdlePc
<1>4. KtSet(k, "post", t) /\ kt' \in KtType
  <2>1. "post" \in DispatchLabel
        BY DEF DispatchLabel
  <2>2. QED
        BY <1>1, <1>3, <2>1, StepFacts DEF IInv
<1>5. ut[t].pc \notin OnCpuPc /\ ut[t].pc # "join_parked"
  <2>1. Agrees(t, ut[t].pc, ut[t].arg, td[t].state, td[t].wait_join_td, td[t].intr_off)
        BY <1>3 DEF IInv, Descriptors
  <2>2. QED
        BY <1>1, <1>3, <2>1, Sets DEF Preempt, Agrees, WaiterPc, ExitPc, AwayPc, OnCpuPc
<1>6. "post" \in DispatchLabel \ (IdlePc \cup {"sig_send", "exit_over", "exit_check"})
      BY DEF DispatchLabel, IdlePc
<1>7. got' \in [Thread -> SUBSET Signal]
      BY <1>2 DEF IInv, TypeOK
<1>8. QED
      BY <1>1, <1>2, <1>3, <1>4, <1>5, <1>6, <1>7, KeptSame DEF OverPc

\* The same thread is resumed, a signal being pending on the kernel thread.
LEMMA PostRepeatKeeps ==
  ASSUME IInv, NEW k \in KThread, PostRepeat(k)
  PROVE IInv'
<1>1. kt[k].pc = "post" /\ kt' = [kt EXCEPT ![k].pc = "run"]
      BY DEF PostRepeat, Step
<1>2. UNCHANGED <<td, mmrll, mmrll_lk, ut, enabled, mpc, freed, got>>
      BY DEF PostRepeat
<1>3. PICK t \in MMThread :
          /\ kt[k].cur = t /\ t \in Thread
          /\ kt[k].pc \in OverPc \cup {"exit_lock", "exit_over"} => ut[t].pc = "exited"
          /\ kt[k].pc \in {"sig_lock", "sig_send", "enq_lock", "enq"} =>
               ut[t].pc \notin {"join_parked", "exited"}
          /\ kt[k].pc \in {"run", "user"} => ut[t].pc # "exited"
          /\ kt[k].pc \in OverPc <=> ~td[t].wait
          /\ ut[t].pc \in OnCpuPc => kt[k].pc = "user"
      BY <1>1, Busy DEF IdlePc
<1>4. KtSet(k, "run", t) /\ kt' \in KtType
  <2>1. "run" \in DispatchLabel
        BY DEF DispatchLabel
  <2>2. QED
        BY <1>1, <1>3, <2>1, StepFacts DEF IInv
<1>5. ut[t].pc \notin {"join_parked", "exited"}
  <2>1. Agrees(t, ut[t].pc, ut[t].arg, td[t].state, td[t].wait_join_td, td[t].intr_off)
        BY <1>3 DEF IInv, Descriptors
  <2>2. QED
        BY <1>1, <1>3, <2>1, Sets DEF PostRepeat, Agrees, WaiterPc, ExitPc, AwayPc, OnCpuPc
<1>6. "run" \in DispatchLabel \ (IdlePc \cup {"sig_send", "exit_over", "exit_check"})
      BY DEF DispatchLabel, IdlePc
<1>7. got' \in [Thread -> SUBSET Signal]
      BY <1>2 DEF IInv, TypeOK
<1>8. QED
      BY <1>1, <1>2, <1>3, <1>4, <1>5, <1>6, <1>7, KeptSame DEF OverPc

\* The same thread is resumed, SIGALRM being pending.
LEMMA PostRepeatAlarmKeeps ==
  ASSUME IInv, NEW k \in KThread, PostRepeatAlarm(k)
  PROVE IInv'
<1>1. kt[k].pc = "post" /\ kt' = [kt EXCEPT ![k].pc = "run"]
      BY DEF PostRepeatAlarm, Step
<1>2. UNCHANGED <<td, mmrll, mmrll_lk, ut, enabled, mpc, freed, got>>
      BY DEF PostRepeatAlarm
<1>3. PICK t \in MMThread :
          /\ kt[k].cur = t /\ t \in Thread
          /\ kt[k].pc \in OverPc \cup {"exit_lock", "exit_over"} => ut[t].pc = "exited"
          /\ kt[k].pc \in {"sig_lock", "sig_send", "enq_lock", "enq"} =>
               ut[t].pc \notin {"join_parked", "exited"}
          /\ kt[k].pc \in {"run", "user"} => ut[t].pc # "exited"
          /\ kt[k].pc \in OverPc <=> ~td[t].wait
          /\ ut[t].pc \in OnCpuPc => kt[k].pc = "user"
      BY <1>1, Busy DEF IdlePc
<1>4. KtSet(k, "run", t) /\ kt' \in KtType
  <2>1. "run" \in DispatchLabel
        BY DEF DispatchLabel
  <2>2. QED
        BY <1>1, <1>3, <2>1, StepFacts DEF IInv
<1>5. ut[t].pc \notin {"join_parked", "exited"}
  <2>1. Agrees(t, ut[t].pc, ut[t].arg, td[t].state, td[t].wait_join_td, td[t].intr_off)
        BY <1>3 DEF IInv, Descriptors
  <2>2. QED
        BY <1>1, <1>3, <2>1, Sets DEF PostRepeatAlarm, Agrees, WaiterPc, ExitPc, AwayPc, OnCpuPc
<1>6. "run" \in DispatchLabel \ (IdlePc \cup {"sig_send", "exit_over", "exit_check"})
      BY DEF DispatchLabel, IdlePc
<1>7. got' \in [Thread -> SUBSET Signal]
      BY <1>2 DEF IInv, TypeOK
<1>8. QED
      BY <1>1, <1>2, <1>3, <1>4, <1>5, <1>6, <1>7, KeptSame DEF OverPc

\* The thread is to go to the ready list: it has neither exited nor parked.
LEMMA PostRunningKeeps ==
  ASSUME IInv, NEW k \in KThread, PostRunning(k)
  PROVE IInv'
<1>1. kt[k].pc = "post" /\ kt' = [kt EXCEPT ![k].pc = "enq_lock"]
      BY DEF PostRunning, Step
<1>2. UNCHANGED <<td, mmrll, mmrll_lk, ut, enabled, mpc, freed, got>>
      BY DEF PostRunning
<1>3. PICK t \in MMThread :
          /\ kt[k].cur = t /\ t \in Thread
          /\ kt[k].pc \in OverPc \cup {"exit_lock", "exit_over"} => ut[t].pc = "exited"
          /\ kt[k].pc \in {"sig_lock", "sig_send", "enq_lock", "enq"} =>
               ut[t].pc \notin {"join_parked", "exited"}
          /\ kt[k].pc \in {"run", "user"} => ut[t].pc # "exited"
          /\ kt[k].pc \in OverPc <=> ~td[t].wait
          /\ ut[t].pc \in OnCpuPc => kt[k].pc = "user"
      BY <1>1, Busy DEF IdlePc
<1>4. KtSet(k, "enq_lock", t) /\ kt' \in KtType
  <2>1. "enq_lock" \in DispatchLabel
        BY DEF DispatchLabel
  <2>2. QED
        BY <1>1, <1>3, <2>1, StepFacts DEF IInv
<1>5. ut[t].pc \notin {"join_parked", "exited"}
  <2>1. Agrees(t, ut[t].pc, ut[t].arg, td[t].state, td[t].wait_join_td, td[t].intr_off)
        BY <1>3 DEF IInv, Descriptors
  <2>2. QED
        BY <1>1, <1>3, <2>1, Sets DEF PostRunning, Agrees, WaiterPc, ExitPc, AwayPc, OnCpuPc
<1>6. "enq_lock" \in DispatchLabel \ (IdlePc \cup {"sig_send", "exit_over", "exit_check"})
      BY DEF DispatchLabel, IdlePc
<1>7. got' \in [Thread -> SUBSET Signal]
      BY <1>2 DEF IInv, TypeOK
<1>8. QED
      BY <1>1, <1>2, <1>3, <1>4, <1>5, <1>6, <1>7, KeptSame DEF OverPc

\* The thread has exited.
LEMMA PostExitedKeeps ==
  ASSUME IInv, NEW k \in KThread, PostExited(k)
  PROVE IInv'
<1>1. kt[k].pc = "post" /\ kt' = [kt EXCEPT ![k].pc = "exit_lock"]
      BY DEF PostExited, Step
<1>2. UNCHANGED <<td, mmrll, mmrll_lk, ut, enabled, mpc, freed, got>>
      BY DEF PostExited
<1>3. PICK t \in MMThread :
          /\ kt[k].cur = t /\ t \in Thread
          /\ kt[k].pc \in OverPc \cup {"exit_lock", "exit_over"} => ut[t].pc = "exited"
          /\ kt[k].pc \in {"sig_lock", "sig_send", "enq_lock", "enq"} =>
               ut[t].pc \notin {"join_parked", "exited"}
          /\ kt[k].pc \in {"run", "user"} => ut[t].pc # "exited"
          /\ kt[k].pc \in OverPc <=> ~td[t].wait
          /\ ut[t].pc \in OnCpuPc => kt[k].pc = "user"
      BY <1>1, Busy DEF IdlePc
<1>4. KtSet(k, "exit_lock", t) /\ kt' \in KtType
  <2>1. "exit_lock" \in DispatchLabel
        BY DEF DispatchLabel
  <2>2. QED
        BY <1>1, <1>3, <2>1, StepFacts DEF IInv
<1>5. ut[t].pc = "exited"
  <2>1. Agrees(t, ut[t].pc, ut[t].arg, td[t].state, td[t].wait_join_td, td[t].intr_off)
        BY <1>3 DEF IInv, Descriptors
  <2>2. QED
        BY <1>1, <1>3, <2>1, Sets DEF PostExited, Agrees, WaiterPc, ExitPc, AwayPc, OnCpuPc
<1>6. "exit_lock" \in DispatchLabel \ (IdlePc \cup {"sig_send", "exit_over", "exit_check"})
      BY DEF DispatchLabel, IdlePc
<1>7. got' \in [Thread -> SUBSET Signal]
      BY <1>2 DEF IInv, TypeOK
<1>8. QED
      BY <1>1, <1>2, <1>3, <1>4, <1>5, <1>6, <1>7, KeptSame DEF OverPc

\* The lock of the ready list is the dispatcher's.
LEMMA EnqLockKeeps ==
  ASSUME IInv, NEW k \in KThread, EnqLock(k)
  PROVE IInv'
<1>1. kt[k].pc = "enq_lock" /\ kt' = [kt EXCEPT ![k].pc = "enq"]
      BY DEF EnqLock, Step
<1>2. UNCHANGED <<td, mmrll, ut, enabled, mpc, freed, got>> /\ mmrll_lk' = k
      BY DEF EnqLock, mmrll_lock
<1>3. PICK t \in MMThread :
          /\ kt[k].cur = t /\ t \in Thread
          /\ kt[k].pc \in OverPc \cup {"exit_lock", "exit_over"} => ut[t].pc = "exited"
          /\ kt[k].pc \in {"sig_lock", "sig_send", "enq_lock", "enq"} =>
               ut[t].pc \notin {"join_parked", "exited"}
          /\ kt[k].pc \in {"run", "user"} => ut[t].pc # "exited"
          /\ kt[k].pc \in OverPc <=> ~td[t].wait
          /\ ut[t].pc \in OnCpuPc => kt[k].pc = "user"
      BY <1>1, Busy DEF IdlePc
<1>4. KtSet(k, "enq", t) /\ kt' \in KtType
  <2>1. "enq" \in DispatchLabel
        BY DEF DispatchLabel
  <2>2. QED
        BY <1>1, <1>3, <2>1, StepFacts DEF IInv
<1>5. ut[t].pc \notin {"join_parked", "exited"}
      BY <1>1, <1>3
<1>6. "enq" \in DispatchLabel \ (IdlePc \cup {"sig_send", "exit_over", "exit_check"})
      BY DEF DispatchLabel, IdlePc
<1>7. got' \in [Thread -> SUBSET Signal]
      BY <1>2 DEF IInv, TypeOK
<1>8. QED
      BY <1>1, <1>2, <1>3, <1>4, <1>5, <1>6, <1>7, KeptSame DEF OverPc

\* The lock of the ready list is taken for the parked joiner.
LEMMA WakeLockKeeps ==
  ASSUME IInv, NEW k \in KThread, WakeLock(k)
  PROVE IInv'
<1>1. kt[k].pc = "wake_lock" /\ kt' = [kt EXCEPT ![k].pc = "wake"]
      BY DEF WakeLock, Step
<1>2. UNCHANGED <<td, mmrll, ut, enabled, mpc, freed, got>> /\ mmrll_lk' = k
      BY DEF WakeLock, mmrll_lock
<1>3. PICK t \in MMThread :
          /\ kt[k].cur = t /\ t \in Thread
          /\ kt[k].pc \in OverPc \cup {"exit_lock", "exit_over"} => ut[t].pc = "exited"
          /\ kt[k].pc \in {"sig_lock", "sig_send", "enq_lock", "enq"} =>
               ut[t].pc \notin {"join_parked", "exited"}
          /\ kt[k].pc \in {"run", "user"} => ut[t].pc # "exited"
          /\ kt[k].pc \in OverPc <=> ~td[t].wait
          /\ ut[t].pc \in OnCpuPc => kt[k].pc = "user"
      BY <1>1, Busy DEF IdlePc
<1>4. KtSet(k, "wake", t) /\ kt' \in KtType
  <2>1. "wake" \in DispatchLabel
        BY DEF DispatchLabel
  <2>2. QED
        BY <1>1, <1>3, <2>1, StepFacts DEF IInv
<1>5. /\ Sleepers(t) = {} /\ ut[t].pc = "exited"
      /\ \E j \in MMThread : /\ td[t].join_td = j /\ ut[j].arg = t
                             /\ ut[j].pc = "join_parked" /\ Off(j)
  <2>1. \E j \in MMThread : /\ td[t].join_td = j /\ ut[j].arg = t
                            /\ ut[j].pc = "join_parked" /\ Off(j)
        BY <1>1, <1>3 DEF IInv, Joiners, Waking
  <2>2. Sleepers(t) = {}
        BY <1>3, <2>1, NoSleeper, Sets
  <2>3. QED
        BY <1>1, <1>3, <2>1, <2>2 DEF OverPc
<1>6. "wake" \in DispatchLabel \ (IdlePc \cup {"sig_send", "exit_over", "exit_check"})
      BY DEF DispatchLabel, IdlePc
<1>7. got' \in [Thread -> SUBSET Signal]
      BY <1>2 DEF IInv, TypeOK
<1>8. QED
      BY <1>1, <1>2, <1>3, <1>4, <1>5, <1>6, <1>7, KeptSame DEF OverPc

\* td_mm_set_cxt: the thread is on its way to its own code.
LEMMA RunKeeps ==
  ASSUME IInv, NEW k \in KThread, Run(k)
  PROVE IInv'
<1>1. kt[k].pc = "run" /\ UNCHANGED <<td, mmrll, mmrll_lk, ut, enabled, mpc, freed>>
      BY DEF Run
<1>2. PICK t \in MMThread :
          /\ kt[k].cur = t /\ t \in Thread
          /\ kt[k].pc \in {"run", "user"} => ut[t].pc # "exited"
          /\ kt[k].pc \in OverPc <=> ~td[t].wait
      BY <1>1, Busy DEF IdlePc
<1>3. KtSet(k, "user", t) /\ kt' \in KtType
  <2>1. "user" \in DispatchLabel
        BY DEF DispatchLabel
  <2>2. PICK S \in SUBSET Signal : S = kt[k].pend \cap td[t].blocked
    <3>1. kt[k].pend \in SUBSET Signal
          BY DEF IInv, TypeOK
    <3>2. QED
          BY <3>1
  <2>3. kt' = [kt EXCEPT ![k].pc = "user", ![k].pend = S]
        BY <1>2, <2>2 DEF Run
  <2>4. QED
        BY <1>2, <2>1, <2>3, SigFacts DEF IInv
<1>4. got' \in [Thread -> SUBSET Signal]
  <2>1. got \in [Thread -> SUBSET Signal] /\ kt[k].pend \in SUBSET Signal
        BY DEF IInv, TypeOK
  <2>2. PICK S \in SUBSET Signal : S = got[t] \cup (kt[k].pend \ td[t].blocked)
        BY <1>2, <2>1
  <2>3. got' = [got EXCEPT ![t] = S]
        BY <1>2, <2>1, <2>2 DEF Run
  <2>4. QED
        BY <2>1, <2>3
<1>5. "user" \in DispatchLabel \ (IdlePc \cup {"sig_send", "exit_over", "exit_check"})
      BY DEF DispatchLabel, IdlePc
<1>6. QED
      BY <1>1, <1>2, <1>3, <1>4, <1>5, KeptSame DEF OverPc

\* The lock of the thread is taken to send it its pending signals.
LEMMA SigLockKeeps ==
  ASSUME IInv, NEW k \in KThread, SigLock(k)
  PROVE IInv'
<1>1. kt[k].pc = "sig_lock" /\ kt' = [kt EXCEPT ![k].pc = "sig_send"]
      BY DEF SigLock, Step
<1>2. UNCHANGED <<mmrll, mmrll_lk, ut, enabled, mpc, freed, got>>
      BY DEF SigLock
<1>3. PICK t \in MMThread :
          /\ kt[k].cur = t /\ t \in Thread
          /\ kt[k].pc \in {"sig_lock", "sig_send", "enq_lock", "enq"} =>
               ut[t].pc \notin {"join_parked", "exited"}
          /\ kt[k].pc \in OverPc <=> ~td[t].wait
      BY <1>1, Busy DEF IdlePc
<1>4. KtSet(k, "sig_send", t) /\ kt' \in KtType
  <2>1. "sig_send" \in DispatchLabel
        BY DEF DispatchLabel
  <2>2. QED
        BY <1>1, <1>3, <2>1, StepFacts DEF IInv
<1>5. /\ td[t].mem_lock = NULL /\ LockSet(t, k) /\ KeepDescr /\ KeepWait /\ KeepGiven /\ KeepJoin
      /\ td' \in TdType
      BY <1>3, Sets, LockFacts DEF SigLock, IInv
<1>6. TypeOK'
      BY <1>2, <1>4, <1>5 DEF IInv, TypeOK, KtType, TdType, States
<1>7. Places' /\ Descriptors' /\ Dispatchers' /\ Births' /\ Joiners' /\ Frees'
  <2>1. "sig_send" \in DispatchLabel \ IdlePc
        BY DEF DispatchLabel, IdlePc
  <2>2. QED
        BY <1>1, <1>2, <1>3, <1>4, <1>5, <2>1, KeptApart DEF OverPc, KeepWait
<1>8. Locks'
  <2>1. \A x, v \in Thread : HoldsT(x, v)' <=> HoldsT(x, v)
        BY <1>1, <1>2, <1>3, <1>4, HoldsStep
  <2>2. \A j \in KThread, v \in Thread : HoldsK(j, v)' => HoldsK(j, v) \/ (j = k /\ v = t)
        BY <1>4 DEF HoldsK, KtSet
  <2>3. \A x \in MMThread : mmrll_lk' = x => ut'[x].pc = "create_enq"
        BY <1>2 DEF IInv, Locks
  <2>4. QED
        BY <1>3, <1>5, <2>1, <2>2, <2>3, Sets, LocksTaken DEF IInv
<1>9. QED
      BY <1>6, <1>7, <1>8 DEF IInv

\* The pending signals are the kernel thread's and the lock is free.
LEMMA SigSendKeeps ==
  ASSUME IInv, NEW k \in KThread, SigSend(k)
  PROVE IInv'
<1>1. kt[k].pc = "sig_send" /\ UNCHANGED <<mmrll, mmrll_lk, ut, enabled, mpc, freed, got>>
      BY DEF SigSend
<1>2. PICK t \in MMThread :
          /\ kt[k].cur = t /\ t \in Thread
          /\ kt[k].pc \in {"sig_lock", "sig_send", "enq_lock", "enq"} =>
               ut[t].pc \notin {"join_parked", "exited"}
          /\ kt[k].pc \in OverPc <=> ~td[t].wait
      BY <1>1, Busy DEF IdlePc
<1>3. KtSet(k, "run", t) /\ kt' \in KtType
  <2>1. "run" \in DispatchLabel
        BY DEF DispatchLabel
  <2>2. PICK S \in SUBSET Signal : S = kt[k].pend \cup td[t].pend_sig
    <3>1. kt[k].pend \in SUBSET Signal /\ td[t].pend_sig \in SUBSET Signal
          BY <1>2 DEF IInv, TypeOK
    <3>2. QED
          BY <3>1
  <2>3. kt' = [kt EXCEPT ![k].pc = "run", ![k].pend = S]
        BY <1>2, <2>2 DEF SigSend
  <2>4. QED
        BY <1>2, <2>1, <2>3, SigFacts DEF IInv
<1>4. /\ LockSet(t, NULL) /\ KeepDescr /\ KeepWait /\ KeepGiven /\ KeepJoin
      /\ td' \in TdType
  <2>1. td \in TdType /\ td' = [td EXCEPT ![t].pend_sig = {}, ![t].mem_lock = NULL]
        BY <1>2, Types DEF IInv, SigSend
  <2>2. td' = [[td EXCEPT ![t].pend_sig = {}] EXCEPT ![t].mem_lock = NULL]
        BY <1>2, <2>1 DEF TdType
  <2>3. /\ \A d \in TdType : [d EXCEPT ![t].pend_sig = {}] \in TdType
        /\ \A d \in TdType : [d EXCEPT ![t].mem_lock = NULL] \in TdType
        BY <1>2, TdUpdates, Sets
  <2>4. td' \in TdType
        BY <2>1, <2>2, <2>3
  <2>5. LockSet(t, NULL)
        BY <1>2, <2>1 DEF TdType, LockSet
  <2>6. KeepDescr
        BY <1>2, <2>1 DEF TdType, KeepDescr
  <2>7. KeepWait /\ KeepGiven /\ KeepJoin
        BY <1>2, <2>1 DEF TdType, KeepWait, KeepGiven, KeepJoin
  <2>8. QED
        BY <2>4, <2>5, <2>6, <2>7
<1>5. TypeOK'
      BY <1>1, <1>3, <1>4 DEF IInv, TypeOK, KtType, TdType, States
<1>6. Places' /\ Descriptors' /\ Dispatchers' /\ Births' /\ Joiners' /\ Frees'
  <2>1. "run" \in DispatchLabel \ IdlePc
        BY DEF DispatchLabel, IdlePc
  <2>2. QED
        BY <1>1, <1>2, <1>3, <1>4, <2>1, KeptApart DEF OverPc, KeepWait
<1>7. Locks'
  <2>1. \A x, v \in Thread : HoldsT(x, v)' <=> HoldsT(x, v)
        BY <1>1, <1>2, <1>3, HoldsStep
  <2>2. \A j \in KThread, v \in Thread : HoldsK(j, v)' => HoldsK(j, v) /\ ~(j = k /\ v = t)
    <3>1. \A j \in KThread \ {k}, v \in Thread : HoldsK(j, v)' <=> HoldsK(j, v)
          BY <1>1, <1>2, <1>3, HoldsStep
    <3>2. \A v \in Thread : ~HoldsK(k, v)'
          BY <1>3 DEF HoldsK, KtSet
    <3>3. QED
          BY <3>1, <3>2
  <2>3. \A x \in MMThread : mmrll_lk' = x => ut'[x].pc = "create_enq"
        BY <1>1 DEF IInv, Locks
  <2>4. td[t].mem_lock = k /\ \A x \in Thread : x # k
        BY <1>1, <1>2, Sets DEF IInv, Locks, HoldsK
  <2>5. QED
        BY <1>2, <1>4, <2>1, <2>2, <2>3, <2>4, LocksReleased DEF IInv
<1>8. QED
      BY <1>5, <1>6, <1>7 DEF IInv

\* The lock of the exited thread is taken.
LEMMA ExitLockKeeps ==
  ASSUME IInv, NEW k \in KThread, ExitLock(k)
  PROVE IInv'
<1>1. kt[k].pc = "exit_lock" /\ kt' = [kt EXCEPT ![k].pc = "exit_over"]
      BY DEF ExitLock, Step
<1>2. UNCHANGED <<mmrll, mmrll_lk, ut, enabled, mpc, freed, got>>
      BY DEF ExitLock
<1>3. PICK t \in MMThread :
          /\ kt[k].cur = t /\ t \in Thread
          /\ kt[k].pc \in OverPc \cup {"exit_lock", "exit_over"} => ut[t].pc = "exited"
          /\ kt[k].pc \in OverPc <=> ~td[t].wait
      BY <1>1, Busy DEF IdlePc
<1>4. KtSet(k, "exit_over", t) /\ kt' \in KtType
  <2>1. "exit_over" \in DispatchLabel
        BY DEF DispatchLabel
  <2>2. QED
        BY <1>1, <1>3, <2>1, StepFacts DEF IInv
<1>5. /\ td[t].mem_lock = NULL /\ LockSet(t, k) /\ KeepDescr /\ KeepWait /\ KeepGiven /\ KeepJoin
      /\ td' \in TdType
      BY <1>3, Sets, LockFacts DEF ExitLock, IInv
<1>6. TypeOK'
      BY <1>2, <1>4, <1>5 DEF IInv, TypeOK, KtType, TdType, States
<1>7. Places' /\ Descriptors' /\ Dispatchers' /\ Births' /\ Joiners' /\ Frees'
  <2>1. "exit_over" \in DispatchLabel \ IdlePc
        BY DEF DispatchLabel, IdlePc
  <2>2. QED
        BY <1>1, <1>2, <1>3, <1>4, <1>5, <2>1, KeptApart DEF OverPc, KeepWait
<1>8. Locks'
  <2>1. \A x, v \in Thread : HoldsT(x, v)' <=> HoldsT(x, v)
        BY <1>1, <1>2, <1>3, <1>4, HoldsStep
  <2>2. \A j \in KThread, v \in Thread : HoldsK(j, v)' => HoldsK(j, v) \/ (j = k /\ v = t)
        BY <1>4 DEF HoldsK, KtSet
  <2>3. \A x \in MMThread : mmrll_lk' = x => ut'[x].pc = "create_enq"
        BY <1>2 DEF IInv, Locks
  <2>4. QED
        BY <1>3, <1>5, <2>1, <2>2, <2>3, Sets, LocksTaken DEF IInv
<1>9. QED
      BY <1>6, <1>7, <1>8 DEF IInv

\* td_set_over: the wait word is cleared under the lock.
LEMMA ExitOverKeeps ==
  ASSUME IInv, NEW k \in KThread, ExitOver(k)
  PROVE IInv'
<1>1. kt[k].pc = "exit_over" /\ kt' = [kt EXCEPT ![k].pc = "exit_check"]
      BY DEF ExitOver, Step
<1>2. UNCHANGED <<mmrll, mmrll_lk, ut, enabled, mpc, freed, got>>
      BY DEF ExitOver
<1>3. PICK t \in MMThread :
          /\ kt[k].cur = t /\ t \in Thread
          /\ kt[k].pc \in OverPc \cup {"exit_lock", "exit_over"} => ut[t].pc = "exited"
          /\ kt[k].pc \in OverPc <=> ~td[t].wait
      BY <1>1, Busy DEF IdlePc
<1>4. KtSet(k, "exit_check", t) /\ kt' \in KtType
  <2>1. "exit_check" \in DispatchLabel
        BY DEF DispatchLabel
  <2>2. QED
        BY <1>1, <1>3, <2>1, StepFacts DEF IInv
<1>5. /\ KeepDescr /\ KeepGiven /\ KeepJoin /\ KeepLock
      /\ \A x \in Thread : td'[x].wait = IF x = t THEN FALSE ELSE td[x].wait
      /\ td' \in TdType
  <2>1. td \in TdType /\ td' = [td EXCEPT ![t].wait = FALSE]
        BY <1>3, Types DEF IInv, ExitOver
  <2>2. td' \in TdType
        BY <1>3, <2>1, TdUpdates
  <2>3. QED
        BY <1>3, <2>1, <2>2 DEF TdType, KeepDescr, KeepGiven, KeepJoin, KeepLock
<1>6. TypeOK'
      BY <1>2, <1>4, <1>5 DEF IInv, TypeOK, KtType, TdType, States
<1>7. Places' /\ Descriptors' /\ Dispatchers' /\ Births' /\ Joiners' /\ Frees'
  <2>1. "exit_check" \in DispatchLabel \ IdlePc
        BY DEF DispatchLabel, IdlePc
  <2>2. QED
        BY <1>1, <1>2, <1>3, <1>4, <1>5, <2>1, KeptApart DEF OverPc
<1>8. Locks'
  <2>1. \A x, v \in Thread : HoldsT(x, v)' <=> HoldsT(x, v)
        BY <1>1, <1>2, <1>3, <1>4, HoldsStep
  <2>2. \A j \in KThread, v \in Thread : HoldsK(j, v)' => HoldsK(j, v)
    <3>1. \A j \in KThread \ {k}, v \in Thread : HoldsK(j, v)' <=> HoldsK(j, v)
          BY <1>1, <1>2, <1>3, <1>4, HoldsStep
    <3>2. \A v \in Thread : HoldsK(k, v)' => HoldsK(k, v)
          BY <1>1, <1>3, <1>4 DEF HoldsK, KtSet
    <3>3. QED
          BY <3>1, <3>2
  <2>3. \A x \in MMThread : mmrll_lk' = x => ut'[x].pc = "create_enq"
        BY <1>2 DEF IInv, Locks
  <2>4. QED
        BY <1>5, <2>1, <2>2, <2>3, LocksKept DEF IInv
<1>9. QED
      BY <1>6, <1>7, <1>8 DEF IInv

\* The dispatcher that holds the lock of the thread it has ended finds a many-many
\* joiner parked, if there is one.
LEMMA FoundParked ==
  ASSUME IInv, NEW k \in KThread, NEW t \in MMThread, kt[k].cur = t, kt[k].pc = "exit_check",
         td[t].join_td \in MMThread
  PROVE /\ Sleepers(t) = {}
        /\ \E j \in MMThread : /\ td[t].join_td = j /\ ut[j].arg = t
                               /\ ut[j].pc = "join_parked" /\ Off(j)
<1>1. t \in Thread /\ t \notin OneOne
      BY Sets
<1>2. PICK j \in MMThread : td[t].join_td = j
      OBVIOUS
<1>3. Unwoken(t)
      BY <1>1 DEF Unwoken
<1>4. Parks(j, t) /\ j \in Thread
      BY <1>1, <1>2, <1>3, Sets DEF IInv, Joiners
<1>5. td[t].mem_lock = k
      BY <1>1 DEF IInv, Locks, HoldsK
<1>6. ~HoldsT(j, t)
      BY <1>1, <1>4, <1>5, Sets DEF IInv, Locks
<1>7. Sleepers(t) = {}
      BY <1>1, NoSleeper, Sets
<1>8. QED
      BY <1>2, <1>4, <1>6, <1>7 DEF Parks, HoldsT, Off

\* The joiner's type decides how it is woken; the lock is released first.
LEMMA ExitFindsKeeps ==
  ASSUME IInv, NEW k \in KThread, NEW l,
         kt[k].pc = "exit_check", kt' = [kt EXCEPT ![k].pc = l],
         td' = [td EXCEPT ![kt[k].cur].mem_lock = NULL],
         \/ l = "futex_wake" /\ td[kt[k].cur].join_td \in OneOne
         \/ l = "wake_lock" /\ td[kt[k].cur].join_td \in MMThread,
         UNCHANGED <<mmrll, mmrll_lk, ut, enabled, mpc, freed, got>>
  PROVE IInv'
<1>1. PICK t \in MMThread :
          /\ kt[k].cur = t /\ t \in Thread
          /\ kt[k].pc \in OverPc \cup {"exit_lock", "exit_over"} => ut[t].pc = "exited"
          /\ kt[k].pc \in OverPc <=> ~td[t].wait
      BY Busy DEF IdlePc
<1>2. KtSet(k, l, t) /\ kt' \in KtType
  <2>1. l \in DispatchLabel
        BY DEF DispatchLabel
  <2>2. QED
        BY <1>1, <2>1, StepFacts DEF IInv
<1>3. /\ LockSet(t, NULL) /\ KeepDescr /\ KeepWait /\ KeepGiven /\ KeepJoin
      /\ td' \in TdType
      BY <1>1, Sets, LockFacts DEF IInv
<1>4. TypeOK'
      BY <1>2, <1>3 DEF IInv, TypeOK, KtType, TdType, States
<1>5. l = "wake_lock" =>
        /\ Sleepers(t) = {}
        /\ \E j \in MMThread : /\ td[t].join_td = j /\ ut[j].arg = t
                               /\ ut[j].pc = "join_parked" /\ Off(j)
      BY <1>1, FoundParked
<1>6. Places' /\ Descriptors' /\ Dispatchers' /\ Births' /\ Joiners' /\ Frees'
  <2>1. l \in DispatchLabel \ IdlePc /\ l \in OverPc /\ l # "exit_check" /\ l # "wake"
        BY DEF DispatchLabel, IdlePc, OverPc
  <2>2. ut[t].pc = "exited" /\ ~td[t].wait
        BY <1>1 DEF OverPc
  <2>3. l \notin {"sig_lock", "sig_send", "enq_lock", "enq", "run", "user"}
        OBVIOUS
  <2>4. QED
        BY <1>1, <1>2, <1>3, <1>5, <2>1, <2>2, <2>3, KeptApart DEF KeepWait
<1>7. Locks'
  <2>1. l \notin {"post", "sig_send", "exit_over", "exit_check"}
        OBVIOUS
  <2>2. \A x, v \in Thread : HoldsT(x, v)' <=> HoldsT(x, v)
        BY <1>1, <1>2, <2>1, HoldsStep
  <2>3. \A j \in KThread, v \in Thread : HoldsK(j, v)' => HoldsK(j, v) /\ ~(j = k /\ v = t)
    <3>1. \A j \in KThread \ {k}, v \in Thread : HoldsK(j, v)' <=> HoldsK(j, v)
          BY <1>1, <1>2, <2>1, HoldsStep
    <3>2. \A v \in Thread : ~HoldsK(k, v)'
          BY <1>2, <2>1 DEF HoldsK, KtSet
    <3>3. QED
          BY <3>1, <3>2
  <2>4. \A x \in MMThread : mmrll_lk' = x => ut'[x].pc = "create_enq"
        BY DEF IInv, Locks
  <2>5. td[t].mem_lock = k /\ \A x \in Thread : x # k
        BY <1>1, Sets DEF IInv, Locks, HoldsK
  <2>6. QED
        BY <1>1, <1>3, <2>2, <2>3, <2>4, <2>5, LocksReleased DEF IInv
<1>8. QED
      BY <1>4, <1>6, <1>7 DEF IInv

-----------------------------------------------------------------------------
(* The dispatcher lets go of its thread                                    *)

\* A dispatcher goes back to its loop.  It may have woken a sleeper of its thread,
\* and made the threads of G ready.
LEMMA LeaveApart ==
  ASSUME IInv, NEW k \in KThread, NEW t \in MMThread, kt[k].cur = t, kt[k].pc # "user",
         KtSet(k, "loop", NULL), mpc' = mpc, freed' = freed,
         KeepWait, KeepJoin, KeepGiven,
         \A x \in Thread : /\ ut'[x].arg = ut[x].arg
                           /\ \/ ut'[x].pc = ut[x].pc
                              \/ /\ x \in OneOne /\ ut[x].pc = "join_sleep"
                                 /\ ut'[x].pc = "join_done",
         \A x \in Thread : ut'[x].pc = "join_sleep" /\ ut[x].arg = t => td[t].wait,
         NEW G, Distinct(mmrll'), \A x \in Thread : Ready(x)' <=> Ready(x) \/ x \in G,
         \A w \in Thread : w \in G =>
           /\ ut[w].pc \notin {"exited", "unborn"}
           /\ w = t \/ ~Dispatched(w)
           /\ \A x \in Thread : td[x].join_td = w => ~Unwoken(x)
           /\ \A x \in Thread \ {t} : Waking(x) => td[x].join_td # w
  PROVE Places' /\ Dispatchers' /\ Births' /\ Joiners' /\ Frees'
<1>1. /\ \A x \in Thread \ {t} : SameOn(x)
      /\ ~Dispatched(t)' /\ ~Runs(t)' /\ ~Posting(t)'
      BY WhereLoop DEF IInv
<1>2. /\ t \in Thread /\ Dispatched(t) /\ ~Ready(t) /\ ~Off(t)
      /\ Posting(t) <=> kt[k].pc = "post"
      /\ ~Runs(t)
      /\ \A j \in KThread : kt[j].cur = t => j = k
      BY Held, Sets DEF IInv
<1>3. \A x \in Thread \ {t} : x \notin G => (Off(x)' <=> Off(x))
      BY <1>1 DEF SameOn, Off
<1>4. \A x \in MMThread : x \in Thread /\ ut'[x].pc = ut[x].pc
      BY Sets
<1>5. Places'
  <2>1. \A i, j \in KThread : kt'[i].cur = kt'[j].cur /\ kt'[i].cur # NULL => i = j
        BY DEF IInv, Places, KtSet
  <2>2. \A x \in Thread : Ready(x)' => ~Dispatched(x)'
        BY <1>1 DEF IInv, Places, SameOn
  <2>3. QED
        BY <2>1, <2>2 DEF Places
<1>6. Dispatchers'
  <2>1. \A j \in KThread : kt'[j].cur = NULL <=> kt'[j].pc \in IdlePc
        BY Sets DEF IInv, Dispatchers, KtSet, IdlePc
  <2>2. ASSUME NEW j \in KThread, NEW x \in Thread, kt'[j].cur = x
        PROVE /\ kt'[j].pc \in OverPc \cup {"exit_lock", "exit_over"} => ut'[x].pc = "exited"
              /\ kt'[j].pc \in {"sig_lock", "sig_send", "enq_lock", "enq"} =>
                   ut'[x].pc \notin {"join_parked", "exited"}
              /\ kt'[j].pc \in {"run", "user"} => ut'[x].pc # "exited"
              /\ kt'[j].pc \in OverPc <=> ~td'[x].wait
    <3>1. j # k /\ kt[j].cur = x /\ kt'[j].pc = kt[j].pc
          BY <2>2, Sets DEF KtSet
    <3>2. x \in MMThread
          BY <3>1, Ranges, Sets DEF IInv
    <3>3. ut'[x].pc = ut[x].pc /\ td'[x].wait = td[x].wait
          BY <1>4, <3>2 DEF KeepWait
    <3>4. QED
          BY <3>1, <3>3 DEF IInv, Dispatchers
  <2>3. ASSUME NEW x \in MMThread
        PROVE /\ ut'[x].pc \in OnCpuPc => Runs(x)'
              /\ ut'[x].pc = "exited" => ~Ready(x)'
              /\ ~td'[x].wait => ut'[x].pc = "exited"
    <3>1. CASE x = t
          BY <1>1, <1>2, <1>4, <3>1 DEF IInv, Dispatchers, KeepWait
    <3>2. CASE x # t
          BY <1>1, <1>4, <3>2 DEF IInv, Dispatchers, SameOn, KeepWait
    <3>3. QED
          BY <3>1, <3>2
  <2>4. QED
        BY <2>1, <2>2, <2>3 DEF Dispatchers
<1>7. Births'
  <2>1. \A x \in Thread : ut[x].pc = "unborn" => x # t /\ Off(x)'
        BY <1>2, <1>3 DEF IInv, Births
  <2>2. QED
        BY <2>1, BirthsKept DEF IInv, KeepWait, NamedPc, NewPc, JoinPc, JoinerPc, WaiterPc, KillPc
<1>8. Joiners'
  <2>1. \A x \in Thread : Unwoken(x)' => Unwoken(x)
        BY Sets DEF Unwoken, KtSet, KeepWait
  <2>2. \A x \in Thread : Waking(x)' => Waking(x) /\ x # t
    <3>1. ut[t].pc \notin {"exit_list", "exit_enq"}
          BY <1>2, Sets DEF IInv, Descriptors, Agrees, ExitPc
    <3>2. ~Waking(t)'
      <4>1. \A j \in KThread : kt'[j].cur # t
            BY <1>1 DEF Dispatched
      <4>2. QED
            BY <1>4, <3>1, <4>1 DEF Waking
    <3>3. \A x \in Thread : Waking(x)' => Waking(x)
          BY Sets DEF Waking, KtSet
    <3>4. QED
          BY <3>2, <3>3
  <2>3. ASSUME NEW x \in Thread, NEW j \in MMThread, td'[x].join_td = j, Unwoken(x)'
        PROVE Parks(j, x)'
    <3>1. Parks(j, x) /\ td[x].join_td = j /\ j \notin G
          BY <1>4, <2>1, <2>3 DEF IInv, Joiners, KeepJoin
    <3>2. CASE j = t
          BY <1>1, <1>2, <1>4, <3>1, <3>2 DEF Parks
    <3>3. CASE j # t
          BY <1>1, <1>4, <3>1, <3>3 DEF Parks, SameOn
    <3>4. QED
          BY <3>2, <3>3
  <2>4. ASSUME NEW x \in Thread, Waking(x)'
        PROVE \E j \in MMThread : /\ td'[x].join_td = j /\ ut'[j].arg = x
                                  /\ ut'[j].pc = "join_parked" /\ Off(j)'
    <3>1. PICK j \in MMThread : /\ td[x].join_td = j /\ ut[j].arg = x
                                /\ ut[j].pc = "join_parked" /\ Off(j)
          BY <2>2, <2>4 DEF IInv, Joiners
    <3>2. j # t /\ j \notin G
          BY <1>2, <1>4, <2>2, <2>4, <3>1
    <3>3. QED
          BY <1>3, <1>4, <3>1, <3>2 DEF KeepJoin
  <2>5. \A x, v \in Thread : ut'[x].pc \in JoinerPc /\ ut'[x].arg = v => td'[v].join_td = x
        BY DEF IInv, Joiners, KeepJoin, JoinerPc, WaiterPc
  <2>6. ASSUME NEW v \in OneOne, ~td'[v].wait, ut'[v].pc # "unborn"
        PROVE ut'[v].pc = "gone"
    <3>1. v \in Thread /\ ~td[v].wait
          BY <2>6, Sets DEF KeepWait
    <3>2. ut[v].pc = "gone" \/ ut[v].pc = "unborn"
          BY <3>1 DEF IInv, Joiners
    <3>3. QED
          BY <2>6, <3>1, <3>2
  <2>7. ASSUME NEW x \in Thread, NEW v \in Thread, ut'[x].pc = "join_sleep", ut'[x].arg = v
        PROVE td'[v].wait \/ \E j \in KThread : /\ kt'[j].cur = v
                                                /\ kt'[j].pc \in {"exit_check", "futex_wake"}
    <3>1. ut[x].pc = "join_sleep" /\ ut[x].arg = v
          BY <2>7
    <3>2. td[v].wait \/ \E j \in KThread : /\ kt[j].cur = v
                                           /\ kt[j].pc \in {"exit_check", "futex_wake"}
          BY <3>1 DEF IInv, Joiners
    <3>3. CASE v = t
          BY <2>7, <3>1, <3>3 DEF KeepWait
    <3>4. CASE v # t
          BY <3>2, <3>4 DEF KtSet, KeepWait
    <3>5. QED
          BY <3>3, <3>4
  <2>8. QED
        BY <2>3, <2>4, <2>5, <2>6, <2>7 DEF Joiners
<1>9. Frees'
      BY DEF IInv, Frees, Spent, KeepJoin, JoinerPc, WaiterPc
<1>10. QED
      BY <1>5, <1>6, <1>7, <1>8, <1>9

\* What is held when a dispatcher goes back to its loop.
LEMMA HoldsLeave ==
  ASSUME IInv, NEW k \in KThread, NEW t \in MMThread, kt[k].cur = t,
         KtSet(k, "loop", NULL), ut' = ut
  PROVE /\ \A x \in Thread \ {t}, v \in Thread : HoldsT(x, v)' <=> HoldsT(x, v)
        /\ \A v \in Thread : HoldsT(t, v)' <=>
             HoldsT(t, v) /\ ~(kt[k].pc = "post" /\ ut[t].pc = "join_parked")
        /\ \A j \in KThread, v \in Thread : HoldsK(j, v)' <=> HoldsK(j, v) /\ j # k
<1>1. /\ \A x \in Thread \ {t} : SameOn(x)
      /\ ~Posting(t)'
      /\ Posting(t) <=> kt[k].pc = "post"
      BY WhereLoop, Held DEF IInv
<1>2. \A x \in Thread \ {t}, v \in Thread : HoldsT(x, v)' <=> HoldsT(x, v)
      BY <1>1 DEF HoldsT, SameOn
<1>3. \A v \in Thread : HoldsT(t, v)' <=>
             HoldsT(t, v) /\ ~(kt[k].pc = "post" /\ ut[t].pc = "join_parked")
      BY <1>1 DEF HoldsT
<1>4. QED
      BY <1>2, <1>3 DEF HoldsK, KtSet

\* The thread is in the ready list again.
LEMMA EnqKeeps ==
  ASSUME IInv, NEW k \in KThread, Enq(k)
  PROVE IInv'
<1>1. /\ kt[k].pc = "enq" /\ mmrll_lk' = NULL
      /\ UNCHANGED <<td, ut, enabled, mpc, freed, got>>
      BY DEF Enq, mmrll_enqueue
<1>2. PICK t \in MMThread :
          /\ kt[k].cur = t /\ t \in Thread
          /\ kt[k].pc \in {"sig_lock", "sig_send", "enq_lock", "enq"} =>
               ut[t].pc \notin {"join_parked", "exited"}
          /\ ut[t].pc \in OnCpuPc => kt[k].pc = "user"
      BY <1>1, Busy DEF IdlePc
<1>3. KtSet(k, "loop", NULL) /\ kt' \in KtType
      BY ToLoopFacts DEF IInv, Enq
<1>4. KeepDescr /\ KeepWait /\ KeepGiven /\ KeepJoin /\ KeepLock
      BY <1>1 DEF KeepDescr, KeepWait, KeepGiven, KeepJoin, KeepLock
<1>5. Dispatched(t) /\ ~Ready(t) /\ ~Off(t)
      BY <1>2, Held DEF IInv
<1>6. /\ mmrll' \in Seq(MMThread) /\ Distinct(mmrll')
      /\ \A x \in Thread : Ready(x)' <=> Ready(x) \/ x \in {t}
  <2>1. mmrll \in Seq(MMThread) /\ Distinct(mmrll) /\ ~InList(t, mmrll)
        BY <1>5, Types DEF IInv, Places, Ready, InList
  <2>2. mmrll' = Append(mmrll, t)
        BY <1>2 DEF Enq, mmrll_enqueue
  <2>3. /\ mmrll' \in Seq(MMThread) /\ Distinct(mmrll')
        /\ \A x \in Thread : InList(x, mmrll') <=> InList(x, mmrll) \/ x = t
        BY <2>1, <2>2, AppendFacts
  <2>4. QED
        BY <2>3 DEF Ready, InList
<1>7. TypeOK'
      BY <1>1, <1>3, <1>6, Sets DEF IInv, TypeOK, KtType
<1>8. Descriptors'
      BY <1>1 DEF IInv, Descriptors
<1>9. Locks'
  <2>1. \A x \in MMThread : mmrll_lk' = x => ut'[x].pc = "create_enq"
        BY <1>1, Sets
  <2>2. QED
        BY <1>1, <1>2, <1>3, <1>4, <2>1, HoldsLeave, LocksKept DEF IInv
<1>10. /\ ut[t].pc \notin {"exited", "unborn"}
       /\ \A x \in Thread : td[x].join_td = t => ~Unwoken(x)
       /\ \A x \in Thread \ {t} : Waking(x) => td[x].join_td # t
  <2>1. ut[t].pc # "unborn" /\ ut[t].pc # "join_check" /\ ut[t].pc \notin {"join_parked", "exited"}
        BY <1>1, <1>2, <1>5 DEF IInv, Births, OnCpuPc
  <2>2. \A x \in Thread : ~Parks(t, x)
        BY <2>1 DEF Parks
  <2>3. \A x \in Thread : Waking(x) => td[x].join_td # t
        BY <1>5 DEF IInv, Joiners
  <2>4. QED
        BY <2>1, <2>2, <2>3 DEF IInv, Joiners
<1>11. Places' /\ Dispatchers' /\ Births' /\ Joiners' /\ Frees'
  <2>1. \A x \in Thread : ut[x].pc = "join_sleep" /\ ut[x].arg = t => td[t].wait
        BY <1>1, <1>2 DEF IInv, Dispatchers, OverPc
  <2>2. PICK G : G = {t}
        OBVIOUS
  <2>3. /\ \A x \in Thread : Ready(x)' <=> Ready(x) \/ x \in G
        /\ \A v \in Thread : v \in G =>
             /\ ut[v].pc \notin {"exited", "unborn"}
             /\ v = t \/ ~Dispatched(v)
             /\ \A x \in Thread : td[x].join_td = v => ~Unwoken(x)
             /\ \A x \in Thread \ {t} : Waking(x) => td[x].join_td # v
        BY <1>6, <1>10, <2>2
  <2>4. /\ kt[k].pc # "user" /\ mpc' = mpc /\ freed' = freed /\ Distinct(mmrll')
        /\ \A x \in Thread : /\ ut'[x].arg = ut[x].arg
                             /\ \/ ut'[x].pc = ut[x].pc
                                \/ /\ x \in OneOne /\ ut[x].pc = "join_sleep"
                                   /\ ut'[x].pc = "join_done"
        /\ \A x \in Thread : ut'[x].pc = "join_sleep" /\ ut[x].arg = t => td[t].wait
        BY <1>1, <1>6, <2>1
  <2>5. QED
        BY <1>2, <1>3, <1>4, <2>3, <2>4, LeaveApart
<1>12. QED
      BY <1>7, <1>8, <1>9, <1>11 DEF IInv

\* The joiner that was parked is in the ready list.
LEMMA WakeKeeps ==
  ASSUME IInv, NEW k \in KThread, Wake(k)
  PROVE IInv'
<1>1. /\ kt[k].pc = "wake" /\ mmrll_lk' = NULL
      /\ UNCHANGED <<td, ut, enabled, mpc, freed, got>>
      BY DEF Wake, mmrll_enqueue
<1>2. PICK t \in MMThread :
          /\ kt[k].cur = t /\ t \in Thread
          /\ kt[k].pc \in OverPc \cup {"exit_lock", "exit_over"} => ut[t].pc = "exited"
          /\ kt[k].pc \in OverPc <=> ~td[t].wait
      BY <1>1, Busy DEF IdlePc
<1>3. KtSet(k, "loop", NULL) /\ kt' \in KtType
      BY ToLoopFacts DEF IInv, Wake
<1>4. KeepDescr /\ KeepWait /\ KeepGiven /\ KeepJoin /\ KeepLock
      BY <1>1 DEF KeepDescr, KeepWait, KeepGiven, KeepJoin, KeepLock
<1>5. PICK w \in MMThread : /\ td[t].join_td = w /\ ut[w].arg = t
                            /\ ut[w].pc = "join_parked" /\ Off(w)
      BY <1>1, <1>2 DEF IInv, Joiners, Waking
<1>6. /\ mmrll' \in Seq(MMThread) /\ Distinct(mmrll')
      /\ \A x \in Thread : Ready(x)' <=> Ready(x) \/ x \in {w}
  <2>1. mmrll \in Seq(MMThread) /\ Distinct(mmrll) /\ ~InList(w, mmrll)
        BY <1>5, Types DEF IInv, Places, Off, Ready, InList
  <2>2. mmrll' = Append(mmrll, w)
        BY <1>2, <1>5 DEF Wake, mmrll_enqueue
  <2>3. /\ mmrll' \in Seq(MMThread) /\ Distinct(mmrll')
        /\ \A x \in Thread : InList(x, mmrll') <=> InList(x, mmrll) \/ x = w
        BY <2>1, <2>2, AppendFacts
  <2>4. QED
        BY <2>3 DEF Ready, InList
<1>7. TypeOK'
      BY <1>1, <1>3, <1>6, Sets DEF IInv, TypeOK, KtType
<1>8. Descriptors'
      BY <1>1 DEF IInv, Descriptors
<1>9. ut[t].pc = "exited" /\ ~td[t].wait
      BY <1>1, <1>2 DEF OverPc
<1>10. Locks'
  <2>1. \A x \in MMThread : mmrll_lk' = x => ut'[x].pc = "create_enq"
        BY <1>1, Sets
  <2>2. QED
        BY <1>1, <1>2, <1>3, <1>4, <2>1, HoldsLeave, LocksKept DEF IInv
<1>11. /\ ~Dispatched(w)
       /\ \A x \in Thread : td[x].join_td = w => ~Unwoken(x)
       /\ \A x \in Thread \ {t} : Waking(x) => td[x].join_td # w
  <2>1. ~Unwoken(t)
    <3>1. \A j \in KThread : kt[j].cur = t => kt[j].pc = "wake"
          BY <1>1, <1>2, Held DEF IInv
    <3>2. QED
          BY <1>2, <1>9, <3>1, Sets DEF Unwoken
  <2>2. \A x \in Thread : td[x].join_td = w /\ Unwoken(x) => x = t
        BY <1>5 DEF IInv, Joiners, Parks
  <2>3. \A x \in Thread : Waking(x) /\ td[x].join_td = w => x = t
        BY <1>5 DEF IInv, Joiners
  <2>4. QED
        BY <1>5, <2>1, <2>2, <2>3 DEF Off
<1>12. Places' /\ Dispatchers' /\ Births' /\ Joiners' /\ Frees'
  <2>1. \A x \in Thread : ~(ut[x].pc = "join_sleep" /\ ut[x].arg = t)
        BY <1>2, <1>5, NoSleeper, Sets DEF Sleepers
  <2>2. PICK G : G = {w}
        OBVIOUS
  <2>3. /\ \A x \in Thread : Ready(x)' <=> Ready(x) \/ x \in G
        /\ \A v \in Thread : v \in G =>
             /\ ut[v].pc \notin {"exited", "unborn"}
             /\ v = t \/ ~Dispatched(v)
             /\ \A x \in Thread : td[x].join_td = v => ~Unwoken(x)
             /\ \A x \in Thread \ {t} : Waking(x) => td[x].join_td # v
        BY <1>5, <1>6, <1>11, <2>2
  <2>4. /\ kt[k].pc # "user" /\ mpc' = mpc /\ freed' = freed /\ Distinct(mmrll')
        /\ \A x \in Thread : /\ ut'[x].arg = ut[x].arg
                             /\ \/ ut'[x].pc = ut[x].pc
                                \/ /\ x \in OneOne /\ ut[x].pc = "join_sleep"
                                   /\ ut'[x].pc = "join_done"
        /\ \A x \in Thread : ut'[x].pc = "join_sleep" /\ ut[x].arg = t => td[t].wait
        BY <1>1, <1>6, <2>1
  <2>5. QED
        BY <1>2, <1>3, <1>4, <2>3, <2>4, LeaveApart
<1>13. QED
      BY <1>7, <1>8, <1>10, <1>12 DEF IInv

\* The lock that the parked joiner took is released.
LEMMA PostWaitJoinKeeps ==
  ASSUME IInv, NEW k \in KThread, PostWaitJoin(k)
  PROVE IInv'
<1>1. kt[k].pc = "post" /\ UNCHANGED <<mmrll, mmrll_lk, ut, enabled, mpc, freed, got>>
      BY DEF PostWaitJoin
<1>2. PICK t \in MMThread :
          /\ kt[k].cur = t /\ t \in Thread
          /\ kt[k].pc \in OverPc <=> ~td[t].wait
          /\ ut[t].pc \in OnCpuPc => kt[k].pc = "user"
      BY <1>1, Busy DEF IdlePc
<1>3. KtSet(k, "loop", NULL) /\ kt' \in KtType
      BY ToLoopFacts DEF IInv, PostWaitJoin
<1>4. Dispatched(t) /\ ~Ready(t) /\ Posting(t)
      BY <1>1, <1>2, Held DEF IInv
<1>5. PICK u \in Thread : /\ ut[t].pc = "join_parked" /\ ut[t].arg = u
                          /\ td[t].wait_join_td = u
  <2>1. td[t].state = "WAIT_JOIN"
        BY <1>2 DEF PostWaitJoin
  <2>2. Agrees(t, ut[t].pc, ut[t].arg, td[t].state, td[t].wait_join_td, td[t].intr_off)
        BY <1>2 DEF IInv, Descriptors
  <2>3. ut[t].pc \in WaiterPc /\ td[t].wait_join_td = ut[t].arg /\ ut[t].arg \in Thread
        BY <2>1, <2>2 DEF Agrees, JoinPc, JoinerPc
  <2>4. ut[t].pc = "join_parked"
        BY <1>1, <1>2, <2>2, <2>3, Sets DEF WaiterPc, OnCpuPc, Agrees
  <2>5. QED
        BY <2>3, <2>4
<1>6. /\ LockSet(u, NULL) /\ KeepDescr /\ KeepWait /\ KeepGiven /\ KeepJoin
      /\ td' \in TdType
      BY <1>2, <1>5, Sets, LockFacts DEF IInv, PostWaitJoin
<1>7. TypeOK'
      BY <1>1, <1>3, <1>6 DEF IInv, TypeOK, KtType, TdType, States
<1>8. Descriptors'
      BY <1>1, <1>6 DEF IInv, Descriptors, KeepDescr
<1>9. Locks'
  <2>1. /\ td[u].mem_lock = t
        /\ \A v \in Thread : HoldsT(t, v) <=> v = u
        BY <1>2, <1>4, <1>5 DEF HoldsT, IInv, Locks
  <2>2. \A x, v \in Thread : HoldsT(x, v)' <=> HoldsT(x, v) /\ ~(x = t /\ v = u)
        BY <1>1, <1>2, <1>3, <1>5, <2>1, HoldsLeave
  <2>3. \A j \in KThread, v \in Thread : HoldsK(j, v)' => HoldsK(j, v) /\ ~(j = t /\ v = u)
        BY <1>1, <1>2, <1>3, HoldsLeave, Sets
  <2>4. \A x \in MMThread : mmrll_lk' = x => ut'[x].pc = "create_enq"
        BY <1>1 DEF IInv, Locks
  <2>5. QED
        BY <1>6, <2>1, <2>2, <2>3, <2>4, LocksReleased DEF IInv
<1>10. Places' /\ Dispatchers' /\ Births' /\ Joiners' /\ Frees'
  <2>1. td[t].wait
        BY <1>1, <1>2 DEF OverPc
  <2>2. Distinct(mmrll') /\ \A x \in Thread : Ready(x)' <=> Ready(x)
        BY <1>1 DEF IInv, Places, Ready
  <2>3. PICK G : G = {}
        OBVIOUS
  <2>4. QED
        BY <1>1, <1>2, <1>3, <1>6, <2>1, <2>2, <2>3, LeaveApart
<1>11. QED
      BY <1>7, <1>8, <1>9, <1>10 DEF IInv

\* Nobody joins the thread: it is over and its dispatcher is free.
LEMMA ExitAloneKeeps ==
  ASSUME IInv, NEW k \in KThread, kt[k].pc = "exit_check", ToLoop(k),
         td' = [td EXCEPT ![kt[k].cur].mem_lock = NULL], td[kt[k].cur].join_td = NULL,
         UNCHANGED <<mmrll, mmrll_lk, ut, enabled, mpc, freed, got>>
  PROVE IInv'
<1>1. PICK t \in MMThread : kt[k].cur = t /\ t \in Thread /\ td[t].join_td = NULL
      BY Busy DEF IdlePc
<1>2. KtSet(k, "loop", NULL) /\ kt' \in KtType
      BY ToLoopFacts DEF IInv
<1>3. /\ LockSet(t, NULL) /\ KeepDescr /\ KeepWait /\ KeepGiven /\ KeepJoin
      /\ td' \in TdType
      BY <1>1, Sets, LockFacts DEF IInv
<1>4. TypeOK'
      BY <1>2, <1>3 DEF IInv, TypeOK, KtType, TdType, States
<1>5. Descriptors'
      BY <1>3 DEF IInv, Descriptors, KeepDescr
<1>6. Locks'
  <2>1. td[t].mem_lock = k /\ \A x \in Thread : x # k
        BY <1>1, Sets DEF IInv, Locks, HoldsK
  <2>2. \A x, v \in Thread : HoldsT(x, v)' <=> HoldsT(x, v)
        BY <1>1, <1>2, HoldsLeave
  <2>3. \A j \in KThread, v \in Thread : HoldsK(j, v)' => HoldsK(j, v) /\ ~(j = k /\ v = t)
        BY <1>1, <1>2, HoldsLeave
  <2>4. \A x \in MMThread : mmrll_lk' = x => ut'[x].pc = "create_enq"
        BY DEF IInv, Locks
  <2>5. QED
        BY <1>1, <1>3, <2>1, <2>2, <2>3, <2>4, LocksReleased DEF IInv
<1>7. Places' /\ Dispatchers' /\ Births' /\ Joiners' /\ Frees'
  <2>1. \A x \in Thread : ~(ut[x].pc = "join_sleep" /\ ut[x].arg = t)
        BY <1>1, NoSleeper, Sets DEF Sleepers
  <2>2. Distinct(mmrll') /\ \A x \in Thread : Ready(x)' <=> Ready(x)
        BY DEF IInv, Places, Ready
  <2>3. PICK G : G = {}
        OBVIOUS
  <2>4. /\ \A x \in Thread : Ready(x)' <=> Ready(x) \/ x \in G
        /\ \A v \in Thread : v \notin G
        /\ kt[k].pc # "user" /\ mpc' = mpc /\ freed' = freed /\ Distinct(mmrll')
        /\ \A x \in Thread : /\ ut'[x].arg = ut[x].arg
                             /\ \/ ut'[x].pc = ut[x].pc
                                \/ /\ x \in OneOne /\ ut[x].pc = "join_sleep"
                                   /\ ut'[x].pc = "join_done"
        /\ \A x \in Thread : ut'[x].pc = "join_sleep" /\ ut[x].arg = t => td[t].wait
        BY <2>1, <2>2, <2>3
  <2>5. \A w \in Thread : w \in G =>
          /\ ut[w].pc \notin {"exited", "unborn"}
          /\ w = t \/ ~Dispatched(w)
          /\ \A x \in Thread : td[x].join_td = w => ~Unwoken(x)
          /\ \A x \in Thread \ {t} : Waking(x) => td[x].join_td # w
        BY ONLY <2>4
  <2>6. IInv /\ kt[k].cur = t /\ KtSet(k, "loop", NULL) /\ KeepWait /\ KeepJoin /\ KeepGiven
        BY <1>1, <1>2, <1>3
  <2>7. QED
        BY ONLY k \in KThread, t \in MMThread, <2>4, <2>5, <2>6, LeaveApart
<1>8. QED
      BY <1>4, <1>5, <1>6, <1>7 DEF IInv

\* td_has_join_thread and the type of the joiner.
LEMMA ExitCheckKeeps ==
  ASSUME IInv, NEW k \in KThread, ExitCheck(k)
  PROVE IInv'
<1>1. /\ kt[k].pc = "exit_check"
      /\ td' = [td EXCEPT ![kt[k].cur].mem_lock = NULL]
      /\ UNCHANGED <<mmrll, mmrll_lk, ut, enabled, mpc, freed, got>>
      BY DEF ExitCheck
<1>2. CASE td[kt[k].cur].join_td = NULL /\ ToLoop(k)
      BY <1>1, <1>2, ExitAloneKeeps
<1>3. CASE td[kt[k].cur].join_td \in OneOne /\ Step(k, "exit_check", "futex_wake")
      BY <1>1, <1>3, ExitFindsKeeps DEF Step
<1>4. CASE td[kt[k].cur].join_td \in MMThread /\ Step(k, "exit_check", "wake_lock")
      BY <1>1, <1>4, ExitFindsKeeps DEF Step
<1>5. QED
      BY <1>2, <1>3, <1>4 DEF ExitCheck

\* futex(FUTEX_WAKE): the one sleeper of the thread is awake.
LEMMA FutexWakeKeeps ==
  ASSUME IInv, NEW k \in KThread, FutexWake(k)
  PROVE IInv'
<1>1. kt[k].pc = "futex_wake" /\ UNCHANGED <<td, mmrll, mmrll_lk, enabled, mpc, freed, got>>
      BY DEF FutexWake
<1>2. PICK t \in MMThread : kt[k].cur = t /\ t \in Thread
      BY <1>1, Busy DEF IdlePc
<1>3. KtSet(k, "loop", NULL) /\ kt' \in KtType
      BY ToLoopFacts DEF IInv, FutexWake
<1>4. KeepDescr /\ KeepWait /\ KeepGiven /\ KeepJoin /\ KeepLock
      BY <1>1 DEF KeepDescr, KeepWait, KeepGiven, KeepJoin, KeepLock
<1>5. /\ ut' \in UtType
      /\ \A x \in Thread : /\ ut'[x].arg = ut[x].arg
                           /\ \/ ut'[x].pc = ut[x].pc
                              \/ /\ x \in OneOne /\ ut[x].pc = "join_sleep"
                                 /\ ut'[x].pc = "join_done"
      /\ \A x \in Thread : ~(ut'[x].pc = "join_sleep" /\ ut[x].arg = t)
  <2>1. CASE Sleepers(t) = {} /\ ut' = ut
    <3>1. \A x \in Thread : ~(ut[x].pc = "join_sleep" /\ ut[x].arg = t)
          BY <2>1 DEF Sleepers
    <3>2. ut \in UtType
          BY Types DEF IInv
    <3>3. QED
          BY <2>1, <3>1, <3>2
  <2>2. ASSUME NEW v \in Sleepers(t), Goto(v, "join_done")
        PROVE /\ ut' \in UtType
              /\ \A x \in Thread : /\ ut'[x].arg = ut[x].arg
                                   /\ \/ ut'[x].pc = ut[x].pc
                                      \/ /\ x \in OneOne /\ ut[x].pc = "join_sleep"
                                         /\ ut'[x].pc = "join_done"
              /\ \A x \in Thread : ~(ut'[x].pc = "join_sleep" /\ ut[x].arg = t)
    <3>1. v \in Thread /\ ut[v].pc = "join_sleep" /\ ut[v].arg = t /\ "join_done" \in UserLabel
          BY DEF Sleepers, UserLabel
    <3>2. \A x \in Thread : ut[x].pc = "join_sleep" /\ ut[x].arg = t => x = v
          BY <1>2, OneSleeper DEF Sleepers
    <3>3. v \in OneOne
          BY <1>2, OneSleeper
    <3>4. UtSet(v, "join_done", ut[v].arg) /\ ut' \in UtType
          BY <2>2, <3>1, GotoFacts DEF IInv
    <3>5. QED
          BY <3>1, <3>2, <3>3, <3>4 DEF UtSet
  <2>3. QED
        BY <1>2, <2>1, <2>2 DEF FutexWake
<1>6. TypeOK'
      BY <1>1, <1>3, <1>5 DEF IInv, TypeOK, KtType, UtType, Arg
<1>7. Descriptors'
  <2> SUFFICES ASSUME NEW x \in Thread
               PROVE Agrees(x, ut'[x].pc, ut[x].arg, td[x].state, td[x].wait_join_td,
                            td[x].intr_off)
      BY <1>1, <1>5 DEF Descriptors
  <2>1. Agrees(x, ut[x].pc, ut[x].arg, td[x].state, td[x].wait_join_td, td[x].intr_off)
        BY DEF IInv, Descriptors
  <2>2. CASE ut'[x].pc # ut[x].pc
    <3>1. ut[x].pc = "join_sleep" /\ ut'[x].pc = "join_done" /\ x \in OneOne /\ x \notin MMThread
          BY <1>5, <2>2, Sets
    <3>2. QED
          BY <2>1, <3>1 DEF Agrees, NewPc, JoinPc, JoinerPc, WaiterPc, KillPc, ExitPc,
             AwayPc, OnCpuPc
  <2>3. CASE ut'[x].pc = ut[x].pc
        BY <2>1, <2>3
  <2>4. QED
        BY <2>2, <2>3
<1>8. Locks'
  <2>1. /\ \A x \in Thread \ {t} : SameOn(x)
        /\ ~Posting(t)' /\ ~Posting(t)
        BY <1>1, <1>2, <1>3, WhereLoop, Held DEF IInv
  <2>2. \A x, v \in Thread : HoldsT(x, v)' <=> HoldsT(x, v)
    <3>1. \A x \in Thread \ {t}, v \in Thread : HoldsT(x, v)' <=> HoldsT(x, v)
          BY <1>5, <2>1 DEF HoldsT, SameOn
    <3>2. \A v \in Thread : HoldsT(t, v)' <=> HoldsT(t, v)
          BY <1>2, <1>5, <2>1, Sets DEF HoldsT
    <3>3. QED
          BY <3>1, <3>2
  <2>3. \A j \in KThread, v \in Thread : HoldsK(j, v)' => HoldsK(j, v)
        BY <1>3 DEF HoldsK, KtSet
  <2>4. \A x \in MMThread : mmrll_lk' = x => ut'[x].pc = "create_enq"
        BY <1>1, <1>5, Sets DEF IInv, Locks
  <2>5. QED
        BY <1>4, <2>2, <2>3, <2>4, LocksKept DEF IInv
<1>9. Places' /\ Dispatchers' /\ Births' /\ Joiners' /\ Frees'
  <2>1. Distinct(mmrll') /\ \A x \in Thread : Ready(x)' <=> Ready(x)
        BY <1>1 DEF IInv, Places, Ready
  <2>2. PICK G : G = {}
        OBVIOUS
  <2>3. /\ \A x \in Thread : Ready(x)' <=> Ready(x) \/ x \in G
        /\ \A v \in Thread : v \notin G
        /\ kt[k].pc # "user" /\ mpc' = mpc /\ freed' = freed /\ Distinct(mmrll')
        /\ \A x \in Thread : /\ ut'[x].arg = ut[x].arg
                             /\ \/ ut'[x].pc = ut[x].pc
                                \/ /\ x \in OneOne /\ ut[x].pc = "join_sleep"
                                   /\ ut'[x].pc = "join_done"
        /\ \A x \in Thread : ut'[x].pc = "join_sleep" /\ ut[x].arg = t => td[t].wait
        BY <1>1, <1>5, <2>1, <2>2
  <2>4. QED
        BY <1>2, <1>3, <1>4, <2>3, LeaveApart
<1>10. QED
      BY <1>6, <1>7, <1>8, <1>9 DEF IInv

-----------------------------------------------------------------------------
(* The dispatcher takes a thread                                           *)

\* get_next_thread finds a thread, which is nowhere else and has not exited.
GetTakes(k) ==
  /\ kt[k].pc = "get" /\ mmrll # <<>>
  /\ kt' = [kt EXCEPT
       ![k].cur = Head(mmrll),
       ![k].pc = IF td[Head(mmrll)].state = "RUNNING" THEN "sig_lock" ELSE "run"]
  /\ mmrll' = Tail(mmrll) /\ mmrll_lk' = NULL
  /\ UNCHANGED <<td, ut, enabled, mpc, freed, got>>

\* The thread has left the ready list for the kernel thread.
LEMMA GetTakesKeeps ==
  ASSUME IInv, NEW k \in KThread, GetTakes(k)
  PROVE IInv'
<1>1. kt[k].pc = "get" /\ mmrll_lk' = NULL /\ UNCHANGED <<td, ut, enabled, mpc, freed, got>>
      BY DEF GetTakes
<1>2. kt[k].cur = NULL
      BY <1>1 DEF IInv, Dispatchers, IdlePc
<1>3. PICK t \in MMThread : t = Head(mmrll)
      BY TailFacts DEF GetTakes, IInv, Places, TypeOK
<1>4. /\ mmrll' \in Seq(MMThread) /\ Distinct(mmrll')
      /\ Ready(t)
      /\ \A x \in Thread : Ready(x)' <=> Ready(x) /\ x # t
  <2>1. mmrll \in Seq(MMThread) /\ Distinct(mmrll) /\ mmrll # <<>> /\ mmrll' = Tail(mmrll)
        BY Types DEF GetTakes, IInv, Places
  <2>2. /\ mmrll' \in Seq(MMThread) /\ Distinct(mmrll') /\ InList(t, mmrll)
        /\ \A x \in Thread : InList(x, mmrll') <=> InList(x, mmrll) /\ x # t
        BY <1>3, <2>1, TailFacts
  <2>3. QED
        BY <2>2 DEF Ready, InList
<1>5. t \in Thread /\ ~Dispatched(t) /\ ~Runs(t) /\ ~Posting(t)
  <2>1. t \in Thread /\ t \notin OneOne /\ ~Dispatched(t)
        BY <1>4, Sets DEF IInv, Places
  <2>2. QED
        BY <2>1 DEF Dispatched, Runs, Posting
<1>6. /\ ut[t].pc # "exited" /\ td[t].wait /\ ut[t].pc \notin OnCpuPc
      /\ \A x \in Thread : ~Parks(t, x)
      BY <1>4, <1>5 DEF IInv, Dispatchers, Parks, OnCpuPc
<1>7. PICK l \in {"sig_lock", "run"} :
        /\ kt' = [kt EXCEPT ![k].cur = t, ![k].pc = l]
        /\ l = "sig_lock" => ut[t].pc \notin {"join_parked", "exited"}
  <2>1. Agrees(t, ut[t].pc, ut[t].arg, td[t].state, td[t].wait_join_td, td[t].intr_off)
        BY <1>5 DEF IInv, Descriptors
  <2>2. td[t].state = "RUNNING" => ut[t].pc \notin {"join_parked", "exited"}
        BY <2>1 DEF Agrees
  <2>3. QED
        BY <1>3, <2>2 DEF GetTakes
<1>8. KtSet(k, l, t) /\ kt' \in KtType
  <2>1. l \in DispatchLabel
        BY DEF DispatchLabel
  <2>2. QED
        BY <1>7, <2>1, CurFacts DEF IInv
<1>9. /\ \A x \in Thread \ {t} : SameOn(x)
      /\ Dispatched(t)' /\ ~Posting(t)'
      BY <1>2, <1>5, <1>8, WhereGet DEF IInv
<1>10. \A x \in Thread \ {t} : Off(x)' <=> Off(x)
      BY <1>4, <1>9 DEF SameOn, Off
<1>11. TypeOK'
      BY <1>1, <1>4, <1>8, Sets DEF IInv, TypeOK, KtType
<1>12. Places'
  <2>1. \A i \in KThread : kt[i].cur # t
        BY <1>5 DEF Dispatched
  <2>2. \A i, j \in KThread : kt'[i].cur = kt'[j].cur /\ kt'[i].cur # NULL => i = j
        BY <1>8, <2>1 DEF IInv, Places, KtSet
  <2>3. \A x \in Thread : Ready(x)' => ~Dispatched(x)'
        BY <1>4, <1>9 DEF IInv, Places, SameOn
  <2>4. QED
        BY <1>4, <2>2, <2>3 DEF Places
<1>13. Descriptors'
      BY <1>1 DEF IInv, Descriptors
<1>14. Dispatchers'
  <2>1. \A j \in KThread : kt'[j].cur = NULL <=> kt'[j].pc \in IdlePc
        BY <1>8, Sets DEF IInv, Dispatchers, KtSet, IdlePc
  <2>2. ASSUME NEW j \in KThread, NEW x \in Thread, kt'[j].cur = x
        PROVE /\ kt'[j].pc \in OverPc \cup {"exit_lock", "exit_over"} => ut'[x].pc = "exited"
              /\ kt'[j].pc \in {"sig_lock", "sig_send", "enq_lock", "enq"} =>
                   ut'[x].pc \notin {"join_parked", "exited"}
              /\ kt'[j].pc \in {"run", "user"} => ut'[x].pc # "exited"
              /\ kt'[j].pc \in OverPc <=> ~td'[x].wait
    <3>1. CASE j = k
      <4>1. x = t /\ kt'[j].pc = l
            BY <1>8, <2>2, <3>1 DEF KtSet
      <4>2. QED
            BY <1>1, <1>6, <1>7, <4>1 DEF OverPc
    <3>2. CASE j # k
      <4>1. kt[j].cur = x /\ kt'[j].pc = kt[j].pc
            BY <1>8, <2>2, <3>2 DEF KtSet
      <4>2. QED
            BY <1>1, <4>1 DEF IInv, Dispatchers
    <3>3. QED
          BY <3>1, <3>2
  <2>3. \A x \in MMThread : /\ ut'[x].pc \in OnCpuPc => Runs(x)'
                            /\ ut'[x].pc = "exited" => ~Ready(x)'
                            /\ ~td'[x].wait => ut'[x].pc = "exited"
        BY <1>1, <1>4, <1>6, <1>9, Sets DEF IInv, Dispatchers, SameOn
  <2>4. QED
        BY <2>1, <2>2, <2>3 DEF Dispatchers
<1>15. Births'
  <2>1. KeepGiven /\ KeepJoin
        BY <1>1 DEF KeepGiven, KeepJoin
  <2>2. \A x \in Thread : ut[x].pc = "unborn" => Off(x)'
        BY <1>4, <1>10 DEF IInv, Births, Off
  <2>3. QED
        BY <1>1, <2>1, <2>2, BirthsKept DEF IInv
<1>16. Locks'
  <2>1. KeepLock
        BY <1>1 DEF KeepLock
  <2>2. \A x, v \in Thread : HoldsT(x, v)' <=> HoldsT(x, v)
        BY <1>1, <1>5, <1>9 DEF HoldsT, SameOn
  <2>3. \A j \in KThread, v \in Thread : HoldsK(j, v)' => HoldsK(j, v)
        BY <1>8 DEF HoldsK, KtSet
  <2>4. \A x \in MMThread : mmrll_lk' = x => ut'[x].pc = "create_enq"
        BY <1>1, Sets
  <2>5. QED
        BY <2>1, <2>2, <2>3, <2>4, LocksKept DEF IInv
<1>17. Joiners'
  <2>1. \A x \in Thread : /\ Unwoken(x)' => Unwoken(x)
                          /\ Waking(x)' => Waking(x)
        BY <1>1, <1>8 DEF Unwoken, Waking, KtSet
  <2>2. ASSUME NEW x \in Thread, NEW j \in MMThread, td'[x].join_td = j, Unwoken(x)'
        PROVE Parks(j, x)'
    <3>1. Parks(j, x)
          BY <1>1, <2>1, <2>2 DEF IInv, Joiners
    <3>2. j # t /\ j \in Thread
          BY <1>6, <3>1, Sets
    <3>3. QED
          BY <1>1, <1>4, <1>9, <3>1, <3>2 DEF Parks, SameOn
  <2>3. ASSUME NEW x \in Thread, Waking(x)'
        PROVE \E j \in MMThread : /\ td'[x].join_td = j /\ ut'[j].arg = x
                                  /\ ut'[j].pc = "join_parked" /\ Off(j)'
    <3>1. PICK j \in MMThread : /\ td[x].join_td = j /\ ut[j].arg = x
                                /\ ut[j].pc = "join_parked" /\ Off(j)
          BY <2>1, <2>3 DEF IInv, Joiners
    <3>2. j # t
          BY <1>4, <3>1 DEF Off
    <3>3. QED
          BY <1>1, <1>10, <3>1, <3>2, Sets
  <2>4. \A x, v \in Thread : ut'[x].pc = "join_sleep" /\ ut'[x].arg = v =>
          \/ td'[v].wait
          \/ \E j \in KThread : kt'[j].cur = v /\ kt'[j].pc \in {"exit_check", "futex_wake"}
        BY <1>1, <1>2, <1>8, Sets DEF IInv, Joiners, KtSet
  <2>5. QED
        BY <1>1, <2>2, <2>3, <2>4 DEF IInv, Joiners
<1>18. Frees'
      BY <1>1 DEF IInv, Frees, Spent
<1>19. QED
      BY <1>11, <1>12, <1>13, <1>14, <1>15, <1>16, <1>17, <1>18 DEF IInv

\* get_next_thread.
LEMMA GetKeeps ==
  ASSUME IInv, NEW k \in KThread, Get(k)
  PROVE IInv'
<1>1. \/ GetTakes(k)
      \/ /\ kt[k].pc = "get" /\ ToLoop(k) /\ mmrll_lk' = NULL
         /\ UNCHANGED <<td, mmrll, ut, enabled, mpc, freed, got>>
      BY DEF Get, GetTakes
<1>2. QED
      BY <1>1, GetTakesKeeps, GetNothingKeeps


-----------------------------------------------------------------------------
(* main()                                                                  *)

\* What the threads and the dispatchers have made true stays so while they and
\* their descriptors do.
LEMMA PartsKept ==
  ASSUME IInv, UNCHANGED <<td, mmrll, mmrll_lk, kt, ut>>,
         mpc' = "create" <=> mpc = "create"
  PROVE Places' /\ Descriptors' /\ Dispatchers' /\ Births' /\ Locks' /\ Joiners'
<1>1. /\ \A x \in Thread : /\ Ready(x)' <=> Ready(x)
                           /\ Dispatched(x)' <=> Dispatched(x)
                           /\ Runs(x)' <=> Runs(x)
                           /\ Posting(x)' <=> Posting(x)
                           /\ Off(x)' <=> Off(x)
                           /\ Unwoken(x)' <=> Unwoken(x)
                           /\ Waking(x)' <=> Waking(x)
      /\ \A x, v \in Thread : HoldsT(x, v)' <=> HoldsT(x, v)
      /\ \A k \in KThread, v \in Thread : HoldsK(k, v)' <=> HoldsK(k, v)
      /\ \A j \in Thread, x \in Thread : Parks(j, x)' <=> Parks(j, x)
      BY DEF Ready, Dispatched, Runs, Posting, Off, Unwoken, Waking, HoldsT, HoldsK, Parks
<1>2. Places' /\ Descriptors'
      BY <1>1 DEF IInv, Places, Descriptors
<1>3. Dispatchers' /\ Births'
      BY <1>1, Sets DEF IInv, Dispatchers, Births
<1>4. Locks'
      BY <1>1, Sets DEF IInv, Locks
<1>5. Joiners'
      BY <1>1, Sets DEF IInv, Joiners
<1>6. QED
      BY <1>2, <1>3, <1>4, <1>5

\* main() goes on and frees nothing.
LEMMA MainGoesOn ==
  ASSUME IInv, UNCHANGED <<td, mmrll, mmrll_lk, kt, ut, freed, got>>,
         enabled' \in BOOLEAN, mpc' \in MainLabel, mpc' = "create" <=> mpc = "create",
         mpc \in {"deinit", "reap", "done"} => mpc' \in {"deinit", "reap", "done"}
  PROVE IInv'
<1>1. TypeOK'
      BY DEF IInv, TypeOK
<1>2. Places' /\ Descriptors' /\ Dispatchers' /\ Births' /\ Locks' /\ Joiners'
      BY PartsKept
<1>3. \A x \in Thread : Spent(x) \in Nat /\ Spent(x)' \in Nat /\ Spent(x) <= Spent(x)'
      BY DEF Spent
<1>4. \A x \in Thread : freed[x] \in Nat
      BY Ranges DEF IInv
<1>5. Frees'
      BY <1>3, <1>4 DEF IInv, Frees
<1>6. QED
      BY <1>1, <1>2, <1>5 DEF IInv

\* The thread of thread_main is over.
LEMMA MainSpinKeeps ==
  ASSUME IInv, MainSpin
  PROVE IInv'
  BY MainGoesOn DEF MainSpin, MainLabel, IInv, TypeOK

\* main() frees the stack of thread_main unless somebody has joined it.
LEMMA MainFreeKeeps ==
  ASSUME IInv, MainFree
  PROVE IInv'
<1>1. mpc = "free" /\ mpc' = "deinit" /\ UNCHANGED <<td, mmrll, mmrll_lk, kt, ut, enabled, got>>
      BY DEF MainFree
<1>2. Places' /\ Descriptors' /\ Dispatchers' /\ Births' /\ Locks' /\ Joiners'
      BY <1>1, PartsKept
<1>3. /\ \A x \in Thread : Spent(x) = 0
      /\ \A x \in Thread : Spent(x)' = IF x = Main THEN 1 ELSE 0
      BY <1>1 DEF Spent
<1>4. \A x \in Thread : freed[x] \in 0..1
      BY <1>3, Ranges DEF IInv, Frees
<1>5. /\ \A x \in Thread \ {Main} : freed'[x] = freed[x]
      /\ freed'[Main] \in {freed[Main], freed[Main] + 1}
      /\ freed' \in [Thread -> 0..2]
  <2>1. freed \in [Thread -> 0..2]
        BY Types DEF IInv
  <2>2. freed[Main] + 1 \in 0..2
        BY <1>4, Sets
  <2>3. QED
        BY <2>1, <2>2, Sets DEF MainFree
<1>6. TypeOK'
      BY <1>1, <1>5 DEF IInv, TypeOK, MainLabel
<1>7. Frees'
      BY <1>1, <1>3, <1>4, <1>5, Sets DEF IInv, Frees
<1>8. QED
      BY <1>2, <1>6, <1>7 DEF IInv

\* The dispatchers are told to stop.
LEMMA MainDeinitKeeps ==
  ASSUME IInv, MainDeinit
  PROVE IInv'
  BY MainGoesOn DEF MainDeinit, MainLabel

\* main() has waited for every dispatcher.
LEMMA MainReapKeeps ==
  ASSUME IInv, MainReap
  PROVE IInv'
  BY MainGoesOn DEF MainReap, MainLabel, IInv, TypeOK

\* main() creates the thread of thread_main.
LEMMA MainCreateKeeps ==
  ASSUME IInv, MainCreate
  PROVE IInv'
<1>1. /\ mpc = "create" /\ mpc' = "spin" /\ ut[Main].pc = "unborn" /\ Main \in Thread
      /\ UNCHANGED <<mmrll, mmrll_lk, kt, enabled, freed, got>> /\ KeepKt
      BY Sets DEF MainCreate, IInv, Births, KeepKt
<1>2. UtSet(Main, "client", ut[Main].arg) /\ ut' \in UtType
  <2>1. "client" \in UserLabel
        BY DEF UserLabel
  <2>2. QED
        BY <1>1, <2>1, GotoFacts DEF MainCreate, IInv
<1>3. PICK r \in TdRec :
        /\ r = td_init(Main, {})
        /\ r.state = "RUNNING" /\ r.join_td = NULL /\ ~r.given /\ r.mem_lock = NULL
        /\ r.wait <=> Main \in MMThread
      BY <1>1, InitRecord
<1>4. PICK q \in TdRec :
        /\ q = [r EXCEPT !.wait = TRUE, !.given = TRUE]
        /\ q.state = "RUNNING" /\ q.join_td = NULL /\ q.mem_lock = NULL /\ q.wait
  <2>1. [r EXCEPT !.wait = TRUE, !.given = TRUE] = [[r EXCEPT !.wait = TRUE] EXCEPT !.given = TRUE]
        BY DEF TdRec
  <2>2. PICK p \in TdRec :
          /\ p = [r EXCEPT !.wait = TRUE]
          /\ p.state = "RUNNING" /\ p.join_td = NULL /\ p.mem_lock = NULL /\ p.wait
    <3>1. /\ [r EXCEPT !.wait = TRUE] \in TdRec
          /\ [r EXCEPT !.wait = TRUE].state = r.state
          /\ [r EXCEPT !.wait = TRUE].join_td = r.join_td
          /\ [r EXCEPT !.wait = TRUE].mem_lock = r.mem_lock
          /\ [r EXCEPT !.wait = TRUE].wait = TRUE
          BY ONLY r \in TdRec DEF TdRec
    <3>2. QED
          BY <1>3, <3>1
  <2>3. /\ [p EXCEPT !.given = TRUE] \in TdRec
        /\ [p EXCEPT !.given = TRUE].state = p.state
        /\ [p EXCEPT !.given = TRUE].join_td = p.join_td
        /\ [p EXCEPT !.given = TRUE].mem_lock = p.mem_lock
        /\ [p EXCEPT !.given = TRUE].wait = p.wait
        BY ONLY p \in TdRec DEF TdRec
  <2>4. QED
        BY <2>1, <2>2, <2>3
<1>5. td \in TdType /\ td' = [td EXCEPT ![Main] = q]
      BY <1>3, <1>4, Types DEF MainCreate, IInv
<1>6. td' \in TdType /\ td'[Main] = q /\ \A x \in Thread \ {Main} : td'[x] = td[x]
      BY <1>1, <1>5 DEF TdType, TdRec
<1>7. ~td[Main].given /\ td[Main].join_td = NULL
      BY <1>1 DEF IInv, Births
<1>8. Born(Main)
  <2>1. \A x \in Thread : ut[x].pc \in NewPc => ut[x].arg # Main
        BY <1>1 DEF IInv, Births
  <2>2. QED
        BY <1>1, <1>2, <2>1 DEF Born, UtSet
<1>9. TypeOK'
      BY <1>1, <1>2, <1>6 DEF IInv, TypeOK, TdType, UtType, Arg, States, MainLabel
<1>10. Descriptors'
  <2> SUFFICES ASSUME NEW x \in Thread
               PROVE Agrees(x, ut'[x].pc, ut'[x].arg, td'[x].state, td'[x].wait_join_td,
                            td'[x].intr_off)
      BY DEF Descriptors
  <2>1. CASE x = Main
        BY <1>2, <1>4, <1>6, <2>1 DEF Agrees, UtSet, NewPc, JoinPc,
           JoinerPc, WaiterPc, KillPc, ExitPc, AwayPc, OnCpuPc
  <2>2. CASE x # Main
        BY <1>2, <1>6, <2>2 DEF IInv, Descriptors, UtSet
  <2>3. QED
        BY <2>1, <2>2
<1>11. Locks'
  <2>1. LockSet(Main, NULL)
        BY <1>4, <1>6 DEF LockSet
  <2>2. \A x \in Thread : ~HoldsT(x, Main)
        BY <1>1, <1>7 DEF IInv, Births, HoldsT, JoinPc, JoinerPc, WaiterPc, KillPc
  <2>3. \A k \in KThread : ~HoldsK(k, Main)
        BY <1>1 DEF IInv, Births, Off, Dispatched, HoldsK
  <2>4. \A x \in MMThread : mmrll_lk' = x => ut'[x].pc = "create_enq"
        BY <1>1, <1>2, Sets DEF IInv, Locks, UtSet
  <2>5. /\ \A x, v \in Thread : HoldsT(x, v)' <=> HoldsT(x, v)
        /\ \A k \in KThread, v \in Thread : HoldsK(k, v)' => HoldsK(k, v)
        BY <1>1, <1>8, HoldsBirth
  <2>6. QED
        BY <1>1, <2>1, <2>2, <2>3, <2>4, <2>5, LocksReset DEF IInv
<1>12. Places'
  <2>1. \A x \in Thread : SameWhere(x)
        BY <1>1, WhereSame
  <2>2. QED
        BY <1>1, <2>1 DEF IInv, Places, SameWhere, SameOn
<1>13. Dispatchers' /\ Births' /\ Joiners' /\ Frees'
  <2>1. /\ \A x \in Thread : Spent(x)' = Spent(x)
        /\ \A x \in Thread \ {Main} : Ready(x)' <=> Ready(x)
        BY <1>1 DEF Spent, Ready
  <2>2. mpc' = "create" <=> ut'[Main].pc = "unborn"
        BY <1>1, <1>2 DEF UtSet
  <2>3. KeepJoin
        BY <1>4, <1>6, <1>7 DEF KeepJoin
  <2>4. td'[Main].wait
        BY <1>4, <1>6
  <2>5. \A x \in Thread \ {Main} : td'[x].wait = td[x].wait /\ td'[x].given = td[x].given
        BY <1>6
  <2>6. QED
        BY <1>1, <1>8, <2>1, <2>2, <2>3, <2>4, <2>5, BirthApart
<1>14. QED
      BY <1>9, <1>10, <1>11, <1>12, <1>13 DEF IInv

-----------------------------------------------------------------------------
(* The induction                                                           *)

\* mmsched_init has run and no thread has been created.
LEMMA InitIInv == Init => IInv
<1> SUFFICES ASSUME Init
             PROVE IInv
    OBVIOUS
<1>1. /\ mmrll = <<>> /\ mmrll_lk = NULL /\ enabled = TRUE /\ mpc = "create"
      /\ kt = [k \in KThread |-> [pc |-> "loop", cur |-> NULL, pend |-> {}]]
      /\ ut = [t \in Thread |-> [pc |-> "unborn", arg |-> NULL]]
      /\ freed = [t \in Thread |-> 0] /\ got = [t \in Thread |-> {}]
      /\ td = [t \in Thread |-> td_init(t, {})]
      BY DEF Init
<1>2. \A x \in Thread :
        /\ td_init(x, {}) \in TdRec
        /\ td_init(x, {}).state = "RUNNING" /\ td_init(x, {}).join_td = NULL
        /\ ~td_init(x, {}).given /\ td_init(x, {}).mem_lock = NULL
        /\ td_init(x, {}).wait <=> x \in MMThread
  <2> SUFFICES ASSUME NEW x \in Thread
               PROVE /\ td_init(x, {}) \in TdRec
                     /\ td_init(x, {}).state = "RUNNING" /\ td_init(x, {}).join_td = NULL
                     /\ ~td_init(x, {}).given /\ td_init(x, {}).mem_lock = NULL
                     /\ td_init(x, {}).wait <=> x \in MMThread
      OBVIOUS
  <2>1. QED
        BY InitRecord
<1>3. \A x \in Thread : /\ td[x] \in TdRec /\ td[x].state = "RUNNING" /\ td[x].join_td = NULL
                        /\ ~td[x].given /\ td[x].mem_lock = NULL
                        /\ td[x].wait <=> x \in MMThread
                        /\ ut[x].pc = "unborn" /\ ut[x].arg = NULL
                        /\ freed[x] = 0
      BY <1>1, <1>2
<1>4. \A k \in KThread : kt[k].pc = "loop" /\ kt[k].cur = NULL
      BY <1>1
<1>5. \A x \in Thread : ~Ready(x) /\ ~Dispatched(x) /\ ~Posting(x) /\ Off(x)
      BY <1>1, <1>4, Sets DEF Ready, Dispatched, Posting, Off
<1>6. TypeOK
  <2>1. td \in TdType
        BY <1>1, <1>2 DEF TdType, TdRec
  <2>2. kt \in KtType
        BY <1>1 DEF KtType, DispatchLabel
  <2>3. ut \in UtType
        BY <1>1 DEF UtType, UserLabel, Arg
  <2>4. mmrll \in Seq(MMThread) /\ mmrll_lk \in Lock /\ enabled \in BOOLEAN /\ mpc \in MainLabel
        BY <1>1, Sets DEF MainLabel
  <2>5. freed \in [Thread -> 0..2] /\ got \in [Thread -> SUBSET Signal]
        BY <1>1
  <2>6. QED
        BY <2>1, <2>2, <2>3, <2>4, <2>5, Types
<1>7. Places
      BY <1>1, <1>4, <1>5 DEF Places, Distinct
<1>8. Descriptors
      BY <1>3 DEF Descriptors, Agrees, NewPc, JoinPc, JoinerPc, WaiterPc, KillPc, ExitPc, AwayPc,
         OnCpuPc
<1>9. Dispatchers
      BY <1>3, <1>4, <1>5, Sets DEF Dispatchers, IdlePc, OverPc, OnCpuPc
<1>10. Births
      BY <1>1, <1>3, <1>5, Sets DEF Births, NewPc, JoinPc, JoinerPc, WaiterPc, KillPc
<1>11. Locks
      BY <1>1, <1>3, <1>4, Sets DEF Locks, HoldsT, HoldsK
<1>12. Joiners
      BY <1>3, <1>4, Sets DEF Joiners, JoinerPc, WaiterPc, Waking
<1>13. Frees
      BY <1>1, <1>3 DEF Frees, Spent
<1>14. QED
      BY <1>6, <1>7, <1>8, <1>9, <1>10, <1>11, <1>12, <1>13 DEF IInv

\* A call of a client keeps the invariant.
LEMMA CallKeeps ==
  ASSUME IInv, NEW t \in Thread, UserCall(t)
  PROVE IInv'
<1>1. CASE CntlCall(t)
  <2>1. ASSUME NEW u \in Thread, CreateCall(t, u)
        PROVE IInv'
        BY <2>1, CreateCallKeeps
  <2>2. ASSUME NEW u \in Thread, JoinCall(t, u)
        PROVE IInv'
        BY <2>2, JoinCallKeeps
  <2>3. CASE ThreadExit(t)
        BY <2>3, ThreadExitKeeps
  <2>4. CASE ThreadYield(t)
        BY <2>4, ThreadYieldKeeps
  <2>5. QED
        BY <1>1, <2>1, <2>2, <2>3, <2>4 DEF CntlCall
<1>2. CASE SigCall(t)
  <2>1. ASSUME NEW u \in Thread, NEW s \in Signal, KillOneOne(t, u, s)
        PROVE IInv'
        BY <2>1, KillOneOneKeeps
  <2>2. ASSUME NEW u \in Thread, NEW s \in Signal, KillCall(t, u, s)
        PROVE IInv'
        BY <2>2, KillCallKeeps
  <2>3. ASSUME NEW S \in SUBSET Signal, ThreadSigmask(t, S)
        PROVE IInv'
        BY <2>3, ThreadSigmaskKeeps
  <2>4. QED
        BY <1>2, <2>1, <2>2, <2>3 DEF SigCall
<1>3. QED
      BY <1>1, <1>2 DEF UserCall

\* So does a step of a call.
LEMMA CallStepKeeps ==
  ASSUME IInv, NEW t \in Thread, UserStep(t)
  PROVE IInv'
<1>1. CASE SigStep(t)
      BY <1>1, KillLockKeeps, KillSetKeeps DEF SigStep
<1>2. CASE CreateClone(t) \/ CreateStore(t) \/ CreateLock(t) \/ CreateEnq(t)
      BY <1>2, CreateCloneKeeps, CreateStoreKeeps, CreateLockKeeps, CreateEnqKeeps
<1>3. CASE JoinFutex(t)
      BY <1>3, JoinFutexKeeps
<1>4. CASE JoinLock(t) \/ JoinRefuse(t) \/ JoinCheck(t)
      BY <1>4, JoinLockKeeps, JoinRefuseKeeps, JoinCheckKeeps
<1>5. CASE JoinResume(t) \/ JoinDone(t) \/ JoinFree(t)
      BY <1>5, JoinResumeKeeps, JoinDoneKeeps, JoinFreeKeeps
<1>6. CASE OneOneLock(t) \/ OneOneCheck(t) \/ OneOneList(t) \/ OneOneEnq(t)
      BY <1>6, OneOneLockKeeps, OneOneCheckKeeps, OneOneListKeeps, OneOneEnqKeeps
<1>7. CASE KernelExit(t) \/ YieldBack(t)
      BY <1>7, KernelExitKeeps, YieldBackKeeps
<1>8. QED
      BY <1>1, <1>2, <1>3, <1>4, <1>5, <1>6, <1>7 DEF UserStep, CntlStep

\* And a step of a dispatcher.
LEMMA DispatchKeeps ==
  ASSUME IInv, NEW k \in KThread, Dispatch(k) \/ Preempt(k) \/ PostRepeatAlarm(k)
  PROVE IInv'
<1>1. CASE Loop(k) \/ GetLock(k) \/ Get(k)
      BY <1>1, LoopKeeps, GetLockKeeps, GetKeeps
<1>2. CASE SigLock(k) \/ SigSend(k) \/ Run(k)
      BY <1>2, SigLockKeeps, SigSendKeeps, RunKeeps
<1>3. CASE Preempt(k) \/ PostRepeat(k) \/ PostRepeatAlarm(k) \/ PostRunning(k)
      BY <1>3, PreemptKeeps, PostRepeatKeeps, PostRepeatAlarmKeeps, PostRunningKeeps
<1>4. CASE EnqLock(k) \/ Enq(k) \/ PostWaitJoin(k) \/ PostExited(k)
      BY <1>4, EnqLockKeeps, EnqKeeps, PostWaitJoinKeeps, PostExitedKeeps
<1>5. CASE ExitLock(k) \/ ExitOver(k) \/ ExitCheck(k)
      BY <1>5, ExitLockKeeps, ExitOverKeeps, ExitCheckKeeps
<1>6. CASE FutexWake(k) \/ WakeLock(k) \/ Wake(k)
      BY <1>6, FutexWakeKeeps, WakeLockKeeps, WakeKeeps
<1>7. QED
      BY <1>1, <1>2, <1>3, <1>4, <1>5, <1>6 DEF Dispatch

\* Nothing else happens in the library.
LEMMA NextIInv == IInv /\ [Next]_vars => IInv'
<1> SUFFICES ASSUME IInv, [Next]_vars
             PROVE IInv'
    OBVIOUS
<1>1. CASE MainStep
      BY <1>1, MainCreateKeeps, MainSpinKeeps, MainFreeKeeps, MainDeinitKeeps, MainReapKeeps
      DEF MainStep
<1>2. ASSUME NEW k \in KThread, Dispatch(k) \/ Preempt(k) \/ PostRepeatAlarm(k)
      PROVE IInv'
      BY <1>2, DispatchKeeps
<1>3. ASSUME NEW t \in Thread, UserCall(t) \/ UserStep(t)
      PROVE IInv'
      BY <1>3, CallKeeps, CallStepKeeps
<1>4. CASE UNCHANGED vars
  <2>1. UNCHANGED <<td, mmrll, mmrll_lk, kt, ut, enabled, mpc, freed, got>>
        BY <1>4 DEF vars
  <2>2. QED
        BY <2>1, MainGoesOn DEF IInv, TypeOK
<1>5. QED
      BY <1>1, <1>2, <1>3, <1>4 DEF Next, Finished

-----------------------------------------------------------------------------
(* What the invariant says to a client                                     *)

\* The inductive invariant holds of every client, every number of threads of the
\* two types and every number of kernel threads.
THEOREM Invariance == Spec => []IInv
<1>1. Init => IInv
      BY InitIInv
<1>2. IInv /\ [Next]_vars => IInv'
      BY NextIInv
<1>3. QED
      BY <1>1, <1>2, PTL DEF Spec

\* The descriptors, the ready list and the dispatchers keep their types; no stack is
\* freed a third time.
THEOREM TypeCorrect == Spec => []TypeOK
<1>1. IInv => TypeOK
      BY DEF IInv
<1>2. QED
      BY <1>1, Invariance, PTL

\* No context is resumed twice: a many-many thread is on one kernel thread or once in
\* the ready list, whoever makes it ready, its creator, its dispatcher, the
\* dispatcher of the many-many thread or the one-one thread that it joins.
THEOREM ThreadsInOnePlace == Spec => []OnePlace
<1>1. IInv => OnePlace
      BY DEF IInv, Places, Distinct, OnePlace
<1>2. QED
      BY <1>1, Invariance, PTL

\* A one-one joiner sleeps on a wait word that somebody will still clear, or has
\* cleared on the way to the futex call that wakes it.
THEOREM NoLostFutexWake == Spec => []NoSleepOnOver
<1>1. IInv => NoSleepOnOver
  <2> SUFFICES ASSUME IInv, NEW t \in Thread, ut[t].pc = "join_sleep"
               PROVE \/ td[ut[t].arg].wait
                     \/ \E k \in KThread : /\ kt[k].cur = ut[t].arg
                                           /\ kt[k].pc \in {"exit_check", "futex_wake"}
      BY DEF NoSleepOnOver
  <2>1. ut[t].arg \in Thread
        BY DEF IInv, Descriptors, Agrees, JoinPc, JoinerPc, WaiterPc
  <2>2. QED
        BY <2>1 DEF IInv, Joiners
<1>2. QED
      BY <1>1, Invariance, PTL

\* No many-many thread is preempted with a spin lock in its hand, whichever thread's
\* descriptor the lock is in; a refused joiner is the exception the code makes.
THEOREM HoldersRun == Spec => []HolderOnCpu
<1>1. IInv => HolderOnCpu
  <2> SUFFICES ASSUME IInv, NEW t \in MMThread,
                      mmrll_lk = t \/ \E u \in Thread : td[u].mem_lock = t
               PROVE \/ Runs(t)
                     \/ ut[t].pc = "join_refuse"
                     \/ \E k \in KThread : /\ kt[k].cur = t /\ kt[k].pc = "post"
                                           /\ ut[t].pc = "join_parked"
      BY DEF HolderOnCpu
  <2>1. ut[t].pc \in OnCpuPc => Runs(t)
        BY DEF IInv, Dispatchers
  <2>2. CASE mmrll_lk = t
        BY <2>1, <2>2 DEF IInv, Locks, OnCpuPc
  <2>3. ASSUME NEW u \in Thread, td[u].mem_lock = t
        PROVE \/ Runs(t)
              \/ ut[t].pc = "join_refuse"
              \/ \E k \in KThread : /\ kt[k].cur = t /\ kt[k].pc = "post"
                                    /\ ut[t].pc = "join_parked"
    <3>1. HoldsT(t, u)
          BY <2>3 DEF IInv, Locks
    <3>2. ut[t].pc # "exit_check"
          BY Sets DEF IInv, Descriptors, Agrees, ExitPc
    <3>3. QED
          BY <2>1, <3>1, <3>2 DEF HoldsT, Posting, OnCpuPc
  <2>4. QED
        BY <2>2, <2>3
<1>2. QED
      BY <1>1, Invariance, PTL

-----------------------------------------------------------------------------
(* thread_join, when no thread that joins is signalled                     *)

\* A futex sleep that a signal ends is taken by thread_join for the end of its
\* target (HybridJoinEintr.cfg), so a one-one thread that joins is not signalled.
NoSignalledJoiner ==
  \A p \in KillPairs, q \in JoinPairs : p[2] \in OneOne => q[1] # p[2]

\* Nobody joins the thread of thread_main, whose stack main() frees as well.
MainUnjoined == \A p \in JoinPairs : p[2] # Main

StopPc == {"join_done", "join_free"}

Over(u) == ~td[u].wait /\ ut[u].pc # "unborn"

\* What a wait that has ended knows of its target.  The wait word of a thread that has
\* started is cleared once and for all.
Stops ==
  /\ \A t \in Thread : ut[t].pc \in JoinPc => <<t, ut[t].arg>> \in JoinPairs
  /\ \A t \in Thread : ut[t].pc \in StopPc => ~td[ut[t].arg].wait

\* The same of a stack that has been freed.
Unmaps ==
  /\ \A u \in Thread : td[u].join_td # NULL => <<td[u].join_td, u>> \in JoinPairs
  /\ \A u \in Thread : freed[u] > 0 => Over(u)
  /\ mpc = "free" => ~td[Main].wait

\* What a step may do to the facts of Stops and Unmaps.
StepSound ==
  /\ \A u \in Thread : Over(u) => Over(u)'
  /\ \A t \in Thread : ut'[t].pc \in JoinPc =>
       \/ ut[t].pc \in JoinPc /\ ut'[t].arg = ut[t].arg
       \/ ut'[t].pc = "join_lock" /\ <<t, ut'[t].arg>> \in JoinPairs
  /\ \A t \in Thread : ut'[t].pc \in StopPc => ut[t].pc \in StopPc \/ ~td'[ut[t].arg].wait
  /\ \A u \in Thread : td'[u].join_td = td[u].join_td \/ <<td'[u].join_td, u>> \in JoinPairs
  /\ \A u \in Thread : freed'[u] > 0 => freed[u] > 0 \/ Over(u)
  /\ mpc' = "free" => mpc = "free" \/ Over(Main)

\* A step that is sound keeps them.
LEMMA SoundKept ==
  ASSUME IInv, Stops, Unmaps, StepSound
  PROVE Stops' /\ Unmaps'
<1>1. \A t \in Thread : ut[t].pc \in JoinPc => ut[t].arg \in Thread /\ td[ut[t].arg].given
      BY DEF IInv, Descriptors, Agrees, Births
<1>2. \A u \in Thread : td[u].given => ut[u].pc # "unborn"
      BY DEF IInv, Births
<1>3. ASSUME NEW t \in Thread, ut'[t].pc \in JoinPc
      PROVE <<t, ut'[t].arg>> \in JoinPairs
      BY <1>3 DEF StepSound, Stops
<1>4. ASSUME NEW t \in Thread, ut'[t].pc \in StopPc
      PROVE ~td'[ut'[t].arg].wait
  <2>1. ut'[t].pc \in JoinPc /\ ut'[t].pc # "join_lock"
        BY <1>4 DEF StopPc, JoinPc, JoinerPc, WaiterPc
  <2>2. ut[t].pc \in JoinPc /\ ut'[t].arg = ut[t].arg
        BY <2>1 DEF StepSound
  <2>3. CASE ut[t].pc \in StopPc
    <3>1. Over(ut[t].arg)
          BY <1>1, <1>2, <2>2, <2>3 DEF Over, Stops
    <3>2. QED
          BY <1>1, <2>2, <3>1 DEF StepSound, Over
  <2>4. QED
        BY <1>4, <2>2, <2>3 DEF StepSound
<1>5. Unmaps'
  <2>1. mpc' = "free" => ~td'[Main].wait
    <3>1. mpc = "free" => Over(Main)
          BY DEF IInv, Births, Unmaps, Over
    <3>2. Over(Main) => ~td'[Main].wait
          BY Sets DEF StepSound, Over
    <3>3. QED
          BY <3>1, <3>2 DEF StepSound
  <2>2. QED
        BY <2>1 DEF StepSound, Unmaps
<1>6. QED
      BY <1>3, <1>4, <1>5 DEF Stops

\* The step leaves alone what a waiting thread looks at.
Quiet == KeepWait /\ KeepJoin /\ freed' = freed /\ mpc' = mpc

\* A step that moves one thread.
LEMMA MoveSound ==
  ASSUME IInv, Quiet, NEW t \in Thread, NEW l, NEW a, UtSet(t, l, a), l # "unborn",
         \/ l \notin JoinPc
         \/ a = ut[t].arg /\ ut[t].pc \in JoinPc
         \/ l = "join_lock" /\ <<t, a>> \in JoinPairs,
         l \in StopPc => ut[t].pc \in StopPc \/ ~td[ut[t].arg].wait
  PROVE StepSound
<1>1. \A u \in Thread : Over(u) => Over(u)'
      BY DEF Over, UtSet, Quiet, KeepWait
<1>2. ut[t].pc \in JoinPc => ut[t].arg \in Thread
      BY DEF IInv, Descriptors, Agrees
<1>3. \A x \in Thread : ut'[x].pc \in JoinPc =>
        \/ ut[x].pc \in JoinPc /\ ut'[x].arg = ut[x].arg
        \/ ut'[x].pc = "join_lock" /\ <<x, ut'[x].arg>> \in JoinPairs
      BY DEF UtSet
<1>4. ASSUME NEW x \in Thread, ut'[x].pc \in StopPc
      PROVE ut[x].pc \in StopPc \/ ~td'[ut[x].arg].wait
  <2>1. CASE x = t
    <3>1. l \in StopPc /\ l \in JoinPc /\ l # "join_lock"
          BY <1>4, <2>1 DEF UtSet, StopPc, JoinPc, JoinerPc, WaiterPc
    <3>2. ut[t].arg \in Thread
          BY <1>2, <3>1
    <3>3. QED
          BY <2>1, <3>1, <3>2 DEF Quiet, KeepWait
  <2>2. CASE x # t
        BY <1>4, <2>2 DEF UtSet
  <2>3. QED
        BY <2>1, <2>2
<1>5. QED
      BY <1>1, <1>3, <1>4 DEF StepSound, Quiet, KeepJoin

\* A step that moves no thread.
LEMMA StillSound ==
  ASSUME Quiet, ut' = ut
  PROVE StepSound
<1>1. \A x \in Thread : ut'[x].pc = ut[x].pc /\ ut'[x].arg = ut[x].arg
      OBVIOUS
<1>2. QED
      BY <1>1 DEF StepSound, Over, Quiet, KeepWait, KeepJoin, StopPc, JoinPc, JoinerPc, WaiterPc

\* A thread goes to another place of its call.
LEMMA GotoSound ==
  ASSUME IInv, Quiet, NEW t \in Thread, NEW l \in UserLabel, Goto(t, l), l # "unborn",
         l \in JoinPc => ut[t].pc \in JoinPc,
         l \in StopPc => ut[t].pc \in StopPc \/ ~td[ut[t].arg].wait
  PROVE StepSound
<1>1. UtSet(t, l, ut[t].arg)
      BY GotoFacts DEF IInv
<1>2. PICK a : a = ut[t].arg
      OBVIOUS
<1>3. QED
      BY <1>1, <1>2, MoveSound

\* A call returns.
LEMMA ReturnSound ==
  ASSUME IInv, Quiet, NEW t \in Thread, Return(t)
  PROVE StepSound
<1>1. UtSet(t, "client", NULL)
      BY ReturnFacts DEF IInv
<1>2. QED
      BY <1>1, MoveSound DEF JoinPc, JoinerPc, WaiterPc, StopPc


\* The steps of a call that leave it alone.
LEMMA QuietSteps ==
  ASSUME IInv, NEW t \in Thread,
         \/ CreateFails(t) \/ CreateStore(t) \/ CreateLock(t) \/ JoinRefused(t)
         \/ JoinRefuse(t) \/ JoinCheck(t) \/ JoinFutex(t) \/ JoinResume(t) \/ JoinDone(t)
         \/ ThreadExit(t) \/ OneOneLock(t) \/ OneOneCheck(t) \/ OneOneList(t)
         \/ OneOneEnq(t) \/ ThreadYield(t) \/ YieldBack(t) \/ KillLock(t) \/ KillSet(t)
  PROVE Quiet
<1>1. td \in TdType
      BY Types DEF IInv
<1>2. CASE CreateFails(t)
      BY <1>1, <1>2 DEF CreateFails, TdType, Quiet, KeepWait, KeepJoin
<1>3. CASE CreateStore(t)
      BY <1>1, <1>3 DEF CreateStore, TdType, Quiet, KeepWait, KeepJoin
<1>4. CASE CreateLock(t)
      BY <1>1, <1>4 DEF CreateLock, TdType, Quiet, KeepWait, KeepJoin
<1>5. CASE JoinRefused(t)
      BY <1>1, <1>5 DEF JoinRefused, TdType, Quiet, KeepWait, KeepJoin
<1>6. CASE JoinRefuse(t)
      BY <1>1, <1>6 DEF JoinRefuse, TdType, Quiet, KeepWait, KeepJoin
<1>7. CASE JoinCheck(t)
      BY <1>1, <1>7 DEF JoinCheck, TdType, Quiet, KeepWait, KeepJoin
<1>8. CASE JoinFutex(t)
      BY <1>1, <1>8 DEF JoinFutex, TdType, Quiet, KeepWait, KeepJoin
<1>9. CASE JoinResume(t)
      BY <1>1, <1>9 DEF JoinResume, TdType, Quiet, KeepWait, KeepJoin
<1>10. CASE JoinDone(t)
      BY <1>1, <1>10 DEF JoinDone, TdType, Quiet, KeepWait, KeepJoin
<1>11. CASE ThreadExit(t)
      BY <1>1, <1>11 DEF ThreadExit, TdType, Quiet, KeepWait, KeepJoin
<1>12. CASE OneOneLock(t)
      BY <1>1, <1>12 DEF OneOneLock, TdType, Quiet, KeepWait, KeepJoin
<1>13. CASE OneOneCheck(t)
      BY <1>1, <1>13 DEF OneOneCheck, TdType, Quiet, KeepWait, KeepJoin
<1>14. CASE OneOneList(t)
      BY <1>1, <1>14 DEF OneOneList, TdType, Quiet, KeepWait, KeepJoin
<1>15. CASE OneOneEnq(t)
      BY <1>1, <1>15 DEF OneOneEnq, TdType, Quiet, KeepWait, KeepJoin
<1>16. CASE ThreadYield(t)
      BY <1>1, <1>16 DEF ThreadYield, TdType, Quiet, KeepWait, KeepJoin
<1>17. CASE YieldBack(t)
      BY <1>1, <1>17 DEF YieldBack, TdType, Quiet, KeepWait, KeepJoin
<1>18. CASE KillLock(t)
      BY <1>1, <1>18 DEF KillLock, TdType, Quiet, KeepWait, KeepJoin
<1>19. CASE KillSet(t)
  <2>1. PICK u, S : td' = [td EXCEPT ![u].pend_sig = S, ![u].mem_lock = NULL,
                                     ![t].intr_off = FALSE]
        BY <1>19 DEF KillSet
  <2>2. \A x \in Thread : td'[x].wait = td[x].wait
        BY <1>1, <2>1 DEF TdType
  <2>3. \A x \in Thread : td'[x].join_td = td[x].join_td
        BY <1>1, <2>1 DEF TdType
  <2>4. QED
        BY <1>19, <2>2, <2>3 DEF KillSet, Quiet, KeepWait, KeepJoin
<1>20. QED
      BY <1>2, <1>3, <1>4, <1>5, <1>6, <1>7, <1>8, <1>9, <1>10, <1>11, <1>12, <1>13, <1>14,
         <1>15, <1>16, <1>17, <1>18, <1>19

\* The steps of thread_create, thread_exit, thread_yield and thread_kill, which do
\* not end a wait.
LEMMA OtherSound ==
  ASSUME IInv, NEW t \in Thread,
         \/ CreateFails(t) \/ CreateStore(t) \/ CreateLock(t)
         \/ ThreadExit(t) \/ OneOneLock(t) \/ OneOneCheck(t) \/ OneOneList(t) \/ OneOneEnq(t)
         \/ ThreadYield(t) \/ YieldBack(t) \/ KillLock(t) \/ KillSet(t)
  PROVE StepSound
<1>1. Quiet
      BY QuietSteps
<1>2. CASE CreateFails(t) \/ CreateStore(t) \/ YieldBack(t) \/ KillSet(t)
      BY <1>1, <1>2, ReturnSound DEF CreateFails, CreateStore, YieldBack, KillSet
<1>3. CASE \E l \in {"create_enq", "exited", "exit_lock", "exit_check", "exiting", "exit_list",
                     "exit_enq", "yielded", "kill_set"} : Goto(t, l)
  <2>1. PICK l \in {"create_enq", "exited", "exit_lock", "exit_check", "exiting", "exit_list",
                    "exit_enq", "yielded", "kill_set"} : Goto(t, l)
        BY <1>3
  <2>2. l \in UserLabel /\ l # "unborn" /\ l \notin JoinPc /\ l \notin StopPc
        BY DEF UserLabel, JoinPc, JoinerPc, WaiterPc, StopPc
  <2>3. QED
        BY <1>1, <2>1, <2>2, GotoSound
<1>4. CASE OneOneCheck(t)
  <2>1. Goto(t, "exiting") \/ Goto(t, "exit_list")
        BY <1>4 DEF OneOneCheck
  <2>2. QED
        BY <1>3, <2>1
<1>5. QED
      BY <1>2, <1>3, <1>4 DEF CreateLock, ThreadExit, OneOneLock, OneOneList, OneOneEnq,
         ThreadYield, KillLock

\* A many-many joiner that runs again has a target that is over.
LEMMA ResumedOver ==
  ASSUME IInv, NEW t \in Thread, JoinResume(t)
  PROVE ~td[ut[t].arg].wait
<1>1. ut[t].pc = "join_parked" /\ Runs(t)
      BY DEF JoinResume, At
<1>2. PICK u \in Thread : u = ut[t].arg /\ t \in MMThread /\ td[u].join_td = t
      BY <1>1 DEF IInv, Descriptors, Agrees, Joiners, JoinPc, JoinerPc, WaiterPc, AwayPc
<1>3. CASE u \in OneOne
      BY <1>2, <1>3 DEF JoinResume
<1>4. CASE u \in MMThread
  <2>1. ~Unwoken(u)
        BY <1>1, <1>2, Acting
  <2>2. QED
        BY <1>2, <1>4, <2>1, Sets DEF Unwoken
<1>5. QED
      BY <1>2, <1>3, <1>4, Sets

\* The steps of thread_join, up to the one that frees: a wait ends when the wait word
\* has been seen cleared.
LEMMA JoinSteps ==
  ASSUME IInv, NEW t \in Thread,
         \/ JoinRefused(t) \/ JoinRefuse(t) \/ JoinCheck(t) \/ JoinFutex(t)
         \/ JoinResume(t) \/ JoinDone(t)
  PROVE StepSound
<1>1. Quiet
      BY QuietSteps
<1>2. CASE JoinRefuse(t)
      BY <1>1, <1>2, ReturnSound DEF JoinRefuse
<1>3. ASSUME NEW l \in {"join_refuse", "join_futex", "join_sleep", "join_parked", "join_done",
                        "join_free"},
             Goto(t, l), ut[t].pc \in JoinPc,
             l \in StopPc => ut[t].pc \in StopPc \/ ~td[ut[t].arg].wait
      PROVE StepSound
  <2>1. l \in UserLabel /\ l # "unborn"
        BY DEF UserLabel
  <2>2. QED
        BY <1>1, <1>3, <2>1, GotoSound
<1>4. CASE JoinRefused(t)
      BY <1>3, <1>4 DEF JoinRefused, At, JoinPc, JoinerPc, WaiterPc, StopPc
<1>5. CASE JoinCheck(t)
      BY <1>3, <1>5 DEF JoinCheck, At, JoinPc, JoinerPc, WaiterPc, StopPc
<1>6. CASE JoinFutex(t)
      BY <1>3, <1>6 DEF JoinFutex, At, JoinPc, JoinerPc, WaiterPc, StopPc
<1>7. CASE JoinResume(t)
  <2>1. ~td[ut[t].arg].wait
        BY <1>7, ResumedOver
  <2>2. QED
        BY <1>3, <1>7, <2>1 DEF JoinResume, At, JoinPc, JoinerPc, WaiterPc, StopPc
<1>8. CASE JoinDone(t)
      BY <1>3, <1>8 DEF JoinDone, At, JoinPc, JoinerPc, WaiterPc, StopPc
<1>9. QED
      BY <1>2, <1>4, <1>5, <1>6, <1>7, <1>8

\* The target of a join whose caller has registered is one the client lets it join.
LEMMA RegistersSound ==
  ASSUME IInv, Stops, NEW t \in Thread, JoinRegisters(t)
  PROVE StepSound
<1>1. ut[t].pc = "join_lock" /\ td \in TdType /\ freed' = freed /\ mpc' = mpc
      BY Types DEF JoinRegisters, At, IInv
<1>2. PICK u \in Thread : u = ut[t].arg /\ u # t /\ <<t, u>> \in JoinPairs
      BY <1>1 DEF IInv, Descriptors, Agrees, Stops, JoinPc
<1>3. UtSet(t, "join_check", u)
  <2>1. "join_check" \in UserLabel
        BY DEF UserLabel
  <2>2. QED
        BY <1>2, <2>1, GotoFacts DEF JoinRegisters, IInv
<1>4. td' = [td EXCEPT ![u].mem_lock = t, ![u].join_td = t,
                       ![t].wait_join_td = u, ![t].state = "WAIT_JOIN"]
      BY <1>2 DEF JoinRegisters
<1>5. \A x \in Thread : td'[x].wait = td[x].wait
      BY <1>1, <1>4 DEF TdType
<1>6. \A x \in Thread : td'[x].join_td = IF x = u THEN t ELSE td[x].join_td
  <2>1. TypeOK /\ u # t
        BY <1>2 DEF IInv
  <2>2. QED
        BY ONLY t \in Thread, u \in Thread, <2>1, <1>4, RegisterFacts
<1>7. \A x \in Thread : Over(x) => Over(x)'
      BY <1>3, <1>5 DEF Over, UtSet
<1>8. QED
      BY <1>1, <1>2, <1>3, <1>5, <1>6, <1>7 DEF StepSound, UtSet, JoinPc, StopPc

\* The caller of thread_join frees the stack of a target that is over.
LEMMA FreeSound ==
  ASSUME IInv, Stops, NEW t \in Thread, JoinFree(t)
  PROVE StepSound
<1>1. ut[t].pc = "join_free" /\ td \in TdType /\ mpc' = mpc /\ freed \in [Thread -> 0..2]
      BY Types DEF JoinFree, At, IInv
<1>2. PICK u \in Thread : u = ut[t].arg /\ Over(u)
  <2>1. ut[t].pc \in JoinPc /\ ut[t].pc \in StopPc
        BY <1>1 DEF JoinPc, JoinerPc, StopPc
  <2>2. ut[t].arg \in Thread /\ td[ut[t].arg].given
        BY <2>1 DEF IInv, Descriptors, Agrees, Births
  <2>3. ut[ut[t].arg].pc # "unborn"
        BY <2>2 DEF IInv, Births
  <2>4. QED
        BY <2>1, <2>2, <2>3 DEF Stops, Over
<1>3. UtSet(t, "client", NULL)
      BY ReturnFacts DEF JoinFree, IInv
<1>4. KeepWait /\ KeepJoin
      BY <1>1, <1>2 DEF JoinFree, TdType, KeepWait, KeepJoin
<1>5. \A x \in Thread : x # u => freed'[x] = freed[x]
      BY <1>1, <1>2 DEF JoinFree
<1>6. \A x \in Thread : Over(x) => Over(x)'
      BY <1>3, <1>4 DEF Over, UtSet, KeepWait
<1>7. QED
      BY <1>1, <1>2, <1>3, <1>4, <1>5, <1>6
      DEF StepSound, UtSet, KeepJoin, JoinPc, JoinerPc, WaiterPc, StopPc

\* A step after which every thread is where it was, or in no thread_join.
LEMMA LeaveSound ==
  ASSUME \A x \in Thread : \/ ut'[x].pc = ut[x].pc /\ ut'[x].arg = ut[x].arg
                           \/ ut'[x].pc \notin JoinPc /\ ut'[x].pc # "unborn",
         \A x \in Thread : Over(x) => ~td'[x].wait,
         KeepJoin, freed' = freed, mpc' = mpc \/ mpc' # "free"
  PROVE StepSound
<1>1. \A x \in Thread : Over(x) => Over(x)'
      BY DEF Over
<1>2. \A x \in Thread : ut'[x].pc \in StopPc => ut'[x].pc \in JoinPc
      BY DEF StopPc, JoinPc, JoinerPc, WaiterPc
<1>3. QED
      BY <1>1, <1>2 DEF StepSound, KeepJoin

\* The calls of a client that start no join.
LEMMA CallSound ==
  ASSUME IInv, NEW t \in Thread, NEW u \in Thread,
         CreateCall(t, u) \/ \E s \in Signal : KillCall(t, u, s)
  PROVE StepSound
<1>1. td \in TdType /\ ut \in UtType
      BY Types DEF IInv
<1>2. CASE CreateCall(t, u)
  <2>1. ut[u].pc = "unborn" /\ t # u /\ freed' = freed /\ mpc' = mpc
        BY <1>2 DEF CreateCall, Calls, At
  <2>2. KeepWait /\ KeepJoin
    <3>1. PICK i \in BOOLEAN : i = intr(t, u \in MMThread)
      <4>1. CASE t \in OneOne
            BY <4>1 DEF intr
      <4>2. CASE t \notin OneOne
        <5>1. intr(t, u \in MMThread) = (u \in MMThread)
              BY <4>2 DEF intr
        <5>2. (u \in MMThread) \in BOOLEAN
              OBVIOUS
        <5>3. QED
              BY <5>1, <5>2
      <4>3. QED
            BY <4>1, <4>2
    <3>2. PICK S \in SUBSET Signal : S = td[t].blocked
          BY <1>1 DEF TdType
    <3>3. MakesDescr(t, u, i, S)
          BY <1>2, <3>1, <3>2 DEF CreateCall, MakesDescr
    <3>4. DescrMade(t, u, i)
          BY <2>1, <3>3, InitFacts
    <3>5. QED
          BY ONLY <3>4 DEF DescrMade
  <2>3. PICK l \in {"create_clone", "create_lock"} :
          ut' = [ut EXCEPT ![t] = [pc |-> l, arg |-> u]]
        BY <1>2 DEF CreateCall, Calls
  <2>4. \A x \in Thread : \/ ut'[x].pc = ut[x].pc /\ ut'[x].arg = ut[x].arg
                          \/ ut'[x].pc \notin JoinPc /\ ut'[x].pc # "unborn"
        BY <1>1, <2>3 DEF UtType, JoinPc, JoinerPc, WaiterPc
  <2>5. QED
        BY <2>1, <2>2, <2>4, LeaveSound DEF Over, KeepWait
<1>3. ASSUME NEW s \in Signal, KillCall(t, u, s)
      PROVE StepSound
  <2>1. KeepWait /\ KeepJoin /\ freed' = freed /\ mpc' = mpc
        BY <1>1, <1>3 DEF KillCall, TdType, KeepWait, KeepJoin
  <2>2. \A x \in Thread : \/ ut'[x].pc = ut[x].pc /\ ut'[x].arg = ut[x].arg
                          \/ ut'[x].pc \notin JoinPc /\ ut'[x].pc # "unborn"
        BY <1>1, <1>3 DEF KillCall, Calls, UtType, JoinPc, JoinerPc, WaiterPc
  <2>3. QED
        BY <2>1, <2>2, LeaveSound DEF Over, KeepWait
<1>4. QED
      BY <1>2, <1>3

\* thread_join is called for a target the client lets the caller join.
LEMMA JoinCallSound ==
  ASSUME IInv, NEW t \in Thread, NEW u \in Thread, JoinCall(t, u)
  PROVE StepSound
<1>1. UtSet(t, "join_lock", u)
  <2>1. "join_lock" \in UserLabel /\ u \in Arg
        BY DEF UserLabel, Arg
  <2>2. QED
        BY <2>1, CallFacts DEF JoinCall, Calls, IInv
<1>2. Quiet
      BY Types DEF IInv, JoinCall, TdType, Quiet, KeepWait, KeepJoin
<1>3. <<t, u>> \in JoinPairs
      BY DEF JoinCall
<1>4. QED
      BY <1>1, <1>2, <1>3, MoveSound DEF StopPc

\* A signal to a one-one thread ends no wait of thread_join, as no such thread joins.
LEMMA KillSound ==
  ASSUME NoSignalledJoiner, IInv, Stops, NEW t \in Thread, NEW u \in Thread, NEW s \in Signal,
         KillOneOne(t, u, s)
  PROVE StepSound
<1>1. <<t, u>> \in KillPairs /\ u \in OneOne
      BY DEF KillOneOne
<1>2. ut[u].pc # "join_sleep"
  <2>1. SUFFICES ASSUME ut[u].pc = "join_sleep"
                 PROVE FALSE
        OBVIOUS
  <2>2. <<u, ut[u].arg>> \in JoinPairs
        BY <2>1 DEF Stops, JoinPc, JoinerPc, WaiterPc
  <2>3. PICK p \in KillPairs : p[1] = t /\ p[2] = u
        BY <1>1
  <2>4. PICK q \in JoinPairs : q[1] = u
        BY <2>2
  <2>5. QED
        BY <1>1, <2>3, <2>4 DEF NoSignalledJoiner
<1>3. ut' = ut
      BY <1>2 DEF KillOneOne
<1>4. KeepWait /\ KeepJoin
  <2>1. PICK S : td' = td \/ td' = [td EXCEPT ![u].pend_sig = S]
        BY DEF KillOneOne
  <2>2. QED
        BY <2>1, Types DEF IInv, TdType, KeepWait, KeepJoin
<1>5. QED
      BY <1>3, <1>4, StillSound DEF KillOneOne, Quiet

\* thread_sigmask concerns no wait.
LEMMA MaskSound ==
  ASSUME IInv, NEW t \in Thread, NEW S \in SUBSET Signal, ThreadSigmask(t, S)
  PROVE StepSound
<1>1. KeepWait /\ KeepJoin
      BY MaskFacts
<1>2. QED
      BY <1>1, StillSound DEF ThreadSigmask, Quiet

\* A thread starts: its wait word is set before anybody has its handle.
LEMMA BirthSound ==
  ASSUME IInv, NEW t \in Thread, CreateStarts(t) \/ CreateEnq(t)
  PROVE StepSound
<1>1. ut[t].pc \in {"create_clone", "create_enq"} /\ td \in TdType /\ ut \in UtType
      BY Types DEF CreateStarts, CreateEnq, At, IInv
<1>2. PICK u \in Thread : u = ut[t].arg /\ u # t /\ ut[u].pc = "unborn"
      BY <1>1 DEF IInv, Descriptors, Agrees, Births, NewPc
<1>3. CASE CreateStarts(t)
  <2>1. td' = [td EXCEPT ![u].wait = TRUE]
        BY <1>2, <1>3 DEF CreateStarts
  <2>2. ut' = [ut EXCEPT ![u].pc = "client", ![t].pc = "create_store"]
        BY <1>2, <1>3 DEF CreateStarts
  <2>3. KeepJoin /\ \A x \in Thread \ {u} : td'[x].wait = td[x].wait
        BY <1>1, <2>1 DEF TdType, KeepJoin
  <2>4. \A x \in Thread : \/ ut'[x].pc = ut[x].pc /\ ut'[x].arg = ut[x].arg
                          \/ ut'[x].pc \notin JoinPc /\ ut'[x].pc # "unborn"
        BY <1>1, <1>2, <2>2 DEF UtType, JoinPc, JoinerPc, WaiterPc
  <2>5. \A x \in Thread : Over(x) => ~td'[x].wait
        BY <1>2, <2>3 DEF Over
  <2>6. QED
        BY <1>3, <2>3, <2>4, <2>5, LeaveSound DEF CreateStarts
<1>4. CASE CreateEnq(t)
  <2>1. td' = [td EXCEPT ![t].intr_off = FALSE, ![u].given = TRUE]
        BY <1>2, <1>4 DEF CreateEnq
  <2>2. ut' = [ut EXCEPT ![u].pc = "client", ![t] = [pc |-> "client", arg |-> NULL]]
        BY <1>2, <1>4 DEF CreateEnq
  <2>3. KeepJoin /\ KeepWait
        BY <1>1, <2>1 DEF TdType, KeepJoin, KeepWait
  <2>4. \A x \in Thread : \/ ut'[x].pc = ut[x].pc /\ ut'[x].arg = ut[x].arg
                          \/ ut'[x].pc \notin JoinPc /\ ut'[x].pc # "unborn"
        BY <1>1, <1>2, <2>2 DEF UtType, JoinPc, JoinerPc, WaiterPc
  <2>5. QED
        BY <1>4, <2>3, <2>4, LeaveSound DEF CreateEnq, Over, KeepWait
<1>5. QED
      BY <1>3, <1>4

\* The kernel clears the wait word and ends the sleep on it in one step.
LEMMA KernelExitSound ==
  ASSUME IInv, NEW t \in Thread, KernelExit(t)
  PROVE StepSound
<1>1. ut[t].pc = "exiting" /\ t \in OneOne
      BY DEF KernelExit, At, IInv, Descriptors, Agrees, ExitPc
<1>2. /\ ut'[t].pc = "gone"
      /\ \A x \in Thread : ut'[x].arg = ut[x].arg
      /\ \A x \in Thread \ {t} : \/ ut'[x].pc = ut[x].pc
                                 \/ /\ ut[x].pc = "join_sleep" /\ ut[x].arg = t
                                    /\ ut'[x].pc = "join_done"
      BY <1>1, KernelExitFacts DEF KernelExit
<1>3. /\ ~td'[t].wait /\ KeepJoin /\ freed' = freed /\ mpc' = mpc
      /\ \A x \in Thread \ {t} : td'[x].wait = td[x].wait
      BY Types DEF IInv, KernelExit, TdType, KeepJoin
<1>4. \A x \in Thread : Over(x) => Over(x)'
      BY <1>2, <1>3 DEF Over
<1>5. ASSUME NEW x \in Thread, ut'[x].pc \in StopPc
      PROVE ut[x].pc \in StopPc \/ ~td'[ut[x].arg].wait
      BY <1>2, <1>3, <1>5 DEF StopPc
<1>6. \A x \in Thread : ut'[x].pc \in JoinPc => ut[x].pc \in JoinPc
      BY <1>2 DEF JoinPc, JoinerPc, WaiterPc
<1>7. QED
      BY <1>2, <1>3, <1>4, <1>5, <1>6 DEF StepSound, KeepJoin

\* The dispatcher wakes the sleeper on the wait word it has cleared.
LEMMA FutexWakeSound ==
  ASSUME IInv, NEW k \in KThread, FutexWake(k)
  PROVE StepSound
<1>1. kt[k].pc = "futex_wake" /\ td' = td /\ freed' = freed /\ mpc' = mpc
      BY DEF FutexWake
<1>2. PICK t \in Thread : kt[k].cur = t /\ ~td[t].wait
  <2>1. PICK t \in MMThread : kt[k].cur = t /\ t \in Thread
        BY <1>1, Busy DEF IdlePc
  <2>2. ~td[t].wait
        BY <1>1, <2>1 DEF IInv, Dispatchers, OverPc
  <2>3. QED
        BY <2>1, <2>2
<1>3. Quiet
      BY <1>1 DEF Quiet, KeepWait, KeepJoin
<1>4. CASE ut' = ut
      BY <1>3, <1>4, StillSound
<1>5. ASSUME NEW v \in Sleepers(t), Goto(v, "join_done")
      PROVE StepSound
  <2>1. /\ v \in Thread /\ ut[v].pc = "join_sleep" /\ ut[v].arg = t
        /\ "join_done" \in UserLabel
        BY DEF Sleepers, UserLabel
  <2>2. ut[v].pc \in JoinPc
        BY <2>1 DEF JoinPc, JoinerPc, WaiterPc
  <2>3. QED
        BY <1>2, <1>3, <1>5, <2>1, <2>2, GotoSound
<1>6. QED
      BY <1>2, <1>4, <1>5 DEF FutexWake

\* The other steps of a dispatcher end no wait; one of them clears a wait word.
LEMMA DispatchSound ==
  ASSUME IInv, NEW k \in KThread, Dispatch(k) \/ Preempt(k) \/ PostRepeatAlarm(k)
  PROVE StepSound
<1>1. td \in TdType
      BY Types DEF IInv
<1>2. CASE /\ td' = td /\ ut' = ut /\ freed' = freed /\ mpc' = mpc
      BY <1>2, StillSound DEF Quiet, KeepWait, KeepJoin
<1>3. CASE SigLock(k) \/ ExitLock(k)
      BY <1>1, <1>3, StillSound DEF SigLock, ExitLock, TdType, Quiet, KeepWait, KeepJoin
<1>4. CASE SigSend(k)
      BY <1>1, <1>4, StillSound DEF SigSend, TdType, Quiet, KeepWait, KeepJoin
<1>5. CASE PostWaitJoin(k) \/ ExitCheck(k)
      BY <1>1, <1>5, StillSound DEF PostWaitJoin, ExitCheck, TdType, Quiet, KeepWait, KeepJoin
<1>6. CASE ExitOver(k)
  <2>1. KeepJoin /\ \A x \in Thread : td'[x].wait => td[x].wait
        BY <1>1, <1>6 DEF ExitOver, TdType, KeepJoin
  <2>2. QED
        BY <1>6, <2>1, LeaveSound DEF ExitOver, Over
<1>7. CASE FutexWake(k)
      BY <1>7, FutexWakeSound
<1>8. QED
      BY <1>2, <1>3, <1>4, <1>5, <1>6, <1>7
      DEF Dispatch, Loop, GetLock, Get, Run, Preempt, PostRepeat, PostRepeatAlarm, PostRunning,
          EnqLock, Enq, PostExited, WakeLock, Wake

\* main() frees the stack of thread_main when its wait word is cleared.
LEMMA MainSound ==
  ASSUME IInv, Unmaps, MainStep
  PROVE StepSound
<1>1. CASE MainCreate
  <2>1. td \in TdType /\ ut \in UtType /\ ut[Main].pc = "unborn" /\ Main \in Thread
        BY <1>1, Types, Sets DEF IInv, Births, MainCreate
  <2>2. td[Main].join_td = NULL
        BY <2>1 DEF IInv, Births
  <2>3. /\ \A x \in Thread \ {Main} : td'[x] = td[x]
        /\ td'[Main].join_td = NULL
        BY <1>1, <2>1 DEF MainCreate, td_init, TdType
  <2>4. \A x \in Thread : \/ ut'[x].pc = ut[x].pc /\ ut'[x].arg = ut[x].arg
                          \/ ut'[x].pc \notin JoinPc /\ ut'[x].pc # "unborn"
        BY <1>1, <2>1 DEF MainCreate, Goto, UtType, JoinPc, JoinerPc, WaiterPc
  <2>5. QED
        BY <1>1, <2>1, <2>2, <2>3, <2>4, LeaveSound DEF MainCreate, Over, KeepJoin
<1>2. CASE MainSpin
  <2>1. Over(Main)
        BY <1>2 DEF MainSpin, IInv, Births, Over
  <2>2. td' = td /\ ut' = ut /\ freed' = freed
        BY <1>2 DEF MainSpin
  <2>3. QED
        BY <2>1, <2>2 DEF StepSound, Over, StopPc, JoinPc, JoinerPc, WaiterPc
<1>3. CASE MainFree
  <2>1. Over(Main) /\ mpc' = "deinit" /\ td' = td /\ ut' = ut
        BY <1>3 DEF MainFree, IInv, Births, Unmaps, Over
  <2>2. \A x \in Thread \ {Main} : freed'[x] = freed[x]
        BY <1>3, Types DEF MainFree, IInv
  <2>3. QED
        BY <2>1, <2>2 DEF StepSound, Over, StopPc, JoinPc, JoinerPc, WaiterPc
<1>4. CASE MainDeinit \/ MainReap
      BY <1>4, LeaveSound DEF MainDeinit, MainReap, Over, KeepJoin
<1>5. QED
      BY <1>1, <1>2, <1>3, <1>4 DEF MainStep

\* The invariant of joins and of stacks that are freed.
JInv == IInv /\ Stops /\ Unmaps

\* No thread has been created yet.
LEMMA InitJInv == Init => JInv
<1> SUFFICES ASSUME Init
             PROVE JInv
    OBVIOUS
<1>1. IInv
      BY InitIInv
<1>2. mpc = "create" /\ \A x \in Thread : ut[x].pc = "unborn" /\ freed[x] = 0
      BY DEF Init
<1>3. \A x \in Thread : td[x].join_td = NULL
      BY <1>1, <1>2 DEF IInv, Births
<1>4. QED
      BY <1>1, <1>2, <1>3 DEF JInv, Stops, Unmaps, JoinPc, JoinerPc, WaiterPc, StopPc

\* Every step is sound when no one-one thread that joins is signalled.
LEMMA NextJInv ==
  ASSUME NoSignalledJoiner
  PROVE JInv /\ [Next]_vars => JInv'
<1> SUFFICES ASSUME JInv, [Next]_vars
             PROVE JInv'
    OBVIOUS
<1>1. IInv /\ Stops /\ Unmaps
      BY DEF JInv
<1>2. IInv'
      BY <1>1, NextIInv
<1>3. StepSound
  <2>1. CASE MainStep
        BY <1>1, <2>1, MainSound
  <2>2. ASSUME NEW k \in KThread, Dispatch(k) \/ Preempt(k) \/ PostRepeatAlarm(k)
        PROVE StepSound
        BY <1>1, <2>2, DispatchSound
  <2>3. ASSUME NEW t \in Thread, UserCall(t)
        PROVE StepSound
    <3>1. ASSUME NEW u \in Thread, CreateCall(t, u) \/ JoinCall(t, u)
          PROVE StepSound
          BY <1>1, <3>1, CallSound, JoinCallSound
    <3>2. CASE ThreadExit(t) \/ ThreadYield(t)
          BY <1>1, <3>2, OtherSound
    <3>3. ASSUME NEW u \in Thread, NEW s \in Signal, KillOneOne(t, u, s) \/ KillCall(t, u, s)
          PROVE StepSound
          BY <1>1, <3>3, KillSound, CallSound
    <3>4. ASSUME NEW S \in SUBSET Signal, ThreadSigmask(t, S)
          PROVE StepSound
          BY <1>1, <3>4, MaskSound
    <3>5. QED
          BY <2>3, <3>1, <3>2, <3>3, <3>4 DEF UserCall, CntlCall, SigCall
  <2>4. ASSUME NEW t \in Thread, UserStep(t)
        PROVE StepSound
    <3>1. CASE CreateClone(t)
      <4>1. CreateStarts(t) \/ CreateFails(t)
            BY <3>1 DEF CreateClone, CreateStarts, CreateFails
      <4>2. QED
            BY <1>1, <4>1, BirthSound, OtherSound
    <3>2. CASE CreateStore(t) \/ CreateLock(t) \/ KillLock(t) \/ KillSet(t)
          BY <1>1, <3>2, OtherSound
    <3>3. CASE CreateEnq(t)
          BY <1>1, <3>3, BirthSound
    <3>4. CASE JoinLock(t)
      <4>1. JoinRefused(t) \/ JoinRegisters(t)
            BY <3>4 DEF JoinLock, JoinRefused, JoinRegisters
      <4>2. QED
            BY <1>1, <4>1, JoinSteps, RegistersSound
    <3>5. CASE JoinRefuse(t) \/ JoinCheck(t) \/ JoinFutex(t) \/ JoinResume(t) \/ JoinDone(t)
          BY <1>1, <3>5, JoinSteps
    <3>6. CASE JoinFree(t)
          BY <1>1, <3>6, FreeSound
    <3>7. CASE OneOneLock(t) \/ OneOneCheck(t) \/ OneOneList(t) \/ OneOneEnq(t) \/ YieldBack(t)
          BY <1>1, <3>7, OtherSound
    <3>8. CASE KernelExit(t)
          BY <1>1, <3>8, KernelExitSound
    <3>9. QED
          BY <2>4, <3>1, <3>2, <3>3, <3>4, <3>5, <3>6, <3>7, <3>8 DEF UserStep, CntlStep, SigStep
  <2>5. CASE UNCHANGED vars
        BY <2>5, StillSound DEF vars, Quiet, KeepWait, KeepJoin
  <2>6. QED
        BY <2>1, <2>2, <2>3, <2>4, <2>5 DEF Next, Finished
<1>4. QED
      BY <1>1, <1>2, <1>3, SoundKept DEF JInv

\* A thread whose wait word is cleared has left its stack.
LEMMA OverEnded ==
  ASSUME IInv, NEW u \in Thread, Over(u)
  PROVE Ended(u)
<1>1. CASE u \in OneOne
      BY <1>1 DEF IInv, Joiners, Over, Ended
<1>2. CASE u \in MMThread
  <2>1. ut[u].pc = "exited" /\ ~td[u].wait /\ ~Ready(u)
        BY <1>2 DEF IInv, Dispatchers, Over
  <2>2. \A k \in KThread : kt[k].cur = u => kt[k].pc \in OverPc
        BY <2>1 DEF IInv, Dispatchers
  <2>3. QED
        BY <1>2, <2>1, <2>2, Sets DEF Ended, OverPc
<1>3. QED
      BY <1>1, <1>2, Sets

\* The invariant of joins holds of every client that signals no one-one thread which
\* joins.
THEOREM JoinInvariance ==
  ASSUME NoSignalledJoiner
  PROVE Spec => []JInv
<1>1. Init => JInv
      BY InitJInv
<1>2. JInv /\ [Next]_vars => JInv'
      BY NextJInv
<1>3. QED
      BY <1>1, <1>2, PTL DEF Spec

\* thread_join of either type goes on only when its target, of either type, has left
\* its stack.
THEOREM JoinIsSound ==
  ASSUME NoSignalledJoiner
  PROVE Spec => []JoinSound
<1>1. JInv => JoinSound
  <2> SUFFICES ASSUME JInv, NEW t \in Thread, ut[t].pc \in {"join_done", "join_free"}
               PROVE Ended(ut[t].arg)
      BY DEF JoinSound
  <2>1. IInv /\ ut[t].pc \in JoinPc /\ ~td[ut[t].arg].wait
        BY DEF JInv, Stops, StopPc, JoinPc, JoinerPc, WaiterPc
  <2>2. PICK u \in Thread : u = ut[t].arg /\ td[u].given
        BY <2>1 DEF IInv, Descriptors, Agrees, Births
  <2>3. Over(u)
        BY <2>1, <2>2 DEF IInv, Births, Over
  <2>4. QED
        BY <2>1, <2>2, <2>3, OverEnded
<1>2. QED
      BY <1>1, JoinInvariance, PTL

\* A stack is unmapped once, by the thread that joins or, that of thread_main, by
\* main(), and nobody runs on it any more.
THEOREM StacksFreedOnce ==
  ASSUME NoSignalledJoiner, MainUnjoined
  PROVE Spec => []FreedOnce
<1>1. JInv => FreedOnce
  <2> SUFFICES ASSUME JInv, NEW u \in Thread
               PROVE freed[u] <= 1 /\ (freed[u] > 0 => Ended(u))
      BY DEF FreedOnce
  <2>1. IInv /\ Unmaps
        BY DEF JInv
  <2>2. freed[u] > 0 => Ended(u)
        BY <2>1, OverEnded DEF Unmaps
  <2>3. freed[u] \in Nat
        BY <2>1, Ranges DEF IInv
  <2>4. CASE u # Main
    <3>1. Spent(u) = 0
          BY <2>4 DEF Spent
    <3>2. freed[u] <= Spent(u) + 1
          BY <2>1 DEF IInv, Frees
    <3>3. freed[u] <= 1
          BY <2>3, <3>1, <3>2
    <3>4. QED
          BY <2>2, <3>3
  <2>5. CASE u = Main
    <3>1. td[Main].join_td = NULL
      <4>1. SUFFICES ASSUME td[Main].join_td # NULL
                     PROVE FALSE
            OBVIOUS
      <4>2. <<td[Main].join_td, Main>> \in JoinPairs
            BY <2>1, <4>1, Sets DEF Unmaps
      <4>3. PICK p \in JoinPairs : p[2] = Main
            BY <4>2
      <4>4. QED
            BY <4>3 DEF MainUnjoined
    <3>2. freed[Main] <= Spent(Main)
          BY <2>1, <3>1, Sets DEF IInv, Frees
    <3>3. Spent(Main) \in 0..1
          BY DEF Spent
    <3>4. freed[u] <= 1
          BY <2>3, <2>5, <3>2, <3>3
    <3>5. QED
          BY <2>2, <3>4
  <2>6. QED
        BY <2>2, <2>4, <2>5
<1>2. QED
      BY <1>1, JoinInvariance, PTL
=============================================================================
