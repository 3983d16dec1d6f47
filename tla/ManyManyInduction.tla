------------------------- MODULE ManyManyInduction -------------------------
(***************************************************************************)
(* The inductive invariant of the many-many library and its induction, for *)
(* every set of threads, kernel threads and mutexes and every client that  *)
(* does not call thread_kill.  The theorems are in ManyManyProofs.         *)
(***************************************************************************)
EXTENDS ManyMany, TLAPS

\* The client makes no call of thread_kill.  The call enables the interrupts of
\* its target wherever the target is: what follows fails without this.
NoKill == KillPairs = {}

-----------------------------------------------------------------------------
(* The places of a thread, by what holds there                             *)

MutexPc == {"lock_spin", "lock_check", "lock_queue", "lock_wait", "try_spin",
            "try_check", "unlock_spin", "unlock_check", "unlock_list",
            "unlock_enq", "unlock_rel"}

\* The thread holds the member lock of the mutex.
MemberPc == {"lock_check", "lock_queue", "try_check", "unlock_check",
             "unlock_list", "unlock_enq", "unlock_rel"}

\* The thread is registered with the target of its thread_join.
JoinerPc == {"join_check", "join_wait", "join_free"}

CreatePc == {"create_lock", "create_enq"}

\* The thread is in its own context and cannot be preempted.
OnCpuPc == CreatePc \cup {"join_lock", "join_check", "lock_queue",
                          "unlock_list", "unlock_enq"}

\* The thread has passed the mutex on and not yet made the new owner ready.
HandPc == {"unlock_list", "unlock_enq"}

\* The dispatcher has set the wait word of its thread and looks for the joiner.
WakePc == {"exit_check", "wake_lock", "wake"}

\* td_disable_intr has been called and td_enable_intr not yet.
IntrOffPc == OnCpuPc \cup {"join_wait", "lock_wait", "exited", "yielded"}

\* t is in the wait list of m.
Waits(t, m) == InList(t, mut[m].waitll)

\* t is back in its context, or its dispatcher is about to swap to it.
Resumed(t) == \E k \in KThread : kt[k].cur = t /\ kt[k].pc \in {"run", "user"}

\* The dispatcher that t came back to has not yet looked at its state.
Posting(t) == \E k \in KThread : kt[k].cur = t /\ kt[k].pc = "post"

\* t is on its way out of the wait of thread_join.
GoingOn(t) ==
  \/ ut[t].pc = "join_free"
  \/ ut[t].pc = "join_wait" /\ (Ready(t) \/ Resumed(t))

\* t is neither in the ready list nor on a kernel thread.
Off(t) == ~Ready(t) /\ ~Dispatched(t)

\* t has a descriptor and has not been in the ready list yet.
Fresh(t) == td[t].mem # "none" /\ ut[t].pc = "client" /\ Off(t)

-----------------------------------------------------------------------------
(* The parts of the invariant                                              *)

Distinct(s) == \A i, j \in 1..Len(s) : s[i] = s[j] => i = j

\* OnePlace, in the words of this module.
Places ==
  /\ Distinct(mmrll)
  /\ \A k, l \in KThread : kt[k].cur = kt[l].cur /\ kt[k].cur # NULL => k = l
  /\ \A t \in Thread : Ready(t) => ~Dispatched(t)
  /\ \A m \in Mutex : Distinct(mut[m].waitll)
  /\ \A m \in Mutex, t \in Thread : Waits(t, m) =>
       ~Ready(t) /\ (Dispatched(t) => Posting(t))

\* What the place l and the argument a of a thread say of its state s, its wait
\* target f and its interrupt flag i.
Agrees(l, a, s, f, i) ==
  /\ l \notin {"kill_lock", "kill_set", "kill_intr"}
  /\ s = "WAIT_JOIN" <=> l \in {"join_check", "join_wait"}
  /\ s = "WAIT_MUTEX" <=> l \in {"lock_queue", "lock_wait"}
  /\ s \in {"EXITED", "JOINED"} <=> l = "exited"
  /\ l \in IntrOffPc => i
  /\ l \in {"client", "exited", "yielded"} => a = NULL
  /\ l \in CreatePc \cup JoinerPc \cup {"join_lock", "join_refuse"} => a \in Thread
  /\ l \in MutexPc => a \in Mutex
  /\ f = IF l \in {"join_check", "join_wait", "lock_queue", "lock_wait"} THEN a ELSE NULL

\* The descriptor of a thread agrees with the place of the thread.
Descriptors ==
  \A t \in Thread :
    Agrees(ut[t].pc, ut[t].arg, td[t].state, td[t].wait_for, td[t].intr_off)

\* The place of a dispatcher agrees with the place of its thread.
Dispatchers ==
  /\ \A k \in KThread :
       kt[k].cur = NULL <=> kt[k].pc \in {"loop", "get_lock", "get", "returned"}
  /\ \A k \in KThread, t \in Thread : kt[k].cur = t =>
       /\ kt[k].pc \in {"sig_lock", "sig_send", "enq_lock", "enq"} =>
            td[t].state = "RUNNING"
       /\ kt[k].pc \in {"run", "user"} => ut[t].pc # "exited"
       /\ kt[k].pc \in WakePc \cup {"exit_lock", "exit_over"} => ut[t].pc = "exited"
  /\ \A t \in Thread :
       /\ ut[t].pc \in OnCpuPc => Runs(t)
       /\ ut[t].pc = "exited" => ~Ready(t)
       /\ ut[t].pc \notin {"client", "lock_wait", "join_wait", "exited"} => ~Off(t)

\* The member lock of a mutex is held from mut_lock to mut_unlock, or until the
\* dispatcher releases it for a waiter.
MemberLocks ==
  \A t \in Thread, m \in Mutex : ut[t].arg = m =>
    /\ mut[m].mem = "live"
    /\ ut[t].pc \in MemberPc => mut[m].mem_lock = t
    /\ ut[t].pc = "lock_wait" /\ Posting(t) => mut[m].mem_lock = t /\ Waits(t, m)

\* A thread in the wait list is in thread_mutex_lock and waits for an owner; one
\* that has left the list is the owner.
Waiters ==
  \A t \in Thread, m \in Mutex :
    /\ Waits(t, m) =>
         ut[t].pc = "lock_wait" /\ ut[t].arg = m /\ mut[m].owner # NULL
    /\ ut[t].pc = "lock_wait" /\ ut[t].arg = m => Waits(t, m) \/ mut[m].owner = t

\* An owner has acquired the mutex or has been handed it, and has a mutex.
Owners ==
  /\ \A t \in Thread, m \in Mutex :
       /\ ut[t].pc \in {"lock_queue", "unlock_rel"} /\ ut[t].arg = m =>
            mut[m].owner # NULL
       /\ mut[m].owner = t =>
            t \in inCS[m] \/ (ut[t].pc = "lock_wait" /\ ut[t].arg = m)
  /\ \A m \in Mutex : mut[m].mem = "none" => mut[m].owner = NULL

\* A thread that has been handed a mutex and is nowhere is in the hands of the
\* release that passed the mutex on, and the other way round.
Handing ==
  /\ \A t, w \in Thread, m \in Mutex :
       ut[t].pc \in HandPc /\ ut[t].arg = m /\ mut[m].owner = w =>
         ut[w].pc = "lock_wait" /\ ut[w].arg = m /\ ~Waits(w, m) /\ Off(w)
  /\ \A t \in Thread, m \in Mutex :
       ut[t].pc \in HandPc /\ ut[t].arg = m => mut[m].owner # NULL
  /\ \A w \in Thread, m \in Mutex :
       ut[w].pc = "lock_wait" /\ ut[w].arg = m /\ Off(w) /\ ~Waits(w, m) =>
         \E t \in Thread : ut[t].pc \in HandPc /\ ut[t].arg = m

\* The joiner of a thread, the lock of its descriptor and its wait word.
Joins ==
  /\ \A t, u \in Thread : ut[t].arg = u =>
       /\ ut[t].pc \in JoinerPc \cup {"join_lock", "join_refuse"} => t # u
       /\ ut[t].pc \in {"join_refuse", "join_check"} => td[u].mem_lock = t
       /\ ut[t].pc \in JoinerPc => td[u].join_thread = t /\ td[u].state # "JOINED"
       /\ ut[t].pc = "join_wait" /\ Posting(t) => td[u].mem_lock = t /\ td[u].wait
       /\ GoingOn(t) => ~td[u].wait /\ ~Dispatched(u)
  /\ \A u \in Thread :
       /\ ~td[u].wait => ut[u].pc = "exited"
       /\ td[u].state = "JOINED" => /\ td[u].mem = "freed" /\ td[u].join_thread # NULL
                                    /\ ~td[u].wait /\ ~Dispatched(u)
  /\ \A u, j \in Thread : td[u].join_thread = j /\ td[u].state # "JOINED" =>
       ut[j].pc \in JoinerPc /\ ut[j].arg = u

\* The end of a thread: its dispatcher sets the wait word under the lock and, if
\* somebody joins, finds the joiner parked.  A joiner that is parked although its
\* target is over is in the hands of the target's dispatcher.
Exits ==
  /\ \A k \in KThread, u \in Thread : kt[k].cur = u =>
       /\ kt[k].pc \in {"sig_send", "exit_over", "exit_check"} => td[u].mem_lock = k
       /\ kt[k].pc \in {"post", "exit_lock", "exit_over"} => td[u].wait
       /\ kt[k].pc \in WakePc => ~td[u].wait
       /\ kt[k].pc \in {"wake_lock", "wake"} => td[u].join_thread # NULL
       /\ kt[k].pc \in WakePc \cup {"exit_over"} =>
            \A j \in Thread : td[u].join_thread = j => ut[j].pc = "join_wait" /\ Off(j)
  /\ \A t, u \in Thread :
       ut[t].pc = "join_wait" /\ ut[t].arg = u /\ Off(t) /\ ~td[u].wait =>
         \E k \in KThread : kt[k].pc \in WakePc /\ kt[k].cur = u

\* A handle that thread_create has not given out is nowhere.
Unborn ==
  \A u \in Thread : td[u].mem = "none" =>
    /\ ut[u].pc = "client" /\ Off(u)
    /\ td[u].wait /\ td[u].join_thread = NULL /\ td[u].mem_lock = NULL
    /\ \A t \in Thread : ut[t].arg # u

\* A new thread is in one creator's hand until it is put in the ready list.
Creation ==
  /\ \A t, u \in Thread : ut[t].pc \in CreatePc /\ ut[t].arg = u =>
       Fresh(u) /\ u # Main
  /\ \A t, s \in Thread :
       ut[t].pc \in CreatePc /\ ut[s].pc \in CreatePc /\ ut[t].arg = ut[s].arg => t = s
  /\ \A u \in Thread : Fresh(u) =>
       \/ u = Main /\ mpc \in CreatePc
       \/ \E t \in Thread : ut[t].pc \in CreatePc /\ ut[t].arg = u
  /\ mpc = "create" <=> td[Main].mem = "none"
  /\ mpc \in CreatePc => Fresh(Main)

\* Who holds the locks that are spun on with interrupts off.
SpinLocks ==
  /\ \A t \in Thread : mmrll_lk = t => ut[t].pc \in {"create_enq", "unlock_enq"}
  /\ \A t, u \in Thread : td[u].mem_lock = t =>
       /\ ut[t].arg = u
       /\ \/ ut[t].pc \in {"join_refuse", "join_check"}
          \/ ut[t].pc = "join_wait" /\ Posting(t)

\* The mutexes and the threads that use them.
MutexSide == /\ MemberLocks
             /\ Waiters
             /\ Owners
             /\ MutexExclusion
             /\ Handing

\* The lives of the threads.
ThreadSide == /\ Joins
              /\ Exits
              /\ Unborn
              /\ Creation

\* The inductive invariant.
IInv == /\ TypeOK
        /\ Places
        /\ Descriptors
        /\ Dispatchers
        /\ MutexSide
        /\ ThreadSide
        /\ SpinLocks

-----------------------------------------------------------------------------
(* What a step does to the fields: the facts the induction works with      *)

\* t goes to place l with the argument a; every other thread stays.
UtSet(t, l, a) ==
  \A x \in Thread : /\ ut'[x].pc = IF x = t THEN l ELSE ut[x].pc
                    /\ ut'[x].arg = IF x = t THEN a ELSE ut[x].arg

\* k goes to place l with the thread c; every other dispatcher stays.
KtSet(k, l, c) ==
  \A j \in KThread : /\ kt'[j].pc = IF j = k THEN l ELSE kt[j].pc
                     /\ kt'[j].cur = IF j = k THEN c ELSE kt[j].cur

\* The fields of m become e, o, w and l; every other mutex stays.
MutSet(m, e, o, w, l) ==
  \A n \in Mutex : /\ mut'[n].mem = IF n = m THEN e ELSE mut[n].mem
                   /\ mut'[n].owner = IF n = m THEN o ELSE mut[n].owner
                   /\ mut'[n].waitll = IF n = m THEN w ELSE mut[n].waitll
                   /\ mut'[n].mem_lock = IF n = m THEN l ELSE mut[n].mem_lock

UtType == [Thread -> [pc: UserLabel,
                      arg: Thread \cup Mutex \cup (Thread \X Signal) \cup {NULL}]]

KtType == [KThread -> [pc: DispatchLabel, cur: Thread \cup {NULL},
                       pend: SUBSET Signal]]

MutType == [Mutex -> [mem: {"none", "live"}, owner: Thread \cup {NULL},
                      waitll: Seq(Thread), mem_lock: Lock]]

TdType == [Thread ->
             [mem: {"none", "live", "freed"}, state: States, wait: BOOLEAN,
              join_thread: Thread \cup {NULL},
              wait_for: Thread \cup Mutex \cup {NULL}, intr_off: BOOLEAN,
              pend_sig: SUBSET Signal, blocked: SUBSET Signal, mem_lock: Lock]]

KeepMem == \A x \in Thread : td'[x].mem = td[x].mem
KeepState == \A x \in Thread : td'[x].state = td[x].state
KeepWait == \A x \in Thread : td'[x].wait = td[x].wait
KeepJoin == \A x \in Thread : td'[x].join_thread = td[x].join_thread
KeepJoined == \A x \in Thread : td'[x].state = "JOINED" <=> td[x].state = "JOINED"
KeepFor == \A x \in Thread : td'[x].wait_for = td[x].wait_for
KeepIntr == \A x \in Thread : td'[x].intr_off = td[x].intr_off
KeepLock == \A x \in Thread : td'[x].mem_lock = td[x].mem_lock

\* The state, the wait target and the interrupt flag of t become s, f and i; those
\* of the other threads stay.
DescrSet(t, s, f, i) ==
  \A x \in Thread : /\ td'[x].state = IF x = t THEN s ELSE td[x].state
                    /\ td'[x].wait_for = IF x = t THEN f ELSE td[x].wait_for
                    /\ td'[x].intr_off = IF x = t THEN i ELSE td[x].intr_off

\* Nothing else changes in any descriptor.
WaitSet(t, s, f, i) == /\ DescrSet(t, s, f, i)
                       /\ KeepMem /\ KeepWait /\ KeepJoin /\ KeepLock

\* A thread goes to another place of its call.
LEMMA GotoFacts ==
  ASSUME TypeOK, NEW t \in Thread, NEW l \in UserLabel, Goto(t, l)
  PROVE /\ UtSet(t, l, ut[t].arg)
        /\ ut' \in UtType
  BY ZenonT(60) DEF TypeOK, Goto, UtSet, UtType

\* A thread starts a call.
LEMMA CallFacts ==
  ASSUME TypeOK, NEW t \in Thread, NEW l \in UserLabel,
         NEW a \in Thread \cup Mutex \cup {NULL},
         ut' = [ut EXCEPT ![t] = [pc |-> l, arg |-> a]]
  PROVE /\ UtSet(t, l, a)
        /\ ut' \in UtType
  BY DEF TypeOK, UtSet, UtType

\* A call returns.
LEMMA ReturnFacts ==
  ASSUME TypeOK, NEW t \in Thread, Return(t)
  PROVE /\ UtSet(t, "client", NULL)
        /\ ut' \in UtType
  BY DEF TypeOK, UserLabel, Return, UtSet, UtType

\* A dispatcher moves on.
LEMMA StepFacts ==
  ASSUME TypeOK, NEW k \in KThread, NEW l \in DispatchLabel,
         kt' = [kt EXCEPT ![k].pc = l]
  PROVE /\ KtSet(k, l, kt[k].cur)
        /\ kt' \in KtType
<1>1. kt \in KtType
      BY DEF TypeOK, KtType
<1>2. KtSet(k, l, kt[k].cur)
      BY <1>1 DEF KtSet, KtType
<1>3. QED
      BY <1>1, <1>2 DEF KtType

\* A dispatcher goes back to its loop.
LEMMA ToLoopFacts ==
  ASSUME TypeOK, NEW k \in KThread, ToLoop(k)
  PROVE /\ KtSet(k, "loop", NULL)
        /\ kt' \in KtType
<1>1. kt \in KtType
      BY DEF TypeOK, KtType
<1>2. KtSet(k, "loop", NULL)
      BY <1>1 DEF KtSet, KtType, ToLoop
<1>3. kt' = [[kt EXCEPT ![k].pc = "loop"] EXCEPT ![k].cur = NULL]
      BY <1>1 DEF ToLoop, KtType
<1>4. "loop" \in DispatchLabel
      BY DEF DispatchLabel
<1>5. QED
      BY <1>1, <1>2, <1>3, <1>4 DEF KtType

\* A mutex gets new values.
LEMMA MutFacts ==
  ASSUME TypeOK, NEW m \in Mutex, NEW e \in {"none", "live"},
         NEW o \in Thread \cup {NULL}, NEW w \in Seq(Thread), NEW l \in Lock,
         mut' = [mut EXCEPT ![m] = [mem |-> e, owner |-> o, waitll |-> w,
                                    mem_lock |-> l]]
  PROVE /\ MutSet(m, e, o, w, l)
        /\ mut' \in MutType
<1>1. mut \in MutType
      BY DEF TypeOK, MutType
<1>2. QED
      BY <1>1 DEF MutSet, MutType

\* The member lock of a mutex gets a new value.
LEMMA MemLockFacts ==
  ASSUME TypeOK, NEW m \in Mutex, NEW l \in Lock,
         mut' = [mut EXCEPT ![m].mem_lock = l]
  PROVE /\ MutSet(m, mut[m].mem, mut[m].owner, mut[m].waitll, l)
        /\ mut' \in MutType
<1>1. mut \in MutType
      BY DEF TypeOK, MutType
<1>2. QED
      BY <1>1 DEF MutSet, MutType

\* A descriptor with a new value in one field is one.
LEMMA TdUpdates ==
  ASSUME NEW d \in TdType, NEW t \in Thread
  PROVE /\ \A e \in {"none", "live", "freed"} : [d EXCEPT ![t].mem = e] \in TdType
        /\ \A s \in States : [d EXCEPT ![t].state = s] \in TdType
        /\ \A i \in BOOLEAN : [d EXCEPT ![t].wait = i] \in TdType
        /\ \A j \in Thread \cup {NULL} : [d EXCEPT ![t].join_thread = j] \in TdType
        /\ \A f \in Thread \cup Mutex \cup {NULL} : [d EXCEPT ![t].wait_for = f] \in TdType
        /\ \A i \in BOOLEAN : [d EXCEPT ![t].intr_off = i] \in TdType
        /\ \A S \in SUBSET Signal : [d EXCEPT ![t].pend_sig = S] \in TdType
        /\ \A S \in SUBSET Signal : [d EXCEPT ![t].blocked = S] \in TdType
        /\ \A h \in Lock : [d EXCEPT ![t].mem_lock = h] \in TdType
  BY DEF TdType

\* The interrupts of a thread are enabled or disabled.
LEMMA IntrFacts ==
  ASSUME TypeOK, NEW t \in Thread, NEW i \in BOOLEAN,
         td' = [td EXCEPT ![t].intr_off = i]
  PROVE /\ WaitSet(t, td[t].state, td[t].wait_for, i)
        /\ td' \in TdType
<1>1. td \in TdType
      BY DEF TypeOK, TdType
<1>2. QED
      BY <1>1 DEF WaitSet, DescrSet, KeepMem, KeepWait, KeepJoin, KeepLock, TdType

\* A thread starts or ends a wait.
LEMMA WaitFacts ==
  ASSUME TypeOK, NEW t \in Thread, NEW s \in States,
         NEW f \in Thread \cup Mutex \cup {NULL}, NEW i \in BOOLEAN,
         \/ td' = [td EXCEPT ![t].intr_off = i, ![t].state = s, ![t].wait_for = f]
         \/ td' = [td EXCEPT ![t].wait_for = f, ![t].state = s, ![t].intr_off = i]
         \/ td' = [td EXCEPT ![t].state = s, ![t].wait_for = f, ![t].intr_off = i]
  PROVE /\ WaitSet(t, s, f, i)
        /\ td' \in TdType
<1>1. td \in TdType
      BY DEF TypeOK, TdType
<1>2. WaitSet(t, s, f, i)
      BY <1>1 DEF WaitSet, DescrSet, KeepMem, KeepWait, KeepJoin, KeepLock, TdType
<1>3. \/ td' = [[[td EXCEPT ![t].intr_off = i] EXCEPT ![t].state = s] EXCEPT ![t].wait_for = f]
      \/ td' = [[[td EXCEPT ![t].wait_for = f] EXCEPT ![t].state = s] EXCEPT ![t].intr_off = i]
      \/ td' = [[[td EXCEPT ![t].state = s] EXCEPT ![t].wait_for = f] EXCEPT ![t].intr_off = i]
      BY <1>1 DEF TdType
<1>4. /\ \A d \in TdType : [d EXCEPT ![t].intr_off = i] \in TdType
      /\ \A d \in TdType : [d EXCEPT ![t].state = s] \in TdType
      /\ \A d \in TdType : [d EXCEPT ![t].wait_for = f] \in TdType
      BY TdUpdates
<1>5. td' \in TdType
      BY <1>1, <1>3, <1>4
<1>6. QED
      BY <1>2, <1>5

\* The descriptor of the thread that makes the step agrees with its new place,
\* and the other descriptors and places stay.
LEMMA DescriptorsKept ==
  ASSUME Descriptors, NEW t \in Thread, NEW l, NEW a, NEW s, NEW f, NEW i,
         UtSet(t, l, a), DescrSet(t, s, f, i), Agrees(l, a, s, f, i)
  PROVE Descriptors'
<1> SUFFICES ASSUME NEW x \in Thread
             PROVE Agrees(ut'[x].pc, ut'[x].arg, td'[x].state, td'[x].wait_for,
                          td'[x].intr_off)
    BY DEF Descriptors
<1>1. CASE x = t
      BY <1>1 DEF UtSet, DescrSet
<1>2. CASE x # t
      BY <1>2 DEF UtSet, DescrSet, Descriptors
<1>3. QED
      BY <1>1, <1>2
-----------------------------------------------------------------------------
(* Lists                                                                   *)

\* list_enqueue adds one thread and keeps the others.
LEMMA AppendFacts ==
  ASSUME NEW s \in Seq(Thread), NEW w \in Thread
  PROVE /\ Append(s, w) \in Seq(Thread)
        /\ \A x \in Thread : InList(x, Append(s, w)) <=> InList(x, s) \/ x = w
        /\ Distinct(s) /\ ~InList(w, s) => Distinct(Append(s, w))
<1>1. /\ Append(s, w) \in Seq(Thread)
      /\ Len(s) \in Nat
      /\ Len(Append(s, w)) = Len(s) + 1
      /\ \A i \in 1..Len(s) : Append(s, w)[i] = s[i]
      /\ Append(s, w)[Len(s) + 1] = w
      OBVIOUS
<1> DEFINE q == Append(s, w)
<1> HIDE DEF q
<1>2. ASSUME NEW x \in Thread PROVE InList(x, q) <=> InList(x, s) \/ x = w
  <2>1. ASSUME InList(x, q) PROVE InList(x, s) \/ x = w
    <3>1. PICK i \in 1..Len(q) : q[i] = x
          BY <2>1 DEF InList
    <3>2. CASE i = Len(s) + 1
          BY <1>1, <3>1, <3>2 DEF q
    <3>3. CASE i # Len(s) + 1
      <4>1. i \in 1..Len(s)
            BY <1>1, <3>3 DEF q
      <4>2. QED
            BY <1>1, <3>1, <4>1 DEF q, InList
    <3>4. QED
          BY <3>2, <3>3
  <2>2. ASSUME InList(x, s) PROVE InList(x, q)
    <3>1. PICK i \in 1..Len(s) : s[i] = x
          BY <2>2 DEF InList
    <3>2. i \in 1..Len(q) /\ q[i] = x
          BY <1>1, <3>1 DEF q
    <3>3. QED
          BY <3>2 DEF InList
  <2>3. ASSUME x = w PROVE InList(x, q)
    <3>1. Len(s) + 1 \in 1..Len(q) /\ q[Len(s) + 1] = x
          BY <1>1, <2>3 DEF q
    <3>2. QED
          BY <3>1 DEF InList
  <2>4. QED
        BY <2>1, <2>2, <2>3
<1>3. ASSUME Distinct(s), ~InList(w, s) PROVE Distinct(q)
  <2> SUFFICES ASSUME NEW i \in 1..Len(q), NEW j \in 1..Len(q), q[i] = q[j]
               PROVE i = j
      BY DEF Distinct
  <2>1. \A h \in 1..Len(s) : q[h] # w /\ q[h] = s[h]
        BY <1>1, <1>3 DEF q, InList
  <2>2. CASE i = Len(s) + 1 \/ j = Len(s) + 1
        BY <1>1, <2>1, <2>2 DEF q
  <2>3. CASE i # Len(s) + 1 /\ j # Len(s) + 1
    <3>1. i \in 1..Len(s) /\ j \in 1..Len(s)
          BY <1>1, <2>3 DEF q
    <3>2. QED
          BY <1>3, <2>1, <3>1 DEF Distinct
  <2>4. QED
        BY <2>2, <2>3
<1>4. QED
      BY <1>1, <1>2, <1>3 DEF q

\* list_dequeue removes the first thread and keeps the others.
LEMMA TailFacts ==
  ASSUME NEW s \in Seq(Thread), s # <<>>, Distinct(s)
  PROVE /\ Tail(s) \in Seq(Thread)
        /\ Head(s) \in Thread
        /\ InList(Head(s), s)
        /\ \A x \in Thread : InList(x, Tail(s)) <=> InList(x, s) /\ x # Head(s)
        /\ Distinct(Tail(s))
<1>1. /\ Tail(s) \in Seq(Thread)
      /\ Len(s) \in Nat /\ Len(s) > 0
      /\ Len(Tail(s)) = Len(s) - 1
      /\ \A i \in 1..(Len(s) - 1) : Tail(s)[i] = s[i + 1]
      /\ Head(s) = s[1]
      /\ s[1] \in Thread
      OBVIOUS
<1> DEFINE q == Tail(s)
<1> HIDE DEF q
<1>2. InList(s[1], s)
      BY <1>1 DEF InList
<1>3. ASSUME NEW x \in Thread PROVE InList(x, q) <=> InList(x, s) /\ x # s[1]
  <2>1. ASSUME InList(x, q) PROVE InList(x, s) /\ x # s[1]
    <3>1. PICK i \in 1..Len(q) : q[i] = x
          BY <2>1 DEF InList
    <3>2. i + 1 \in 1..Len(s) /\ s[i + 1] = x /\ i + 1 # 1 /\ 1 \in 1..Len(s)
          BY <1>1, <3>1 DEF q
    <3>3. QED
          BY <3>2 DEF InList, Distinct
  <2>2. ASSUME InList(x, s), x # s[1] PROVE InList(x, q)
    <3>1. PICK i \in 1..Len(s) : s[i] = x
          BY <2>2 DEF InList
    <3>2. i - 1 \in 1..Len(q) /\ i = (i - 1) + 1
          BY <1>1, <2>2, <3>1 DEF q
    <3>3. q[i - 1] = x
          BY <1>1, <3>1, <3>2 DEF q
    <3>4. QED
          BY <3>2, <3>3 DEF InList
  <2>3. QED
        BY <2>1, <2>2
<1>4. Distinct(q)
  <2> SUFFICES ASSUME NEW i \in 1..Len(q), NEW j \in 1..Len(q), q[i] = q[j]
               PROVE i = j
      BY DEF Distinct
  <2>1. /\ i + 1 \in 1..Len(s) /\ j + 1 \in 1..Len(s)
        /\ s[i + 1] = s[j + 1]
        BY <1>1 DEF q
  <2>2. i + 1 = j + 1
        BY <2>1 DEF Distinct
  <2>3. QED
        BY <1>1, <2>2 DEF q
<1>5. QED
      BY <1>1, <1>2, <1>3, <1>4 DEF q

-----------------------------------------------------------------------------
(* Where the threads are after a step                                      *)

\* x is where it was.
SameWhere(x) == /\ Ready(x)' <=> Ready(x)
                /\ Dispatched(x)' <=> Dispatched(x)
                /\ Runs(x)' <=> Runs(x)
                /\ Posting(x)' <=> Posting(x)
                /\ Resumed(x)' <=> Resumed(x)

\* A step of a thread in its own context moves nobody.
LEMMA WhereSame ==
  ASSUME kt' = kt, mmrll' = mmrll
  PROVE \A x \in Thread : SameWhere(x)
  BY DEF SameWhere, Ready, Dispatched, Runs, Posting, Resumed

\* Nor does a dispatcher that has no thread.
LEMMA WhereIdle ==
  ASSUME NEW k \in KThread, kt[k].cur = NULL, NEW l,
         KtSet(k, l, NULL), mmrll' = mmrll
  PROVE \A x \in Thread : SameWhere(x)
  BY HandleAssumption DEF KtSet, SameWhere, Ready, Dispatched, Runs, Posting, Resumed

\* A dispatcher takes a step and keeps its thread.
LEMMA WhereStep ==
  ASSUME Places, NEW k \in KThread, NEW t \in Thread, kt[k].cur = t,
         NEW l, KtSet(k, l, t), mmrll' = mmrll
  PROVE /\ \A x \in Thread \ {t} : SameWhere(x)
        /\ Ready(t)' <=> Ready(t)
        /\ Dispatched(t) /\ Dispatched(t)'
        /\ Runs(t)' <=> l = "user"
        /\ Runs(t) <=> kt[k].pc = "user"
        /\ Posting(t)' <=> l = "post"
        /\ Posting(t) <=> kt[k].pc = "post"
        /\ Resumed(t)' <=> l \in {"run", "user"}
        /\ Resumed(t) <=> kt[k].pc \in {"run", "user"}
  BY HandleAssumption DEF Places, KtSet, SameWhere, Ready, Dispatched, Runs, Posting,
     Resumed

\* A dispatcher goes back to its loop without its thread.
LEMMA WhereLoop ==
  ASSUME Places, NEW k \in KThread, NEW t \in Thread, kt[k].cur = t,
         KtSet(k, "loop", NULL)
  PROVE /\ \A x \in Thread \ {t} : /\ Dispatched(x)' <=> Dispatched(x)
                                   /\ Runs(x)' <=> Runs(x)
                                   /\ Posting(x)' <=> Posting(x)
                                   /\ Resumed(x)' <=> Resumed(x)
        /\ Dispatched(t) /\ ~Dispatched(t)' /\ ~Runs(t)' /\ ~Posting(t)' /\ ~Resumed(t)'
        /\ Runs(t) <=> kt[k].pc = "user"
        /\ Posting(t) <=> kt[k].pc = "post"
        /\ Resumed(t) <=> kt[k].pc \in {"run", "user"}
  BY HandleAssumption DEF Places, KtSet, Dispatched, Runs, Posting, Resumed

\* A dispatcher takes a thread from the ready list.
LEMMA WhereGet ==
  ASSUME Places, NEW k \in KThread, NEW t \in Thread, kt[k].cur = NULL,
         ~Dispatched(t), NEW l, KtSet(k, l, t)
  PROVE /\ \A x \in Thread \ {t} : /\ Dispatched(x)' <=> Dispatched(x)
                                   /\ Runs(x)' <=> Runs(x)
                                   /\ Posting(x)' <=> Posting(x)
                                   /\ Resumed(x)' <=> Resumed(x)
        /\ Dispatched(t)' /\ ~Runs(t) /\ ~Posting(t) /\ ~Resumed(t)
        /\ Runs(t)' <=> l = "user"
        /\ Posting(t)' <=> l = "post"
        /\ Resumed(t)' <=> l \in {"run", "user"}
  BY HandleAssumption DEF Places, KtSet, Dispatched, Runs, Posting, Resumed
-----------------------------------------------------------------------------
(* What the invariant says of a thread that runs                           *)

\* Every field is in its range, said field by field.
LEMMA Ranges ==
  ASSUME TypeOK
  PROVE /\ \A k \in KThread : /\ kt[k].cur \in Thread \cup {NULL}
                               /\ kt[k].pc \in DispatchLabel
        /\ \A x \in Thread : /\ ut[x].pc \in UserLabel
                             /\ td[x].join_thread \in Thread \cup {NULL}
                             /\ td[x].state \in States
        /\ \A m \in Mutex : /\ mut[m].owner \in Thread \cup {NULL}
                             /\ mut[m].waitll \in Seq(Thread)
                             /\ inCS[m] \subseteq Thread
        /\ mmrll \in Seq(Thread)
  BY DEF TypeOK

\* A thread that runs is on one kernel thread and nowhere else, has a
\* descriptor, is not over and waits for nothing.
LEMMA Acting ==
  ASSUME IInv, NEW k \in KThread, NEW t \in Thread, kt[k].pc = "user", kt[k].cur = t
  PROVE /\ \A j \in KThread : kt[j].cur = t => j = k
        /\ Runs(t) /\ Resumed(t) /\ Dispatched(t) /\ ~Ready(t) /\ ~Posting(t)
        /\ td[t].mem # "none" /\ td[t].wait
        /\ ut[t].pc # "exited"
        /\ \A m \in Mutex : ~Waits(t, m)
<1>1. \A j \in KThread : kt[j].cur = t => j = k
      BY HandleAssumption DEF IInv, Places
<1>2. Runs(t) /\ Resumed(t) /\ Dispatched(t) /\ ~Posting(t)
      BY <1>1 DEF Runs, Resumed, Dispatched, Posting
<1>3. ~Ready(t) /\ \A m \in Mutex : ~Waits(t, m)
      BY <1>2 DEF IInv, Places
<1>4. ut[t].pc # "exited"
      BY DEF IInv, Dispatchers
<1>5. td[t].mem # "none" /\ td[t].wait
      BY <1>2, <1>4 DEF IInv, ThreadSide, Unborn, Joins, Off
<1>6. QED
      BY <1>1, <1>2, <1>3, <1>4, <1>5
-----------------------------------------------------------------------------
(* The frame: what a step that has nothing to do with a mutex, or nothing  *)
(* with the life of a thread, leaves alone                                 *)

\* x makes a step outside the mutexes, or none.
OutsideMutexes(x) ==
  \/ ut'[x].pc = ut[x].pc /\ ut'[x].arg = ut[x].arg
  \/ /\ ut[x].pc \notin MutexPc /\ ut'[x].pc \notin MutexPc
     /\ ut[x].arg \notin Mutex /\ ut'[x].arg \notin Mutex

\* A step that changes no mutex and wakes no waiter.
LEMMA MutexFrame ==
  ASSUME MutexSide, mut' = mut, inCS' = inCS,
         \A x \in Thread : OutsideMutexes(x),
         \A x \in Thread : ut[x].pc = "lock_wait" =>
           (Off(x)' <=> Off(x)) /\ (Posting(x)' => Posting(x))
  PROVE MutexSide'
<1>1. \A x \in Thread, m \in Mutex : Waits(x, m)' <=> Waits(x, m)
      BY DEF Waits
<1>2. MemberLocks'
      BY <1>1 DEF MutexSide, MemberLocks, MemberPc, OutsideMutexes, MutexPc
<1>3. Waiters'
      BY <1>1 DEF MutexSide, Waiters, OutsideMutexes, MutexPc
<1>4. Owners'
      BY <1>1 DEF MutexSide, Owners, OutsideMutexes, MutexPc
<1>5. MutexExclusion'
      BY DEF MutexSide, MutexExclusion
<1>6. Handing'
      BY <1>1 DEF MutexSide, Handing, HandPc, OutsideMutexes, MutexPc
<1>7. QED
      BY <1>2, <1>3, <1>4, <1>5, <1>6 DEF MutexSide

\* x makes a step inside a call of a mutex and is on a kernel thread, or it
\* makes none.
InsideMutexes(x) ==
  \/ ut'[x].pc = ut[x].pc /\ ut'[x].arg = ut[x].arg
  \/ /\ ut[x].pc \in MutexPc \cup {"client"} /\ ut'[x].pc \in MutexPc \cup {"client"}
     /\ ut[x].arg \notin Thread /\ ut'[x].arg \notin Thread
     /\ ~Off(x) /\ ~Off(x)' /\ td[x].mem # "none"

\* j keeps its thread, or comes back from one that is not over.
Parking(j) ==
  \/ kt'[j].pc = kt[j].pc /\ kt'[j].cur = kt[j].cur
  \/ /\ kt[j].pc \in {"user", "post"} /\ kt'[j].pc \in {"post", "loop"}
     /\ \A u \in Thread : kt'[j].cur = u => td[u].wait

\* A step inside a call of a mutex.
LEMMA ThreadFrame ==
  ASSUME ThreadSide, SpinLocks, Descriptors, Dispatchers, mpc' = mpc,
         KeepMem, KeepWait, KeepJoin, KeepLock,
         \A x \in Thread : td'[x].state = "JOINED" <=> td[x].state = "JOINED",
         \A x \in Thread : InsideMutexes(x),
         \A x \in Thread : ut'[x].pc # "lock_wait" => SameWhere(x),
         \A x \in Thread : ut'[x].pc = "lock_wait" => ut[x].pc \in MutexPc,
         \A j \in KThread : Parking(j)
  PROVE ThreadSide'
<1>1. Joins'
      BY DEF ThreadSide, KeepMem, KeepWait, KeepJoin, KeepLock, InsideMutexes, SameWhere,
         Joins, GoingOn, JoinerPc, MutexPc
<1>2. Exits'
      BY DEF ThreadSide, KeepMem, KeepWait, KeepJoin, KeepLock, InsideMutexes, SameWhere,
         Parking, Exits, WakePc, Off, MutexPc
<1>3. Unborn'
      BY DEF ThreadSide, KeepMem, KeepWait, KeepJoin, KeepLock, InsideMutexes, SameWhere,
         Unborn, Off, MutexPc
<1>4. Creation'
  <2>1. \A x \in Thread : /\ ut'[x].pc \in CreatePc <=> ut[x].pc \in CreatePc
                          /\ ut[x].pc \in CreatePc => ut'[x].arg = ut[x].arg
        BY DEF InsideMutexes, CreatePc, MutexPc
  <2>2. \A x \in Thread : Fresh(x)' <=> Fresh(x)
        BY DEF KeepMem, InsideMutexes, SameWhere, Fresh, Off, MutexPc
  <2>3. QED
        BY <2>1, <2>2, HandleAssumption DEF ThreadSide, KeepMem, Creation
<1>5. QED
      BY <1>1, <1>2, <1>3, <1>4 DEF ThreadSide

-----------------------------------------------------------------------------
(* The alternatives of the steps of thread_sync.c, by what they do         *)

\* The free mutex is taken.
Takes(k, t, m, from) ==
  /\ At(k, t, from) /\ ut[t].arg = m
  /\ TakeFree(t, m)
  /\ UNCHANGED <<td, mmrll, mmrll_lk, kt, enabled, mpc, sent, got>>

\* The caller finds an owner and gets ready to wait.
BecomesWaiter(k, t, m) ==
  /\ At(k, t, "lock_check") /\ ut[t].arg = m
  /\ mut[m].owner # NULL
  /\ td' = [td EXCEPT ![t].intr_off = TRUE, ![t].state = "WAIT_MUTEX",
                      ![t].wait_for = m]
  /\ Goto(t, "lock_queue")
  /\ UNCHANGED <<mut, mmrll, mmrll_lk, kt, enabled, mpc, inCS, sent, got>>

\* The call ends with the release of the member lock: EBUSY, EACCES, or a
\* release that has passed the mutex on.
GivesBack(k, t, m, from) ==
  /\ At(k, t, from) /\ ut[t].arg = m
  /\ mut' = [mut EXCEPT ![m].mem_lock = NULL]
  /\ Return(t)
  /\ UNCHANGED <<td, mmrll, mmrll_lk, kt, enabled, mpc, inCS, sent, got>>

\* The owner releases the mutex and nobody waits.
Releases(k, t, m) ==
  /\ At(k, t, "unlock_check") /\ ut[t].arg = m
  /\ mut[m].owner = t /\ mut[m].waitll = <<>>
  /\ mut' = [mut EXCEPT ![m].owner = NULL, ![m].mem_lock = NULL]
  /\ inCS' = [inCS EXCEPT ![m] = @ \ {t}]
  /\ Return(t)
  /\ UNCHANGED <<td, mmrll, mmrll_lk, kt, enabled, mpc, sent, got>>

\* The owner releases the mutex and passes it to the first waiter.
PassesOn(k, t, m) ==
  /\ At(k, t, "unlock_check") /\ ut[t].arg = m
  /\ mut[m].owner = t /\ mut[m].waitll # <<>>
  /\ mut' = [mut EXCEPT ![m].owner = Head(mut[m].waitll), ![m].waitll = Tail(@)]
  /\ td' = [td EXCEPT ![t].intr_off = TRUE]
  /\ inCS' = [inCS EXCEPT ![m] = @ \ {t}]
  /\ Goto(t, "unlock_list")
  /\ UNCHANGED <<mmrll, mmrll_lk, kt, enabled, mpc, sent, got>>

\* A step of a call of a mutex that a thread makes in its own context, without
\* the ready list: only the mutex and the thread itself change.
LEMMA InContext ==
  ASSUME IInv, NEW k \in KThread, NEW t \in Thread, kt[k].pc = "user", kt[k].cur = t,
         ut[t].pc \in MutexPc \cup {"client"},
         NEW l \in (MutexPc \ {"lock_wait"}) \cup {"client"},
         NEW a \in Mutex \cup {NULL}, UtSet(t, l, a),
         kt' = kt, mmrll' = mmrll, mpc' = mpc,
         KeepMem, KeepWait, KeepJoin, KeepLock,
         \A x \in Thread \ {t} : td'[x].state = td[x].state,
         td'[t].state # "JOINED"
  PROVE /\ \A x \in Thread : SameWhere(x)
        /\ Dispatchers'
        /\ ThreadSide'
<1>1. \A x \in Thread : SameWhere(x)
      BY WhereSame
<1>2. /\ \A j \in KThread : kt[j].cur = t => j = k
      /\ Runs(t) /\ Dispatched(t)
      /\ td[t].mem # "none"
      BY Acting
<1>3. Dispatchers'
      BY HandleAssumption, <1>1, <1>2
      DEF IInv, UtSet, SameWhere, Dispatchers, OnCpuPc, CreatePc, WakePc, Off, MutexPc
<1>4. ut[t].arg \notin Thread
      BY HandleAssumption DEF IInv, Descriptors, Agrees, MutexPc
<1>5. \A x \in Thread : InsideMutexes(x)
      BY HandleAssumption, <1>1, <1>2, <1>4 DEF UtSet, InsideMutexes, SameWhere, Off
<1>6. \A j \in KThread : Parking(j)
      BY DEF Parking
<1>7. \A x \in Thread : td'[x].state = "JOINED" <=> td[x].state = "JOINED"
      BY DEF IInv, Descriptors, Agrees, MutexPc
<1>8. \A x \in Thread : ut'[x].pc = "lock_wait" => ut[x].pc \in MutexPc
      BY DEF UtSet, MutexPc
<1>9. ThreadSide'
      BY <1>1, <1>5, <1>6, <1>7, <1>8, ThreadFrame DEF IInv
<1>10. QED
      BY <1>1, <1>3, <1>9

\* mut_lock: the member lock is taken.
LEMMA MutLockKeeps ==
  ASSUME IInv, NEW k \in KThread, NEW t \in Thread,
         NEW from \in {"lock_spin", "try_spin", "unlock_spin"},
         NEW to \in {"lock_check", "try_check", "unlock_check"},
         mut_lock(k, t, from, to)
  PROVE IInv'
<1>1. kt[k].pc = "user" /\ kt[k].cur = t /\ ut[t].pc = from
      BY DEF mut_lock, At
<1>2. PICK m \in Mutex : m = ut[t].arg
      BY <1>1 DEF IInv, Descriptors, Agrees, MutexPc
<1>3. /\ UNCHANGED <<td, mmrll, mmrll_lk, kt, enabled, mpc, inCS, sent, got>>
      /\ mut[m].mem_lock = NULL
      BY <1>2 DEF mut_lock
<1>4. UtSet(t, to, m) /\ ut' \in UtType
      BY <1>2, GotoFacts DEF mut_lock, IInv, UserLabel
<1>5. /\ MutSet(m, mut[m].mem, mut[m].owner, mut[m].waitll, t)
      /\ mut' \in MutType
      BY <1>2, MemLockFacts DEF mut_lock, IInv, Lock
<1>6. \A x \in Thread, n \in Mutex : Waits(x, n)' <=> Waits(x, n)
      BY <1>5 DEF MutSet, Waits
<1>7. /\ \A x \in Thread : SameWhere(x)
      /\ Dispatchers'
      /\ ThreadSide'
      BY <1>1, <1>3, <1>4, InContext
      DEF IInv, Descriptors, Agrees, MutexPc, KeepMem, KeepWait, KeepJoin, KeepLock
<1>8. TypeOK'
      BY <1>3, <1>4, <1>5 DEF IInv, TypeOK, UtType, MutType
<1>9. Places'
      BY <1>3, <1>5, <1>6, <1>7 DEF IInv, MutSet, SameWhere, Places
<1>10. Descriptors'
      BY <1>1, <1>2, <1>3, <1>4, HandleAssumption
      DEF IInv, UtSet, Descriptors, Agrees, MutexPc, CreatePc, JoinerPc, OnCpuPc, IntrOffPc
<1>11. MutexSide'
  <2>1. MemberLocks'
        BY <1>1, <1>2, <1>3, <1>4, <1>5, <1>6, <1>7, HandleAssumption
        DEF IInv, MutexSide, UtSet, MutSet, SameWhere, MemberLocks, MemberPc
  <2>2. Waiters'
        BY <1>1, <1>4, <1>5, <1>6 DEF IInv, MutexSide, UtSet, MutSet, Waiters
  <2>3. Owners'
        BY <1>1, <1>3, <1>4, <1>5 DEF IInv, MutexSide, UtSet, MutSet, Owners
  <2>4. MutexExclusion'
        BY <1>3, <1>5 DEF IInv, MutexSide, MutSet, MutexExclusion
  <2>5. Handing'
        BY <1>1, <1>4, <1>5, <1>6, <1>7
        DEF IInv, MutexSide, UtSet, MutSet, SameWhere, Handing, HandPc, Off
  <2>6. QED
        BY <2>1, <2>2, <2>3, <2>4, <2>5 DEF MutexSide
<1>12. SpinLocks'
      BY <1>1, <1>3, <1>4, <1>7 DEF IInv, UtSet, SameWhere, SpinLocks
<1>13. QED
      BY <1>7, <1>8, <1>9, <1>10, <1>11, <1>12 DEF IInv

\* thread_mutex_init.
LEMMA MutexInitKeeps ==
  ASSUME IInv, NEW k \in KThread, NEW t \in Thread, NEW m \in Mutex,
         MutexInit(k, t, m)
  PROVE IInv'
<1>1. kt[k].pc = "user" /\ kt[k].cur = t /\ ut[t].pc = "client" /\ mut[m].mem = "none"
      BY DEF MutexInit, Calls, At
<1>2. UNCHANGED <<td, mmrll, mmrll_lk, kt, ut, enabled, mpc, inCS, sent, got>>
      BY DEF MutexInit
<1>3. /\ mut[m].owner = NULL
      /\ \A x \in Thread : ut[x].arg # m /\ ~Waits(x, m)
      BY <1>1, HandleAssumption, Ranges DEF IInv, MutexSide, Owners, MemberLocks, Waiters
<1>4. MutSet(m, "live", NULL, <<>>, NULL) /\ mut' \in MutType
  <2>1. NULL \in Lock /\ <<>> \in Seq(Thread)
        BY DEF Lock
  <2>2. QED
        BY <2>1, MutFacts DEF MutexInit, mut_init, IInv
<1>5. \A x \in Thread, n \in Mutex : Waits(x, n)' <=> Waits(x, n)
      BY <1>3, <1>4 DEF MutSet, Waits, InList
<1>6. UtSet(t, "client", NULL) /\ ut' \in UtType
      BY <1>1, <1>2 DEF UtSet, UtType, IInv, TypeOK, Descriptors, Agrees
<1>7. /\ \A x \in Thread : SameWhere(x)
      /\ Dispatchers'
      /\ ThreadSide'
      BY <1>1, <1>2, <1>6, InContext
      DEF IInv, Descriptors, Agrees, MutexPc, KeepMem, KeepWait, KeepJoin, KeepLock
<1>8. TypeOK'
      BY <1>2, <1>6, <1>4 DEF IInv, TypeOK, UtType, MutType
<1>9. Places'
      BY <1>2, <1>4, <1>5, <1>7 DEF IInv, MutSet, SameWhere, Places, Distinct
<1>10. Descriptors'
      BY <1>1, <1>3, <1>2, <1>6, HandleAssumption
      DEF IInv, UtSet, Descriptors, Agrees, MutexPc, CreatePc, JoinerPc, OnCpuPc,
          IntrOffPc
<1>11. MutexSide'
  <2>1. MemberLocks'
        BY <1>1, <1>3, <1>2, <1>6, <1>4, <1>5, <1>7, HandleAssumption
        DEF IInv, MutexSide, UtSet, MutSet, SameWhere, MemberLocks, MemberPc
  <2>2. Waiters'
        BY <1>1, <1>3, <1>2, <1>6, <1>4, <1>5, HandleAssumption
        DEF IInv, MutexSide, UtSet, MutSet, Waiters
  <2>3. Owners'
        BY <1>1, <1>3, <1>2, <1>6, <1>4, <1>5, HandleAssumption
        DEF IInv, MutexSide, UtSet, MutSet, Owners
  <2>4. MutexExclusion'
        BY <1>1, <1>3, <1>2, <1>4, HandleAssumption
        DEF IInv, MutexSide, MutSet, MutexExclusion
  <2>5. Handing'
        BY <1>1, <1>3, <1>2, <1>6, <1>4, <1>5, <1>7, HandleAssumption
        DEF IInv, MutexSide, UtSet, MutSet, SameWhere, Handing, HandPc, Off
  <2>6. QED
        BY <2>1, <2>2, <2>3, <2>4, <2>5 DEF MutexSide
<1>12. SpinLocks'
      BY <1>1, <1>3, <1>2, <1>6, <1>7, HandleAssumption
      DEF IInv, UtSet, SameWhere, SpinLocks
<1>13. QED
      BY <1>7, <1>8, <1>9, <1>10, <1>11, <1>12 DEF IInv

\* thread_mutex_destroy.
LEMMA MutexDestroyKeeps ==
  ASSUME IInv, NEW k \in KThread, NEW t \in Thread, NEW m \in Mutex,
         MutexDestroy(k, t, m)
  PROVE IInv'
<1>1. /\ kt[k].pc = "user" /\ kt[k].cur = t /\ ut[t].pc = "client"
      /\ \A x \in Thread : ~Wants(x, m)
      BY DEF MutexDestroy, Calls, At
<1>2. UNCHANGED <<td, mmrll, mmrll_lk, kt, ut, enabled, mpc, inCS, sent, got>>
      BY DEF MutexDestroy
<1>3. mut[m].owner = NULL /\ \A x \in Thread : ut[x].arg # m
  <2>1. mut[m].owner = NULL
        BY <1>1, Ranges DEF Wants, IInv, MutexSide, Owners
  <2>2. ASSUME NEW x \in Thread, ut[x].arg = m PROVE FALSE
    <3>1. ut[x].pc \in {"unlock_list", "unlock_enq", "unlock_rel"}
          BY <1>1, <2>2, Ranges, HandleAssumption
          DEF Wants, IInv, Descriptors, Agrees, UserLabel, MutexPc, CreatePc, JoinerPc
    <3>2. QED
          BY <2>1, <2>2, <3>1 DEF IInv, MutexSide, Owners, Handing, HandPc
  <2>3. QED
        BY <2>1, <2>2
<1>4. MutSet(m, "none", mut[m].owner, mut[m].waitll, mut[m].mem_lock) /\ mut' \in MutType
  <2>1. mut \in MutType
        BY DEF IInv, TypeOK, MutType
  <2>2. QED
        BY <2>1 DEF MutexDestroy, MutSet, MutType
<1>5. \A x \in Thread, n \in Mutex : Waits(x, n)' <=> Waits(x, n)
      BY <1>4 DEF MutSet, Waits
<1>6. UtSet(t, "client", NULL) /\ ut' \in UtType
      BY <1>1, <1>2 DEF UtSet, UtType, IInv, TypeOK, Descriptors, Agrees
<1>7. /\ \A x \in Thread : SameWhere(x)
      /\ Dispatchers'
      /\ ThreadSide'
      BY <1>1, <1>2, <1>6, InContext
      DEF IInv, Descriptors, Agrees, MutexPc, KeepMem, KeepWait, KeepJoin, KeepLock
<1>8. TypeOK'
      BY <1>2, <1>6, <1>4 DEF IInv, TypeOK, UtType, MutType
<1>9. Places'
      BY <1>1, <1>2, <1>4, <1>5, <1>7 DEF IInv, MutSet, SameWhere, Places
<1>10. Descriptors'
      BY <1>1, <1>3, <1>2, <1>6, HandleAssumption
      DEF IInv, UtSet, Descriptors, Agrees, MutexPc, CreatePc, JoinerPc, OnCpuPc,
          IntrOffPc
<1>11. MutexSide'
  <2>1. MemberLocks'
        BY <1>1, <1>3, <1>2, <1>6, <1>4, <1>5, <1>7, HandleAssumption
        DEF IInv, MutexSide, UtSet, MutSet, SameWhere, MemberLocks, MemberPc
  <2>2. Waiters'
        BY <1>1, <1>3, <1>2, <1>6, <1>4, <1>5, HandleAssumption
        DEF IInv, MutexSide, UtSet, MutSet, Waiters
  <2>3. Owners'
        BY <1>1, <1>3, <1>2, <1>6, <1>4, <1>5, HandleAssumption
        DEF IInv, MutexSide, UtSet, MutSet, Owners
  <2>4. MutexExclusion'
        BY <1>1, <1>3, <1>2, <1>4, HandleAssumption
        DEF IInv, MutexSide, MutSet, MutexExclusion
  <2>5. Handing'
        BY <1>1, <1>3, <1>2, <1>6, <1>4, <1>5, <1>7, HandleAssumption
        DEF IInv, MutexSide, UtSet, MutSet, SameWhere, Handing, HandPc, Off
  <2>6. QED
        BY <2>1, <2>2, <2>3, <2>4, <2>5 DEF MutexSide
<1>12. SpinLocks'
      BY <1>1, <1>3, <1>2, <1>6, <1>7, HandleAssumption
      DEF IInv, UtSet, SameWhere, SpinLocks
<1>13. QED
      BY <1>7, <1>8, <1>9, <1>10, <1>11, <1>12 DEF IInv

\* thread_mutex_lock, thread_mutex_trylock and thread_mutex_unlock are called.
LEMMA MutexCallKeeps ==
  ASSUME IInv, NEW k \in KThread, NEW t \in Thread, NEW m \in Mutex, NEW op,
         NEW l \in {"lock_spin", "try_spin", "unlock_spin"}, MutexCall(k, t, m, op, l)
  PROVE IInv'
<1>1. /\ kt[k].pc = "user" /\ kt[k].cur = t /\ ut[t].pc = "client"
      /\ mut[m].mem = "live"
      BY DEF MutexCall, Calls, At
<1>2. UNCHANGED <<td, mut, mmrll, mmrll_lk, kt, enabled, mpc, inCS, sent, got>>
      BY DEF MutexCall
<1>3. UtSet(t, l, m) /\ ut' \in UtType
      BY CallFacts DEF MutexCall, IInv, UserLabel
<1>4. \A x \in Thread, n \in Mutex : Waits(x, n)' <=> Waits(x, n)
      BY <1>2 DEF Waits
<1>5. /\ \A x \in Thread : SameWhere(x)
      /\ Dispatchers'
      /\ ThreadSide'
      BY <1>1, <1>2, <1>3, InContext
      DEF IInv, Descriptors, Agrees, MutexPc, KeepMem, KeepWait, KeepJoin, KeepLock
<1>6. Runs(t) /\ Dispatched(t) /\ ~Ready(t) /\ ~Posting(t)
      BY <1>1, Acting
<1>7. TypeOK'
      BY <1>2, <1>3 DEF IInv, TypeOK, UtType
<1>8. Places'
      BY <1>1, <1>2, <1>4, <1>5, <1>6 DEF IInv, SameWhere, Places
<1>9. Descriptors'
      BY <1>1, <1>2, <1>3, HandleAssumption
      DEF IInv, UtSet, Descriptors, Agrees, MutexPc, CreatePc, JoinerPc, OnCpuPc,
          IntrOffPc
<1>10. MutexSide'
  <2>1. MemberLocks'
        BY <1>1, <1>2, <1>3, <1>4, <1>5, <1>6, HandleAssumption
        DEF IInv, MutexSide, UtSet, SameWhere, MemberLocks, MemberPc
  <2>2. Waiters'
        BY <1>1, <1>2, <1>3, <1>4, <1>6, HandleAssumption
        DEF IInv, MutexSide, UtSet, Waiters
  <2>3. Owners'
        BY <1>1, <1>2, <1>3, <1>4, <1>6, HandleAssumption
        DEF IInv, MutexSide, UtSet, Owners
  <2>4. MutexExclusion'
        BY <1>1, <1>2, HandleAssumption DEF IInv, MutexSide, MutexExclusion
  <2>5. Handing'
        BY <1>1, <1>2, <1>3, <1>4, <1>5, <1>6, HandleAssumption
        DEF IInv, MutexSide, UtSet, SameWhere, Handing, HandPc, Off
  <2>6. QED
        BY <2>1, <2>2, <2>3, <2>4, <2>5 DEF MutexSide
<1>11. SpinLocks'
      BY <1>1, <1>2, <1>3, <1>5, <1>6, HandleAssumption
      DEF IInv, UtSet, SameWhere, SpinLocks
<1>12. QED
      BY <1>5, <1>7, <1>8, <1>9, <1>10, <1>11 DEF IInv

\* The caller of thread_mutex_lock or thread_mutex_trylock finds the mutex free.
LEMMA TakesKeeps ==
  ASSUME IInv, NEW k \in KThread, NEW t \in Thread, NEW m \in Mutex,
         NEW from \in {"lock_check", "try_check"}, Takes(k, t, m, from)
  PROVE IInv'
<1>1. /\ kt[k].pc = "user" /\ kt[k].cur = t /\ ut[t].pc = from /\ ut[t].arg = m
      /\ mut[m].owner = NULL /\ mut[m].mem_lock = t /\ mut[m].mem = "live"
      BY DEF Takes, At, TakeFree, IInv, MutexSide, MemberLocks, MemberPc
<1>2. UNCHANGED <<td, mmrll, mmrll_lk, kt, enabled, mpc, sent, got>>
      BY DEF Takes
<1>3. UtSet(t, "client", NULL) /\ ut' \in UtType
      BY ReturnFacts DEF Takes, TakeFree, IInv
<1>4. /\ MutSet(m, mut[m].mem, t, mut[m].waitll, NULL)
      /\ mut' \in MutType
  <2>1. mut \in MutType
        BY DEF IInv, TypeOK, MutType
  <2>2. NULL \in Lock
        BY DEF Lock
  <2>3. mut' = [[mut EXCEPT ![m].owner = t] EXCEPT ![m].mem_lock = NULL]
        BY <2>1 DEF Takes, TakeFree, MutType
  <2>4. mut' \in MutType
        BY <2>1, <2>2, <2>3 DEF MutType
  <2>5. QED
        BY <2>1, <2>4 DEF Takes, TakeFree, MutSet, MutType
<1>5. /\ \A n \in Mutex : inCS'[n] = IF n = m THEN inCS[m] \cup {t} ELSE inCS[n]
      /\ inCS' \in [Mutex -> SUBSET Thread]
      BY DEF Takes, TakeFree, IInv, TypeOK
<1>6. \A x \in Thread, n \in Mutex : Waits(x, n)' <=> Waits(x, n)
      BY <1>4 DEF MutSet, Waits
<1>7. /\ \A x \in Thread : SameWhere(x)
      /\ Dispatchers'
      /\ ThreadSide'
      BY <1>1, <1>2, <1>3, InContext
      DEF IInv, Descriptors, Agrees, MutexPc, KeepMem, KeepWait, KeepJoin, KeepLock
<1>8. /\ Runs(t) /\ Dispatched(t) /\ ~Ready(t) /\ ~Posting(t)
      /\ \A n \in Mutex : ~Waits(t, n)
      BY <1>1, Acting
<1>9. TypeOK'
      BY <1>2, <1>3, <1>4, <1>5 DEF IInv, TypeOK, UtType, MutType
<1>10. Places'
      BY <1>1, <1>2, <1>4, <1>6, <1>7, <1>8 DEF IInv, MutSet, SameWhere, Places
<1>11. Descriptors'
      BY <1>1, <1>2, <1>3, HandleAssumption
      DEF IInv, UtSet, Descriptors, Agrees, MutexPc, CreatePc, JoinerPc, OnCpuPc,
          IntrOffPc
<1>12. MutexSide'
  <2>1. MemberLocks'
        BY <1>1, <1>2, <1>3, <1>4, <1>6, <1>7, <1>8, HandleAssumption
        DEF IInv, MutexSide, UtSet, MutSet, SameWhere, MemberLocks, MemberPc
  <2>2. Waiters'
        BY <1>1, <1>2, <1>3, <1>4, <1>6, <1>8, HandleAssumption
        DEF IInv, MutexSide, UtSet, MutSet, Waiters
  <2>3. Owners'
        BY <1>1, <1>2, <1>3, <1>4, <1>5, <1>6, <1>8, HandleAssumption
        DEF IInv, MutexSide, UtSet, MutSet, Owners
  <2>4. MutexExclusion'
        BY <1>1, <1>2, <1>4, <1>5, HandleAssumption
        DEF IInv, MutexSide, MutSet, MutexExclusion
  <2>5. Handing'
        BY <1>1, <1>2, <1>3, <1>4, <1>6, <1>7, <1>8, HandleAssumption
        DEF IInv, MutexSide, UtSet, MutSet, SameWhere, Handing, HandPc, Off
  <2>6. QED
        BY <2>1, <2>2, <2>3, <2>4, <2>5 DEF MutexSide
<1>13. SpinLocks'
      BY <1>1, <1>2, <1>3, <1>7, <1>8, HandleAssumption
      DEF IInv, UtSet, SameWhere, SpinLocks
<1>14. QED
      BY <1>7, <1>9, <1>10, <1>11, <1>12, <1>13 DEF IInv

\* The call ends with the release of the member lock.
LEMMA GivesBackKeeps ==
  ASSUME IInv, NEW k \in KThread, NEW t \in Thread, NEW m \in Mutex,
         NEW from \in {"try_check", "unlock_check", "unlock_rel"},
         GivesBack(k, t, m, from)
  PROVE IInv'
<1>1. /\ kt[k].pc = "user" /\ kt[k].cur = t /\ ut[t].pc = from /\ ut[t].arg = m
      /\ mut[m].mem_lock = t
      BY DEF GivesBack, At, IInv, MutexSide, MemberLocks, MemberPc
<1>2. UNCHANGED <<td, mmrll, mmrll_lk, kt, enabled, mpc, inCS, sent, got>>
      BY DEF GivesBack
<1>3. UtSet(t, "client", NULL) /\ ut' \in UtType
      BY ReturnFacts DEF GivesBack, IInv
<1>4. /\ MutSet(m, mut[m].mem, mut[m].owner, mut[m].waitll, NULL)
      /\ mut' \in MutType
      BY MemLockFacts DEF GivesBack, IInv, Lock
<1>5. \A x \in Thread, n \in Mutex : Waits(x, n)' <=> Waits(x, n)
      BY <1>4 DEF MutSet, Waits
<1>6. /\ \A x \in Thread : SameWhere(x)
      /\ Dispatchers'
      /\ ThreadSide'
      BY <1>1, <1>2, <1>3, InContext
      DEF IInv, Descriptors, Agrees, MutexPc, KeepMem, KeepWait, KeepJoin, KeepLock
<1>7. Runs(t) /\ Dispatched(t) /\ ~Ready(t) /\ ~Posting(t)
      BY <1>1, Acting
<1>8. TypeOK'
      BY <1>2, <1>3, <1>4 DEF IInv, TypeOK, UtType, MutType
<1>9. Places'
      BY <1>1, <1>2, <1>4, <1>5, <1>6, <1>7 DEF IInv, MutSet, SameWhere, Places
<1>10. Descriptors'
      BY <1>1, <1>2, <1>3, HandleAssumption
      DEF IInv, UtSet, Descriptors, Agrees, MutexPc, CreatePc, JoinerPc, OnCpuPc,
          IntrOffPc
<1>11. MutexSide'
  <2>1. MemberLocks'
        BY <1>1, <1>2, <1>3, <1>4, <1>5, <1>6, <1>7, HandleAssumption
        DEF IInv, MutexSide, UtSet, MutSet, SameWhere, MemberLocks, MemberPc
  <2>2. Waiters'
        BY <1>1, <1>2, <1>3, <1>4, <1>5, <1>7, HandleAssumption
        DEF IInv, MutexSide, UtSet, MutSet, Waiters
  <2>3. Owners'
        BY <1>1, <1>2, <1>3, <1>4, <1>5, <1>7, HandleAssumption
        DEF IInv, MutexSide, UtSet, MutSet, Owners
  <2>4. MutexExclusion'
        BY <1>1, <1>2, <1>4, HandleAssumption
        DEF IInv, MutexSide, MutSet, MutexExclusion
  <2>5. Handing'
        BY <1>1, <1>2, <1>3, <1>4, <1>5, <1>6, <1>7, HandleAssumption
        DEF IInv, MutexSide, UtSet, MutSet, SameWhere, Handing, HandPc, Off
  <2>6. QED
        BY <2>1, <2>2, <2>3, <2>4, <2>5 DEF MutexSide
<1>12. SpinLocks'
      BY <1>1, <1>2, <1>3, <1>6, <1>7, HandleAssumption
      DEF IInv, UtSet, SameWhere, SpinLocks
<1>13. QED
      BY <1>6, <1>8, <1>9, <1>10, <1>11, <1>12 DEF IInv

\* The caller of thread_mutex_lock finds an owner and gets ready to wait.
LEMMA BecomesWaiterKeeps ==
  ASSUME IInv, NEW k \in KThread, NEW t \in Thread, NEW m \in Mutex,
         BecomesWaiter(k, t, m)
  PROVE IInv'
<1>1. /\ kt[k].pc = "user" /\ kt[k].cur = t /\ ut[t].pc = "lock_check" /\ ut[t].arg = m
      /\ mut[m].mem_lock = t /\ mut[m].mem = "live" /\ mut[m].owner # NULL
      BY DEF BecomesWaiter, At, IInv, MutexSide, MemberLocks, MemberPc
<1>2. UNCHANGED <<mut, mmrll, mmrll_lk, kt, enabled, mpc, inCS, sent, got>>
      BY DEF BecomesWaiter
<1>3. UtSet(t, "lock_queue", m) /\ ut' \in UtType
      BY GotoFacts DEF BecomesWaiter, IInv, UserLabel
<1>4. WaitSet(t, "WAIT_MUTEX", m, TRUE) /\ td' \in TdType
      BY WaitFacts DEF BecomesWaiter, IInv, States
<1>5. \A x \in Thread, n \in Mutex : Waits(x, n)' <=> Waits(x, n)
      BY <1>2 DEF Waits
<1>6. /\ \A x \in Thread : SameWhere(x)
      /\ Dispatchers'
      /\ ThreadSide'
      BY <1>1, <1>2, <1>3, <1>4, InContext DEF MutexPc, WaitSet, DescrSet
<1>7. /\ Runs(t) /\ Dispatched(t) /\ ~Ready(t) /\ ~Posting(t)
      /\ \A n \in Mutex : ~Waits(t, n)
      BY <1>1, Acting
<1>8. TypeOK'
      BY <1>2, <1>3, <1>4 DEF IInv, TypeOK, UtType, TdType
<1>9. Places'
      BY <1>1, <1>2, <1>5, <1>6, <1>7 DEF IInv, SameWhere, Places
<1>10. Descriptors'
  <2>1. Agrees("lock_queue", m, "WAIT_MUTEX", m, TRUE)
        BY HandleAssumption DEF Agrees, MutexPc, CreatePc, JoinerPc, OnCpuPc, IntrOffPc
  <2>2. QED
        BY <1>3, <1>4, <2>1, DescriptorsKept DEF IInv, WaitSet
<1>11. MutexSide'
  <2>1. MemberLocks'
        BY <1>1, <1>2, <1>3, <1>5, <1>6, <1>7, HandleAssumption
        DEF IInv, MutexSide, UtSet, SameWhere, MemberLocks, MemberPc
  <2>2. Waiters'
        BY <1>1, <1>2, <1>3, <1>5, <1>7, HandleAssumption
        DEF IInv, MutexSide, UtSet, Waiters
  <2>3. Owners'
        BY <1>1, <1>2, <1>3, <1>5, <1>7, HandleAssumption
        DEF IInv, MutexSide, UtSet, Owners
  <2>4. MutexExclusion'
        BY <1>1, <1>2, HandleAssumption DEF IInv, MutexSide, MutexExclusion
  <2>5. Handing'
        BY <1>1, <1>2, <1>3, <1>5, <1>6, <1>7, HandleAssumption
        DEF IInv, MutexSide, UtSet, SameWhere, Handing, HandPc, Off
  <2>6. QED
        BY <2>1, <2>2, <2>3, <2>4, <2>5 DEF MutexSide
<1>12. SpinLocks'
      BY <1>1, <1>2, <1>3, <1>4, <1>6, <1>7, HandleAssumption
      DEF IInv, UtSet, WaitSet, DescrSet, KeepMem, KeepWait, KeepJoin, KeepLock, SameWhere,
          SpinLocks
<1>13. QED
      BY <1>6, <1>8, <1>9, <1>10, <1>11, <1>12 DEF IInv

\* The waiter runs again as the owner and thread_mutex_lock returns.
LEMMA LockWokenKeeps ==
  ASSUME IInv, NEW k \in KThread, NEW t \in Thread,
         LockWoken(k, t)
  PROVE IInv'
<1>1. kt[k].pc = "user" /\ kt[k].cur = t /\ ut[t].pc = "lock_wait"
      BY DEF LockWoken, At
<1>2. PICK m \in Mutex : m = ut[t].arg
      BY <1>1 DEF IInv, Descriptors, Agrees, MutexPc
<1>3. UNCHANGED <<mut, mmrll, mmrll_lk, kt, enabled, mpc, sent, got>>
      BY DEF LockWoken
<1>4. UtSet(t, "client", NULL) /\ ut' \in UtType
      BY ReturnFacts DEF LockWoken, IInv
<1>5. WaitSet(t, "RUNNING", NULL, FALSE) /\ td' \in TdType
      BY WaitFacts DEF LockWoken, IInv, States
<1>6. /\ \A n \in Mutex : inCS'[n] = IF n = m THEN inCS[m] \cup {t} ELSE inCS[n]
      /\ inCS' \in [Mutex -> SUBSET Thread]
      BY <1>2 DEF LockWoken, IInv, TypeOK
<1>7. \A x \in Thread, n \in Mutex : Waits(x, n)' <=> Waits(x, n)
      BY <1>3 DEF Waits
<1>8. /\ \A x \in Thread : SameWhere(x)
      /\ Dispatchers'
      /\ ThreadSide'
      BY <1>1, <1>2, <1>3, <1>4, <1>5, InContext DEF MutexPc, WaitSet, DescrSet
<1>9. /\ Runs(t) /\ Dispatched(t) /\ ~Ready(t) /\ ~Posting(t)
      /\ \A n \in Mutex : ~Waits(t, n)
      /\ mut[m].owner = t
      BY <1>1, <1>2, Acting DEF IInv, MutexSide, Waiters
<1>10. TypeOK'
      BY <1>3, <1>4, <1>5, <1>6 DEF IInv, TypeOK, UtType, TdType
<1>11. Places'
      BY <1>1, <1>3, <1>7, <1>8, <1>9 DEF IInv, SameWhere, Places
<1>12. Descriptors'
  <2>1. Agrees("client", NULL, "RUNNING", NULL, FALSE)
        BY <1>2, HandleAssumption
        DEF Agrees, MutexPc, CreatePc, JoinerPc, OnCpuPc, IntrOffPc
  <2>2. QED
        BY <1>4, <1>5, <2>1, DescriptorsKept DEF IInv, WaitSet
<1>13. MutexSide'
  <2>1. MemberLocks'
        BY <1>1, <1>2, <1>3, <1>4, <1>7, <1>8, <1>9, HandleAssumption
        DEF IInv, MutexSide, UtSet, SameWhere, MemberLocks, MemberPc
  <2>2. Waiters'
        BY <1>1, <1>2, <1>3, <1>4, <1>7, <1>9, HandleAssumption
        DEF IInv, MutexSide, UtSet, Waiters
  <2>3. Owners'
        BY <1>1, <1>2, <1>3, <1>4, <1>6, <1>7, <1>9, HandleAssumption
        DEF IInv, MutexSide, UtSet, Owners
  <2>4. MutexExclusion'
        BY <1>3, <1>6, <1>9 DEF IInv, MutexSide, MutexExclusion
  <2>5. Handing'
        BY <1>1, <1>2, <1>3, <1>4, <1>7, <1>8, <1>9, HandleAssumption
        DEF IInv, MutexSide, UtSet, SameWhere, Handing, HandPc, Off
  <2>6. QED
        BY <2>1, <2>2, <2>3, <2>4, <2>5 DEF MutexSide
<1>14. SpinLocks'
      BY <1>1, <1>2, <1>3, <1>4, <1>5, <1>8, <1>9, HandleAssumption
      DEF IInv, UtSet, WaitSet, DescrSet, KeepMem, KeepWait, KeepJoin, KeepLock, SameWhere,
          SpinLocks
<1>15. QED
      BY <1>8, <1>10, <1>11, <1>12, <1>13, <1>14 DEF IInv

\* The owner releases the mutex and nobody waits.
LEMMA ReleasesKeeps ==
  ASSUME IInv, NEW k \in KThread, NEW t \in Thread, NEW m \in Mutex,
         Releases(k, t, m)
  PROVE IInv'
<1>1. /\ kt[k].pc = "user" /\ kt[k].cur = t /\ ut[t].pc = "unlock_check" /\ ut[t].arg = m
      /\ mut[m].mem_lock = t /\ mut[m].mem = "live" /\ mut[m].owner = t
      BY DEF Releases, At, IInv, MutexSide, MemberLocks, MemberPc
<1>2. UNCHANGED <<td, mmrll, mmrll_lk, kt, enabled, mpc, sent, got>>
      BY DEF Releases
<1>3. UtSet(t, "client", NULL) /\ ut' \in UtType
      BY ReturnFacts DEF Releases, IInv
<1>4. /\ MutSet(m, mut[m].mem, NULL, mut[m].waitll, NULL)
      /\ mut' \in MutType
  <2>1. mut \in MutType
        BY DEF IInv, TypeOK, MutType
  <2>2. NULL \in Lock
        BY DEF Lock
  <2>3. mut' = [[mut EXCEPT ![m].owner = NULL] EXCEPT ![m].mem_lock = NULL]
        BY <2>1 DEF Releases, MutType
  <2>4. mut' \in MutType
        BY <2>1, <2>2, <2>3 DEF MutType
  <2>5. QED
        BY <2>1, <2>4 DEF Releases, MutSet, MutType
<1>5. /\ \A n \in Mutex : inCS'[n] = IF n = m THEN inCS[m] \ {t} ELSE inCS[n]
      /\ inCS' \in [Mutex -> SUBSET Thread]
      BY DEF Releases, IInv, TypeOK
<1>6. \A x \in Thread : ~Waits(x, m)
      BY DEF Releases, Waits, InList
<1>7. \A x \in Thread, n \in Mutex : Waits(x, n)' <=> Waits(x, n)
      BY <1>4 DEF MutSet, Waits
<1>8. /\ \A x \in Thread : SameWhere(x)
      /\ Dispatchers'
      /\ ThreadSide'
      BY <1>1, <1>2, <1>3, InContext
      DEF IInv, Descriptors, Agrees, MutexPc, KeepMem, KeepWait, KeepJoin, KeepLock
<1>9. /\ Runs(t) /\ Dispatched(t) /\ ~Ready(t) /\ ~Posting(t)
      /\ \A n \in Mutex : ~Waits(t, n)
      BY <1>1, Acting
<1>10. \A x \in Thread : ut[x].pc \in MemberPc /\ ut[x].arg = m => x = t
      BY <1>1 DEF IInv, MutexSide, MemberLocks
<1>11. TypeOK'
      BY <1>2, <1>3, <1>4, <1>5 DEF IInv, TypeOK, UtType, MutType
<1>12. Places'
      BY <1>1, <1>2, <1>4, <1>7, <1>8, <1>9 DEF IInv, MutSet, SameWhere, Places
<1>13. Descriptors'
      BY <1>1, <1>6, <1>2, <1>3, HandleAssumption
      DEF IInv, UtSet, Descriptors, Agrees, MutexPc, CreatePc, JoinerPc, OnCpuPc,
          IntrOffPc
<1>14. MutexSide'
  <2>1. MemberLocks'
        BY <1>1, <1>6, <1>2, <1>3, <1>4, <1>7, <1>8, <1>9, HandleAssumption
        DEF IInv, MutexSide, UtSet, MutSet, SameWhere, MemberLocks, MemberPc
  <2>2. Waiters'
        BY <1>1, <1>6, <1>2, <1>3, <1>4, <1>7, <1>9, HandleAssumption
        DEF IInv, MutexSide, UtSet, MutSet, Waiters
  <2>3. Owners'
        BY <1>1, <1>3, <1>4, <1>5, <1>10, HandleAssumption
        DEF IInv, MutexSide, UtSet, MutSet, Owners, MemberPc
  <2>4. MutexExclusion'
        BY <1>1, <1>6, <1>2, <1>4, <1>5, HandleAssumption
        DEF IInv, MutexSide, MutSet, MutexExclusion
  <2>5. Handing'
        BY <1>1, <1>6, <1>2, <1>3, <1>4, <1>7, <1>8, <1>9, HandleAssumption
        DEF IInv, MutexSide, UtSet, MutSet, SameWhere, Handing, HandPc, Off
  <2>6. QED
        BY <2>1, <2>2, <2>3, <2>4, <2>5 DEF MutexSide
<1>15. SpinLocks'
      BY <1>1, <1>6, <1>2, <1>3, <1>8, <1>9, HandleAssumption
      DEF IInv, UtSet, SameWhere, SpinLocks
<1>16. QED
      BY <1>8, <1>11, <1>12, <1>13, <1>14, <1>15 DEF IInv

\* The owner releases the mutex and passes it to the first waiter, which is parked.
LEMMA PassesOnKeeps ==
  ASSUME IInv, NEW k \in KThread, NEW t \in Thread, NEW m \in Mutex,
         PassesOn(k, t, m)
  PROVE IInv'
<1>1. /\ kt[k].pc = "user" /\ kt[k].cur = t /\ ut[t].pc = "unlock_check" /\ ut[t].arg = m
      /\ mut[m].mem_lock = t /\ mut[m].mem = "live" /\ mut[m].owner = t
      BY DEF PassesOn, At, IInv, MutexSide, MemberLocks, MemberPc
<1>2. UNCHANGED <<mmrll, mmrll_lk, kt, enabled, mpc, sent, got>>
      BY DEF PassesOn
<1>3. UtSet(t, "unlock_list", m) /\ ut' \in UtType
      BY GotoFacts DEF PassesOn, IInv, UserLabel
<1>4. WaitSet(t, td[t].state, td[t].wait_for, TRUE) /\ td' \in TdType
      BY IntrFacts DEF PassesOn, IInv
<1>5. PICK s \in Seq(Thread), w \in Thread :
        /\ s = Tail(mut[m].waitll) /\ w = Head(mut[m].waitll)
        /\ \A x \in Thread : InList(x, s) <=> InList(x, mut[m].waitll) /\ x # w
        /\ Distinct(s) /\ Waits(w, m)
      BY TailFacts, Ranges DEF PassesOn, IInv, Places, Waits
<1>6. /\ MutSet(m, mut[m].mem, w, s, mut[m].mem_lock)
      /\ mut' \in MutType
  <2>1. mut \in MutType
        BY DEF IInv, TypeOK, MutType
  <2>2. mut' = [[mut EXCEPT ![m].owner = w] EXCEPT ![m].waitll = s]
        BY <1>5, <2>1 DEF PassesOn, MutType
  <2>3. mut' \in MutType
        BY <2>1, <2>2 DEF MutType
  <2>4. QED
        BY <1>5, <2>1, <2>3 DEF PassesOn, MutSet, MutType
<1>7. /\ \A n \in Mutex : inCS'[n] = IF n = m THEN inCS[m] \ {t} ELSE inCS[n]
      /\ inCS' \in [Mutex -> SUBSET Thread]
      BY DEF PassesOn, IInv, TypeOK
<1>8. \A x \in Thread, n \in Mutex : Waits(x, n)' <=> Waits(x, n) /\ ~(n = m /\ x = w)
      BY <1>5, <1>6 DEF MutSet, Waits
<1>9. /\ Runs(t) /\ Dispatched(t) /\ ~Ready(t) /\ ~Posting(t)
      /\ \A n \in Mutex : ~Waits(t, n)
      /\ td[t].state # "JOINED"
      BY <1>1, Acting DEF IInv, Descriptors, Agrees
<1>10. /\ \A x \in Thread : SameWhere(x)
      /\ Dispatchers'
      /\ ThreadSide'
      BY <1>1, <1>9, <1>2, <1>3, <1>4, InContext DEF MutexPc, WaitSet, DescrSet
<1>11. ut[w].pc = "lock_wait" /\ ut[w].arg = m /\ Off(w) /\ w # t
      BY <1>1, <1>5, <1>9 DEF IInv, Places, MutexSide, MemberLocks, Waiters, Off
<1>12. TypeOK'
      BY <1>2, <1>3, <1>6, <1>4, <1>7 DEF IInv, TypeOK, UtType, MutType, TdType
<1>13. Places'
      BY <1>1, <1>2, <1>6, <1>5, <1>8, <1>10, <1>9 DEF IInv, MutSet, SameWhere, Places
<1>14. Descriptors'
  <2>1. Agrees("unlock_list", m, td[t].state, td[t].wait_for, TRUE)
        BY <1>1, <1>11, HandleAssumption
        DEF IInv, Descriptors, Agrees, MutexPc, CreatePc, JoinerPc, OnCpuPc, IntrOffPc
  <2>2. QED
        BY <1>3, <1>4, <2>1, DescriptorsKept DEF IInv, WaitSet
<1>15. MutexSide'
  <2>1. MemberLocks'
        BY <1>1, <1>11, <1>2, <1>3, <1>6, <1>8, <1>10, <1>9, HandleAssumption
        DEF IInv, MutexSide, UtSet, MutSet, SameWhere, MemberLocks, MemberPc
  <2>2. Waiters'
        BY <1>1, <1>11, <1>2, <1>3, <1>6, <1>8, <1>9, HandleAssumption
        DEF IInv, MutexSide, UtSet, MutSet, Waiters
  <2>3. Owners'
        BY SMTT(30), <1>1, <1>11, <1>2, <1>3, <1>6, <1>7, <1>8, <1>9, HandleAssumption
        DEF IInv, MutexSide, UtSet, MutSet, Owners
  <2>4. MutexExclusion'
        BY <1>1, <1>11, <1>2, <1>6, <1>7, HandleAssumption
        DEF IInv, MutexSide, MutSet, MutexExclusion
  <2>5. Handing'
    <3>1. \A x \in Thread : Off(x)' <=> Off(x)
          BY <1>10 DEF SameWhere, Off
    <3>2. \A x \in Thread : ut[x].pc \in HandPc => ut[x].arg # m
          BY <1>1 DEF IInv, MutexSide, MemberLocks, MemberPc, HandPc
    <3>3. \A x \in Thread, n \in Mutex :
            ut'[x].pc \in HandPc /\ ut'[x].arg = n <=>
              \/ x = t /\ n = m
              \/ ut[x].pc \in HandPc /\ ut[x].arg = n /\ x # t /\ n # m
          BY <1>1, <1>3, <3>2 DEF UtSet, HandPc
    <3>4. \A n \in Mutex : mut'[n].owner = IF n = m THEN w ELSE mut[n].owner
          BY <1>6 DEF MutSet
    <3>5. \A x \in Thread : ut[x].pc = "lock_wait" <=> ut'[x].pc = "lock_wait"
          BY <1>1, <1>3 DEF UtSet
    <3>6. \A x \in Thread : ut[x].pc = "lock_wait" => ut'[x].arg = ut[x].arg
          BY <1>1, <1>3 DEF UtSet
    <3>7. ASSUME NEW x \in Thread, NEW v \in Thread, NEW n \in Mutex,
                 ut'[x].pc \in HandPc, ut'[x].arg = n, mut'[n].owner = v
          PROVE ut'[v].pc = "lock_wait" /\ ut'[v].arg = n /\ ~Waits(v, n)' /\ Off(v)'
      <4>1. CASE n = m
            BY <1>8, <1>11, <3>1, <3>4, <3>5, <3>6, <3>7, <4>1
      <4>2. CASE n # m
        <5>1. ut[x].pc \in HandPc /\ ut[x].arg = n /\ mut[n].owner = v
              BY <3>3, <3>4, <3>7, <4>2
        <5>2. ut[v].pc = "lock_wait" /\ ut[v].arg = n /\ ~Waits(v, n) /\ Off(v)
              BY <5>1 DEF IInv, MutexSide, Handing
        <5>3. QED
              BY <1>8, <3>1, <3>5, <3>6, <5>2
      <4>3. QED
            BY <4>1, <4>2
    <3>8. ASSUME NEW x \in Thread, NEW n \in Mutex, ut'[x].pc \in HandPc, ut'[x].arg = n
          PROVE mut'[n].owner # NULL
          BY <3>3, <3>4, <3>8, HandleAssumption DEF IInv, MutexSide, Handing
    <3>9. ASSUME NEW v \in Thread, NEW n \in Mutex, ut'[v].pc = "lock_wait",
                 ut'[v].arg = n, Off(v)', ~Waits(v, n)'
          PROVE \E x \in Thread : ut'[x].pc \in HandPc /\ ut'[x].arg = n
      <4>1. CASE n = m
            BY <3>3, <4>1
      <4>2. CASE n # m
        <5>1. PICK x \in Thread : ut[x].pc \in HandPc /\ ut[x].arg = n
              BY <1>8, <3>1, <3>5, <3>6, <3>9, <4>2 DEF IInv, MutexSide, Handing
        <5>2. x # t
              BY <1>1, <5>1 DEF HandPc
        <5>3. QED
              BY <3>3, <4>2, <5>1, <5>2
      <4>3. QED
            BY <4>1, <4>2
    <3>10. QED
          BY <3>7, <3>8, <3>9 DEF Handing
  <2>6. QED
        BY <2>1, <2>2, <2>3, <2>4, <2>5 DEF MutexSide
<1>16. SpinLocks'
      BY <1>1, <1>11, <1>2, <1>3, <1>4, <1>10, <1>9, HandleAssumption
      DEF IInv, UtSet, WaitSet, DescrSet, KeepMem, KeepWait, KeepJoin, KeepLock, SameWhere,
          SpinLocks
<1>17. QED
      BY <1>10, <1>12, <1>13, <1>14, <1>15, <1>16 DEF IInv

\* The release takes the lock of the ready list.
LEMMA UnlockListKeeps ==
  ASSUME IInv, NEW k \in KThread, NEW t \in Thread,
         UnlockList(k, t)
  PROVE IInv'
<1>1. kt[k].pc = "user" /\ kt[k].cur = t /\ ut[t].pc = "unlock_list"
      BY DEF UnlockList, At
<1>2. PICK m \in Mutex : m = ut[t].arg
      BY <1>1 DEF IInv, Descriptors, Agrees, MutexPc
<1>3. /\ UNCHANGED <<td, mut, mmrll, kt, enabled, mpc, inCS, sent, got>>
      /\ mmrll_lk = NULL /\ mmrll_lk' = t /\ t \in Lock
      BY DEF UnlockList, mmrll_lock, Lock
<1>4. UtSet(t, "unlock_enq", m) /\ ut' \in UtType
      BY <1>2, GotoFacts DEF UnlockList, IInv, UserLabel
<1>5. \A x \in Thread, n \in Mutex : Waits(x, n)' <=> Waits(x, n)
      BY <1>3 DEF Waits
<1>6. /\ \A x \in Thread : SameWhere(x)
      /\ Dispatchers'
      /\ ThreadSide'
      BY <1>1, <1>3, <1>4, InContext
      DEF IInv, Descriptors, Agrees, MutexPc, KeepMem, KeepWait, KeepJoin, KeepLock
<1>7. Runs(t) /\ Dispatched(t) /\ ~Ready(t) /\ ~Posting(t)
      BY <1>1, Acting
<1>8. TypeOK'
      BY <1>3, <1>4 DEF IInv, TypeOK, UtType
<1>9. Places'
      BY <1>1, <1>3, <1>5, <1>6, <1>7 DEF IInv, SameWhere, Places
<1>10. Descriptors'
      BY <1>1, <1>2, <1>3, <1>4, HandleAssumption
      DEF IInv, UtSet, Descriptors, Agrees, MutexPc, CreatePc, JoinerPc, OnCpuPc,
          IntrOffPc
<1>11. MutexSide'
  <2>1. MemberLocks'
        BY <1>1, <1>2, <1>3, <1>4, <1>5, <1>6, <1>7, HandleAssumption
        DEF IInv, MutexSide, UtSet, SameWhere, MemberLocks, MemberPc
  <2>2. Waiters'
        BY <1>1, <1>2, <1>3, <1>4, <1>5, <1>7, HandleAssumption
        DEF IInv, MutexSide, UtSet, Waiters
  <2>3. Owners'
        BY <1>1, <1>2, <1>3, <1>4, <1>5, <1>7, HandleAssumption
        DEF IInv, MutexSide, UtSet, Owners
  <2>4. MutexExclusion'
        BY <1>1, <1>2, <1>3, HandleAssumption DEF IInv, MutexSide, MutexExclusion
  <2>5. Handing'
        BY <1>1, <1>2, <1>3, <1>4, <1>5, <1>6, <1>7, HandleAssumption
        DEF IInv, MutexSide, UtSet, SameWhere, Handing, HandPc, Off
  <2>6. QED
        BY <2>1, <2>2, <2>3, <2>4, <2>5 DEF MutexSide
<1>12. SpinLocks'
      BY <1>1, <1>2, <1>3, <1>4, <1>6, <1>7, HandleAssumption
      DEF IInv, UtSet, SameWhere, SpinLocks
<1>13. QED
      BY <1>6, <1>8, <1>9, <1>10, <1>11, <1>12 DEF IInv

\* The steps that have alternatives consist of them.
LEMMA Alternatives ==
  ASSUME IInv, NEW k \in KThread, NEW t \in Thread
  PROVE /\ LockCheck(k, t) =>
             \E m \in Mutex : Takes(k, t, m, "lock_check") \/ BecomesWaiter(k, t, m)
        /\ TryCheck(k, t) =>
             \E m \in Mutex : \/ Takes(k, t, m, "try_check")
                              \/ GivesBack(k, t, m, "try_check")
        /\ UnlockCheck(k, t) =>
             \E m \in Mutex : \/ GivesBack(k, t, m, "unlock_check")
                              \/ Releases(k, t, m) \/ PassesOn(k, t, m)
        /\ UnlockRel(k, t) => \E m \in Mutex : GivesBack(k, t, m, "unlock_rel")
<1>1. ut[t].pc \in {"lock_check", "try_check", "unlock_check", "unlock_rel"} =>
        ut[t].arg \in Mutex
      BY DEF IInv, Descriptors, Agrees, MutexPc
<1>2. ASSUME LockCheck(k, t)
      PROVE \E m \in Mutex : Takes(k, t, m, "lock_check") \/ BecomesWaiter(k, t, m)
      BY <1>1, <1>2 DEF LockCheck, At, Takes, BecomesWaiter, TakeFree
<1>3. ASSUME TryCheck(k, t)
      PROVE \E m \in Mutex : Takes(k, t, m, "try_check") \/ GivesBack(k, t, m, "try_check")
      BY <1>1, <1>3 DEF TryCheck, At, Takes, GivesBack
<1>4. ASSUME UnlockCheck(k, t)
      PROVE \E m \in Mutex : \/ GivesBack(k, t, m, "unlock_check")
                             \/ Releases(k, t, m) \/ PassesOn(k, t, m)
      BY <1>1, <1>4 DEF UnlockCheck, At, GivesBack, Releases, PassesOn
<1>5. ASSUME UnlockRel(k, t)
      PROVE \E m \in Mutex : GivesBack(k, t, m, "unlock_rel")
      BY <1>1, <1>5 DEF UnlockRel, At, GivesBack
<1>6. QED
      BY <1>2, <1>3, <1>4, <1>5

\* mut_add_wait_thread and td_ret_cxt: the waiter is in the list, its dispatcher
\* still has to release the member lock.
LEMMA LockQueueKeeps ==
  ASSUME IInv, NEW k \in KThread, NEW t \in Thread, LockQueue(k, t)
  PROVE IInv'
<1>1. kt[k].pc = "user" /\ kt[k].cur = t /\ ut[t].pc = "lock_queue"
      BY DEF LockQueue, At
<1>2. PICK m \in Mutex : m = ut[t].arg
      BY <1>1 DEF IInv, Descriptors, Agrees, MutexPc
<1>3. UNCHANGED <<td, mmrll, mmrll_lk, enabled, mpc, inCS, sent, got>>
      BY DEF LockQueue
<1>4. UtSet(t, "lock_wait", m) /\ ut' \in UtType
      BY <1>2, GotoFacts DEF LockQueue, IInv, UserLabel
<1>5. KtSet(k, "post", t) /\ kt' \in KtType
      BY <1>1, StepFacts DEF LockQueue, ret_cxt, IInv, DispatchLabel
<1>6. /\ \A j \in KThread : kt[j].cur = t => j = k
      /\ Runs(t) /\ Dispatched(t) /\ ~Ready(t) /\ ~Posting(t)
      /\ td[t].mem # "none" /\ td[t].wait
      /\ \A n \in Mutex : ~Waits(t, n)
      BY <1>1, Acting
<1>7. PICK s \in Seq(Thread) :
        /\ s = Append(mut[m].waitll, t)
        /\ \A x \in Thread : InList(x, s) <=> InList(x, mut[m].waitll) \/ x = t
        /\ Distinct(s)
  <2>1. /\ mut[m].waitll \in Seq(Thread) /\ Distinct(mut[m].waitll)
        /\ ~InList(t, mut[m].waitll)
        BY <1>6, Ranges DEF IInv, Places, Waits
  <2>2. /\ Append(mut[m].waitll, t) \in Seq(Thread)
        /\ \A x \in Thread : InList(x, Append(mut[m].waitll, t)) <=>
                            InList(x, mut[m].waitll) \/ x = t
        /\ Distinct(Append(mut[m].waitll, t))
        BY <2>1, AppendFacts
  <2>3. QED
        BY <2>2
<1>8. /\ MutSet(m, mut[m].mem, mut[m].owner, s, mut[m].mem_lock)
      /\ mut' \in MutType
  <2>1. mut \in MutType
        BY DEF IInv, TypeOK, MutType
  <2>2. QED
        BY <1>2, <1>7, <2>1 DEF LockQueue, MutSet, MutType
<1>9. \A x \in Thread, n \in Mutex :
        Waits(x, n)' <=> Waits(x, n) \/ (x = t /\ n = m)
      BY <1>7, <1>8 DEF MutSet, Waits
<1>10. /\ \A x \in Thread \ {t} : SameWhere(x)
       /\ ~Ready(t)' /\ Dispatched(t)' /\ ~Runs(t)' /\ Posting(t)' /\ ~Resumed(t)'
      BY <1>1, <1>3, <1>5, <1>6, WhereStep DEF IInv
<1>11. /\ mut[m].mem = "live" /\ mut[m].mem_lock = t
       /\ mut[m].owner # NULL
      BY <1>1, <1>2 DEF IInv, MutexSide, MemberLocks, Owners, MemberPc
<1>12. TypeOK'
      BY <1>3, <1>4, <1>5, <1>8 DEF IInv, TypeOK, UtType, KtType, MutType
<1>13. Places'
      BY <1>3, <1>5, <1>6, <1>7, <1>8, <1>9, <1>10
      DEF IInv, KtSet, MutSet, SameWhere, Places
<1>14. Descriptors'
  <2>1. /\ WaitSet(t, td[t].state, td[t].wait_for, td[t].intr_off)
        /\ Agrees("lock_wait", m, td[t].state, td[t].wait_for, td[t].intr_off)
        BY <1>1, <1>2, <1>3 DEF IInv, Descriptors, Agrees, MutexPc, CreatePc, JoinerPc,
           OnCpuPc, IntrOffPc, WaitSet, DescrSet, KeepMem, KeepWait, KeepJoin, KeepLock
  <2>2. QED
        BY <1>4, <2>1, DescriptorsKept DEF IInv, WaitSet
<1>15. Dispatchers'
      BY <1>1, <1>3, <1>4, <1>5, <1>6, <1>10, HandleAssumption
      DEF IInv, UtSet, KtSet, SameWhere, Dispatchers, OnCpuPc, CreatePc, WakePc, Off
<1>16. MutexSide'
  <2>1. MemberLocks'
        BY <1>1, <1>2, <1>4, <1>6, <1>8, <1>9, <1>10, <1>11
        DEF IInv, MutexSide, UtSet, MutSet, SameWhere, MemberLocks, MemberPc
  <2>2. Waiters'
        BY <1>1, <1>2, <1>4, <1>8, <1>9, <1>11
        DEF IInv, MutexSide, UtSet, MutSet, Waiters
  <2>3. Owners'
        BY <1>1, <1>2, <1>3, <1>4, <1>8 DEF IInv, MutexSide, UtSet, MutSet, Owners
  <2>4. MutexExclusion'
        BY <1>3, <1>8 DEF IInv, MutexSide, MutSet, MutexExclusion
  <2>5. Handing'
        BY <1>1, <1>2, <1>4, <1>6, <1>8, <1>9, <1>10
        DEF IInv, MutexSide, UtSet, MutSet, SameWhere, Handing, HandPc, Off
  <2>6. QED
        BY <2>1, <2>2, <2>3, <2>4, <2>5 DEF MutexSide
<1>17. ThreadSide'
  <2>1. \A x \in Thread : InsideMutexes(x)
        BY <1>1, <1>2, <1>4, <1>6, <1>10, HandleAssumption
        DEF UtSet, InsideMutexes, MutexPc, Off
  <2>2. \A j \in KThread : Parking(j)
        BY <1>1, <1>5, <1>6 DEF KtSet, Parking
  <2>3. \A x \in Thread : ut'[x].pc = "lock_wait" => ut[x].pc \in MutexPc
        BY <1>1, <1>4 DEF UtSet, MutexPc
  <2>4. \A x \in Thread : ut'[x].pc # "lock_wait" => SameWhere(x)
        BY <1>4, <1>10 DEF UtSet
  <2>5. QED
        BY <1>3, <2>1, <2>2, <2>3, <2>4, ThreadFrame
        DEF IInv, KeepMem, KeepWait, KeepJoin, KeepLock
<1>18. SpinLocks'
      BY <1>1, <1>3, <1>4, <1>10 DEF IInv, UtSet, SameWhere, SpinLocks
<1>19. QED
      BY <1>12, <1>13, <1>14, <1>15, <1>16, <1>17, <1>18 DEF IInv

\* The release puts the new owner, which is parked, in the ready list.
LEMMA UnlockEnqKeeps ==
  ASSUME IInv, NEW k \in KThread, NEW t \in Thread, UnlockEnq(k, t)
  PROVE IInv'
<1>1. kt[k].pc = "user" /\ kt[k].cur = t /\ ut[t].pc = "unlock_enq"
      BY DEF UnlockEnq, At
<1>2. PICK m \in Mutex : m = ut[t].arg
      BY <1>1 DEF IInv, Descriptors, Agrees, MutexPc
<1>3. PICK w \in Thread :
        /\ w = mut[m].owner
        /\ ut[w].pc = "lock_wait" /\ ut[w].arg = m /\ ~Waits(w, m) /\ Off(w)
      BY <1>1, <1>2, Ranges DEF IInv, MutexSide, Handing, HandPc
<1>4. /\ UNCHANGED <<mut, kt, enabled, mpc, inCS, sent, got>>
      /\ mmrll_lk' = NULL /\ NULL \in Lock
      BY DEF UnlockEnq, mmrll_enqueue, Lock
<1>5. UtSet(t, "unlock_rel", m) /\ ut' \in UtType
      BY <1>2, GotoFacts DEF UnlockEnq, IInv, UserLabel
<1>6. WaitSet(t, td[t].state, td[t].wait_for, FALSE) /\ td' \in TdType
      BY IntrFacts DEF UnlockEnq, IInv
<1>7. /\ mmrll' \in Seq(Thread)
      /\ \A x \in Thread : Ready(x)' <=> Ready(x) \/ x = w
      /\ Distinct(mmrll)'
      BY <1>2, <1>3, AppendFacts, Ranges
      DEF UnlockEnq, mmrll_enqueue, IInv, Places, Ready, Off
<1>8. \A x \in Thread : /\ Dispatched(x)' <=> Dispatched(x)
                        /\ Runs(x)' <=> Runs(x)
                        /\ Posting(x)' <=> Posting(x)
                        /\ Resumed(x)' <=> Resumed(x)
      BY <1>4 DEF Dispatched, Runs, Posting, Resumed
<1>9. \A x \in Thread, n \in Mutex : Waits(x, n)' <=> Waits(x, n)
      BY <1>4 DEF Waits
<1>10. /\ Runs(t) /\ Dispatched(t) /\ ~Ready(t) /\ ~Posting(t)
       /\ td[t].mem # "none" /\ w # t
      BY <1>1, <1>3, Acting
<1>11. /\ mut[m].mem_lock = t
       /\ \A x \in Thread : ut[x].pc \in MemberPc /\ ut[x].arg = m => x = t
       /\ \A n \in Mutex : ~Waits(w, n)
      BY <1>1, <1>2, <1>3 DEF IInv, MutexSide, MemberLocks, Waiters, MemberPc
<1>12. TypeOK'
      BY <1>4, <1>5, <1>6, <1>7 DEF IInv, TypeOK, UtType, TdType
<1>13. Places'
      BY <1>3, <1>4, <1>7, <1>8, <1>9, <1>11 DEF IInv, Places, Off
<1>14. Descriptors'
  <2>1. Agrees("unlock_rel", m, td[t].state, td[t].wait_for, FALSE)
        BY <1>1, <1>2 DEF IInv, Descriptors, Agrees, MutexPc, CreatePc, JoinerPc,
           OnCpuPc, IntrOffPc
  <2>2. QED
        BY <1>5, <1>6, <2>1, DescriptorsKept DEF IInv, WaitSet
<1>15. Dispatchers'
  <2>1. \A x \in Thread : td'[x].state = td[x].state
        BY <1>6 DEF WaitSet, DescrSet
  <2>2. \A x \in Thread : ~Off(x) => ~Off(x)'
        BY <1>7, <1>8 DEF Off
  <2>3. \A x \in Thread : ut'[x].pc = "exited" => ut[x].pc = "exited" /\ x # w /\ x # t
        BY <1>3, <1>5 DEF UtSet
  <2>4. QED
        BY <1>1, <1>4, <1>5, <1>7, <1>8, <1>10, <2>1, <2>2, <2>3
        DEF IInv, UtSet, Dispatchers, OnCpuPc, CreatePc, WakePc
<1>16. MutexSide'
  <2>1. MemberLocks'
        BY <1>1, <1>2, <1>4, <1>5, <1>8, <1>9, <1>11
        DEF IInv, MutexSide, UtSet, MemberLocks, MemberPc
  <2>2. Waiters'
        BY <1>1, <1>4, <1>5, <1>9 DEF IInv, MutexSide, UtSet, Waiters
  <2>3. Owners'
        BY <1>1, <1>3, <1>4, <1>5, HandleAssumption DEF IInv, MutexSide, UtSet, Owners
  <2>4. MutexExclusion'
        BY <1>4 DEF IInv, MutexSide, MutexExclusion
  <2>5. Handing'
    <3>1. \A x \in Thread, n \in Mutex : ut'[x].pc \in HandPc /\ ut'[x].arg = n =>
            ut[x].pc \in HandPc /\ ut[x].arg = n /\ n # m
          BY <1>5, <1>11 DEF UtSet, HandPc, MemberPc
    <3>2. \A x \in Thread : Off(x)' <=> Off(x) /\ x # w
          BY <1>7, <1>8 DEF Off
    <3>3. \A x \in Thread : ut[x].pc = "lock_wait" /\ ut[x].arg = m /\ ~Waits(x, m) => x = w
          BY <1>3 DEF IInv, MutexSide, Waiters
    <3>4. QED
          BY <1>1, <1>2, <1>3, <1>4, <1>5, <1>9, <3>1, <3>2, <3>3
          DEF IInv, MutexSide, UtSet, Handing, HandPc
  <2>6. QED
        BY <2>1, <2>2, <2>3, <2>4, <2>5 DEF MutexSide
<1>17. ThreadSide'
  <2>1. \A x \in Thread : InsideMutexes(x)
        BY <1>1, <1>2, <1>5, <1>8, <1>10, HandleAssumption
        DEF UtSet, InsideMutexes, MutexPc, Off
  <2>2. \A j \in KThread : Parking(j)
        BY <1>4 DEF Parking
  <2>3. \A x \in Thread : ut'[x].pc = "lock_wait" => ut[x].pc \in MutexPc
        BY <1>5 DEF UtSet, MutexPc
  <2>4. \A x \in Thread : ut'[x].pc # "lock_wait" => SameWhere(x)
        BY <1>3, <1>5, <1>7, <1>8, <1>10 DEF UtSet, SameWhere
  <2>5. \A x \in Thread : td'[x].state = "JOINED" <=> td[x].state = "JOINED"
        BY <1>6 DEF WaitSet, DescrSet
  <2>6. QED
        BY <1>4, <1>6, <2>1, <2>2, <2>3, <2>4, <2>5, ThreadFrame DEF IInv, WaitSet
<1>18. SpinLocks'
      BY <1>1, <1>4, <1>5, <1>6, <1>8, HandleAssumption
      DEF IInv, UtSet, WaitSet, KeepLock, SpinLocks
<1>19. QED
      BY <1>12, <1>13, <1>14, <1>15, <1>16, <1>17, <1>18 DEF IInv

\* The dispatcher releases the member lock for the waiter it came back from.
LEMMA PostWaitMutexKeeps ==
  ASSUME IInv, NEW k \in KThread, PostWaitMutex(k)
  PROVE IInv'
<1>1. PICK t \in Thread :
        kt[k].cur = t /\ kt[k].pc = "post" /\ td[t].state = "WAIT_MUTEX"
      BY Ranges DEF PostWaitMutex, IInv, Dispatchers
<1>2. /\ Posting(t) /\ Dispatched(t) /\ ~Runs(t) /\ ~Ready(t)
      /\ \A j \in KThread : kt[j].cur = t => j = k
      BY <1>1, HandleAssumption DEF IInv, Places, Posting, Dispatched, Runs
<1>3. ut[t].pc = "lock_wait"
      BY <1>1, <1>2 DEF IInv, Descriptors, Agrees, Dispatchers, OnCpuPc
<1>4. PICK m \in Mutex : m = ut[t].arg /\ m = td[t].wait_for
      BY <1>3 DEF IInv, Descriptors, Agrees, MutexPc
<1>5. UNCHANGED <<td, mmrll, mmrll_lk, ut, enabled, mpc, inCS, sent, got>>
      BY DEF PostWaitMutex
<1>6. /\ MutSet(m, mut[m].mem, mut[m].owner, mut[m].waitll, NULL)
      /\ mut' \in MutType
      BY <1>1, <1>4, MemLockFacts DEF PostWaitMutex, IInv, Lock
<1>7. KtSet(k, "loop", NULL) /\ kt' \in KtType
      BY ToLoopFacts DEF PostWaitMutex, IInv
<1>8. \A x \in Thread, n \in Mutex : Waits(x, n)' <=> Waits(x, n)
      BY <1>6 DEF MutSet, Waits
<1>9. /\ \A x \in Thread \ {t} : SameWhere(x)
      /\ ~Ready(t)' /\ ~Dispatched(t)' /\ ~Runs(t)' /\ ~Posting(t)' /\ ~Resumed(t)'
      BY <1>1, <1>2, <1>5, <1>7, WhereLoop DEF IInv, Ready, SameWhere
<1>10. mut[m].mem_lock = t /\ Waits(t, m)
      BY <1>2, <1>3, <1>4 DEF IInv, MutexSide, MemberLocks
<1>11. TypeOK'
      BY <1>5, <1>6, <1>7 DEF IInv, TypeOK, MutType, KtType
<1>12. Places'
      BY <1>1, <1>2, <1>5, <1>6, <1>7, <1>8, <1>9, HandleAssumption
      DEF IInv, KtSet, MutSet, SameWhere, Places
<1>13. Descriptors'
      BY <1>5 DEF IInv, Descriptors
<1>14. Dispatchers'
      BY <1>1, <1>3, <1>5, <1>7, <1>9, HandleAssumption
      DEF IInv, KtSet, SameWhere, Dispatchers, OnCpuPc, CreatePc, WakePc, Off
<1>15. MutexSide'
  <2>1. MemberLocks'
        BY <1>3, <1>5, <1>6, <1>8, <1>9, <1>10
        DEF IInv, MutexSide, MutSet, SameWhere, MemberLocks, MemberPc
  <2>2. Waiters'
        BY <1>5, <1>6, <1>8 DEF IInv, MutexSide, MutSet, Waiters
  <2>3. Owners'
        BY <1>5, <1>6 DEF IInv, MutexSide, MutSet, Owners
  <2>4. MutexExclusion'
        BY <1>5, <1>6 DEF IInv, MutexSide, MutSet, MutexExclusion
  <2>5. Handing'
    <3>1. \A x \in Thread : Off(x)' <=> Off(x) \/ x = t
          BY <1>9 DEF SameWhere, Off
    <3>2. \A n \in Mutex : mut'[n].owner = mut[n].owner
          BY <1>6 DEF MutSet
    <3>3. \A x, w \in Thread, n \in Mutex :
            ut[x].pc \in HandPc /\ ut[x].arg = n /\ mut[n].owner = w =>
              ut[w].pc = "lock_wait" /\ ut[w].arg = n /\ ~Waits(w, n)' /\ Off(w)'
          BY <1>8, <3>1 DEF IInv, MutexSide, Handing
    <3>4. \A w \in Thread, n \in Mutex :
            ut[w].pc = "lock_wait" /\ ut[w].arg = n /\ Off(w)' /\ ~Waits(w, n)' =>
              \E x \in Thread : ut[x].pc \in HandPc /\ ut[x].arg = n
      <4>1. ASSUME NEW w \in Thread, NEW n \in Mutex, ut[w].pc = "lock_wait",
                   ut[w].arg = n, Off(w)', ~Waits(w, n)'
            PROVE \E x \in Thread : ut[x].pc \in HandPc /\ ut[x].arg = n
        <5>1. w # t /\ ~Waits(w, n)
              BY <1>4, <1>8, <1>10, <4>1
        <5>2. Off(w)
              BY <3>1, <4>1, <5>1
        <5>3. QED
              BY <4>1, <5>1, <5>2 DEF IInv, MutexSide, Handing
      <4>2. QED
            BY <4>1
    <3>5. QED
          BY <1>5, <3>2, <3>3, <3>4 DEF IInv, MutexSide, Handing
  <2>6. QED
        BY <2>1, <2>2, <2>3, <2>4, <2>5 DEF MutexSide
<1>16. ThreadSide'
  <2>1. \A j \in KThread : Parking(j)
        BY <1>1, <1>7, HandleAssumption DEF KtSet, Parking
  <2>2. \A x \in Thread : InsideMutexes(x)
        BY <1>5 DEF InsideMutexes
  <2>3. \A x \in Thread : ut'[x].pc = "lock_wait" => ut[x].pc \in MutexPc
        BY <1>5 DEF MutexPc
  <2>4. \A x \in Thread : ut'[x].pc # "lock_wait" => SameWhere(x)
        BY <1>3, <1>5, <1>9
  <2>5. QED
        BY <1>5, <2>1, <2>2, <2>3, <2>4, ThreadFrame
        DEF IInv, KeepMem, KeepWait, KeepJoin, KeepLock
<1>17. SpinLocks'
      BY <1>3, <1>5, <1>9 DEF IInv, SameWhere, SpinLocks
<1>18. QED
      BY <1>11, <1>12, <1>13, <1>14, <1>15, <1>16, <1>17 DEF IInv

-----------------------------------------------------------------------------
(* The steps of thread_cntl.c and thread_sig.c                             *)

\* A step outside the mutexes that moves no waiter.
LEMMA MutexesApart ==
  ASSUME IInv, mut' = mut, inCS' = inCS, NEW t \in Thread, NEW l, NEW a,
         UtSet(t, l, a), ut[t].pc \notin MutexPc, l \notin MutexPc, a \notin Mutex,
         \A x \in Thread \ {t} : ut[x].pc = "lock_wait" => SameWhere(x)
  PROVE MutexSide'
<1>1. ut[t].arg \notin Mutex
      BY HandleAssumption, Ranges
      DEF IInv, Descriptors, Agrees, MutexPc, UserLabel, CreatePc, JoinerPc
<1>2. \A x \in Thread : OutsideMutexes(x)
      BY <1>1 DEF UtSet, OutsideMutexes
<1>3. \A x \in Thread : ut[x].pc = "lock_wait" =>
        (Off(x)' <=> Off(x)) /\ (Posting(x)' => Posting(x))
      BY DEF SameWhere, Off, MutexPc
<1>4. QED
      BY <1>2, <1>3, MutexFrame DEF IInv

\* A step in the own context of a thread, without the ready list, moves nobody.
LEMMA DispatchersApart ==
  ASSUME IInv, NEW k \in KThread, NEW t \in Thread, kt[k].pc = "user", kt[k].cur = t,
         NEW l, l # "exited", NEW a, UtSet(t, l, a), kt' = kt, mmrll' = mmrll,
         \A x \in Thread \ {t} : td[x].state = "RUNNING" => td'[x].state = "RUNNING"
  PROVE Dispatchers'
<1>1. \A x \in Thread : SameWhere(x)
      BY WhereSame
<1>2. /\ \A j \in KThread : kt[j].cur = t => j = k
      /\ Runs(t) /\ Dispatched(t)
      BY Acting
<1>3. QED
      BY HandleAssumption, <1>1, <1>2
      DEF IInv, UtSet, SameWhere, Dispatchers, OnCpuPc, CreatePc, WakePc, Off

\* A change of the wait of a thread that has not been joined leaves the rest of
\* the descriptors alone.
LEMMA WaitSetKeeps ==
  ASSUME NEW t \in Thread, NEW s, NEW f, NEW i, WaitSet(t, s, f, i),
         s # "JOINED", td[t].state # "JOINED"
  PROVE /\ KeepMem /\ KeepWait /\ KeepJoin /\ KeepLock
        /\ KeepJoined
        /\ \A x \in Thread \ {t} : td'[x].state = td[x].state
  BY DEF WaitSet, DescrSet, KeepJoined

\* thread_yield returns.
LEMMA YieldBackKeeps ==
  ASSUME IInv, NEW k \in KThread, NEW t \in Thread, YieldBack(k, t)
  PROVE IInv'
<1>1. kt[k].pc = "user" /\ kt[k].cur = t /\ ut[t].pc = "yielded"
      BY DEF YieldBack, At
<1>2. UNCHANGED <<mut, mmrll, mmrll_lk, kt, enabled, mpc, inCS, sent, got>>
      BY DEF YieldBack
<1>3. UtSet(t, "client", NULL) /\ ut' \in UtType
      BY ReturnFacts DEF YieldBack, IInv
<1>4. WaitSet(t, td[t].state, td[t].wait_for, FALSE) /\ td' \in TdType
      BY IntrFacts DEF YieldBack, IInv
<1>5. /\ KeepMem /\ KeepWait /\ KeepJoin /\ KeepLock /\ KeepJoined
      /\ \A x \in Thread \ {t} : td'[x].state = td[x].state
      BY <1>1, <1>4, WaitSetKeeps DEF IInv, Descriptors, Agrees
<1>6. \A x \in Thread, n \in Mutex : Waits(x, n)' <=> Waits(x, n)
      BY <1>2 DEF Waits
<1>7. \A x \in Thread : SameWhere(x)
      BY <1>2, WhereSame
<1>8. /\ \A j \in KThread : kt[j].cur = t => j = k
      /\ Runs(t) /\ Resumed(t) /\ Dispatched(t) /\ ~Ready(t) /\ ~Posting(t)
      /\ td[t].mem # "none" /\ td[t].wait
      /\ \A n \in Mutex : ~Waits(t, n)
      BY <1>1, Acting
<1>9. TypeOK'
      BY <1>2, <1>3, <1>4 DEF IInv, TypeOK, UtType, TdType
<1>10. Places'
      BY <1>1, <1>2, <1>6, <1>7, <1>8, HandleAssumption DEF IInv, SameWhere, Places
<1>11. Descriptors'
  <2>1. Agrees("client", NULL, td[t].state, td[t].wait_for, FALSE)
        BY <1>1, HandleAssumption
        DEF IInv, Descriptors, Agrees, MutexPc, CreatePc, JoinerPc, OnCpuPc, IntrOffPc
  <2>2. QED
        BY <1>3, <1>4, <2>1, DescriptorsKept DEF IInv, WaitSet
<1>12. Dispatchers'
      BY <1>1, <1>2, <1>3, <1>5, DispatchersApart DEF IInv
<1>13. MutexSide'
      BY <1>1, <1>2, <1>3, <1>7, MutexesApart, HandleAssumption DEF MutexPc
<1>14. ThreadSide'
  <2>1. Joins'
        BY <1>1, <1>2, <1>3, <1>5, <1>7, <1>8, HandleAssumption
        DEF IInv, ThreadSide, UtSet, KeepMem, KeepWait, KeepJoin, KeepLock, KeepJoined,
            SameWhere, Joins, GoingOn, JoinerPc
  <2>2. Exits'
        BY <1>1, <1>2, <1>3, <1>5, <1>7, <1>8, HandleAssumption
        DEF IInv, ThreadSide, UtSet, KeepMem, KeepWait, KeepJoin, KeepLock, KeepJoined,
            SameWhere, Exits, WakePc, Off
  <2>3. Unborn'
        BY <1>1, <1>2, <1>3, <1>5, <1>7, <1>8, HandleAssumption
        DEF IInv, ThreadSide, UtSet, KeepMem, KeepWait, KeepJoin, KeepLock, KeepJoined,
            SameWhere, Unborn, Off
  <2>4. Creation'
        BY <1>1, <1>2, <1>3, <1>5, <1>7, <1>8, HandleAssumption
        DEF IInv, ThreadSide, UtSet, KeepMem, KeepWait, KeepJoin, KeepLock, KeepJoined,
            SameWhere, Creation, Fresh, Off, CreatePc
  <2>5. QED
        BY <2>1, <2>2, <2>3, <2>4 DEF ThreadSide
<1>15. SpinLocks'
      BY <1>1, <1>2, <1>3, <1>5, <1>7, <1>8, HandleAssumption
      DEF IInv, UtSet, KeepMem, KeepWait, KeepJoin, KeepLock, KeepJoined, SameWhere,
          SpinLocks
<1>16. QED
      BY <1>9, <1>10, <1>11, <1>12, <1>13, <1>14, <1>15 DEF IInv

\* The joiner leaves its wait.
LEMMA JoinResumeKeeps ==
  ASSUME IInv, NEW k \in KThread, NEW t \in Thread, JoinResume(k, t)
  PROVE IInv'
<1>1. kt[k].pc = "user" /\ kt[k].cur = t /\ ut[t].pc = "join_wait"
      BY DEF JoinResume, At
<1>2. PICK u \in Thread : u = ut[t].arg
      BY <1>1 DEF IInv, Descriptors, Agrees, CreatePc, JoinerPc
<1>3. UNCHANGED <<mut, mmrll, mmrll_lk, kt, enabled, mpc, inCS, sent, got>>
      BY DEF JoinResume
<1>4. UtSet(t, "join_free", u) /\ ut' \in UtType
      BY <1>2, GotoFacts DEF JoinResume, IInv, UserLabel
<1>5. WaitSet(t, "RUNNING", NULL, FALSE) /\ td' \in TdType
      BY WaitFacts DEF JoinResume, IInv, States
<1>6. /\ KeepMem /\ KeepWait /\ KeepJoin /\ KeepLock /\ KeepJoined
      /\ \A x \in Thread \ {t} : td'[x].state = td[x].state
      BY <1>1, <1>5, WaitSetKeeps DEF IInv, Descriptors, Agrees
<1>7. \A x \in Thread, n \in Mutex : Waits(x, n)' <=> Waits(x, n)
      BY <1>3 DEF Waits
<1>8. \A x \in Thread : SameWhere(x)
      BY <1>3, WhereSame
<1>9. /\ \A j \in KThread : kt[j].cur = t => j = k
      /\ Runs(t) /\ Resumed(t) /\ Dispatched(t) /\ ~Ready(t) /\ ~Posting(t)
      /\ td[t].mem # "none" /\ td[t].wait
      /\ \A n \in Mutex : ~Waits(t, n)
      BY <1>1, Acting
<1>10. TypeOK'
      BY <1>3, <1>4, <1>5 DEF IInv, TypeOK, UtType, TdType
<1>11. Places'
      BY <1>1, <1>3, <1>7, <1>8, <1>9, HandleAssumption DEF IInv, SameWhere, Places
<1>12. Descriptors'
  <2>1. Agrees("join_free", u, "RUNNING", NULL, FALSE)
        BY <1>2, HandleAssumption
        DEF Agrees, MutexPc, CreatePc, JoinerPc, OnCpuPc, IntrOffPc
  <2>2. QED
        BY <1>4, <1>5, <2>1, DescriptorsKept DEF IInv, WaitSet
<1>13. Dispatchers'
      BY <1>1, <1>3, <1>4, <1>6, DispatchersApart DEF IInv
<1>14. MutexSide'
      BY <1>1, <1>2, <1>3, <1>4, <1>8, MutexesApart, HandleAssumption DEF MutexPc
<1>15. ThreadSide'
  <2>1. Joins'
        BY <1>1, <1>2, <1>3, <1>4, <1>6, <1>8, <1>9, HandleAssumption
        DEF IInv, ThreadSide, UtSet, KeepMem, KeepWait, KeepJoin, KeepLock, KeepJoined,
            SameWhere, Joins, GoingOn, JoinerPc
  <2>2. Exits'
        BY <1>1, <1>2, <1>3, <1>4, <1>6, <1>8, <1>9, HandleAssumption
        DEF IInv, ThreadSide, UtSet, KeepMem, KeepWait, KeepJoin, KeepLock, KeepJoined,
            SameWhere, Exits, WakePc, Off
  <2>3. Unborn'
        BY <1>1, <1>2, <1>3, <1>4, <1>6, <1>8, <1>9, HandleAssumption
        DEF IInv, ThreadSide, UtSet, KeepMem, KeepWait, KeepJoin, KeepLock, KeepJoined,
            SameWhere, Unborn, Off
  <2>4. Creation'
        BY <1>1, <1>2, <1>3, <1>4, <1>6, <1>8, <1>9, HandleAssumption
        DEF IInv, ThreadSide, UtSet, KeepMem, KeepWait, KeepJoin, KeepLock, KeepJoined,
            SameWhere, Creation, Fresh, Off, CreatePc
  <2>5. QED
        BY <2>1, <2>2, <2>3, <2>4 DEF ThreadSide
<1>16. SpinLocks'
      BY <1>1, <1>2, <1>3, <1>4, <1>6, <1>8, <1>9, HandleAssumption
      DEF IInv, UtSet, KeepMem, KeepWait, KeepJoin, KeepLock, KeepJoined, SameWhere,
          SpinLocks
<1>17. QED
      BY <1>10, <1>11, <1>12, <1>13, <1>14, <1>15, <1>16 DEF IInv

\* thread_create takes the lock of the ready list.
LEMMA CreateLockKeeps ==
  ASSUME IInv, NEW k \in KThread, NEW t \in Thread, CreateLock(k, t)
  PROVE IInv'
<1>1. kt[k].pc = "user" /\ kt[k].cur = t /\ ut[t].pc = "create_lock"
      BY DEF CreateLock, At
<1>2. PICK u \in Thread : u = ut[t].arg
      BY <1>1 DEF IInv, Descriptors, Agrees, CreatePc, JoinerPc
<1>3. /\ UNCHANGED <<td, mut, mmrll, kt, enabled, mpc, inCS, sent, got>>
      /\ mmrll_lk' = t /\ t \in Lock
      BY DEF CreateLock, mmrll_lock, Lock
<1>4. UtSet(t, "create_enq", u) /\ ut' \in UtType
      BY <1>2, GotoFacts DEF CreateLock, IInv, UserLabel
<1>5. \A x \in Thread, n \in Mutex : Waits(x, n)' <=> Waits(x, n)
      BY <1>3 DEF Waits
<1>6. \A x \in Thread : SameWhere(x)
      BY <1>3, WhereSame
<1>7. /\ \A j \in KThread : kt[j].cur = t => j = k
      /\ Runs(t) /\ Resumed(t) /\ Dispatched(t) /\ ~Ready(t) /\ ~Posting(t)
      /\ td[t].mem # "none" /\ td[t].wait
      /\ \A n \in Mutex : ~Waits(t, n)
      BY <1>1, Acting
<1>8. TypeOK'
      BY <1>3, <1>4 DEF IInv, TypeOK, UtType
<1>9. Places'
      BY <1>1, <1>3, <1>5, <1>6, <1>7, HandleAssumption DEF IInv, SameWhere, Places
<1>10. Descriptors'
  <2>1. WaitSet(t, td[t].state, td[t].wait_for, td[t].intr_off)
        BY <1>3 DEF WaitSet, DescrSet, KeepMem, KeepWait, KeepJoin, KeepLock
  <2>2. Agrees("create_enq", u, td[t].state, td[t].wait_for, td[t].intr_off)
        BY <1>1, <1>2, HandleAssumption
        DEF IInv, Descriptors, Agrees, MutexPc, CreatePc, JoinerPc, OnCpuPc, IntrOffPc
  <2>3. QED
        BY <1>4, <2>1, <2>2, DescriptorsKept DEF IInv, WaitSet
<1>11. Dispatchers'
      BY <1>1, <1>3, <1>4, DispatchersApart DEF IInv
<1>12. MutexSide'
      BY <1>1, <1>2, <1>3, <1>4, <1>6, MutexesApart, HandleAssumption DEF MutexPc
<1>13. ThreadSide'
  <2>1. Joins'
        BY <1>1, <1>2, <1>3, <1>4, <1>6, <1>7, HandleAssumption
        DEF IInv, ThreadSide, UtSet, SameWhere, Joins, GoingOn, JoinerPc
  <2>2. Exits'
        BY <1>1, <1>2, <1>3, <1>4, <1>6, <1>7, HandleAssumption
        DEF IInv, ThreadSide, UtSet, SameWhere, Exits, WakePc, Off
  <2>3. Unborn'
        BY <1>1, <1>2, <1>3, <1>4, <1>6, <1>7, HandleAssumption
        DEF IInv, ThreadSide, UtSet, SameWhere, Unborn, Off
  <2>4. Creation'
        BY <1>1, <1>2, <1>3, <1>4, <1>6, <1>7, HandleAssumption
        DEF IInv, ThreadSide, UtSet, SameWhere, Creation, Fresh, Off, CreatePc
  <2>5. QED
        BY <2>1, <2>2, <2>3, <2>4 DEF ThreadSide
<1>14. SpinLocks'
      BY <1>1, <1>2, <1>3, <1>4, <1>6, <1>7, HandleAssumption
      DEF IInv, UtSet, SameWhere, SpinLocks
<1>15. QED
      BY <1>8, <1>9, <1>10, <1>11, <1>12, <1>13, <1>14 DEF IInv

\* thread_join is called: the checks it makes without the lock.
LEMMA JoinCallKeeps ==
  ASSUME IInv, NEW k \in KThread, NEW t \in Thread,
         NEW u \in Thread, JoinCall(k, t, u)
  PROVE IInv'
<1>1. /\ kt[k].pc = "user" /\ kt[k].cur = t /\ ut[t].pc = "client"
      /\ td[u].mem = "live" /\ t # u
      BY DEF JoinCall, Calls, At
<1>2. UNCHANGED <<mut, mmrll, mmrll_lk, kt, enabled, mpc, inCS, sent, got>>
      BY DEF JoinCall
<1>3. UtSet(t, "join_lock", u) /\ ut' \in UtType
      BY CallFacts DEF JoinCall, IInv, UserLabel
<1>4. WaitSet(t, td[t].state, td[t].wait_for, TRUE) /\ td' \in TdType
      BY IntrFacts DEF JoinCall, IInv
<1>5. /\ KeepMem /\ KeepWait /\ KeepJoin /\ KeepLock /\ KeepJoined
      /\ \A x \in Thread \ {t} : td'[x].state = td[x].state
      BY <1>1, <1>4, WaitSetKeeps DEF IInv, Descriptors, Agrees
<1>6. \A x \in Thread, n \in Mutex : Waits(x, n)' <=> Waits(x, n)
      BY <1>2 DEF Waits
<1>7. \A x \in Thread : SameWhere(x)
      BY <1>2, WhereSame
<1>8. /\ \A j \in KThread : kt[j].cur = t => j = k
      /\ Runs(t) /\ Resumed(t) /\ Dispatched(t) /\ ~Ready(t) /\ ~Posting(t)
      /\ td[t].mem # "none" /\ td[t].wait
      /\ \A n \in Mutex : ~Waits(t, n)
      BY <1>1, Acting
<1>9. TypeOK'
      BY <1>2, <1>3, <1>4 DEF IInv, TypeOK, UtType, TdType
<1>10. Places'
      BY <1>1, <1>2, <1>6, <1>7, <1>8, HandleAssumption DEF IInv, SameWhere, Places
<1>11. Descriptors'
  <2>1. Agrees("join_lock", u, td[t].state, td[t].wait_for, TRUE)
        BY <1>1, HandleAssumption
        DEF IInv, Descriptors, Agrees, MutexPc, CreatePc, JoinerPc, OnCpuPc, IntrOffPc
  <2>2. QED
        BY <1>3, <1>4, <2>1, DescriptorsKept DEF IInv, WaitSet
<1>12. Dispatchers'
      BY <1>1, <1>2, <1>3, <1>5, DispatchersApart DEF IInv
<1>13. MutexSide'
      BY <1>1, <1>2, <1>3, <1>7, MutexesApart, HandleAssumption DEF MutexPc
<1>14. ThreadSide'
  <2>1. Joins'
        BY <1>1, <1>2, <1>3, <1>5, <1>7, <1>8, HandleAssumption
        DEF IInv, ThreadSide, UtSet, KeepMem, KeepWait, KeepJoin, KeepLock, KeepJoined,
            SameWhere, Joins, GoingOn, JoinerPc
  <2>2. Exits'
        BY <1>1, <1>2, <1>3, <1>5, <1>7, <1>8, HandleAssumption
        DEF IInv, ThreadSide, UtSet, KeepMem, KeepWait, KeepJoin, KeepLock, KeepJoined,
            SameWhere, Exits, WakePc, Off
  <2>3. Unborn'
        BY <1>1, <1>2, <1>3, <1>5, <1>7, <1>8, HandleAssumption
        DEF IInv, ThreadSide, UtSet, KeepMem, KeepWait, KeepJoin, KeepLock, KeepJoined,
            SameWhere, Unborn, Off
  <2>4. Creation'
        BY <1>1, <1>2, <1>3, <1>5, <1>7, <1>8, HandleAssumption
        DEF IInv, ThreadSide, UtSet, KeepMem, KeepWait, KeepJoin, KeepLock, KeepJoined,
            SameWhere, Creation, Fresh, Off, CreatePc
  <2>5. QED
        BY <2>1, <2>2, <2>3, <2>4 DEF ThreadSide
<1>15. SpinLocks'
      BY <1>1, <1>2, <1>3, <1>5, <1>7, <1>8, HandleAssumption
      DEF IInv, UtSet, KeepMem, KeepWait, KeepJoin, KeepLock, KeepJoined, SameWhere,
          SpinLocks
<1>16. QED
      BY <1>9, <1>10, <1>11, <1>12, <1>13, <1>14, <1>15 DEF IInv

\* thread_yield goes back to the dispatcher.
LEMMA ThreadYieldKeeps ==
  ASSUME IInv, NEW k \in KThread, NEW t \in Thread, ThreadYield(k, t)
  PROVE IInv'
<1>1. kt[k].pc = "user" /\ kt[k].cur = t /\ ut[t].pc = "client"
      BY DEF ThreadYield, Calls, At
<1>2. UNCHANGED <<mut, mmrll, mmrll_lk, enabled, mpc, inCS, sent, got>>
      BY DEF ThreadYield
<1>3. UtSet(t, "yielded", NULL) /\ ut' \in UtType
      BY <1>1, GotoFacts DEF ThreadYield, IInv, UserLabel, Descriptors, Agrees
<1>4. WaitSet(t, td[t].state, td[t].wait_for, TRUE) /\ td' \in TdType
      BY IntrFacts DEF ThreadYield, IInv
<1>5. KtSet(k, "post", t) /\ kt' \in KtType
      BY <1>1, StepFacts DEF ThreadYield, ret_cxt, IInv, DispatchLabel
<1>6. /\ KeepMem /\ KeepWait /\ KeepJoin /\ KeepLock /\ KeepJoined
      /\ \A x \in Thread \ {t} : td'[x].state = td[x].state
      BY <1>1, <1>4, WaitSetKeeps DEF IInv, Descriptors, Agrees
<1>7. \A x \in Thread, n \in Mutex : Waits(x, n)' <=> Waits(x, n)
      BY <1>2 DEF Waits
<1>8. /\ \A j \in KThread : kt[j].cur = t => j = k
      /\ Runs(t) /\ Resumed(t) /\ Dispatched(t) /\ ~Ready(t) /\ ~Posting(t)
      /\ td[t].mem # "none" /\ td[t].wait
      /\ \A n \in Mutex : ~Waits(t, n)
      BY <1>1, Acting
<1>9. /\ \A x \in Thread \ {t} : SameWhere(x)
      /\ ~Ready(t)' /\ Dispatched(t)' /\ ~Runs(t)' /\ Posting(t)' /\ ~Resumed(t)'
      BY <1>1, <1>2, <1>5, <1>8, WhereStep DEF IInv
<1>10. TypeOK'
      BY <1>2, <1>3, <1>4, <1>5 DEF IInv, TypeOK, UtType, TdType, KtType
<1>11. Places'
      BY <1>1, <1>2, <1>5, <1>7, <1>9, <1>8, HandleAssumption
      DEF IInv, KtSet, SameWhere, Places
<1>12. Descriptors'
  <2>1. Agrees("yielded", NULL, td[t].state, td[t].wait_for, TRUE)
        BY <1>1, HandleAssumption
        DEF IInv, Descriptors, Agrees, MutexPc, CreatePc, JoinerPc, OnCpuPc, IntrOffPc
  <2>2. QED
        BY <1>3, <1>4, <2>1, DescriptorsKept DEF IInv, WaitSet
<1>13. Dispatchers'
      BY <1>1, <1>2, <1>3, <1>6, <1>5, <1>9, <1>8, HandleAssumption
      DEF IInv, UtSet, KtSet, KeepMem, KeepWait, KeepJoin, KeepLock, KeepJoined,
          SameWhere, Dispatchers, OnCpuPc, CreatePc, WakePc, Off
<1>14. MutexSide'
      BY <1>1, <1>2, <1>3, <1>9, MutexesApart, HandleAssumption DEF MutexPc
<1>15. ThreadSide'
  <2>1. Joins'
        BY <1>1, <1>2, <1>3, <1>6, <1>5, <1>9, <1>8, HandleAssumption
        DEF IInv, ThreadSide, UtSet, KtSet, KeepMem, KeepWait, KeepJoin, KeepLock,
            KeepJoined, SameWhere, Joins, GoingOn, JoinerPc
  <2>2. Exits'
        BY <1>1, <1>2, <1>3, <1>6, <1>5, <1>9, <1>8, HandleAssumption
        DEF IInv, ThreadSide, UtSet, KtSet, KeepMem, KeepWait, KeepJoin, KeepLock,
            KeepJoined, SameWhere, Exits, WakePc, Off
  <2>3. Unborn'
        BY <1>1, <1>2, <1>3, <1>6, <1>5, <1>9, <1>8, HandleAssumption
        DEF IInv, ThreadSide, UtSet, KtSet, KeepMem, KeepWait, KeepJoin, KeepLock,
            KeepJoined, SameWhere, Unborn, Off
  <2>4. Creation'
        BY <1>1, <1>2, <1>3, <1>6, <1>5, <1>9, <1>8, HandleAssumption
        DEF IInv, ThreadSide, UtSet, KtSet, KeepMem, KeepWait, KeepJoin, KeepLock,
            KeepJoined, SameWhere, Creation, Fresh, Off, CreatePc
  <2>5. QED
        BY <2>1, <2>2, <2>3, <2>4 DEF ThreadSide
<1>16. SpinLocks'
      BY <1>1, <1>2, <1>3, <1>6, <1>5, <1>9, <1>8, HandleAssumption
      DEF IInv, UtSet, KtSet, KeepMem, KeepWait, KeepJoin, KeepLock, KeepJoined,
          SameWhere, SpinLocks
<1>17. QED
      BY <1>10, <1>11, <1>12, <1>13, <1>14, <1>15, <1>16 DEF IInv

\* thread_join does not park: its target is over.
JoinGoesOn(k, t, u) ==
  /\ At(k, t, "join_check") /\ ut[t].arg = u
  /\ ~td[u].wait
  /\ Goto(t, "join_wait")
  /\ td' = [td EXCEPT ![u].mem_lock = NULL]
  /\ UNCHANGED <<mut, mmrll, mmrll_lk, kt, enabled, mpc, inCS, sent, got>>

\* thread_join parks with the lock of its target.
JoinParks(k, t, u) ==
  /\ At(k, t, "join_check") /\ ut[t].arg = u
  /\ td[u].wait
  /\ Goto(t, "join_wait")
  /\ ret_cxt(k)
  /\ UNCHANGED <<td, mut, mmrll, mmrll_lk, enabled, mpc, inCS, sent, got>>

\* thread_join finds that somebody joins its target already.
JoinRefused(k, t, u) ==
  /\ At(k, t, "join_lock") /\ ut[t].arg = u
  /\ td[u].mem_lock = NULL /\ td[u].join_thread # NULL
  /\ td' = [td EXCEPT ![u].mem_lock = t, ![t].intr_off = FALSE]
  /\ Goto(t, "join_refuse")
  /\ UNCHANGED <<mut, mmrll, mmrll_lk, kt, enabled, mpc, inCS, sent, got>>

\* thread_join registers the caller with its target.
JoinRegisters(k, t, u) ==
  /\ At(k, t, "join_lock") /\ ut[t].arg = u
  /\ td[u].mem_lock = NULL /\ td[u].join_thread = NULL
  /\ td' = [td EXCEPT ![u].mem_lock = t, ![u].join_thread = t, ![t].wait_for = u,
                      ![t].state = "WAIT_JOIN"]
  /\ Goto(t, "join_check")
  /\ UNCHANGED <<mut, mmrll, mmrll_lk, kt, enabled, mpc, inCS, sent, got>>

\* The steps of thread_join consist of these.
LEMMA JoinAlternatives ==
  ASSUME IInv, NEW k \in KThread, NEW t \in Thread
  PROVE /\ JoinLock(k, t) =>
             \E u \in Thread : JoinRefused(k, t, u) \/ JoinRegisters(k, t, u)
        /\ JoinCheck(k, t) =>
             \E u \in Thread : JoinGoesOn(k, t, u) \/ JoinParks(k, t, u)
<1>1. ut[t].pc \in {"join_lock", "join_check"} => ut[t].arg \in Thread
      BY DEF IInv, Descriptors, Agrees, JoinerPc
<1>2. ASSUME JoinLock(k, t)
      PROVE \E u \in Thread : JoinRefused(k, t, u) \/ JoinRegisters(k, t, u)
      BY <1>1, <1>2 DEF JoinLock, At, JoinRefused, JoinRegisters
<1>3. ASSUME JoinCheck(k, t)
      PROVE \E u \in Thread : JoinGoesOn(k, t, u) \/ JoinParks(k, t, u)
      BY <1>1, <1>3 DEF JoinCheck, At, JoinGoesOn, JoinParks
<1>4. QED
      BY <1>2, <1>3

\* The lock of a descriptor gets a new value.
LEMMA TdLockFacts ==
  ASSUME TypeOK, NEW u \in Thread, NEW h \in Lock,
         td' = [td EXCEPT ![u].mem_lock = h]
  PROVE /\ KeepMem /\ KeepState /\ KeepWait /\ KeepJoin /\ KeepFor /\ KeepIntr
        /\ \A x \in Thread : td'[x].mem_lock = IF x = u THEN h ELSE td[x].mem_lock
        /\ td' \in TdType
<1>1. td \in TdType
      BY DEF TypeOK, TdType
<1>2. QED
      BY <1>1
      DEF TdType, KeepMem, KeepState, KeepWait, KeepJoin, KeepFor, KeepIntr

\* The lock of a descriptor and the interrupt flag of another get new values.
LEMMA LockIntrFacts ==
  ASSUME TypeOK, NEW t \in Thread, NEW u \in Thread, u # t, NEW h \in Lock,
         NEW i \in BOOLEAN, td' = [td EXCEPT ![u].mem_lock = h, ![t].intr_off = i]
  PROVE /\ KeepMem /\ KeepState /\ KeepWait /\ KeepJoin
        /\ DescrSet(t, td[t].state, td[t].wait_for, i)
        /\ \A x \in Thread : td'[x].mem_lock = IF x = u THEN h ELSE td[x].mem_lock
        /\ td' \in TdType
<1>1. td \in TdType
      BY DEF TypeOK, TdType
<1>2. /\ KeepMem /\ KeepState /\ KeepWait /\ KeepJoin
      /\ \A x \in Thread : td'[x].mem_lock = IF x = u THEN h ELSE td[x].mem_lock
      BY <1>1 DEF TdType, KeepMem, KeepState, KeepWait, KeepJoin
<1>3. DescrSet(t, td[t].state, td[t].wait_for, i)
      BY <1>1 DEF TdType, DescrSet
<1>4. td' = [[td EXCEPT ![u].mem_lock = h] EXCEPT ![t].intr_off = i]
      BY <1>1 DEF TdType
<1>5. td' \in TdType
  <2>1. /\ \A d \in TdType : [d EXCEPT ![u].mem_lock = h] \in TdType
        /\ \A d \in TdType : [d EXCEPT ![t].intr_off = i] \in TdType
        BY TdUpdates
  <2>2. QED
        BY <1>1, <1>4, <2>1
<1>6. QED
      BY <1>2, <1>3, <1>5

\* thread_join releases the lock and returns EINVAL.
LEMMA JoinRefuseKeeps ==
  ASSUME IInv, NEW k \in KThread, NEW t \in Thread, JoinRefuse(k, t)
  PROVE IInv'
<1>1. kt[k].pc = "user" /\ kt[k].cur = t /\ ut[t].pc = "join_refuse"
      BY DEF JoinRefuse, At
<1>2. PICK u \in Thread : u = ut[t].arg
      BY <1>1 DEF IInv, Descriptors, Agrees, CreatePc, JoinerPc
<1>3. UNCHANGED <<mut, mmrll, mmrll_lk, kt, enabled, mpc, inCS, sent, got>>
      BY DEF JoinRefuse
<1>4. UtSet(t, "client", NULL) /\ ut' \in UtType
      BY ReturnFacts DEF JoinRefuse, IInv
<1>5. /\ KeepMem /\ KeepState /\ KeepWait /\ KeepJoin /\ KeepFor /\ KeepIntr
      /\ \A x \in Thread : td'[x].mem_lock = IF x = u THEN NULL ELSE td[x].mem_lock
      /\ td' \in TdType
  <2>1. TypeOK /\ NULL \in Lock
        BY DEF IInv, Lock
  <2>2. QED
        BY <1>2, <2>1, TdLockFacts DEF JoinRefuse
<1>6. \A x \in Thread, n \in Mutex : Waits(x, n)' <=> Waits(x, n)
      BY <1>3 DEF Waits
<1>7. \A x \in Thread : SameWhere(x)
      BY <1>3, WhereSame
<1>8. /\ \A j \in KThread : kt[j].cur = t => j = k
      /\ Runs(t) /\ Resumed(t) /\ Dispatched(t) /\ ~Ready(t) /\ ~Posting(t)
      /\ td[t].mem # "none" /\ td[t].wait
      /\ \A n \in Mutex : ~Waits(t, n)
      BY <1>1, Acting
<1>9. td[u].mem_lock = t
      BY <1>1, <1>2 DEF IInv, ThreadSide, Joins
<1>10. TypeOK'
      BY <1>3, <1>4, <1>5 DEF IInv, TypeOK, UtType, TdType
<1>11. Places'
      BY <1>1, <1>3, <1>6, <1>7, <1>8, HandleAssumption DEF IInv, SameWhere, Places
<1>12. Descriptors'
      BY <1>1, <1>2, <1>3, <1>4, <1>5, HandleAssumption
      DEF IInv, UtSet, KeepMem, KeepState, KeepWait, KeepJoin, KeepFor, KeepIntr,
          Descriptors, Agrees, MutexPc, CreatePc, JoinerPc, OnCpuPc, IntrOffPc
<1>13. Dispatchers'
      BY <1>1, <1>3, <1>4, <1>5, DispatchersApart DEF KeepState
<1>14. MutexSide'
      BY <1>1, <1>2, <1>3, <1>4, <1>7, MutexesApart, HandleAssumption DEF MutexPc
<1>15. ThreadSide'
  <2>1. Joins'
        BY <1>1, <1>2, <1>3, <1>4, <1>5, <1>7, <1>8, <1>9, HandleAssumption
        DEF IInv, ThreadSide, UtSet, KeepMem, KeepState, KeepWait, KeepJoin, KeepFor,
            KeepIntr, SameWhere, Joins, GoingOn, JoinerPc
  <2>2. Exits'
        BY <1>1, <1>2, <1>3, <1>4, <1>5, <1>7, <1>8, <1>9, HandleAssumption
        DEF IInv, ThreadSide, UtSet, KeepMem, KeepState, KeepWait, KeepJoin, KeepFor,
            KeepIntr, SameWhere, Exits, WakePc, Off
  <2>3. Unborn'
        BY <1>1, <1>2, <1>3, <1>4, <1>5, <1>7, <1>8, <1>9, HandleAssumption
        DEF IInv, ThreadSide, UtSet, KeepMem, KeepState, KeepWait, KeepJoin, KeepFor,
            KeepIntr, SameWhere, Unborn, Off
  <2>4. Creation'
        BY <1>1, <1>2, <1>3, <1>4, <1>5, <1>7, <1>8, <1>9, HandleAssumption
        DEF IInv, ThreadSide, UtSet, KeepMem, KeepState, KeepWait, KeepJoin, KeepFor,
            KeepIntr, SameWhere, Creation, Fresh, Off, CreatePc
  <2>5. QED
        BY <2>1, <2>2, <2>3, <2>4 DEF ThreadSide
<1>16. SpinLocks'
      BY <1>1, <1>2, <1>3, <1>4, <1>5, <1>7, <1>8, <1>9, HandleAssumption
      DEF IInv, UtSet, KeepMem, KeepState, KeepWait, KeepJoin, KeepFor, KeepIntr,
          SameWhere, SpinLocks
<1>17. QED
      BY <1>10, <1>11, <1>12, <1>13, <1>14, <1>15, <1>16 DEF IInv

\* The target of thread_join is over: the joiner does not park.
LEMMA JoinGoesOnKeeps ==
  ASSUME IInv, NEW k \in KThread, NEW t \in Thread, NEW u \in Thread,
         JoinGoesOn(k, t, u)
  PROVE IInv'
<1>1. /\ kt[k].pc = "user" /\ kt[k].cur = t /\ ut[t].pc = "join_check" /\ ut[t].arg = u
      /\ ~td[u].wait
      BY DEF JoinGoesOn, At
<1>2. UNCHANGED <<mut, mmrll, mmrll_lk, kt, enabled, mpc, inCS, sent, got>>
      BY DEF JoinGoesOn
<1>3. UtSet(t, "join_wait", u) /\ ut' \in UtType
      BY <1>1, GotoFacts DEF JoinGoesOn, IInv, UserLabel
<1>4. /\ KeepMem /\ KeepState /\ KeepWait /\ KeepJoin /\ KeepFor /\ KeepIntr
      /\ \A x \in Thread : td'[x].mem_lock = IF x = u THEN NULL ELSE td[x].mem_lock
      /\ td' \in TdType
  <2>1. TypeOK /\ NULL \in Lock
        BY DEF IInv, Lock
  <2>2. QED
        BY <2>1, TdLockFacts DEF JoinGoesOn
<1>5. \A x \in Thread, n \in Mutex : Waits(x, n)' <=> Waits(x, n)
      BY <1>2 DEF Waits
<1>6. \A x \in Thread : SameWhere(x)
      BY <1>2, WhereSame
<1>7. /\ \A j \in KThread : kt[j].cur = t => j = k
      /\ Runs(t) /\ Resumed(t) /\ Dispatched(t) /\ ~Ready(t) /\ ~Posting(t)
      /\ td[t].mem # "none" /\ td[t].wait
      /\ \A n \in Mutex : ~Waits(t, n)
      BY <1>1, Acting
<1>8. /\ td[u].mem_lock = t /\ td[u].join_thread = t
      /\ ~Dispatched(u)
  <2>1. td[u].mem_lock = t /\ td[u].join_thread = t /\ ut[u].pc = "exited"
        BY <1>1 DEF IInv, ThreadSide, Joins, JoinerPc
  <2>2. ASSUME NEW j \in KThread, kt[j].cur = u PROVE FALSE
    <3>1. kt[j].pc \in DispatchLabel
          BY Ranges DEF IInv
    <3>2. td[u].state # "RUNNING"
          BY <2>1 DEF IInv, Descriptors, Agrees
    <3>3. kt[j].pc \in {"post", "exit_lock", "exit_over"} \cup WakePc
          BY <2>1, <2>2, <3>1, <3>2, HandleAssumption
          DEF IInv, Dispatchers, DispatchLabel, WakePc
    <3>4. kt[j].pc \in WakePc
          BY <1>1, <2>2, <3>3 DEF IInv, ThreadSide, Exits
    <3>5. QED
          BY <1>1, <2>1, <2>2, <3>4 DEF IInv, ThreadSide, Exits
  <2>3. QED
        BY <2>1, <2>2 DEF Dispatched
<1>9. TypeOK'
      BY <1>2, <1>3, <1>4 DEF IInv, TypeOK, UtType, TdType
<1>10. Places'
      BY <1>1, <1>2, <1>5, <1>6, <1>7, HandleAssumption DEF IInv, SameWhere, Places
<1>11. Descriptors'
      BY <1>1, <1>2, <1>3, <1>4, HandleAssumption
      DEF IInv, UtSet, KeepMem, KeepState, KeepWait, KeepJoin, KeepFor, KeepIntr,
          Descriptors, Agrees, MutexPc, CreatePc, JoinerPc, OnCpuPc, IntrOffPc
<1>12. Dispatchers'
      BY <1>1, <1>2, <1>3, <1>4, DispatchersApart DEF KeepState
<1>13. MutexSide'
      BY <1>1, <1>2, <1>3, <1>6, MutexesApart, HandleAssumption DEF MutexPc
<1>14. ThreadSide'
  <2>1. Joins'
        BY <1>1, <1>2, <1>3, <1>4, <1>6, <1>7, <1>8, HandleAssumption
        DEF IInv, ThreadSide, UtSet, KeepMem, KeepState, KeepWait, KeepJoin, KeepFor,
            KeepIntr, SameWhere, Joins, GoingOn, JoinerPc
  <2>2. Exits'
        BY <1>1, <1>2, <1>3, <1>4, <1>6, <1>7, <1>8, HandleAssumption
        DEF IInv, ThreadSide, UtSet, KeepMem, KeepState, KeepWait, KeepJoin, KeepFor,
            KeepIntr, SameWhere, Exits, WakePc, Off
  <2>3. Unborn'
        BY <1>1, <1>2, <1>3, <1>4, <1>6, <1>7, <1>8, HandleAssumption
        DEF IInv, ThreadSide, UtSet, KeepMem, KeepState, KeepWait, KeepJoin, KeepFor,
            KeepIntr, SameWhere, Unborn, Off
  <2>4. Creation'
        BY <1>1, <1>2, <1>3, <1>4, <1>6, <1>7, <1>8, HandleAssumption
        DEF IInv, ThreadSide, UtSet, KeepMem, KeepState, KeepWait, KeepJoin, KeepFor,
            KeepIntr, SameWhere, Creation, Fresh, Off, CreatePc
  <2>5. QED
        BY <2>1, <2>2, <2>3, <2>4 DEF ThreadSide
<1>15. SpinLocks'
      BY <1>1, <1>2, <1>3, <1>4, <1>6, <1>7, <1>8, HandleAssumption
      DEF IInv, UtSet, KeepMem, KeepState, KeepWait, KeepJoin, KeepFor, KeepIntr,
          SameWhere, SpinLocks
<1>16. QED
      BY <1>9, <1>10, <1>11, <1>12, <1>13, <1>14, <1>15 DEF IInv

\* The target of thread_join is not over: the joiner goes back to its dispatcher.
LEMMA JoinParksKeeps ==
  ASSUME IInv, NEW k \in KThread, NEW t \in Thread, NEW u \in Thread,
         JoinParks(k, t, u)
  PROVE IInv'
<1>1. /\ kt[k].pc = "user" /\ kt[k].cur = t /\ ut[t].pc = "join_check" /\ ut[t].arg = u
      /\ td[u].wait
      BY DEF JoinParks, At
<1>2. UNCHANGED <<td, mut, mmrll, mmrll_lk, enabled, mpc, inCS, sent, got>>
      BY DEF JoinParks
<1>3. UtSet(t, "join_wait", u) /\ ut' \in UtType
      BY <1>1, GotoFacts DEF JoinParks, IInv, UserLabel
<1>4. KtSet(k, "post", t) /\ kt' \in KtType
      BY <1>1, StepFacts DEF JoinParks, ret_cxt, IInv, DispatchLabel
<1>5. \A x \in Thread, n \in Mutex : Waits(x, n)' <=> Waits(x, n)
      BY <1>2 DEF Waits
<1>6. /\ \A j \in KThread : kt[j].cur = t => j = k
      /\ Runs(t) /\ Resumed(t) /\ Dispatched(t) /\ ~Ready(t) /\ ~Posting(t)
      /\ td[t].mem # "none" /\ td[t].wait
      /\ \A n \in Mutex : ~Waits(t, n)
      BY <1>1, Acting
<1>7. /\ \A x \in Thread \ {t} : SameWhere(x)
      /\ ~Ready(t)' /\ Dispatched(t)' /\ ~Runs(t)' /\ Posting(t)' /\ ~Resumed(t)'
      BY <1>1, <1>2, <1>4, <1>6, WhereStep DEF IInv
<1>8. td[u].mem_lock = t /\ td[u].join_thread = t
      BY <1>1 DEF IInv, ThreadSide, Joins, JoinerPc
<1>9. TypeOK'
      BY <1>2, <1>3, <1>4 DEF IInv, TypeOK, UtType, KtType
<1>10. Places'
      BY <1>1, <1>2, <1>4, <1>5, <1>7, <1>6, HandleAssumption
      DEF IInv, KtSet, SameWhere, Places
<1>11. Descriptors'
  <2>1. WaitSet(t, td[t].state, td[t].wait_for, td[t].intr_off)
        BY <1>2 DEF WaitSet, DescrSet, KeepMem, KeepWait, KeepJoin, KeepLock
  <2>2. Agrees("join_wait", u, td[t].state, td[t].wait_for, td[t].intr_off)
        BY <1>1, HandleAssumption
        DEF IInv, Descriptors, Agrees, MutexPc, CreatePc, JoinerPc, OnCpuPc, IntrOffPc
  <2>3. QED
        BY <1>3, <2>1, <2>2, DescriptorsKept DEF IInv, WaitSet
<1>12. Dispatchers'
      BY <1>1, <1>2, <1>3, <1>4, <1>7, <1>6, <1>8, HandleAssumption
      DEF IInv, UtSet, KtSet, SameWhere, Dispatchers, OnCpuPc, CreatePc, WakePc, Off
<1>13. MutexSide'
      BY <1>1, <1>2, <1>3, <1>7, MutexesApart, HandleAssumption DEF MutexPc
<1>14. ThreadSide'
  <2>1. Joins'
        BY <1>1, <1>2, <1>3, <1>4, <1>7, <1>6, <1>8, HandleAssumption
        DEF IInv, ThreadSide, UtSet, KtSet, SameWhere, Joins, GoingOn, JoinerPc
  <2>2. Exits'
        BY <1>1, <1>2, <1>3, <1>4, <1>7, <1>6, <1>8, HandleAssumption
        DEF IInv, ThreadSide, UtSet, KtSet, SameWhere, Exits, WakePc, Off
  <2>3. Unborn'
        BY <1>1, <1>2, <1>3, <1>4, <1>7, <1>6, <1>8, HandleAssumption
        DEF IInv, ThreadSide, UtSet, KtSet, SameWhere, Unborn, Off
  <2>4. Creation'
        BY <1>1, <1>2, <1>3, <1>4, <1>7, <1>6, <1>8, HandleAssumption
        DEF IInv, ThreadSide, UtSet, KtSet, SameWhere, Creation, Fresh, Off, CreatePc
  <2>5. QED
        BY <2>1, <2>2, <2>3, <2>4 DEF ThreadSide
<1>15. SpinLocks'
      BY <1>1, <1>2, <1>3, <1>4, <1>7, <1>6, <1>8, HandleAssumption
      DEF IInv, UtSet, KtSet, SameWhere, SpinLocks
<1>16. QED
      BY <1>9, <1>10, <1>11, <1>12, <1>13, <1>14, <1>15 DEF IInv

\* thread_exit, or the return from the start routine.
LEMMA ThreadExitKeeps ==
  ASSUME IInv, NEW k \in KThread, NEW t \in Thread, ThreadExit(k, t)
  PROVE IInv'
<1>1. kt[k].pc = "user" /\ kt[k].cur = t /\ ut[t].pc = "client"
      BY DEF ThreadExit, Calls, At
<1>2. UNCHANGED <<mut, mmrll, mmrll_lk, enabled, mpc, inCS, sent, got>>
      BY DEF ThreadExit
<1>3. UtSet(t, "exited", NULL) /\ ut' \in UtType
      BY <1>1, GotoFacts DEF ThreadExit, IInv, UserLabel, Descriptors, Agrees
<1>4. WaitSet(t, "EXITED", NULL, TRUE) /\ td' \in TdType
  <2>1. td \in TdType
        BY DEF IInv, TypeOK, TdType
  <2>2. td[t].wait_for = NULL
        BY <1>1 DEF IInv, Descriptors, Agrees
  <2>3. WaitSet(t, "EXITED", NULL, TRUE)
        BY ZenonT(60), <2>1, <2>2
        DEF ThreadExit, WaitSet, DescrSet, KeepMem, KeepWait, KeepJoin, KeepLock, TdType
  <2>4. td' = [[td EXCEPT ![t].intr_off = TRUE] EXCEPT ![t].state = "EXITED"] /\ "EXITED" \in States
        BY <2>1 DEF ThreadExit, TdType, States
  <2>5. td' \in TdType
        BY <2>1, <2>4, TdUpdates
  <2>6. QED
        BY <2>3, <2>5
<1>5. KtSet(k, "post", t) /\ kt' \in KtType
      BY <1>1, StepFacts DEF ThreadExit, ret_cxt, IInv, DispatchLabel
<1>6. /\ KeepMem /\ KeepWait /\ KeepJoin /\ KeepLock /\ KeepJoined
      /\ \A x \in Thread \ {t} : td'[x].state = td[x].state
      BY <1>1, <1>4, WaitSetKeeps DEF IInv, Descriptors, Agrees
<1>7. \A x \in Thread, n \in Mutex : Waits(x, n)' <=> Waits(x, n)
      BY <1>2 DEF Waits
<1>8. /\ \A j \in KThread : kt[j].cur = t => j = k
      /\ Runs(t) /\ Resumed(t) /\ Dispatched(t) /\ ~Ready(t) /\ ~Posting(t)
      /\ td[t].mem # "none" /\ td[t].wait
      /\ \A n \in Mutex : ~Waits(t, n)
      BY <1>1, Acting
<1>9. /\ \A x \in Thread \ {t} : SameWhere(x)
      /\ ~Ready(t)' /\ Dispatched(t)' /\ ~Runs(t)' /\ Posting(t)' /\ ~Resumed(t)'
      BY <1>1, <1>2, <1>5, <1>8, WhereStep DEF IInv
<1>10. TypeOK'
      BY <1>2, <1>3, <1>4, <1>5 DEF IInv, TypeOK, UtType, TdType, KtType
<1>11. Places'
      BY <1>1, <1>2, <1>5, <1>7, <1>9, <1>8, HandleAssumption
      DEF IInv, KtSet, SameWhere, Places
<1>12. Descriptors'
  <2>1. Agrees("exited", NULL, "EXITED", NULL, TRUE)
        BY HandleAssumption DEF Agrees, MutexPc, CreatePc, JoinerPc, OnCpuPc, IntrOffPc
  <2>2. QED
        BY <1>3, <1>4, <2>1, DescriptorsKept DEF IInv, WaitSet
<1>13. Dispatchers'
      BY <1>1, <1>2, <1>3, <1>6, <1>5, <1>9, <1>8, HandleAssumption
      DEF IInv, UtSet, KtSet, KeepMem, KeepWait, KeepJoin, KeepLock, KeepJoined,
          SameWhere, Dispatchers, OnCpuPc, CreatePc, WakePc, Off
<1>14. MutexSide'
      BY <1>1, <1>2, <1>3, <1>9, MutexesApart, HandleAssumption DEF MutexPc
<1>15. ThreadSide'
  <2>1. Joins'
        BY <1>1, <1>2, <1>3, <1>6, <1>5, <1>9, <1>8, HandleAssumption
        DEF IInv, ThreadSide, UtSet, KtSet, KeepMem, KeepWait, KeepJoin, KeepLock,
            KeepJoined, SameWhere, Joins, GoingOn, JoinerPc
  <2>2. Exits'
        BY <1>1, <1>2, <1>3, <1>6, <1>5, <1>9, <1>8, HandleAssumption
        DEF IInv, ThreadSide, UtSet, KtSet, KeepMem, KeepWait, KeepJoin, KeepLock,
            KeepJoined, SameWhere, Exits, WakePc, Off
  <2>3. Unborn'
        BY <1>1, <1>2, <1>3, <1>6, <1>5, <1>9, <1>8, HandleAssumption
        DEF IInv, ThreadSide, UtSet, KtSet, KeepMem, KeepWait, KeepJoin, KeepLock,
            KeepJoined, SameWhere, Unborn, Off
  <2>4. Creation'
        BY <1>1, <1>2, <1>3, <1>6, <1>5, <1>9, <1>8, HandleAssumption
        DEF IInv, ThreadSide, UtSet, KtSet, KeepMem, KeepWait, KeepJoin, KeepLock,
            KeepJoined, SameWhere, Creation, Fresh, Off, CreatePc
  <2>5. QED
        BY <2>1, <2>2, <2>3, <2>4 DEF ThreadSide
<1>16. SpinLocks'
      BY <1>1, <1>2, <1>3, <1>6, <1>5, <1>9, <1>8, HandleAssumption
      DEF IInv, UtSet, KtSet, KeepMem, KeepWait, KeepJoin, KeepLock, KeepJoined,
          SameWhere, SpinLocks
<1>17. QED
      BY <1>10, <1>11, <1>12, <1>13, <1>14, <1>15, <1>16 DEF IInv

\* Somebody joins the target already.
LEMMA JoinRefusedKeeps ==
  ASSUME IInv, NEW k \in KThread, NEW t \in Thread, NEW u \in Thread,
         JoinRefused(k, t, u)
  PROVE IInv'
<1>1. /\ kt[k].pc = "user" /\ kt[k].cur = t /\ ut[t].pc = "join_lock" /\ ut[t].arg = u
      /\ td[u].mem_lock = NULL
      BY DEF JoinRefused, At
<1>2. UNCHANGED <<mut, mmrll, mmrll_lk, kt, enabled, mpc, inCS, sent, got>>
      BY DEF JoinRefused
<1>3. UtSet(t, "join_refuse", u) /\ ut' \in UtType
      BY <1>1, GotoFacts DEF JoinRefused, IInv, UserLabel
<1>4. u # t
      BY <1>1 DEF IInv, ThreadSide, Joins
<1>5. /\ KeepMem /\ KeepState /\ KeepWait /\ KeepJoin
      /\ DescrSet(t, td[t].state, td[t].wait_for, FALSE)
      /\ \A x \in Thread : td'[x].mem_lock = IF x = u THEN t ELSE td[x].mem_lock
      /\ td' \in TdType
  <2>1. TypeOK /\ t \in Lock
        BY DEF IInv, Lock
  <2>2. QED
        BY ZenonT(60), <1>4, <2>1, LockIntrFacts DEF JoinRefused
<1>6. \A x \in Thread, n \in Mutex : Waits(x, n)' <=> Waits(x, n)
      BY <1>2 DEF Waits
<1>7. \A x \in Thread : SameWhere(x)
      BY <1>2, WhereSame
<1>8. /\ \A j \in KThread : kt[j].cur = t => j = k
      /\ Runs(t) /\ Resumed(t) /\ Dispatched(t) /\ ~Ready(t) /\ ~Posting(t)
      /\ td[t].mem # "none" /\ td[t].wait
      /\ \A n \in Mutex : ~Waits(t, n)
      BY <1>1, Acting
<1>9. TypeOK'
      BY <1>2, <1>3, <1>5 DEF IInv, TypeOK, UtType, TdType
<1>10. Places'
      BY <1>1, <1>2, <1>6, <1>7, <1>8, HandleAssumption DEF IInv, SameWhere, Places
<1>11. Descriptors'
  <2>1. Agrees("join_refuse", u, td[t].state, td[t].wait_for, FALSE)
        BY <1>1, HandleAssumption
        DEF IInv, Descriptors, Agrees, MutexPc, CreatePc, JoinerPc, OnCpuPc, IntrOffPc
  <2>2. QED
        BY <1>3, <1>5, <2>1, DescriptorsKept DEF IInv
<1>12. Dispatchers'
      BY <1>1, <1>2, <1>3, <1>5, DispatchersApart DEF KeepState
<1>13. MutexSide'
      BY <1>1, <1>2, <1>3, <1>7, MutexesApart, HandleAssumption DEF MutexPc
<1>14. ThreadSide'
  <2>1. Joins'
        BY <1>1, <1>2, <1>3, <1>5, <1>7, <1>8, HandleAssumption
        DEF IInv, ThreadSide, UtSet, KeepMem, KeepState, KeepWait, KeepJoin, SameWhere,
            Joins, GoingOn, JoinerPc
  <2>2. Exits'
        BY <1>1, <1>2, <1>3, <1>5, <1>7, <1>8, HandleAssumption
        DEF IInv, ThreadSide, UtSet, KeepMem, KeepState, KeepWait, KeepJoin, SameWhere,
            Exits, WakePc, Off
  <2>3. Unborn'
        BY <1>1, <1>2, <1>3, <1>5, <1>7, <1>8, HandleAssumption
        DEF IInv, ThreadSide, UtSet, KeepMem, KeepState, KeepWait, KeepJoin, SameWhere,
            Unborn, Off
  <2>4. Creation'
        BY <1>1, <1>2, <1>3, <1>5, <1>7, <1>8, HandleAssumption
        DEF IInv, ThreadSide, UtSet, KeepMem, KeepState, KeepWait, KeepJoin, SameWhere,
            Creation, Fresh, Off, CreatePc
  <2>5. QED
        BY <2>1, <2>2, <2>3, <2>4 DEF ThreadSide
<1>15. SpinLocks'
      BY <1>1, <1>2, <1>3, <1>5, <1>7, <1>8, HandleAssumption
      DEF IInv, UtSet, KeepMem, KeepState, KeepWait, KeepJoin, SameWhere, SpinLocks
<1>16. QED
      BY <1>9, <1>10, <1>11, <1>12, <1>13, <1>14, <1>15 DEF IInv

\* The joiner registers with its target.
LEMMA JoinRegistersKeeps ==
  ASSUME IInv, NEW k \in KThread, NEW t \in Thread, NEW u \in Thread,
         JoinRegisters(k, t, u)
  PROVE IInv'
<1>1. /\ kt[k].pc = "user" /\ kt[k].cur = t /\ ut[t].pc = "join_lock" /\ ut[t].arg = u
      /\ td[u].mem_lock = NULL /\ td[u].join_thread = NULL
      BY DEF JoinRegisters, At
<1>2. UNCHANGED <<mut, mmrll, mmrll_lk, kt, enabled, mpc, inCS, sent, got>>
      BY DEF JoinRegisters
<1>3. UtSet(t, "join_check", u) /\ ut' \in UtType
      BY <1>1, GotoFacts DEF JoinRegisters, IInv, UserLabel
<1>4. u # t /\ td[u].state # "JOINED" /\ td[t].state # "JOINED"
      BY <1>1 DEF IInv, ThreadSide, Joins, Descriptors, Agrees
<1>5. /\ KeepMem /\ KeepWait /\ KeepJoined
      /\ DescrSet(t, "WAIT_JOIN", u, td[t].intr_off)
      /\ \A x \in Thread : /\ td'[x].mem_lock = IF x = u THEN t ELSE td[x].mem_lock
                           /\ td'[x].join_thread = IF x = u THEN t ELSE td[x].join_thread
                           /\ x # t => td'[x].state = td[x].state
      /\ td' \in TdType
  <2>1. td \in TdType
        BY DEF IInv, TypeOK, TdType
  <2>2. /\ KeepMem /\ KeepWait /\ KeepJoined
        /\ DescrSet(t, "WAIT_JOIN", u, td[t].intr_off)
        /\ \A x \in Thread : /\ td'[x].mem_lock = IF x = u THEN t ELSE td[x].mem_lock
                             /\ td'[x].join_thread = IF x = u THEN t ELSE td[x].join_thread
                             /\ x # t => td'[x].state = td[x].state
        BY SMTT(30), <1>4, <2>1 DEF JoinRegisters, TdType, KeepMem, KeepWait, KeepJoined, DescrSet
  <2>3. /\ td' = [[[[td EXCEPT ![u].mem_lock = t] EXCEPT ![u].join_thread = t]
                       EXCEPT ![t].wait_for = u] EXCEPT ![t].state = "WAIT_JOIN"]
        /\ t \in Lock /\ "WAIT_JOIN" \in States
        BY <2>1 DEF JoinRegisters, TdType, Lock, States
  <2>4. td' \in TdType
    <3>1. /\ \A d \in TdType : [d EXCEPT ![u].mem_lock = t] \in TdType
          /\ \A d \in TdType : [d EXCEPT ![u].join_thread = t] \in TdType
          /\ \A d \in TdType : [d EXCEPT ![t].wait_for = u] \in TdType
          /\ \A d \in TdType : [d EXCEPT ![t].state = "WAIT_JOIN"] \in TdType
          BY <2>3, TdUpdates
    <3>2. QED
          BY <2>1, <2>3, <3>1
  <2>5. QED
        BY <2>2, <2>4
<1>6. \A x \in Thread, n \in Mutex : Waits(x, n)' <=> Waits(x, n)
      BY <1>2 DEF Waits
<1>7. \A x \in Thread : SameWhere(x)
      BY <1>2, WhereSame
<1>8. /\ \A j \in KThread : kt[j].cur = t => j = k
      /\ Runs(t) /\ Resumed(t) /\ Dispatched(t) /\ ~Ready(t) /\ ~Posting(t)
      /\ td[t].mem # "none" /\ td[t].wait
      /\ \A n \in Mutex : ~Waits(t, n)
      BY <1>1, Acting
<1>9. u # t /\ td[u].state # "JOINED" /\ td[t].state # "JOINED"
      BY <1>4
<1>10. TypeOK'
      BY <1>2, <1>3, <1>5 DEF IInv, TypeOK, UtType, TdType
<1>11. Places'
      BY <1>1, <1>2, <1>6, <1>7, <1>8, HandleAssumption DEF IInv, SameWhere, Places
<1>12. Descriptors'
  <2>1. Agrees("join_check", u, "WAIT_JOIN", u, td[t].intr_off)
        BY <1>1, HandleAssumption
        DEF IInv, Descriptors, Agrees, MutexPc, CreatePc, JoinerPc, OnCpuPc, IntrOffPc
  <2>2. QED
        BY <1>3, <1>5, <2>1, DescriptorsKept DEF IInv
<1>13. Dispatchers'
      BY ZenonT(60), <1>1, <1>2, <1>3, <1>5, DispatchersApart DEF IInv
<1>14. MutexSide'
      BY <1>1, <1>2, <1>3, <1>7, MutexesApart, HandleAssumption DEF MutexPc
<1>15. ThreadSide'
  <2>1. Joins'
        BY <1>1, <1>2, <1>3, <1>5, <1>7, <1>8, <1>9, HandleAssumption
        DEF IInv, ThreadSide, UtSet, KeepMem, KeepWait, KeepJoined, SameWhere, Joins,
            GoingOn, JoinerPc
  <2>2. Exits'
        BY <1>1, <1>2, <1>3, <1>5, <1>7, <1>8, <1>9, HandleAssumption
        DEF IInv, ThreadSide, UtSet, KeepMem, KeepWait, KeepJoined, SameWhere, Exits,
            WakePc, Off
  <2>3. Unborn'
        BY <1>1, <1>2, <1>3, <1>5, <1>7, <1>8, <1>9, HandleAssumption
        DEF IInv, ThreadSide, UtSet, KeepMem, KeepWait, KeepJoined, SameWhere, Unborn,
            Off
  <2>4. Creation'
        BY <1>1, <1>2, <1>3, <1>5, <1>7, <1>8, <1>9, HandleAssumption
        DEF IInv, ThreadSide, UtSet, KeepMem, KeepWait, KeepJoined, SameWhere, Creation,
            Fresh, Off, CreatePc
  <2>5. QED
        BY <2>1, <2>2, <2>3, <2>4 DEF ThreadSide
<1>16. SpinLocks'
      BY <1>1, <1>2, <1>3, <1>5, <1>7, <1>8, <1>9, HandleAssumption
      DEF IInv, UtSet, KeepMem, KeepWait, KeepJoined, SameWhere, SpinLocks
<1>17. QED
      BY <1>10, <1>11, <1>12, <1>13, <1>14, <1>15, <1>16 DEF IInv

\* thread_join marks its target joined, frees it and returns.
LEMMA JoinFreeKeeps ==
  ASSUME IInv, NEW k \in KThread, NEW t \in Thread, JoinFree(k, t)
  PROVE IInv'
<1>1. kt[k].pc = "user" /\ kt[k].cur = t /\ ut[t].pc = "join_free"
      BY DEF JoinFree, At
<1>2. PICK u \in Thread : u = ut[t].arg
      BY <1>1 DEF IInv, Descriptors, Agrees, CreatePc, JoinerPc
<1>3. UNCHANGED <<mut, mmrll, mmrll_lk, kt, enabled, mpc, inCS, sent, got>>
      BY DEF JoinFree
<1>4. UtSet(t, "client", NULL) /\ ut' \in UtType
      BY ReturnFacts DEF JoinFree, IInv
<1>5. /\ KeepWait /\ KeepJoin /\ KeepFor /\ KeepIntr /\ KeepLock
      /\ \A x \in Thread : /\ td'[x].mem = IF x = u THEN "freed" ELSE td[x].mem
                           /\ td'[x].state = IF x = u THEN "JOINED" ELSE td[x].state
      /\ td' \in TdType
  <2>1. td \in TdType
        BY DEF IInv, TypeOK, TdType
  <2>2. /\ KeepWait /\ KeepJoin /\ KeepFor /\ KeepIntr /\ KeepLock
        /\ \A x \in Thread : /\ td'[x].mem = IF x = u THEN "freed" ELSE td[x].mem
                             /\ td'[x].state = IF x = u THEN "JOINED" ELSE td[x].state
        BY <1>2, <2>1 DEF JoinFree, TdType, KeepWait, KeepJoin, KeepFor, KeepIntr, KeepLock
  <2>3. /\ td' = [[td EXCEPT ![u].state = "JOINED"] EXCEPT ![u].mem = "freed"]
        /\ "JOINED" \in States
        BY <1>2, <2>1 DEF JoinFree, TdType, States
  <2>4. td' \in TdType
        BY <2>1, <2>3, TdUpdates
  <2>5. QED
        BY <2>2, <2>4
<1>6. \A x \in Thread, n \in Mutex : Waits(x, n)' <=> Waits(x, n)
      BY <1>3 DEF Waits
<1>7. \A x \in Thread : SameWhere(x)
      BY <1>3, WhereSame
<1>8. /\ \A j \in KThread : kt[j].cur = t => j = k
      /\ Runs(t) /\ Resumed(t) /\ Dispatched(t) /\ ~Ready(t) /\ ~Posting(t)
      /\ td[t].mem # "none" /\ td[t].wait
      /\ \A n \in Mutex : ~Waits(t, n)
      BY <1>1, Acting
<1>9. /\ ut[u].pc = "exited" /\ u # t /\ ~td[u].wait /\ ~Dispatched(u)
      /\ td[u].join_thread = t /\ td[u].mem # "none"
      BY <1>1, <1>2 DEF IInv, ThreadSide, Joins, GoingOn, JoinerPc, Unborn
<1>10. TypeOK'
      BY <1>3, <1>4, <1>5 DEF IInv, TypeOK, UtType, TdType
<1>11. Places'
      BY <1>1, <1>3, <1>6, <1>7, <1>8, HandleAssumption DEF IInv, SameWhere, Places
<1>12. Descriptors'
  <2> SUFFICES ASSUME NEW x \in Thread
               PROVE Agrees(ut'[x].pc, ut'[x].arg, td'[x].state, td'[x].wait_for,
                            td'[x].intr_off)
      BY DEF Descriptors
  <2>1. Agrees(ut[x].pc, ut[x].arg, td[x].state, td[x].wait_for, td[x].intr_off)
        BY DEF IInv, Descriptors
  <2>2. td'[x].wait_for = td[x].wait_for /\ td'[x].intr_off = td[x].intr_off
        BY <1>5 DEF KeepFor, KeepIntr
  <2>3. CASE x = t
        BY <1>1, <1>4, <1>5, <1>9, <2>1, <2>2, <2>3, HandleAssumption
        DEF UtSet, Agrees, MutexPc, CreatePc, JoinerPc, OnCpuPc, IntrOffPc
  <2>4. CASE x = u
        BY <1>4, <1>5, <1>9, <2>1, <2>2, <2>4
        DEF UtSet, Agrees, MutexPc, CreatePc, JoinerPc, OnCpuPc, IntrOffPc
  <2>5. CASE x # t /\ x # u
        BY <1>4, <1>5, <2>1, <2>2, <2>5 DEF UtSet
  <2>6. QED
        BY <2>3, <2>4, <2>5
<1>13. Dispatchers'
  <2>1. \A x \in Thread : td[x].state = "RUNNING" => td'[x].state = "RUNNING"
        BY <1>5, <1>9 DEF IInv, Descriptors, Agrees
  <2>2. QED
        BY <1>1, <1>3, <1>4, <2>1, DispatchersApart
<1>14. MutexSide'
      BY <1>1, <1>2, <1>3, <1>4, <1>7, MutexesApart, HandleAssumption DEF MutexPc
<1>15. ThreadSide'
  <2>1. Joins'
        BY <1>1, <1>2, <1>3, <1>4, <1>5, <1>7, <1>8, <1>9, HandleAssumption
        DEF IInv, ThreadSide, UtSet, KeepWait, KeepJoin, KeepFor, KeepIntr, KeepLock,
            SameWhere, Joins, GoingOn, JoinerPc
  <2>2. Exits'
        BY <1>1, <1>2, <1>3, <1>4, <1>5, <1>7, <1>8, <1>9, HandleAssumption
        DEF IInv, ThreadSide, UtSet, KeepWait, KeepJoin, KeepFor, KeepIntr, KeepLock,
            SameWhere, Exits, WakePc, Off
  <2>3. Unborn'
        BY <1>1, <1>2, <1>3, <1>4, <1>5, <1>7, <1>8, <1>9, HandleAssumption
        DEF IInv, ThreadSide, UtSet, KeepWait, KeepJoin, KeepFor, KeepIntr, KeepLock,
            SameWhere, Unborn, Off
  <2>4. Creation'
        BY <1>1, <1>2, <1>3, <1>4, <1>5, <1>7, <1>8, <1>9, HandleAssumption
        DEF IInv, ThreadSide, UtSet, KeepWait, KeepJoin, KeepFor, KeepIntr, KeepLock,
            SameWhere, Creation, Fresh, Off, CreatePc
  <2>5. QED
        BY <2>1, <2>2, <2>3, <2>4 DEF ThreadSide
<1>16. SpinLocks'
      BY <1>1, <1>2, <1>3, <1>4, <1>5, <1>7, <1>8, <1>9, HandleAssumption
      DEF IInv, UtSet, KeepWait, KeepJoin, KeepFor, KeepIntr, KeepLock, SameWhere,
          SpinLocks
<1>17. QED
      BY <1>10, <1>11, <1>12, <1>13, <1>14, <1>15, <1>16 DEF IInv

\* thread_create makes a descriptor.
LEMMA CreateCallKeeps ==
  ASSUME IInv, NEW k \in KThread, NEW t \in Thread, NEW u \in Thread,
         CreateCall(k, t, u)
  PROVE IInv'
<1>1. /\ kt[k].pc = "user" /\ kt[k].cur = t /\ ut[t].pc = "client"
      /\ td[u].mem = "none" /\ u # Main
      BY DEF CreateCall, Calls, At
<1>2. UNCHANGED <<mut, mmrll, mmrll_lk, kt, enabled, mpc, inCS, sent, got>>
      BY DEF CreateCall
<1>3. UtSet(t, "create_lock", u) /\ ut' \in UtType
      BY CallFacts DEF CreateCall, IInv, UserLabel
<1>4. /\ \A j \in KThread : kt[j].cur = t => j = k
      /\ Runs(t) /\ Resumed(t) /\ Dispatched(t) /\ ~Ready(t) /\ ~Posting(t)
      /\ td[t].mem # "none" /\ td[t].wait
      /\ \A n \in Mutex : ~Waits(t, n)
      BY <1>1, Acting
<1>5. /\ u # t /\ ut[u].pc = "client" /\ Off(u)
      /\ \A x \in Thread : ut[x].arg # u
      /\ td[u].wait /\ td[u].join_thread = NULL /\ td[u].mem_lock = NULL
      /\ td[u].wait_for = NULL /\ td[u].state = "RUNNING"
  <2>1. /\ u # t /\ ut[u].pc = "client" /\ Off(u) /\ (\A x \in Thread : ut[x].arg # u)
        /\ td[u].wait /\ td[u].join_thread = NULL /\ td[u].mem_lock = NULL
        BY <1>1, <1>4 DEF IInv, ThreadSide, Unborn
  <2>2. td[u].wait_for = NULL /\ td[u].state = "RUNNING"
        BY <2>1, Ranges DEF IInv, Descriptors, Agrees, States
  <2>3. QED
        BY <2>1, <2>2
<1>6. /\ KeepState /\ KeepWait /\ KeepJoin /\ KeepFor /\ KeepLock
      /\ \A x \in Thread : td'[x].mem = IF x = u THEN "live" ELSE td[x].mem
      /\ \A x \in Thread \ {t, u} : td'[x].intr_off = td[x].intr_off
      /\ td'[t].intr_off
      /\ td' \in TdType
  <2>1. td \in TdType /\ td[t].blocked \in SUBSET Signal
        BY DEF IInv, TypeOK, TdType
  <2>2. PICK d : d = td_init(td[t].blocked)
        OBVIOUS
  <2>3. td' = [[td EXCEPT ![u] = d] EXCEPT ![t].intr_off = TRUE]
        BY <1>5, <2>1, <2>2 DEF CreateCall, TdType
  <2>4. /\ d.mem = "live" /\ d.state = "RUNNING" /\ d.wait = TRUE /\ d.join_thread = NULL
        /\ d.wait_for = NULL /\ d.mem_lock = NULL
        BY <2>2 DEF td_init, NoDescr
  <2>5. [td EXCEPT ![u] = d] \in TdType
    <3>1. d \in [mem: {"none", "live", "freed"}, state: States, wait: BOOLEAN,
              join_thread: Thread \cup {NULL},
              wait_for: Thread \cup Mutex \cup {NULL}, intr_off: BOOLEAN,
              pend_sig: SUBSET Signal, blocked: SUBSET Signal, mem_lock: Lock]
          BY <2>1, <2>2 DEF td_init, NoDescr, States, Lock
    <3>2. QED
          BY <2>1, <3>1 DEF TdType
  <2>6. td' \in TdType
        BY <2>3, <2>5, TdUpdates
  <2>7. /\ td'[u] = d
        /\ td'[t] = [td[t] EXCEPT !.intr_off = TRUE]
        /\ \A x \in Thread \ {t, u} : td'[x] = td[x]
        BY <1>5, <2>1, <2>3 DEF TdType
  <2>8. /\ td'[t].mem = td[t].mem /\ td'[t].state = td[t].state /\ td'[t].wait = td[t].wait
        /\ td'[t].join_thread = td[t].join_thread /\ td'[t].wait_for = td[t].wait_for
        /\ td'[t].mem_lock = td[t].mem_lock /\ td'[t].intr_off
        BY <2>1, <2>7 DEF TdType
  <2>9. /\ KeepState /\ KeepWait /\ KeepJoin /\ KeepFor /\ KeepLock
        /\ \A x \in Thread : td'[x].mem = IF x = u THEN "live" ELSE td[x].mem
    <3>1. KeepWait
      <4>1. td[u].wait = TRUE
            BY <1>5, <2>1 DEF TdType
      <4>2. QED
            BY <2>4, <2>7, <2>8, <4>1 DEF KeepWait
    <3>2. KeepState
      <4>1. td'[u].state = td[u].state
            BY <1>5, <2>4, <2>7
      <4>2. QED
            BY <2>7, <2>8, <4>1 DEF KeepState
    <3>3. KeepJoin
          BY ZenonT(60), <1>5, <2>4, <2>7, <2>8 DEF KeepJoin
    <3>4. KeepFor
          BY ZenonT(60), <1>5, <2>4, <2>7, <2>8 DEF KeepFor
    <3>5. KeepLock
          BY ZenonT(60), <1>5, <2>4, <2>7, <2>8 DEF KeepLock
    <3>6. QED
          BY <1>5, <2>4, <2>7, <2>8, <3>1, <3>2, <3>3, <3>4, <3>5
  <2>10. QED
        BY <2>6, <2>7, <2>8, <2>9
<1>7. /\ KeepState /\ KeepWait /\ KeepJoin /\ KeepFor /\ KeepLock
      /\ \A x \in Thread : td'[x].mem = IF x = u THEN "live" ELSE td[x].mem
      BY <1>6
<1>8. \A x \in Thread, n \in Mutex : Waits(x, n)' <=> Waits(x, n)
      BY <1>2 DEF Waits
<1>9. \A x \in Thread : SameWhere(x)
      BY <1>2, WhereSame
<1>10. TypeOK'
      BY <1>2, <1>3, <1>6 DEF IInv, TypeOK, UtType, TdType
<1>11. Places'
      BY <1>1, <1>2, <1>8, <1>9, <1>4, HandleAssumption DEF IInv, SameWhere, Places
<1>12. Descriptors'
  <2> SUFFICES ASSUME NEW x \in Thread
               PROVE Agrees(ut'[x].pc, ut'[x].arg, td'[x].state, td'[x].wait_for,
                            td'[x].intr_off)
      BY DEF Descriptors
  <2>1. Agrees(ut[x].pc, ut[x].arg, td[x].state, td[x].wait_for, td[x].intr_off)
        BY DEF IInv, Descriptors
  <2>2. td'[x].wait_for = td[x].wait_for /\ td'[x].state = td[x].state
        BY <1>6 DEF KeepFor, KeepState
  <2>3. CASE x = t
        BY <1>1, <1>3, <1>6, <2>1, <2>2, <2>3, HandleAssumption
        DEF UtSet, Agrees, MutexPc, CreatePc, JoinerPc, OnCpuPc, IntrOffPc
  <2>4. CASE x = u
        BY <1>3, <1>5, <2>1, <2>2, <2>4
        DEF UtSet, Agrees, MutexPc, CreatePc, JoinerPc, OnCpuPc, IntrOffPc
  <2>5. CASE x # t /\ x # u
        BY <1>3, <1>6, <2>1, <2>2, <2>5 DEF UtSet
  <2>6. QED
        BY <2>3, <2>4, <2>5
<1>13. Dispatchers'
      BY <1>1, <1>2, <1>3, <1>7, DispatchersApart DEF KeepState
<1>14. MutexSide'
      BY <1>1, <1>2, <1>3, <1>9, MutexesApart, HandleAssumption DEF MutexPc
<1>15. ThreadSide'
  <2>1. Joins'
        BY <1>1, <1>2, <1>3, <1>7, <1>9, <1>4, <1>5, HandleAssumption
        DEF IInv, ThreadSide, UtSet, KeepState, KeepWait, KeepJoin, KeepFor, KeepLock,
            SameWhere, Joins, GoingOn, JoinerPc
  <2>2. Exits'
        BY <1>1, <1>2, <1>3, <1>7, <1>9, <1>4, <1>5, HandleAssumption
        DEF IInv, ThreadSide, UtSet, KeepState, KeepWait, KeepJoin, KeepFor, KeepLock,
            SameWhere, Exits, WakePc, Off
  <2>3. Unborn'
        BY <1>1, <1>2, <1>3, <1>7, <1>9, <1>4, <1>5, HandleAssumption
        DEF IInv, ThreadSide, UtSet, KeepState, KeepWait, KeepJoin, KeepFor, KeepLock,
            SameWhere, Unborn, Off
  <2>4. Creation'
        BY <1>1, <1>2, <1>3, <1>7, <1>9, <1>4, <1>5, HandleAssumption
        DEF IInv, ThreadSide, UtSet, KeepState, KeepWait, KeepJoin, KeepFor, KeepLock,
            SameWhere, Creation, Fresh, Off, CreatePc
  <2>5. QED
        BY <2>1, <2>2, <2>3, <2>4 DEF ThreadSide
<1>16. SpinLocks'
      BY <1>1, <1>2, <1>3, <1>7, <1>9, <1>4, <1>5, HandleAssumption
      DEF IInv, UtSet, KeepState, KeepWait, KeepJoin, KeepFor, KeepLock, SameWhere,
          SpinLocks
<1>17. QED
      BY <1>10, <1>11, <1>12, <1>13, <1>14, <1>15, <1>16 DEF IInv

\* thread_create puts the new thread in the ready list and returns.
LEMMA CreateEnqKeeps ==
  ASSUME IInv, NEW k \in KThread, NEW t \in Thread, CreateEnq(k, t)
  PROVE IInv'
<1>1. kt[k].pc = "user" /\ kt[k].cur = t /\ ut[t].pc = "create_enq"
      BY DEF CreateEnq, At
<1>2. PICK u \in Thread : u = ut[t].arg
      BY <1>1 DEF IInv, Descriptors, Agrees, CreatePc, JoinerPc
<1>3. /\ UNCHANGED <<mut, kt, enabled, mpc, inCS, sent, got>>
      /\ mmrll_lk' = NULL /\ NULL \in Lock
      BY DEF CreateEnq, mmrll_enqueue, Lock
<1>4. UtSet(t, "client", NULL) /\ ut' \in UtType
      BY ReturnFacts DEF CreateEnq, IInv
<1>5. WaitSet(t, td[t].state, td[t].wait_for, FALSE) /\ td' \in TdType
      BY IntrFacts DEF CreateEnq, IInv
<1>6. /\ KeepMem /\ KeepWait /\ KeepJoin /\ KeepLock /\ KeepJoined
      /\ \A x \in Thread \ {t} : td'[x].state = td[x].state
      BY <1>1, <1>5, WaitSetKeeps DEF IInv, Descriptors, Agrees
<1>7. /\ \A j \in KThread : kt[j].cur = t => j = k
      /\ Runs(t) /\ Resumed(t) /\ Dispatched(t) /\ ~Ready(t) /\ ~Posting(t)
      /\ td[t].mem # "none" /\ td[t].wait
      /\ \A n \in Mutex : ~Waits(t, n)
      BY <1>1, Acting
<1>8. /\ td[u].mem # "none" /\ ut[u].pc = "client" /\ Off(u) /\ u # Main /\ u # t
      /\ \A x \in Thread : ut[x].pc \in CreatePc /\ ut[x].arg = u => x = t
      BY <1>1, <1>2, <1>7 DEF IInv, ThreadSide, Creation, Fresh, CreatePc
<1>9. /\ mmrll' \in Seq(Thread)
      /\ \A x \in Thread : Ready(x)' <=> Ready(x) \/ x = u
      /\ Distinct(mmrll)'
      BY <1>2, <1>8, AppendFacts, Ranges DEF CreateEnq, mmrll_enqueue, IInv, Places, Ready, Off
<1>10. \A x \in Thread, n \in Mutex : Waits(x, n)' <=> Waits(x, n)
      BY <1>3 DEF Waits
<1>11. /\ \A x \in Thread \ {u} : SameWhere(x)
      /\ \A x \in Thread : /\ Dispatched(x)' <=> Dispatched(x)
                           /\ Runs(x)' <=> Runs(x)
                           /\ Posting(x)' <=> Posting(x)
                           /\ Resumed(x)' <=> Resumed(x)
      BY <1>3, <1>9 DEF SameWhere, Dispatched, Runs, Posting, Resumed
<1>12. TypeOK'
      BY <1>3, <1>4, <1>5, <1>9 DEF IInv, TypeOK, UtType, TdType
<1>13. Places'
      BY <1>1, <1>3, <1>9, <1>10, <1>11, <1>7, HandleAssumption, <1>8
      DEF IInv, SameWhere, Places, Off, MutexSide, Waiters
<1>14. Descriptors'
  <2>1. Agrees("client", NULL, td[t].state, td[t].wait_for, FALSE)
        BY <1>1, <1>2, HandleAssumption
        DEF IInv, Descriptors, Agrees, MutexPc, CreatePc, JoinerPc, OnCpuPc, IntrOffPc
  <2>2. QED
        BY <1>4, <1>5, <2>1, DescriptorsKept DEF IInv, WaitSet
<1>15. Dispatchers'
      BY <1>1, <1>2, <1>3, <1>4, <1>6, <1>9, <1>11, <1>7, <1>8, HandleAssumption
      DEF IInv, UtSet, KeepMem, KeepWait, KeepJoin, KeepLock, KeepJoined, SameWhere,
          Dispatchers, OnCpuPc, CreatePc, WakePc, Off
<1>16. MutexSide'
      BY <1>1, <1>3, <1>4, <1>8, <1>11, MutexesApart, HandleAssumption DEF MutexPc
<1>17. ThreadSide'
  <2>1. Joins'
        BY <1>1, <1>2, <1>3, <1>4, <1>6, <1>9, <1>11, <1>7, <1>8, HandleAssumption
        DEF IInv, ThreadSide, UtSet, KeepMem, KeepWait, KeepJoin, KeepLock, KeepJoined,
            SameWhere, Joins, GoingOn, JoinerPc
  <2>2. Exits'
        BY <1>1, <1>2, <1>3, <1>4, <1>6, <1>9, <1>11, <1>7, <1>8, HandleAssumption
        DEF IInv, ThreadSide, UtSet, KeepMem, KeepWait, KeepJoin, KeepLock, KeepJoined,
            SameWhere, Exits, WakePc, Off
  <2>3. Unborn'
        BY <1>1, <1>2, <1>3, <1>4, <1>6, <1>9, <1>11, <1>7, <1>8, HandleAssumption
        DEF IInv, ThreadSide, UtSet, KeepMem, KeepWait, KeepJoin, KeepLock, KeepJoined,
            SameWhere, Unborn, Off
  <2>4. Creation'
        BY SMTT(30), <1>1, <1>2, <1>3, <1>4, <1>6, <1>9, <1>11, <1>7, <1>8, HandleAssumption
        DEF IInv, ThreadSide, UtSet, KeepMem, KeepWait, KeepJoin, KeepLock, KeepJoined,
            SameWhere, Creation, Fresh, Off, CreatePc
  <2>5. QED
        BY <2>1, <2>2, <2>3, <2>4 DEF ThreadSide
<1>18. SpinLocks'
      BY <1>1, <1>2, <1>3, <1>4, <1>6, <1>9, <1>11, <1>7, <1>8, HandleAssumption
      DEF IInv, UtSet, KeepMem, KeepWait, KeepJoin, KeepLock, KeepJoined, SameWhere,
          SpinLocks
<1>19. QED
      BY <1>12, <1>13, <1>14, <1>15, <1>16, <1>17, <1>18 DEF IInv

-----------------------------------------------------------------------------
(* The steps of the dispatcher                                             *)

\* The thread of a dispatcher is on no other kernel thread, not in the ready
\* list, has a descriptor and, unless it has just parked, waits for no mutex.
LEMMA Held ==
  ASSUME IInv, NEW k \in KThread, NEW t \in Thread, kt[k].cur = t
  PROVE /\ \A j \in KThread : kt[j].cur = t => j = k
        /\ Dispatched(t) /\ ~Ready(t) /\ td[t].mem # "none"
        /\ Posting(t) <=> kt[k].pc = "post"
        /\ Runs(t) <=> kt[k].pc = "user"
        /\ Resumed(t) <=> kt[k].pc \in {"run", "user"}
        /\ kt[k].pc # "post" \/ td[t].state # "WAIT_MUTEX" =>
             \A m \in Mutex : ~Waits(t, m)
<1>1. \A j \in KThread : kt[j].cur = t => j = k
      BY HandleAssumption DEF IInv, Places
<1>2. /\ Dispatched(t)
      /\ Posting(t) <=> kt[k].pc = "post"
      /\ Runs(t) <=> kt[k].pc = "user"
      /\ Resumed(t) <=> kt[k].pc \in {"run", "user"}
      BY <1>1 DEF Dispatched, Posting, Runs, Resumed
<1>3. ~Ready(t) /\ td[t].mem # "none"
      BY <1>2 DEF IInv, Places, ThreadSide, Unborn, Off
<1>4. ASSUME kt[k].pc # "post" \/ td[t].state # "WAIT_MUTEX", NEW m \in Mutex
      PROVE ~Waits(t, m)
      BY <1>2, <1>4 DEF IInv, Places, MutexSide, Waiters, Descriptors, Agrees
<1>5. QED
      BY <1>1, <1>2, <1>3, <1>4

\* A step of a dispatcher that keeps its thread touches no mutex, no wait of a
\* thread and no thread that is not yet in the ready list.
LEMMA StepApart ==
  ASSUME IInv, NEW k \in KThread, NEW t \in Thread, kt[k].cur = t,
         kt[k].pc # "post" \/ td[t].state # "WAIT_MUTEX",
         NEW l, KtSet(k, l, t), l = "post" => ut[t].pc # "lock_wait",
         mmrll' = mmrll, mut' = mut, inCS' = inCS, ut' = ut, mpc' = mpc,
         KeepMem, KeepState, KeepJoin, KeepFor, KeepIntr,
         \A x \in Thread \ {t} : /\ td'[x].wait = td[x].wait
                                 /\ td'[x].mem_lock = td[x].mem_lock
  PROVE /\ \A x \in Thread \ {t} : SameWhere(x)
        /\ ~Ready(t)' /\ Dispatched(t)'
        /\ Runs(t)' <=> l = "user"
        /\ Posting(t)' <=> l = "post"
        /\ Resumed(t)' <=> l \in {"run", "user"}
        /\ Places' /\ Descriptors' /\ MutexSide' /\ Unborn' /\ Creation'
<1>1. /\ Dispatched(t) /\ ~Ready(t) /\ td[t].mem # "none"
      /\ \A m \in Mutex : ~Waits(t, m)
      BY Held
<1>2. /\ \A x \in Thread \ {t} : SameWhere(x)
      /\ ~Ready(t)' /\ Dispatched(t)'
      /\ Runs(t)' <=> l = "user"
      /\ Posting(t)' <=> l = "post"
      /\ Resumed(t)' <=> l \in {"run", "user"}
      BY <1>1, WhereStep DEF IInv
<1>3. \A x \in Thread : Off(x)' <=> Off(x)
      BY <1>1, <1>2 DEF SameWhere, Off
<1>4. Places'
  <2>1. \A x \in Thread, m \in Mutex : Waits(x, m)' <=> Waits(x, m)
        BY DEF Waits
  <2>2. QED
        BY <1>1, <1>2, <2>1, HandleAssumption DEF IInv, KtSet, SameWhere, Places
<1>5. Descriptors'
      BY DEF IInv, KeepState, KeepFor, KeepIntr, Descriptors
<1>6. MutexSide'
  <2>1. \A x \in Thread : OutsideMutexes(x)
        BY DEF OutsideMutexes
  <2>2. \A x \in Thread : ut[x].pc = "lock_wait" =>
          (Off(x)' <=> Off(x)) /\ (Posting(x)' => Posting(x))
        BY <1>2, <1>3 DEF SameWhere
  <2>3. QED
        BY <2>1, <2>2, MutexFrame DEF IInv
<1>7. Unborn'
      BY <1>1, <1>3 DEF IInv, ThreadSide, KeepMem, KeepJoin, Unborn
<1>8. Creation'
  <2>1. \A x \in Thread : Fresh(x)' <=> Fresh(x)
        BY <1>3 DEF KeepMem, Fresh
  <2>2. QED
        BY <2>1, HandleAssumption DEF IInv, ThreadSide, KeepMem, Creation
<1>9. QED
      BY <1>2, <1>4, <1>5, <1>6, <1>7, <1>8

\* A dispatcher without a thread takes a step: nobody moves.
LEMMA IdleKeeps ==
  ASSUME IInv, NEW k \in KThread, kt[k].cur = NULL,
         NEW l \in {"loop", "get_lock", "get", "returned"}, KtSet(k, l, NULL), kt' \in KtType,
         mmrll_lk' \in Lock \cup {"main"}, \A x \in Thread : mmrll_lk' = x => mmrll_lk = x,
         UNCHANGED <<td, mut, mmrll, ut, enabled, mpc, inCS, sent, got>>
  PROVE IInv'
<1>1. \A x \in Thread : SameWhere(x)
      BY WhereIdle
<1>2. \A x \in Thread : Off(x)' <=> Off(x)
      BY <1>1 DEF SameWhere, Off
<1>3. TypeOK'
      BY DEF IInv, TypeOK, KtType
<1>4. Places'
  <2>1. \A x \in Thread, m \in Mutex : Waits(x, m)' <=> Waits(x, m)
        BY DEF Waits
  <2>2. QED
        BY <1>1, <2>1, HandleAssumption DEF IInv, KtSet, SameWhere, Places
<1>5. Descriptors'
      BY DEF IInv, Descriptors
<1>6. Dispatchers'
      BY <1>1, <1>2, HandleAssumption
      DEF IInv, KtSet, SameWhere, Dispatchers, OnCpuPc, CreatePc, WakePc
<1>7. MutexSide'
  <2>1. \A x \in Thread : OutsideMutexes(x)
        BY DEF OutsideMutexes
  <2>2. QED
        BY <1>1, <1>2, <2>1, MutexFrame DEF IInv, SameWhere
<1>8. ThreadSide'
  <2>1. Joins'
        BY <1>1 DEF IInv, ThreadSide, SameWhere, Joins, GoingOn
  <2>2. Exits'
        BY <1>2, HandleAssumption DEF IInv, ThreadSide, KtSet, Exits, WakePc
  <2>3. Unborn'
        BY <1>2 DEF IInv, ThreadSide, Unborn
  <2>4. Creation'
        BY <1>2, HandleAssumption DEF IInv, ThreadSide, Creation, Fresh
  <2>5. QED
        BY <2>1, <2>2, <2>3, <2>4 DEF ThreadSide
<1>9. SpinLocks'
      BY <1>1 DEF IInv, SameWhere, SpinLocks
<1>10. QED
      BY <1>3, <1>4, <1>5, <1>6, <1>7, <1>8, <1>9 DEF IInv

\* A thread in the wait of thread_join is on a kernel thread only while it parks
\* or goes on.
LEMMA JoinerPlaces ==
  ASSUME IInv, NEW j \in Thread, ut[j].pc = "join_wait"
  PROVE Off(j) \/ Posting(j) \/ GoingOn(j)
<1> SUFFICES ASSUME NEW k \in KThread, kt[k].cur = j
             PROVE kt[k].pc \in {"post", "run", "user"}
    BY DEF Off, Dispatched, Posting, Resumed, GoingOn
<1>1. kt[k].pc \in DispatchLabel
      BY Ranges DEF IInv
<1>2. td[j].state = "WAIT_JOIN"
      BY DEF IInv, Descriptors, Agrees
<1>3. QED
      BY <1>1, <1>2, HandleAssumption DEF IInv, Dispatchers, DispatchLabel, WakePc

\* The joiner of a thread that is not over and whose lock no thread holds is
\* parked.
LEMMA JoinerParked ==
  ASSUME IInv, NEW u \in Thread, NEW j \in Thread, td[u].join_thread = j,
         td[u].state # "JOINED", td[u].wait, td[u].mem_lock # j
  PROVE ut[j].pc = "join_wait" /\ Off(j)
<1>1. ut[j].pc \in JoinerPc /\ ut[j].arg = u
      BY DEF IInv, ThreadSide, Joins
<1>2. ut[j].pc = "join_wait" /\ ~Posting(j) /\ ~GoingOn(j)
      BY <1>1 DEF IInv, ThreadSide, Joins, JoinerPc, GoingOn
<1>3. QED
      BY <1>2, JoinerPlaces

\* send_pending_signals takes the lock of the thread.
LEMMA SigLockKeeps ==
  ASSUME IInv, NEW k \in KThread, SigLock(k)
  PROVE IInv'
<1>1. PICK t \in Thread : kt[k].cur = t /\ kt[k].pc = "sig_lock"
      BY Ranges DEF SigLock, Step, IInv, Dispatchers
<1>2. UNCHANGED <<mut, mmrll, mmrll_lk, ut, enabled, mpc, inCS, sent, got>>
      BY DEF SigLock
<1>3. KtSet(k, "sig_send", t) /\ kt' \in KtType
      BY <1>1, StepFacts DEF SigLock, Step, IInv, DispatchLabel
<1>4. td[t].mem_lock = NULL /\ td[t].state = "RUNNING"
      BY <1>1 DEF SigLock, IInv, Dispatchers
<1>5. /\ KeepMem /\ KeepState /\ KeepWait /\ KeepJoin /\ KeepFor /\ KeepIntr
      /\ \A x \in Thread : td'[x].mem_lock = IF x = t THEN k ELSE td[x].mem_lock
      /\ td' \in TdType
  <2>1. TypeOK /\ k \in Lock
        BY DEF IInv, Lock
  <2>2. QED
        BY <1>1, <2>1, TdLockFacts DEF SigLock
<1>6. /\ \A x \in Thread \ {t} : SameWhere(x)
      /\ ~Ready(t)' /\ Dispatched(t)'
      /\ Runs(t)' <=> "sig_send" = "user"
      /\ Posting(t)' <=> "sig_send" = "post"
      /\ Resumed(t)' <=> "sig_send" \in {"run", "user"}
      /\ Places' /\ Descriptors' /\ MutexSide' /\ Unborn' /\ Creation'
      BY ZenonT(60), <1>1, <1>2, <1>3, <1>4, <1>5, StepApart
      DEF KeepWait, KeepLock
<1>7. /\ \A j \in KThread : kt[j].cur = t => j = k
      /\ Dispatched(t) /\ ~Ready(t)
      /\ Posting(t) <=> kt[k].pc = "post"
      /\ Runs(t) <=> kt[k].pc = "user"
      /\ Resumed(t) <=> kt[k].pc \in {"run", "user"}
      BY <1>1, Held
<1>8. TypeOK'
      BY <1>2, <1>3, <1>5 DEF IInv, TypeOK, KtType, TdType
<1>9. Dispatchers'
      BY <1>1, <1>2, <1>3, <1>4, <1>5, <1>6, <1>7, HandleAssumption
      DEF IInv, KtSet, KeepMem, KeepState, KeepWait, KeepJoin, KeepFor, KeepIntr,
          SameWhere, Dispatchers, OnCpuPc, CreatePc, WakePc, Off
<1>10. Joins'
      BY <1>1, <1>2, <1>3, <1>4, <1>5, <1>6, <1>7, HandleAssumption
      DEF IInv, ThreadSide, KtSet, KeepMem, KeepState, KeepWait, KeepJoin, KeepFor,
          KeepIntr, SameWhere, Joins, GoingOn, JoinerPc
<1>11. Exits'
      BY <1>1, <1>2, <1>3, <1>4, <1>5, <1>6, <1>7, HandleAssumption
      DEF IInv, ThreadSide, KtSet, KeepMem, KeepState, KeepWait, KeepJoin, KeepFor,
          KeepIntr, SameWhere, Exits, WakePc, Off
<1>12. SpinLocks'
      BY <1>1, <1>2, <1>3, <1>4, <1>5, <1>6, <1>7, HandleAssumption
      DEF IInv, KeepMem, KeepState, KeepWait, KeepJoin, KeepFor, KeepIntr, SameWhere,
          SpinLocks
<1>13. QED
      BY <1>6, <1>8, <1>9, <1>10, <1>11, <1>12 DEF IInv, ThreadSide

\* td_set_cxt: the thread runs.
LEMMA RunKeeps ==
  ASSUME IInv, NEW k \in KThread, Run(k)
  PROVE IInv'
<1>1. PICK t \in Thread : kt[k].cur = t /\ kt[k].pc = "run"
      BY Ranges DEF Run, Step, IInv, Dispatchers
<1>2. /\ UNCHANGED <<td, mut, mmrll, mmrll_lk, ut, enabled, mpc, inCS, sent>>
      /\ got' \in [Thread -> SUBSET Signal]
  <2>1. got \in [Thread -> SUBSET Signal] /\ kt[k].pend \in SUBSET Signal
        BY DEF IInv, TypeOK
  <2>2. QED
        BY <1>1, <2>1 DEF Run
<1>3. KtSet(k, "user", t) /\ kt' \in KtType
  <2>1. kt \in KtType
        BY DEF IInv, TypeOK, KtType
  <2>2. td[t].blocked \in SUBSET Signal
        BY DEF IInv, TypeOK
  <2>3. QED
        BY ZenonT(60), <1>1, <2>1, <2>2 DEF Run, KtSet, KtType, DispatchLabel
<1>4. /\ \A x \in Thread \ {t} : SameWhere(x)
      /\ ~Ready(t)' /\ Dispatched(t)'
      /\ Runs(t)' <=> "user" = "user"
      /\ Posting(t)' <=> "user" = "post"
      /\ Resumed(t)' <=> "user" \in {"run", "user"}
      /\ Places' /\ Descriptors' /\ MutexSide' /\ Unborn' /\ Creation'
      BY <1>1, <1>2, <1>3, StepApart
      DEF KeepMem, KeepState, KeepJoin, KeepFor, KeepIntr
<1>5. /\ \A j \in KThread : kt[j].cur = t => j = k
      /\ Dispatched(t) /\ ~Ready(t)
      /\ Posting(t) <=> kt[k].pc = "post"
      /\ Runs(t) <=> kt[k].pc = "user"
      /\ Resumed(t) <=> kt[k].pc \in {"run", "user"}
      BY <1>1, Held
<1>6. TypeOK'
      BY <1>2, <1>3 DEF IInv, TypeOK, KtType
<1>7. Dispatchers'
      BY <1>1, <1>2, <1>3, <1>4, <1>5, HandleAssumption
      DEF IInv, KtSet, SameWhere, Dispatchers, OnCpuPc, CreatePc, WakePc, Off
<1>8. Joins'
      BY <1>1, <1>2, <1>3, <1>4, <1>5, HandleAssumption
      DEF IInv, ThreadSide, KtSet, SameWhere, Joins, GoingOn, JoinerPc
<1>9. Exits'
      BY <1>1, <1>2, <1>3, <1>4, <1>5, HandleAssumption
      DEF IInv, ThreadSide, KtSet, SameWhere, Exits, WakePc, Off
<1>10. SpinLocks'
      BY <1>1, <1>2, <1>3, <1>4, <1>5, HandleAssumption DEF IInv, SameWhere, SpinLocks
<1>11. QED
      BY <1>4, <1>6, <1>7, <1>8, <1>9, <1>10 DEF IInv, ThreadSide

\* The timer expires with interrupts on.
LEMMA PreemptKeeps ==
  ASSUME IInv, NEW k \in KThread, Preempt(k)
  PROVE IInv'
<1>1. PICK t \in Thread : kt[k].cur = t /\ kt[k].pc = "user" /\ ~td[t].intr_off
      BY Ranges DEF Preempt, Step, IInv, Dispatchers
<1>2. UNCHANGED <<td, mut, mmrll, mmrll_lk, ut, enabled, mpc, inCS, sent, got>>
      BY DEF Preempt
<1>3. KtSet(k, "post", t) /\ kt' \in KtType
      BY <1>1, StepFacts DEF Preempt, ret_cxt, IInv, DispatchLabel
<1>4. /\ ut[t].pc \notin IntrOffPc /\ td[t].wait
      /\ ut[t].pc \notin {"lock_wait", "join_wait", "exited"}
      /\ ut[t].pc \notin OnCpuPc
      BY <1>1, Acting DEF IInv, Descriptors, Agrees, IntrOffPc
<1>5. /\ \A x \in Thread \ {t} : SameWhere(x)
      /\ ~Ready(t)' /\ Dispatched(t)'
      /\ Runs(t)' <=> "post" = "user"
      /\ Posting(t)' <=> "post" = "post"
      /\ Resumed(t)' <=> "post" \in {"run", "user"}
      /\ Places' /\ Descriptors' /\ MutexSide' /\ Unborn' /\ Creation'
      BY <1>1, <1>2, <1>3, <1>4, StepApart
      DEF KeepMem, KeepState, KeepJoin, KeepFor, KeepIntr
<1>6. /\ \A j \in KThread : kt[j].cur = t => j = k
      /\ Dispatched(t) /\ ~Ready(t)
      /\ Posting(t) <=> kt[k].pc = "post"
      /\ Runs(t) <=> kt[k].pc = "user"
      /\ Resumed(t) <=> kt[k].pc \in {"run", "user"}
      BY <1>1, Held
<1>7. TypeOK'
      BY <1>2, <1>3 DEF IInv, TypeOK, KtType
<1>8. Dispatchers'
      BY <1>1, <1>2, <1>3, <1>4, <1>5, <1>6, HandleAssumption
      DEF IInv, KtSet, SameWhere, Dispatchers, OnCpuPc, CreatePc, WakePc, Off
<1>9. Joins'
      BY <1>1, <1>2, <1>3, <1>4, <1>5, <1>6, HandleAssumption
      DEF IInv, ThreadSide, KtSet, SameWhere, Joins, GoingOn, JoinerPc
<1>10. Exits'
      BY <1>1, <1>2, <1>3, <1>4, <1>5, <1>6, HandleAssumption
      DEF IInv, ThreadSide, KtSet, SameWhere, Exits, WakePc, Off
<1>11. SpinLocks'
      BY <1>1, <1>2, <1>3, <1>4, <1>5, <1>6, HandleAssumption
      DEF IInv, SameWhere, SpinLocks
<1>12. QED
      BY <1>5, <1>7, <1>8, <1>9, <1>10, <1>11 DEF IInv, ThreadSide

\* The same thread runs again, because a signal is pending.
LEMMA PostRepeatAlarmKeeps ==
  ASSUME IInv, NEW k \in KThread, PostRepeatAlarm(k)
  PROVE IInv'
<1>1. PICK t \in Thread : kt[k].cur = t /\ kt[k].pc = "post" /\ td[t].state = "RUNNING"
      BY Ranges DEF PostRepeatAlarm, Step, IInv, Dispatchers
<1>2. UNCHANGED <<td, mut, mmrll, mmrll_lk, ut, enabled, mpc, inCS, sent, got>>
      BY DEF PostRepeatAlarm
<1>3. KtSet(k, "run", t) /\ kt' \in KtType
      BY <1>1, StepFacts DEF PostRepeatAlarm, Step, IInv, DispatchLabel
<1>4. ut[t].pc \notin {"exited", "lock_wait", "join_wait", "join_check"} /\ ut[t].pc \notin OnCpuPc
      BY <1>1, Held DEF IInv, Descriptors, Agrees, Dispatchers
<1>5. /\ \A x \in Thread \ {t} : SameWhere(x)
      /\ ~Ready(t)' /\ Dispatched(t)'
      /\ Runs(t)' <=> "run" = "user"
      /\ Posting(t)' <=> "run" = "post"
      /\ Resumed(t)' <=> "run" \in {"run", "user"}
      /\ Places' /\ Descriptors' /\ MutexSide' /\ Unborn' /\ Creation'
      BY <1>1, <1>2, <1>3, <1>4, StepApart
      DEF KeepMem, KeepState, KeepJoin, KeepFor, KeepIntr
<1>6. /\ \A j \in KThread : kt[j].cur = t => j = k
      /\ Dispatched(t) /\ ~Ready(t)
      /\ Posting(t) <=> kt[k].pc = "post"
      /\ Runs(t) <=> kt[k].pc = "user"
      /\ Resumed(t) <=> kt[k].pc \in {"run", "user"}
      BY <1>1, Held
<1>7. TypeOK'
      BY <1>2, <1>3 DEF IInv, TypeOK, KtType
<1>8. Dispatchers'
      BY <1>1, <1>2, <1>3, <1>4, <1>5, <1>6, HandleAssumption
      DEF IInv, KtSet, SameWhere, Dispatchers, OnCpuPc, CreatePc, WakePc, Off
<1>9. Joins'
      BY <1>1, <1>2, <1>3, <1>4, <1>5, <1>6, HandleAssumption
      DEF IInv, ThreadSide, KtSet, SameWhere, Joins, GoingOn, JoinerPc
<1>10. Exits'
      BY <1>1, <1>2, <1>3, <1>4, <1>5, <1>6, HandleAssumption
      DEF IInv, ThreadSide, KtSet, SameWhere, Exits, WakePc, Off
<1>11. SpinLocks'
      BY <1>1, <1>2, <1>3, <1>4, <1>5, <1>6, HandleAssumption
      DEF IInv, SameWhere, SpinLocks
<1>12. QED
      BY <1>5, <1>7, <1>8, <1>9, <1>10, <1>11 DEF IInv, ThreadSide

\* The thread goes back to the ready list.
LEMMA PostRunningKeeps ==
  ASSUME IInv, NEW k \in KThread, PostRunning(k)
  PROVE IInv'
<1>1. PICK t \in Thread : kt[k].cur = t /\ kt[k].pc = "post" /\ td[t].state = "RUNNING"
      BY Ranges DEF PostRunning, Step, IInv, Dispatchers
<1>2. UNCHANGED <<td, mut, mmrll, mmrll_lk, ut, enabled, mpc, inCS, sent, got>>
      BY DEF PostRunning
<1>3. KtSet(k, "enq_lock", t) /\ kt' \in KtType
      BY <1>1, StepFacts DEF PostRunning, Step, IInv, DispatchLabel
<1>4. ut[t].pc \notin {"exited", "lock_wait", "join_wait", "join_check"} /\ ut[t].pc \notin OnCpuPc
      BY <1>1, Held DEF IInv, Descriptors, Agrees, Dispatchers
<1>5. /\ \A x \in Thread \ {t} : SameWhere(x)
      /\ ~Ready(t)' /\ Dispatched(t)'
      /\ Runs(t)' <=> "enq_lock" = "user"
      /\ Posting(t)' <=> "enq_lock" = "post"
      /\ Resumed(t)' <=> "enq_lock" \in {"run", "user"}
      /\ Places' /\ Descriptors' /\ MutexSide' /\ Unborn' /\ Creation'
      BY <1>1, <1>2, <1>3, <1>4, StepApart
      DEF KeepMem, KeepState, KeepJoin, KeepFor, KeepIntr
<1>6. /\ \A j \in KThread : kt[j].cur = t => j = k
      /\ Dispatched(t) /\ ~Ready(t)
      /\ Posting(t) <=> kt[k].pc = "post"
      /\ Runs(t) <=> kt[k].pc = "user"
      /\ Resumed(t) <=> kt[k].pc \in {"run", "user"}
      BY <1>1, Held
<1>7. TypeOK'
      BY <1>2, <1>3 DEF IInv, TypeOK, KtType
<1>8. Dispatchers'
      BY <1>1, <1>2, <1>3, <1>4, <1>5, <1>6, HandleAssumption
      DEF IInv, KtSet, SameWhere, Dispatchers, OnCpuPc, CreatePc, WakePc, Off
<1>9. Joins'
      BY <1>1, <1>2, <1>3, <1>4, <1>5, <1>6, HandleAssumption
      DEF IInv, ThreadSide, KtSet, SameWhere, Joins, GoingOn, JoinerPc
<1>10. Exits'
      BY <1>1, <1>2, <1>3, <1>4, <1>5, <1>6, HandleAssumption
      DEF IInv, ThreadSide, KtSet, SameWhere, Exits, WakePc, Off
<1>11. SpinLocks'
      BY <1>1, <1>2, <1>3, <1>4, <1>5, <1>6, HandleAssumption
      DEF IInv, SameWhere, SpinLocks
<1>12. QED
      BY <1>5, <1>7, <1>8, <1>9, <1>10, <1>11 DEF IInv, ThreadSide

\* The thread has exited.
LEMMA PostExitedKeeps ==
  ASSUME IInv, NEW k \in KThread, PostExited(k)
  PROVE IInv'
<1>1. PICK t \in Thread : kt[k].cur = t /\ kt[k].pc = "post" /\ td[t].state = "EXITED"
      BY Ranges DEF PostExited, Step, IInv, Dispatchers
<1>2. UNCHANGED <<td, mut, mmrll, mmrll_lk, ut, enabled, mpc, inCS, sent, got>>
      BY DEF PostExited
<1>3. KtSet(k, "exit_lock", t) /\ kt' \in KtType
      BY <1>1, StepFacts DEF PostExited, Step, IInv, DispatchLabel
<1>4. ut[t].pc = "exited"
      BY <1>1, Held DEF IInv, Descriptors, Agrees, Dispatchers
<1>5. /\ \A x \in Thread \ {t} : SameWhere(x)
      /\ ~Ready(t)' /\ Dispatched(t)'
      /\ Runs(t)' <=> "exit_lock" = "user"
      /\ Posting(t)' <=> "exit_lock" = "post"
      /\ Resumed(t)' <=> "exit_lock" \in {"run", "user"}
      /\ Places' /\ Descriptors' /\ MutexSide' /\ Unborn' /\ Creation'
      BY <1>1, <1>2, <1>3, <1>4, StepApart
      DEF KeepMem, KeepState, KeepJoin, KeepFor, KeepIntr
<1>6. /\ \A j \in KThread : kt[j].cur = t => j = k
      /\ Dispatched(t) /\ ~Ready(t)
      /\ Posting(t) <=> kt[k].pc = "post"
      /\ Runs(t) <=> kt[k].pc = "user"
      /\ Resumed(t) <=> kt[k].pc \in {"run", "user"}
      BY <1>1, Held
<1>7. TypeOK'
      BY <1>2, <1>3 DEF IInv, TypeOK, KtType
<1>8. Dispatchers'
      BY <1>1, <1>2, <1>3, <1>4, <1>5, <1>6, HandleAssumption
      DEF IInv, KtSet, SameWhere, Dispatchers, OnCpuPc, CreatePc, WakePc, Off
<1>9. Joins'
      BY <1>1, <1>2, <1>3, <1>4, <1>5, <1>6, HandleAssumption
      DEF IInv, ThreadSide, KtSet, SameWhere, Joins, GoingOn, JoinerPc
<1>10. Exits'
      BY <1>1, <1>2, <1>3, <1>4, <1>5, <1>6, HandleAssumption
      DEF IInv, ThreadSide, KtSet, SameWhere, Exits, WakePc, Off
<1>11. SpinLocks'
      BY <1>1, <1>2, <1>3, <1>4, <1>5, <1>6, HandleAssumption
      DEF IInv, SameWhere, SpinLocks
<1>12. QED
      BY <1>5, <1>7, <1>8, <1>9, <1>10, <1>11 DEF IInv, ThreadSide

\* The dispatcher takes the lock of the ready list to put its thread there.
LEMMA EnqLockKeeps ==
  ASSUME IInv, NEW k \in KThread, EnqLock(k)
  PROVE IInv'
<1>1. PICK t \in Thread : kt[k].cur = t /\ kt[k].pc = "enq_lock"
      BY Ranges DEF EnqLock, Step, IInv, Dispatchers
<1>2. /\ UNCHANGED <<td, mut, mmrll, ut, enabled, mpc, inCS, sent, got>>
      /\ mmrll_lk' = k /\ k \in Lock
      BY DEF EnqLock, mmrll_lock, Lock
<1>3. KtSet(k, "enq", t) /\ kt' \in KtType
      BY <1>1, StepFacts DEF EnqLock, Step, IInv, DispatchLabel
<1>4. /\ \A x \in Thread \ {t} : SameWhere(x)
      /\ ~Ready(t)' /\ Dispatched(t)'
      /\ Runs(t)' <=> "enq" = "user"
      /\ Posting(t)' <=> "enq" = "post"
      /\ Resumed(t)' <=> "enq" \in {"run", "user"}
      /\ Places' /\ Descriptors' /\ MutexSide' /\ Unborn' /\ Creation'
      BY <1>1, <1>2, <1>3, StepApart
      DEF KeepMem, KeepState, KeepJoin, KeepFor, KeepIntr
<1>5. /\ \A j \in KThread : kt[j].cur = t => j = k
      /\ Dispatched(t) /\ ~Ready(t)
      /\ Posting(t) <=> kt[k].pc = "post"
      /\ Runs(t) <=> kt[k].pc = "user"
      /\ Resumed(t) <=> kt[k].pc \in {"run", "user"}
      BY <1>1, Held
<1>6. TypeOK'
      BY <1>2, <1>3 DEF IInv, TypeOK, KtType
<1>7. Dispatchers'
      BY <1>1, <1>2, <1>3, <1>4, <1>5, HandleAssumption
      DEF IInv, KtSet, SameWhere, Dispatchers, OnCpuPc, CreatePc, WakePc, Off
<1>8. Joins'
      BY <1>1, <1>2, <1>3, <1>4, <1>5, HandleAssumption
      DEF IInv, ThreadSide, KtSet, SameWhere, Joins, GoingOn, JoinerPc
<1>9. Exits'
      BY <1>1, <1>2, <1>3, <1>4, <1>5, HandleAssumption
      DEF IInv, ThreadSide, KtSet, SameWhere, Exits, WakePc, Off
<1>10. SpinLocks'
      BY <1>1, <1>2, <1>3, <1>4, <1>5, HandleAssumption DEF IInv, SameWhere, SpinLocks
<1>11. QED
      BY <1>4, <1>6, <1>7, <1>8, <1>9, <1>10 DEF IInv, ThreadSide

\* The dispatcher takes the lock of the ready list to put the joiner there.
LEMMA WakeLockKeeps ==
  ASSUME IInv, NEW k \in KThread, WakeLock(k)
  PROVE IInv'
<1>1. PICK t \in Thread : kt[k].cur = t /\ kt[k].pc = "wake_lock"
      BY Ranges DEF WakeLock, Step, IInv, Dispatchers
<1>2. /\ UNCHANGED <<td, mut, mmrll, ut, enabled, mpc, inCS, sent, got>>
      /\ mmrll_lk' = k /\ k \in Lock
      BY DEF WakeLock, mmrll_lock, Lock
<1>3. KtSet(k, "wake", t) /\ kt' \in KtType
      BY <1>1, StepFacts DEF WakeLock, Step, IInv, DispatchLabel
<1>4. /\ \A x \in Thread \ {t} : SameWhere(x)
      /\ ~Ready(t)' /\ Dispatched(t)'
      /\ Runs(t)' <=> "wake" = "user"
      /\ Posting(t)' <=> "wake" = "post"
      /\ Resumed(t)' <=> "wake" \in {"run", "user"}
      /\ Places' /\ Descriptors' /\ MutexSide' /\ Unborn' /\ Creation'
      BY <1>1, <1>2, <1>3, StepApart
      DEF KeepMem, KeepState, KeepJoin, KeepFor, KeepIntr
<1>5. /\ \A j \in KThread : kt[j].cur = t => j = k
      /\ Dispatched(t) /\ ~Ready(t)
      /\ Posting(t) <=> kt[k].pc = "post"
      /\ Runs(t) <=> kt[k].pc = "user"
      /\ Resumed(t) <=> kt[k].pc \in {"run", "user"}
      BY <1>1, Held
<1>6. TypeOK'
      BY <1>2, <1>3 DEF IInv, TypeOK, KtType
<1>7. Dispatchers'
      BY <1>1, <1>2, <1>3, <1>4, <1>5, HandleAssumption
      DEF IInv, KtSet, SameWhere, Dispatchers, OnCpuPc, CreatePc, WakePc, Off
<1>8. Joins'
      BY <1>1, <1>2, <1>3, <1>4, <1>5, HandleAssumption
      DEF IInv, ThreadSide, KtSet, SameWhere, Joins, GoingOn, JoinerPc
<1>9. Exits'
      BY <1>1, <1>2, <1>3, <1>4, <1>5, HandleAssumption
      DEF IInv, ThreadSide, KtSet, SameWhere, Exits, WakePc, Off
<1>10. SpinLocks'
      BY <1>1, <1>2, <1>3, <1>4, <1>5, HandleAssumption DEF IInv, SameWhere, SpinLocks
<1>11. QED
      BY <1>4, <1>6, <1>7, <1>8, <1>9, <1>10 DEF IInv, ThreadSide

\* post_schedule_exited_action takes the lock of the thread.
LEMMA ExitLockKeeps ==
  ASSUME IInv, NEW k \in KThread, ExitLock(k)
  PROVE IInv'
<1>1. PICK t \in Thread : kt[k].cur = t /\ kt[k].pc = "exit_lock"
      BY Ranges DEF ExitLock, Step, IInv, Dispatchers
<1>2. UNCHANGED <<mut, mmrll, mmrll_lk, ut, enabled, mpc, inCS, sent, got>>
      BY DEF ExitLock
<1>3. KtSet(k, "exit_over", t) /\ kt' \in KtType
      BY <1>1, StepFacts DEF ExitLock, Step, IInv, DispatchLabel
<1>4. /\ td[t].mem_lock = NULL /\ ut[t].pc = "exited" /\ td[t].state # "WAIT_MUTEX"
      /\ \A j \in Thread : td[t].join_thread = j => ut[j].pc = "join_wait" /\ Off(j)
  <2>1. /\ td[t].mem_lock = NULL /\ ut[t].pc = "exited" /\ td[t].state # "WAIT_MUTEX"
        /\ td[t].wait /\ td[t].state # "JOINED"
        BY <1>1 DEF ExitLock, IInv, Dispatchers, Descriptors, Agrees, ThreadSide, Exits, Joins
  <2>2. QED
        BY <2>1, JoinerParked, HandleAssumption
<1>5. /\ KeepMem /\ KeepState /\ KeepWait /\ KeepJoin /\ KeepFor /\ KeepIntr
      /\ \A x \in Thread : td'[x].mem_lock = IF x = t THEN k ELSE td[x].mem_lock
      /\ td' \in TdType
  <2>1. TypeOK /\ k \in Lock
        BY DEF IInv, Lock
  <2>2. QED
        BY <1>1, <2>1, TdLockFacts DEF ExitLock
<1>6. /\ \A x \in Thread \ {t} : SameWhere(x)
      /\ ~Ready(t)' /\ Dispatched(t)'
      /\ Runs(t)' <=> "exit_over" = "user"
      /\ Posting(t)' <=> "exit_over" = "post"
      /\ Resumed(t)' <=> "exit_over" \in {"run", "user"}
      /\ Places' /\ Descriptors' /\ MutexSide' /\ Unborn' /\ Creation'
      BY ZenonT(60), <1>1, <1>2, <1>3, <1>5, StepApart
      DEF KeepWait, KeepLock
<1>7. /\ \A j \in KThread : kt[j].cur = t => j = k
      /\ Dispatched(t) /\ ~Ready(t)
      /\ Posting(t) <=> kt[k].pc = "post"
      /\ Runs(t) <=> kt[k].pc = "user"
      /\ Resumed(t) <=> kt[k].pc \in {"run", "user"}
      BY <1>1, Held
<1>8. TypeOK'
      BY <1>2, <1>3, <1>5 DEF IInv, TypeOK, KtType, TdType
<1>9. Dispatchers'
      BY <1>1, <1>2, <1>3, <1>4, <1>5, <1>6, <1>7, HandleAssumption
      DEF IInv, KtSet, KeepMem, KeepState, KeepWait, KeepJoin, KeepFor, KeepIntr,
          SameWhere, Dispatchers, OnCpuPc, CreatePc, WakePc, Off
<1>10. Joins'
      BY <1>1, <1>2, <1>3, <1>4, <1>5, <1>6, <1>7, HandleAssumption
      DEF IInv, ThreadSide, KtSet, KeepMem, KeepState, KeepWait, KeepJoin, KeepFor,
          KeepIntr, SameWhere, Joins, GoingOn, JoinerPc
<1>11. Exits'
      BY <1>1, <1>2, <1>3, <1>4, <1>5, <1>6, <1>7, HandleAssumption
      DEF IInv, ThreadSide, KtSet, KeepMem, KeepState, KeepWait, KeepJoin, KeepFor,
          KeepIntr, SameWhere, Exits, WakePc, Off
<1>12. SpinLocks'
      BY <1>1, <1>2, <1>3, <1>4, <1>5, <1>6, <1>7, HandleAssumption
      DEF IInv, KeepMem, KeepState, KeepWait, KeepJoin, KeepFor, KeepIntr, SameWhere,
          SpinLocks
<1>13. QED
      BY <1>6, <1>8, <1>9, <1>10, <1>11, <1>12 DEF IInv, ThreadSide

\* td_set_over.
LEMMA ExitOverKeeps ==
  ASSUME IInv, NEW k \in KThread, ExitOver(k)
  PROVE IInv'
<1>1. PICK t \in Thread : kt[k].cur = t /\ kt[k].pc = "exit_over"
      BY Ranges DEF ExitOver, Step, IInv, Dispatchers
<1>2. UNCHANGED <<mut, mmrll, mmrll_lk, ut, enabled, mpc, inCS, sent, got>>
      BY DEF ExitOver
<1>3. KtSet(k, "exit_check", t) /\ kt' \in KtType
      BY <1>1, StepFacts DEF ExitOver, Step, IInv, DispatchLabel
<1>4. td[t].mem_lock = k /\ ut[t].pc = "exited" /\ td[t].wait
      BY <1>1 DEF IInv, Dispatchers, ThreadSide, Exits
<1>5. /\ KeepMem /\ KeepState /\ KeepJoin /\ KeepFor /\ KeepIntr /\ KeepLock
      /\ \A x \in Thread \ {t} : td'[x].wait = td[x].wait
      /\ ~td'[t].wait
      /\ td' \in TdType
  <2>1. td \in TdType
        BY DEF IInv, TypeOK, TdType
  <2>2. td' = [td EXCEPT ![t].wait = FALSE]
        BY <1>1 DEF ExitOver
  <2>3. td' \in TdType
    <3>1. \A i \in BOOLEAN : [td EXCEPT ![t].wait = i] \in TdType
          BY <2>1, TdUpdates
    <3>2. QED
          BY <2>2, <3>1
  <2>4. /\ \A x \in Thread \ {t} : td'[x] = td[x]
        /\ td'[t] = [td[t] EXCEPT !.wait = FALSE]
        BY ONLY t \in Thread, <2>1, <2>2 DEF TdType
  <2>5. /\ td'[t].mem = td[t].mem /\ td'[t].state = td[t].state
        /\ td'[t].join_thread = td[t].join_thread /\ td'[t].wait_for = td[t].wait_for
        /\ td'[t].intr_off = td[t].intr_off /\ td'[t].mem_lock = td[t].mem_lock
        /\ ~td'[t].wait
        BY ONLY t \in Thread, <2>1, <2>4 DEF TdType
  <2>6. QED
        BY <2>3, <2>4, <2>5 DEF KeepMem, KeepState, KeepJoin, KeepFor, KeepIntr, KeepLock
<1>6. /\ \A x \in Thread \ {t} : SameWhere(x)
      /\ ~Ready(t)' /\ Dispatched(t)'
      /\ Runs(t)' <=> "exit_check" = "user"
      /\ Posting(t)' <=> "exit_check" = "post"
      /\ Resumed(t)' <=> "exit_check" \in {"run", "user"}
      /\ Places' /\ Descriptors' /\ MutexSide' /\ Unborn' /\ Creation'
      BY <1>1, <1>2, <1>3, <1>5, StepApart
      DEF KeepLock
<1>7. /\ \A j \in KThread : kt[j].cur = t => j = k
      /\ Dispatched(t) /\ ~Ready(t)
      /\ Posting(t) <=> kt[k].pc = "post"
      /\ Runs(t) <=> kt[k].pc = "user"
      /\ Resumed(t) <=> kt[k].pc \in {"run", "user"}
      BY <1>1, Held
<1>8. TypeOK'
      BY <1>2, <1>3, <1>5 DEF IInv, TypeOK, KtType, TdType
<1>9. Dispatchers'
      BY <1>1, <1>2, <1>3, <1>4, <1>5, <1>6, <1>7, HandleAssumption
      DEF IInv, KtSet, KeepMem, KeepState, KeepJoin, KeepFor, KeepIntr, KeepLock,
          SameWhere, Dispatchers, OnCpuPc, CreatePc, WakePc, Off
<1>10. Joins'
      BY <1>1, <1>2, <1>3, <1>4, <1>5, <1>6, <1>7, HandleAssumption
      DEF IInv, ThreadSide, KtSet, KeepMem, KeepState, KeepJoin, KeepFor, KeepIntr,
          KeepLock, SameWhere, Joins, GoingOn, JoinerPc
<1>11. Exits'
      BY <1>1, <1>2, <1>3, <1>4, <1>5, <1>6, <1>7, HandleAssumption
      DEF IInv, ThreadSide, KtSet, KeepMem, KeepState, KeepJoin, KeepFor, KeepIntr,
          KeepLock, SameWhere, Exits, WakePc, Off
<1>12. SpinLocks'
      BY <1>1, <1>2, <1>3, <1>4, <1>5, <1>6, <1>7, HandleAssumption
      DEF IInv, KeepMem, KeepState, KeepJoin, KeepFor, KeepIntr, KeepLock, SameWhere,
          SpinLocks
<1>13. QED
      BY <1>6, <1>8, <1>9, <1>10, <1>11, <1>12 DEF IInv, ThreadSide

\* A dispatcher leaves its thread, which does not wait for a mutex, and puts the
\* threads of R in the ready list: the thread itself or a parked joiner.
LEMMA LeaveApart ==
  ASSUME IInv, NEW k \in KThread, NEW t \in Thread, kt[k].cur = t,
         ut[t].pc # "lock_wait", KtSet(k, "loop", NULL),
         NEW R \in SUBSET Thread, \A x \in Thread : Ready(x)' <=> Ready(x) \/ x \in R,
         \A x \in R : x = t \/ (Off(x) /\ ut[x].pc = "join_wait"),
         ut[t].pc = "client" => t \in R, Distinct(mmrll)',
         mut' = mut, inCS' = inCS, ut' = ut, mpc' = mpc,
         KeepMem, KeepState, KeepWait, KeepJoin, KeepFor, KeepIntr,
         \A x \in Thread : td'[x].mem_lock = td[x].mem_lock \/ td'[x].mem_lock = NULL
  PROVE /\ \A x \in Thread \ {t} : /\ Dispatched(x)' <=> Dispatched(x)
                                   /\ Runs(x)' <=> Runs(x)
                                   /\ Posting(x)' <=> Posting(x)
                                   /\ Resumed(x)' <=> Resumed(x)
        /\ ~Dispatched(t)' /\ ~Runs(t)' /\ ~Posting(t)' /\ ~Resumed(t)'
        /\ ~Ready(t) /\ Dispatched(t)
        /\ Places' /\ Descriptors' /\ MutexSide' /\ Unborn' /\ Creation'
<1>1. /\ Dispatched(t) /\ ~Ready(t) /\ td[t].mem # "none"
      /\ \A m \in Mutex : ~Waits(t, m)
      BY Held DEF IInv, MutexSide, Waiters
<1>2. /\ \A x \in Thread \ {t} : /\ Dispatched(x)' <=> Dispatched(x)
                                 /\ Runs(x)' <=> Runs(x)
                                 /\ Posting(x)' <=> Posting(x)
                                 /\ Resumed(x)' <=> Resumed(x)
      /\ ~Dispatched(t)' /\ ~Runs(t)' /\ ~Posting(t)' /\ ~Resumed(t)'
      BY WhereLoop DEF IInv
<1>3. \A x \in Thread : ut[x].pc \in {"lock_wait", "client"} => (Off(x)' <=> Off(x))
      BY <1>1, <1>2 DEF Off
<1>4. Places'
  <2>1. \A x \in Thread, m \in Mutex : Waits(x, m)' <=> Waits(x, m)
        BY DEF Waits
  <2>2. \A x \in R, m \in Mutex : ~Waits(x, m)
        BY <1>1 DEF IInv, MutexSide, Waiters
  <2>3. \A i, j \in KThread : kt'[i].cur = kt'[j].cur /\ kt'[i].cur # NULL => i = j
        BY DEF IInv, Places, KtSet
  <2>4. \A x \in Thread : Ready(x)' => ~Dispatched(x)'
        BY <1>2 DEF IInv, Places, Off
  <2>5. \A x \in Thread, m \in Mutex : Waits(x, m) => ~Ready(x)' /\ (Dispatched(x)' => Posting(x)')
        BY <1>1, <1>2, <2>2 DEF IInv, Places
  <2>6. QED
        BY <2>1, <2>3, <2>4, <2>5 DEF IInv, Places
<1>5. Descriptors'
      BY DEF IInv, KeepState, KeepFor, KeepIntr, Descriptors
<1>6. MutexSide'
  <2>1. \A x \in Thread : OutsideMutexes(x)
        BY DEF OutsideMutexes
  <2>2. QED
        BY <1>2, <1>3, <2>1, MutexFrame DEF IInv
<1>7. Unborn'
      BY <1>3 DEF IInv, ThreadSide, KeepMem, KeepJoin, KeepWait, Unborn
<1>8. Creation'
  <2>1. \A x \in Thread : Fresh(x)' <=> Fresh(x)
        BY <1>3 DEF KeepMem, Fresh
  <2>2. QED
        BY <2>1, HandleAssumption DEF IInv, ThreadSide, KeepMem, Creation
<1>9. QED
      BY <1>1, <1>2, <1>4, <1>5, <1>6, <1>7, <1>8

\* The dispatcher puts its thread in the ready list.
LEMMA EnqKeeps ==
  ASSUME IInv, NEW k \in KThread, Enq(k)
  PROVE IInv'
<1>1. PICK t \in Thread : kt[k].cur = t /\ kt[k].pc = "enq"
      BY Ranges DEF Enq, IInv, Dispatchers
<1>2. /\ UNCHANGED <<td, mut, ut, enabled, mpc, inCS, sent, got>>
      /\ mmrll_lk' = NULL /\ NULL \in Lock
      BY DEF Enq, mmrll_enqueue, Lock
<1>3. KtSet(k, "loop", NULL) /\ kt' \in KtType
      BY ToLoopFacts DEF Enq, IInv
<1>4. /\ \A j \in KThread : kt[j].cur = t => j = k
      /\ ~Ready(t) /\ ~Runs(t) /\ ~Posting(t) /\ ~Resumed(t)
      /\ td[t].state = "RUNNING"
      BY <1>1, Held DEF IInv, Dispatchers
<1>5. ut[t].pc \notin {"exited", "lock_wait", "join_wait", "join_check"}
      BY <1>4 DEF IInv, Descriptors, Agrees
<1>6. /\ mmrll' \in Seq(Thread)
      /\ \A x \in Thread : Ready(x)' <=> Ready(x) \/ x \in {t}
      /\ Distinct(mmrll)'
      BY <1>1, <1>4, AppendFacts, Ranges DEF Enq, mmrll_enqueue, IInv, Places, Ready
<1>7. /\ \A x \in Thread \ {t} : /\ Dispatched(x)' <=> Dispatched(x)
                                 /\ Runs(x)' <=> Runs(x)
                                 /\ Posting(x)' <=> Posting(x)
                                 /\ Resumed(x)' <=> Resumed(x)
      /\ ~Dispatched(t)' /\ ~Runs(t)' /\ ~Posting(t)' /\ ~Resumed(t)'
      /\ ~Ready(t) /\ Dispatched(t)
      /\ Places' /\ Descriptors' /\ MutexSide' /\ Unborn' /\ Creation'
  <2>1. /\ KeepMem /\ KeepState /\ KeepWait /\ KeepJoin /\ KeepFor /\ KeepIntr
        /\ \A x \in Thread : td'[x].mem_lock = td[x].mem_lock
        BY <1>2 DEF KeepMem, KeepState, KeepWait, KeepJoin, KeepFor, KeepIntr
  <2>2. QED
        BY <1>1, <1>2, <1>3, <1>5, <1>6, <2>1, LeaveApart
<1>8. \A x \in Thread : Off(x)' <=> Off(x)
      BY <1>6, <1>7 DEF Off
<1>9. TypeOK'
      BY <1>2, <1>3, <1>6 DEF IInv, TypeOK, KtType
<1>10. Dispatchers'
      BY <1>1, <1>2, <1>3, <1>4, <1>5, <1>6, <1>7, <1>8, HandleAssumption
      DEF IInv, KtSet, Dispatchers, OnCpuPc, CreatePc, WakePc
<1>11. Joins'
      BY <1>2, <1>5, <1>6, <1>7 DEF IInv, ThreadSide, Joins, GoingOn
<1>12. Exits'
      BY <1>1, <1>2, <1>3, <1>4, <1>8, HandleAssumption
      DEF IInv, ThreadSide, KtSet, Exits, WakePc
<1>13. SpinLocks'
      BY <1>2, <1>5, <1>7, HandleAssumption DEF IInv, SpinLocks
<1>14. QED
      BY <1>7, <1>9, <1>10, <1>11, <1>12, <1>13 DEF IInv, ThreadSide

\* The dispatcher puts the joiner of its thread, which is over, in the ready list.
LEMMA WakeKeeps ==
  ASSUME IInv, NEW k \in KThread, Wake(k)
  PROVE IInv'
<1>1. PICK t \in Thread : kt[k].cur = t /\ kt[k].pc = "wake"
      BY Ranges DEF Wake, IInv, Dispatchers
<1>2. /\ UNCHANGED <<td, mut, ut, enabled, mpc, inCS, sent, got>>
      /\ mmrll_lk' = NULL /\ NULL \in Lock
      BY DEF Wake, mmrll_enqueue, Lock
<1>3. KtSet(k, "loop", NULL) /\ kt' \in KtType
      BY ToLoopFacts DEF Wake, IInv
<1>4. PICK w \in Thread : /\ w = td[t].join_thread
                          /\ ut[w].pc = "join_wait" /\ Off(w)
      BY <1>1, Ranges DEF IInv, ThreadSide, Exits, WakePc
<1>5. /\ \A j \in KThread : kt[j].cur = t => j = k
      /\ ~Ready(t) /\ ~Runs(t) /\ ~Posting(t) /\ ~Resumed(t)
      /\ ut[t].pc = "exited" /\ w # t
      BY <1>1, <1>4, Held DEF IInv, Dispatchers, WakePc
<1>6. /\ ~td[t].wait /\ td[t].state # "JOINED"
      /\ \A x \in Thread : ut[x].pc \in JoinerPc /\ ut[x].arg = t => x = w
      /\ ut[w].arg = t
      BY <1>1, <1>4, Held DEF IInv, ThreadSide, Exits, Joins, WakePc, JoinerPc
<1>7. /\ mmrll' \in Seq(Thread)
      /\ \A x \in Thread : Ready(x)' <=> Ready(x) \/ x \in {w}
      /\ Distinct(mmrll)'
      BY <1>1, <1>4, AppendFacts, Ranges DEF Wake, mmrll_enqueue, IInv, Places, Ready, Off
<1>8. /\ \A x \in Thread \ {t} : /\ Dispatched(x)' <=> Dispatched(x)
                                 /\ Runs(x)' <=> Runs(x)
                                 /\ Posting(x)' <=> Posting(x)
                                 /\ Resumed(x)' <=> Resumed(x)
      /\ ~Dispatched(t)' /\ ~Runs(t)' /\ ~Posting(t)' /\ ~Resumed(t)'
      /\ ~Ready(t) /\ Dispatched(t)
      /\ Places' /\ Descriptors' /\ MutexSide' /\ Unborn' /\ Creation'
  <2>1. /\ KeepMem /\ KeepState /\ KeepWait /\ KeepJoin /\ KeepFor /\ KeepIntr
        /\ \A x \in Thread : td'[x].mem_lock = td[x].mem_lock
        BY <1>2 DEF KeepMem, KeepState, KeepWait, KeepJoin, KeepFor, KeepIntr
  <2>2. QED
        BY <1>1, <1>2, <1>3, <1>4, <1>5, <1>7, <2>1, LeaveApart
<1>9. \A x \in Thread \ {t} : Off(x)' <=> Off(x) /\ x # w
      BY <1>7, <1>8 DEF Off
<1>10. TypeOK'
      BY <1>2, <1>3, <1>7 DEF IInv, TypeOK, KtType
<1>11. Dispatchers'
      BY <1>1, <1>2, <1>3, <1>4, <1>5, <1>7, <1>8, <1>9, HandleAssumption
      DEF IInv, KtSet, Dispatchers, OnCpuPc, CreatePc, WakePc
<1>12. Joins'
      BY <1>2, <1>4, <1>5, <1>6, <1>7, <1>8 DEF IInv, ThreadSide, Joins, GoingOn, JoinerPc
<1>13. Exits'
  <2>1. \A j \in KThread, u \in Thread :
          kt'[j].cur = u => kt[j].cur = u /\ kt'[j].pc = kt[j].pc /\ u # t
        BY <1>3, <1>5, HandleAssumption DEF KtSet
  <2>2. \A u \in Thread \ {t} : td[u].join_thread = w /\ td[u].state # "JOINED" => FALSE
        BY <1>6 DEF IInv, ThreadSide, Joins
  <2>3. \A u \in Thread : Dispatched(u) => td[u].state # "JOINED"
        BY DEF IInv, ThreadSide, Joins
  <2>4. ASSUME NEW j \in KThread, NEW u \in Thread, kt'[j].cur = u,
               kt'[j].pc \in WakePc \cup {"exit_over"}, NEW y \in Thread, td[u].join_thread = y
        PROVE ut[y].pc = "join_wait" /\ Off(y)'
    <3>1. u # t /\ Dispatched(u) /\ y # w
          BY <2>1, <2>2, <2>3, <2>4 DEF Dispatched
    <3>2. ut[y].pc = "join_wait" /\ Off(y)
          BY <2>1, <2>4 DEF IInv, ThreadSide, Exits
    <3>3. QED
          BY <1>5, <1>9, <3>1, <3>2
  <2>5. ASSUME NEW x \in Thread, NEW u \in Thread, ut[x].pc = "join_wait", ut[x].arg = u,
               Off(x)', ~td[u].wait
        PROVE \E j \in KThread : kt'[j].pc \in WakePc /\ kt'[j].cur = u
    <3>1. x # t /\ x # w /\ Off(x)
          BY <1>5, <1>7, <1>9, <2>5 DEF Off
    <3>2. PICK j \in KThread : kt[j].pc \in WakePc /\ kt[j].cur = u
          BY <2>5, <3>1 DEF IInv, ThreadSide, Exits
    <3>3. j # k
          BY <1>1, <1>6, <2>5, <3>1, <3>2 DEF JoinerPc
    <3>4. QED
          BY <1>3, <3>2, <3>3 DEF KtSet
  <2>6. QED
        BY <1>2, <2>1, <2>4, <2>5 DEF IInv, ThreadSide, Exits
<1>14. SpinLocks'
      BY <1>2, <1>5, <1>8, HandleAssumption DEF IInv, SpinLocks
<1>15. QED
      BY <1>8, <1>10, <1>11, <1>12, <1>13, <1>14 DEF IInv, ThreadSide

\* A dispatcher takes the thread t from the ready list and goes to l.
LEMMA GetTakesKeeps ==
  ASSUME IInv, NEW k \in KThread, kt[k].cur = NULL, NEW t \in Thread,
         NEW l \in {"sig_lock", "run"}, l = "sig_lock" => td[t].state = "RUNNING",
         KtSet(k, l, t), kt' \in KtType, Ready(t), mmrll' \in Seq(Thread),
         \A x \in Thread : Ready(x)' <=> Ready(x) /\ x # t, Distinct(mmrll)',
         mmrll_lk' = NULL,
         UNCHANGED <<td, mut, ut, enabled, mpc, inCS, sent, got>>
  PROVE IInv'
<1>1. ~Dispatched(t) /\ ut[t].pc # "exited" /\ td[t].wait /\ td[t].state # "JOINED"
      BY DEF IInv, Places, Dispatchers, ThreadSide, Joins
<1>2. /\ \A x \in Thread \ {t} : /\ Dispatched(x)' <=> Dispatched(x)
                                 /\ Runs(x)' <=> Runs(x)
                                 /\ Posting(x)' <=> Posting(x)
                                 /\ Resumed(x)' <=> Resumed(x)
      /\ Dispatched(t)' /\ ~Runs(t) /\ ~Posting(t) /\ ~Resumed(t)
      /\ ~Runs(t)' /\ ~Posting(t)'
      BY <1>1, WhereGet DEF IInv
<1>3. /\ \A x \in Thread : Off(x)' <=> Off(x)
      /\ \A x \in Thread : Posting(x)' <=> Posting(x)
      /\ \A x \in Thread : Runs(x)' <=> Runs(x)
      BY <1>2 DEF Off
<1>4. TypeOK'
  <2>1. NULL \in Lock
        BY DEF Lock
  <2>2. QED
        BY <2>1 DEF IInv, TypeOK, KtType
<1>5. Places'
  <2>1. \A x \in Thread, m \in Mutex : Waits(x, m)' <=> Waits(x, m)
        BY DEF Waits
  <2>2. \A i, j \in KThread : kt'[i].cur = kt'[j].cur /\ kt'[i].cur # NULL => i = j
        BY <1>1 DEF IInv, Places, KtSet, Dispatched
  <2>3. \A x \in Thread : Ready(x)' => ~Dispatched(x)'
        BY <1>2 DEF IInv, Places
  <2>4. \A x \in Thread, m \in Mutex : Waits(x, m) => ~Ready(x)' /\ (Dispatched(x)' => Posting(x)')
        BY <1>2 DEF IInv, Places
  <2>5. QED
        BY <2>1, <2>2, <2>3, <2>4 DEF IInv, Places
<1>6. Descriptors'
      BY DEF IInv, Descriptors
<1>7. Dispatchers'
      BY <1>1, <1>3, HandleAssumption
      DEF IInv, KtSet, Dispatchers, OnCpuPc, CreatePc, WakePc
<1>8. MutexSide'
  <2>1. \A x \in Thread : OutsideMutexes(x)
        BY DEF OutsideMutexes
  <2>2. QED
        BY <1>3, <2>1, MutexFrame DEF IInv
<1>9. ThreadSide'
  <2>1. \A x \in Thread : GoingOn(x)' => GoingOn(x)
        BY <1>2 DEF GoingOn
  <2>2. Joins'
        BY <1>1, <1>2, <1>3, <2>1 DEF IInv, ThreadSide, Joins
  <2>3. Exits'
        BY <1>3, HandleAssumption DEF IInv, ThreadSide, KtSet, Exits, WakePc
  <2>4. Unborn'
        BY <1>3 DEF IInv, ThreadSide, Unborn
  <2>5. Creation'
        BY <1>3, HandleAssumption DEF IInv, ThreadSide, Creation, Fresh
  <2>6. QED
        BY <2>2, <2>3, <2>4, <2>5 DEF ThreadSide
<1>10. SpinLocks'
      BY <1>3, HandleAssumption DEF IInv, SpinLocks
<1>11. QED
      BY <1>4, <1>5, <1>6, <1>7, <1>8, <1>9, <1>10 DEF IInv

\* The dispatcher looks at mmsched_enabled.
LEMMA LoopKeeps ==
  ASSUME IInv, NEW k \in KThread, Loop(k)
  PROVE IInv'
<1>1. PICK l \in {"get_lock", "returned"} : Step(k, "loop", l)
      BY DEF Loop
<1>2. UNCHANGED <<td, mut, mmrll, mmrll_lk, ut, enabled, mpc, inCS, sent, got>>
      BY DEF Loop
<1>3. kt[k].cur = NULL
      BY <1>1 DEF Step, IInv, Dispatchers
<1>4. KtSet(k, l, NULL) /\ kt' \in KtType
      BY <1>1, <1>3, StepFacts DEF Step, IInv, DispatchLabel
<1>5. mmrll_lk' \in Lock \cup {"main"}
      BY <1>2 DEF IInv, TypeOK
<1>6. QED
      BY <1>2, <1>3, <1>4, <1>5, IdleKeeps

\* The dispatcher takes the lock of the ready list.
LEMMA GetLockKeeps ==
  ASSUME IInv, NEW k \in KThread, GetLock(k)
  PROVE IInv'
<1>1. UNCHANGED <<td, mut, mmrll, ut, enabled, mpc, inCS, sent, got>>
      BY DEF GetLock
<1>2. kt[k].cur = NULL /\ mmrll_lk' = k
      BY DEF GetLock, Step, mmrll_lock, IInv, Dispatchers
<1>3. KtSet(k, "get", NULL) /\ kt' \in KtType
      BY <1>2, StepFacts DEF GetLock, Step, IInv, DispatchLabel
<1>4. mmrll_lk' \in Lock \cup {"main"} /\ \A x \in Thread : mmrll_lk' # x
      BY <1>2, HandleAssumption DEF Lock
<1>5. QED
      BY <1>1, <1>2, <1>3, <1>4, IdleKeeps

\* get_next_thread.
LEMMA GetKeeps ==
  ASSUME IInv, NEW k \in KThread, Get(k)
  PROVE IInv'
<1>1. kt[k].pc = "get" /\ kt[k].cur = NULL /\ mmrll_lk' = NULL
      BY DEF Get, IInv, Dispatchers
<1>2. UNCHANGED <<td, mut, ut, enabled, mpc, inCS, sent, got>>
      BY DEF Get
<1>3. CASE mmrll = <<>>
  <2>1. ToLoop(k) /\ mmrll' = mmrll
        BY <1>3 DEF Get
  <2>2. KtSet(k, "loop", NULL) /\ kt' \in KtType
        BY <2>1, ToLoopFacts DEF IInv
  <2>3. mmrll_lk' \in Lock \cup {"main"} /\ \A x \in Thread : mmrll_lk' # x
        BY <1>1, HandleAssumption DEF Lock
  <2>4. QED
        BY <1>1, <1>2, <2>1, <2>2, <2>3, IdleKeeps
<1>4. CASE mmrll # <<>>
  <2>1. mmrll \in Seq(Thread) /\ Distinct(mmrll)
        BY Ranges DEF IInv, Places
  <2>2. PICK t \in Thread : /\ t = Head(mmrll) /\ Ready(t)
                            /\ \A x \in Thread : InList(x, Tail(mmrll)) <=> Ready(x) /\ x # t
        BY <1>4, <2>1, TailFacts DEF Ready
  <2>3. mmrll' = Tail(mmrll) /\ mmrll' \in Seq(Thread) /\ Distinct(mmrll)'
        BY <1>4, <2>1, TailFacts DEF Get
  <2>4. \A x \in Thread : Ready(x)' <=> Ready(x) /\ x # t
        BY <2>2, <2>3 DEF Ready
  <2>5. PICK l \in {"sig_lock", "run"} :
          l = IF td[t].state = "RUNNING" THEN "sig_lock" ELSE "run"
        OBVIOUS
  <2>6. kt' = [kt EXCEPT ![k].cur = t, ![k].pc = l]
        BY <1>4, <2>2, <2>5 DEF Get
  <2>7. KtSet(k, l, t) /\ kt' \in KtType
    <3>1. kt \in KtType /\ l \in DispatchLabel
          BY DEF IInv, TypeOK, KtType, DispatchLabel
    <3>2. kt' = [[kt EXCEPT ![k].cur = t] EXCEPT ![k].pc = l]
          BY <2>6, <3>1 DEF KtType
    <3>3. KtSet(k, l, t)
          BY <2>6, <3>1 DEF KtSet, KtType
    <3>4. QED
          BY <3>1, <3>2, <3>3 DEF KtType
  <2>8. QED
        BY <1>1, <1>2, <2>2, <2>3, <2>4, <2>5, <2>7, GetTakesKeeps
<1>5. QED
      BY <1>3, <1>4

\* send_pending_signals passes the signals on and releases the lock.
LEMMA SigSendKeeps ==
  ASSUME IInv, NEW k \in KThread, SigSend(k)
  PROVE IInv'
<1>1. PICK t \in Thread : kt[k].cur = t /\ kt[k].pc = "sig_send"
      BY Ranges DEF SigSend, IInv, Dispatchers
<1>2. UNCHANGED <<mut, mmrll, mmrll_lk, ut, enabled, mpc, inCS, sent, got>>
      BY DEF SigSend
<1>3. KtSet(k, "run", t) /\ kt' \in KtType
  <2>1. kt \in KtType /\ td[t].pend_sig \in SUBSET Signal
        BY DEF IInv, TypeOK, KtType
  <2>2. QED
        BY ZenonT(60), <1>1, <2>1 DEF SigSend, KtSet, KtType, DispatchLabel
<1>4. /\ td[t].mem_lock = k /\ td[t].state = "RUNNING"
      /\ ut[t].pc \notin {"exited", "lock_wait", "join_wait", "join_check"}
      BY <1>1 DEF IInv, Dispatchers, ThreadSide, Exits, Descriptors, Agrees
<1>5. /\ KeepMem /\ KeepState /\ KeepWait /\ KeepJoin /\ KeepFor /\ KeepIntr
      /\ \A x \in Thread : td'[x].mem_lock = IF x = t THEN NULL ELSE td[x].mem_lock
      /\ td' \in TdType
  <2>1. td \in TdType /\ NULL \in Lock
        BY DEF IInv, TypeOK, TdType, Lock
  <2>2. td' = [[td EXCEPT ![t].pend_sig = {}] EXCEPT ![t].mem_lock = NULL]
        BY <1>1, <2>1 DEF SigSend, TdType
  <2>3. /\ \A d \in TdType : [d EXCEPT ![t].pend_sig = {}] \in TdType
        /\ \A d \in TdType : [d EXCEPT ![t].mem_lock = NULL] \in TdType
        BY <2>1, TdUpdates
  <2>4. td' \in TdType
        BY <2>1, <2>2, <2>3
  <2>5. QED
        BY <2>1, <2>2, <2>4
        DEF TdType, KeepMem, KeepState, KeepWait, KeepJoin, KeepFor, KeepIntr
<1>6. /\ \A x \in Thread \ {t} : SameWhere(x)
      /\ ~Ready(t)' /\ Dispatched(t)'
      /\ Runs(t)' <=> "run" = "user"
      /\ Posting(t)' <=> "run" = "post"
      /\ Resumed(t)' <=> "run" \in {"run", "user"}
      /\ Places' /\ Descriptors' /\ MutexSide' /\ Unborn' /\ Creation'
      BY ZenonT(60), <1>1, <1>2, <1>3, <1>4, <1>5, StepApart
      DEF KeepWait, KeepLock
<1>7. /\ \A j \in KThread : kt[j].cur = t => j = k
      /\ Dispatched(t) /\ ~Ready(t)
      /\ Posting(t) <=> kt[k].pc = "post"
      /\ Runs(t) <=> kt[k].pc = "user"
      /\ Resumed(t) <=> kt[k].pc \in {"run", "user"}
      BY <1>1, Held
<1>8. TypeOK'
      BY <1>2, <1>3, <1>5 DEF IInv, TypeOK, KtType, TdType
<1>9. Dispatchers'
      BY <1>1, <1>2, <1>3, <1>4, <1>5, <1>6, <1>7, HandleAssumption
      DEF IInv, KtSet, KeepMem, KeepState, KeepWait, KeepJoin, KeepFor, KeepIntr,
          SameWhere, Dispatchers, OnCpuPc, CreatePc, WakePc, Off
<1>10. Joins'
      BY <1>1, <1>2, <1>3, <1>4, <1>5, <1>6, <1>7, HandleAssumption
      DEF IInv, ThreadSide, KtSet, KeepMem, KeepState, KeepWait, KeepJoin, KeepFor,
          KeepIntr, SameWhere, Joins, GoingOn, JoinerPc
<1>11. Exits'
      BY <1>1, <1>2, <1>3, <1>4, <1>5, <1>6, <1>7, HandleAssumption
      DEF IInv, ThreadSide, KtSet, KeepMem, KeepState, KeepWait, KeepJoin, KeepFor,
          KeepIntr, SameWhere, Exits, WakePc, Off
<1>12. SpinLocks'
      BY <1>1, <1>2, <1>3, <1>4, <1>5, <1>6, <1>7, HandleAssumption
      DEF IInv, KeepMem, KeepState, KeepWait, KeepJoin, KeepFor, KeepIntr, SameWhere,
          SpinLocks
<1>13. QED
      BY <1>6, <1>8, <1>9, <1>10, <1>11, <1>12 DEF IInv, ThreadSide

\* td_has_joining and td_unlock.
LEMMA ExitCheckKeeps ==
  ASSUME IInv, NEW k \in KThread, ExitCheck(k)
  PROVE IInv'
<1>1. PICK t \in Thread : kt[k].cur = t /\ kt[k].pc = "exit_check"
      BY Ranges DEF ExitCheck, IInv, Dispatchers
<1>2. UNCHANGED <<mut, mmrll, mmrll_lk, ut, enabled, mpc, inCS, sent, got>>
      BY DEF ExitCheck
<1>3. /\ td[t].mem_lock = k /\ ut[t].pc = "exited" /\ ~td[t].wait
      /\ td[t].state # "WAIT_MUTEX"
      BY <1>1 DEF IInv, Dispatchers, Descriptors, Agrees, ThreadSide, Exits, WakePc
<1>4. /\ KeepMem /\ KeepState /\ KeepWait /\ KeepJoin /\ KeepFor /\ KeepIntr
      /\ \A x \in Thread : td'[x].mem_lock = IF x = t THEN NULL ELSE td[x].mem_lock
      /\ td' \in TdType
  <2>1. TypeOK /\ NULL \in Lock
        BY DEF IInv, Lock
  <2>2. QED
        BY <1>1, <2>1, TdLockFacts DEF ExitCheck
<1>5. /\ \A j \in KThread : kt[j].cur = t => j = k
      /\ Dispatched(t) /\ ~Ready(t) /\ ~Posting(t) /\ ~Runs(t) /\ ~Resumed(t)
      BY <1>1, Held
<1>6. CASE td[t].join_thread # NULL
  <2>1. KtSet(k, "wake_lock", t) /\ kt' \in KtType
        BY <1>1, <1>6, StepFacts DEF ExitCheck, Step, IInv, DispatchLabel
  <2>2. /\ \A x \in Thread \ {t} : SameWhere(x)
        /\ ~Ready(t)' /\ Dispatched(t)'
        /\ Runs(t)' <=> "wake_lock" = "user"
        /\ Posting(t)' <=> "wake_lock" = "post"
        /\ Resumed(t)' <=> "wake_lock" \in {"run", "user"}
        /\ Places' /\ Descriptors' /\ MutexSide' /\ Unborn' /\ Creation'
        BY <1>1, <1>2, <1>3, <1>4, <2>1, StepApart DEF KeepWait
  <2>3. TypeOK'
        BY <1>2, <1>4, <2>1 DEF IInv, TypeOK, KtType, TdType
  <2>4. Dispatchers'
        BY <1>1, <1>2, <1>3, <1>4, <1>5, <2>1, <2>2, HandleAssumption
        DEF IInv, KtSet, KeepState, SameWhere, Dispatchers, OnCpuPc, CreatePc, WakePc, Off
  <2>5. Joins'
        BY <1>1, <1>2, <1>3, <1>4, <1>5, <2>1, <2>2, HandleAssumption
        DEF IInv, ThreadSide, KtSet, KeepMem, KeepState, KeepWait, KeepJoin, SameWhere,
            Joins, GoingOn, JoinerPc
  <2>6. Exits'
        BY <1>1, <1>2, <1>3, <1>4, <1>5, <1>6, <2>1, <2>2, HandleAssumption
        DEF IInv, ThreadSide, KtSet, KeepWait, KeepJoin, SameWhere, Exits, WakePc, Off
  <2>7. SpinLocks'
        BY <1>1, <1>2, <1>3, <1>4, <1>5, <2>2, HandleAssumption
        DEF IInv, SameWhere, SpinLocks
  <2>8. QED
        BY <2>2, <2>3, <2>4, <2>5, <2>6, <2>7 DEF IInv, ThreadSide
<1>7. CASE td[t].join_thread = NULL
  <2>1. KtSet(k, "loop", NULL) /\ kt' \in KtType
        BY <1>1, <1>7, ToLoopFacts DEF ExitCheck, IInv
  <2>2. Distinct(mmrll)' /\ \A x \in Thread : Ready(x)' <=> Ready(x)
        BY <1>2 DEF IInv, Places, Ready
  <2>3. /\ \A x \in Thread \ {t} : /\ Dispatched(x)' <=> Dispatched(x)
                                   /\ Runs(x)' <=> Runs(x)
                                   /\ Posting(x)' <=> Posting(x)
                                   /\ Resumed(x)' <=> Resumed(x)
        /\ ~Dispatched(t)' /\ ~Runs(t)' /\ ~Posting(t)' /\ ~Resumed(t)'
        /\ Places' /\ Descriptors' /\ MutexSide' /\ Unborn' /\ Creation'
    <3>1. {} \in SUBSET Thread /\ \A x \in Thread : Ready(x)' <=> Ready(x) \/ x \in {}
          BY <2>2
    <3>2. QED
          BY <1>1, <1>2, <1>3, <1>4, <2>1, <2>2, <3>1, LeaveApart
  <2>4. \A x \in Thread \ {t} : Off(x)' <=> Off(x)
        BY <2>2, <2>3 DEF Off
  <2>5. TypeOK'
        BY <1>2, <1>4, <2>1 DEF IInv, TypeOK, KtType, TdType
  <2>6. Dispatchers'
        BY <1>1, <1>2, <1>3, <1>4, <1>5, <2>1, <2>2, <2>3, <2>4, HandleAssumption
        DEF IInv, KtSet, KeepState, Dispatchers, OnCpuPc, CreatePc, WakePc
  <2>7. Joins'
        BY <1>1, <1>2, <1>3, <1>4, <1>5, <2>1, <2>2, <2>3, HandleAssumption
        DEF IInv, ThreadSide, KtSet, KeepMem, KeepState, KeepWait, KeepJoin,
            Joins, GoingOn, JoinerPc
  <2>8. Exits'
    <3>1. \A x \in Thread : ut[x].pc = "join_wait" => ut[x].arg # t
          BY <1>7, HandleAssumption DEF IInv, ThreadSide, Joins, JoinerPc
    <3>2. QED
          BY <1>1, <1>2, <1>3, <1>4, <1>5, <2>1, <2>4, <3>1, HandleAssumption
          DEF IInv, ThreadSide, KtSet, KeepWait, KeepJoin, Exits, WakePc
  <2>9. SpinLocks'
        BY <1>1, <1>2, <1>3, <1>4, <1>5, <2>3, HandleAssumption DEF IInv, SpinLocks
  <2>10. QED
        BY <2>3, <2>5, <2>6, <2>7, <2>8, <2>9 DEF IInv, ThreadSide
<1>8. QED
      BY <1>6, <1>7

\* The dispatcher releases the lock of the target for the joiner that has parked.
LEMMA PostWaitJoinKeeps ==
  ASSUME IInv, NEW k \in KThread, PostWaitJoin(k)
  PROVE IInv'
<1>1. PICK t \in Thread : kt[k].cur = t /\ kt[k].pc = "post" /\ td[t].state = "WAIT_JOIN"
      BY Ranges DEF PostWaitJoin, IInv, Dispatchers
<1>2. UNCHANGED <<mut, mmrll, mmrll_lk, ut, enabled, mpc, inCS, sent, got>>
      BY DEF PostWaitJoin
<1>3. /\ \A j \in KThread : kt[j].cur = t => j = k
      /\ Dispatched(t) /\ ~Ready(t) /\ Posting(t) /\ ~Runs(t) /\ ~Resumed(t)
      BY <1>1, Held
<1>4. ut[t].pc = "join_wait"
      BY <1>1, <1>3 DEF IInv, Descriptors, Agrees, Dispatchers, OnCpuPc
<1>5. PICK u \in Thread : ut[t].arg = u /\ td[t].wait_for = u
      BY <1>4 DEF IInv, Descriptors, Agrees, JoinerPc
<1>6. /\ td[u].mem_lock = t /\ td[u].wait /\ u # t
      /\ \A x \in Thread : td[x].join_thread = t /\ td[x].state # "JOINED" => x = u
  <2>1. td[u].mem_lock = t /\ td[u].wait /\ u # t
        BY <1>3, <1>4, <1>5 DEF IInv, ThreadSide, Joins, JoinerPc
  <2>2. \A x \in Thread : td[x].join_thread = t /\ td[x].state # "JOINED" => ut[t].arg = x
        BY DEF IInv, ThreadSide, Joins
  <2>3. QED
        BY <1>5, <2>1, <2>2
<1>7. /\ KeepMem /\ KeepState /\ KeepWait /\ KeepJoin /\ KeepFor /\ KeepIntr
      /\ \A x \in Thread : td'[x].mem_lock = IF x = u THEN NULL ELSE td[x].mem_lock
      /\ td' \in TdType
  <2>1. TypeOK /\ NULL \in Lock
        BY DEF IInv, Lock
  <2>2. QED
        BY <1>1, <1>5, <2>1, TdLockFacts DEF PostWaitJoin
<1>8. KtSet(k, "loop", NULL) /\ kt' \in KtType
      BY ToLoopFacts DEF PostWaitJoin, IInv
<1>9. Distinct(mmrll)' /\ \A x \in Thread : Ready(x)' <=> Ready(x)
      BY <1>2 DEF IInv, Places, Ready
<1>10. /\ \A x \in Thread \ {t} : /\ Dispatched(x)' <=> Dispatched(x)
                                  /\ Runs(x)' <=> Runs(x)
                                  /\ Posting(x)' <=> Posting(x)
                                  /\ Resumed(x)' <=> Resumed(x)
       /\ ~Dispatched(t)' /\ ~Runs(t)' /\ ~Posting(t)' /\ ~Resumed(t)'
       /\ Places' /\ Descriptors' /\ MutexSide' /\ Unborn' /\ Creation'
  <2>1. {} \in SUBSET Thread /\ \A x \in Thread : Ready(x)' <=> Ready(x) \/ x \in {}
        BY <1>9
  <2>2. QED
        BY <1>1, <1>2, <1>4, <1>7, <1>8, <1>9, <2>1, LeaveApart
<1>11. \A x \in Thread \ {t} : Off(x)' <=> Off(x)
      BY <1>9, <1>10 DEF Off
<1>12. TypeOK'
      BY <1>2, <1>7, <1>8 DEF IInv, TypeOK, KtType, TdType
<1>13. Dispatchers'
      BY <1>1, <1>2, <1>3, <1>4, <1>7, <1>8, <1>9, <1>10, <1>11, HandleAssumption
      DEF IInv, KtSet, KeepState, Dispatchers, OnCpuPc, CreatePc, WakePc
<1>14. Joins'
      BY <1>1, <1>2, <1>3, <1>4, <1>5, <1>6, <1>7, <1>9, <1>10, HandleAssumption
      DEF IInv, ThreadSide, KeepMem, KeepState, KeepWait, KeepJoin, Joins, GoingOn, JoinerPc
<1>15. Exits'
  <2>1. \A j \in KThread, x \in Thread : kt'[j].cur = x =>
          kt[j].cur = x /\ kt'[j].pc = kt[j].pc /\ x # t /\ td[x].state # "JOINED"
        BY <1>3, <1>8, HandleAssumption DEF KtSet, IInv, ThreadSide, Joins, Dispatched
  <2>2. \A j \in KThread : kt[j].cur = u =>
          kt[j].pc \notin WakePc \cup {"exit_over", "sig_send"}
        BY <1>6, HandleAssumption DEF IInv, ThreadSide, Exits, WakePc
  <2>3. \A j \in KThread : kt[j].pc \in WakePc => j # k
        BY <1>1 DEF WakePc
  <2>4. ASSUME NEW j \in KThread, NEW x \in Thread, kt'[j].cur = x,
               kt'[j].pc \in WakePc \cup {"exit_over"}, NEW y \in Thread,
               td[x].join_thread = y
        PROVE ut[y].pc = "join_wait" /\ Off(y)'
        BY <1>6, <1>11, <2>1, <2>2, <2>4 DEF IInv, ThreadSide, Exits
  <2>5. ASSUME NEW x \in Thread, NEW y \in Thread, ut[x].pc = "join_wait",
               ut[x].arg = y, Off(x)', ~td[y].wait
        PROVE \E j \in KThread : kt'[j].pc \in WakePc /\ kt'[j].cur = y
    <3>1. x # t
          BY <1>5, <1>6, <2>5
    <3>2. PICK j \in KThread : kt[j].pc \in WakePc /\ kt[j].cur = y
          BY <1>11, <2>5, <3>1 DEF IInv, ThreadSide, Exits
    <3>3. QED
          BY <1>8, <2>3, <3>2 DEF KtSet
  <2>6. QED
        BY <1>2, <1>7, <2>1, <2>2, <2>4, <2>5
        DEF IInv, ThreadSide, KeepWait, KeepJoin, Exits, WakePc
<1>16. SpinLocks'
  <2>1. ASSUME NEW x \in Thread, NEW y \in Thread, td'[y].mem_lock = x
        PROVE td[y].mem_lock = x /\ x # t
        BY <1>5, <1>7, <2>1, HandleAssumption DEF IInv, SpinLocks
  <2>2. QED
        BY <1>2, <1>10, <2>1 DEF IInv, SpinLocks
<1>17. QED
      BY <1>10, <1>12, <1>13, <1>14, <1>15, <1>16 DEF IInv, ThreadSide

\* thread_sigmask.
LEMMA ThreadSigmaskKeeps ==
  ASSUME IInv, NEW k \in KThread, NEW t \in Thread, NEW S \in SUBSET Signal,
         ThreadSigmask(k, t, S)
  PROVE IInv'
<1>1. kt[k].pc = "user" /\ kt[k].cur = t /\ ut[t].pc = "client"
      BY DEF ThreadSigmask, Calls, At
<1>2. /\ UNCHANGED <<mut, mmrll, mmrll_lk, ut, enabled, mpc, inCS, sent>>
      /\ got' \in [Thread -> SUBSET Signal]
  <2>1. got \in [Thread -> SUBSET Signal] /\ kt[k].pend \in SUBSET Signal
        BY DEF IInv, TypeOK
  <2>2. QED
        BY <2>1 DEF ThreadSigmask
<1>3. KtSet(k, "user", t) /\ kt' \in KtType
  <2>1. kt \in KtType
        BY DEF IInv, TypeOK, KtType
  <2>2. QED
        BY <1>1, <2>1 DEF ThreadSigmask, KtSet, KtType, DispatchLabel
<1>4. /\ KeepMem /\ KeepState /\ KeepWait /\ KeepJoin /\ KeepFor /\ KeepLock
      /\ DescrSet(t, td[t].state, td[t].wait_for, FALSE)
      /\ td' \in TdType
  <2>1. td \in TdType
        BY DEF IInv, TypeOK, TdType
  <2>2. td' = [[td EXCEPT ![t].blocked = S] EXCEPT ![t].intr_off = FALSE]
        BY <2>1 DEF ThreadSigmask, TdType
  <2>3. /\ \A d \in TdType : [d EXCEPT ![t].blocked = S] \in TdType
        /\ \A d \in TdType : [d EXCEPT ![t].intr_off = FALSE] \in TdType
        BY TdUpdates
  <2>4. td' \in TdType
        BY <2>1, <2>2, <2>3
  <2>5. DescrSet(t, td[t].state, td[t].wait_for, FALSE)
        BY <2>1, <2>2 DEF TdType, DescrSet
  <2>6. QED
        BY <2>1, <2>2, <2>4, <2>5
        DEF TdType, KeepMem, KeepState, KeepWait, KeepJoin, KeepFor, KeepLock
<1>5. UtSet(t, "client", ut[t].arg)
      BY <1>1, <1>2 DEF UtSet
<1>6. \A x \in Thread : SameWhere(x)
      BY ZenonT(60), <1>1, <1>2, <1>3, WhereStep DEF IInv, SameWhere
<1>7. \A x \in Thread : Off(x)' <=> Off(x)
      BY <1>6 DEF SameWhere, Off
<1>8. \A j \in KThread : kt'[j].pc = kt[j].pc /\ kt'[j].cur = kt[j].cur
      BY <1>1, <1>3 DEF KtSet
<1>9. TypeOK'
      BY <1>2, <1>3, <1>4 DEF IInv, TypeOK, KtType, TdType
<1>10. Places'
  <2>1. \A x \in Thread, m \in Mutex : Waits(x, m)' <=> Waits(x, m)
        BY <1>2 DEF Waits
  <2>2. QED
        BY <1>2, <1>6, <1>8, <2>1 DEF IInv, SameWhere, Places
<1>11. Descriptors'
  <2>1. Agrees("client", ut[t].arg, td[t].state, td[t].wait_for, FALSE)
        BY <1>1 DEF IInv, Descriptors, Agrees, MutexPc, CreatePc, JoinerPc, OnCpuPc, IntrOffPc
  <2>2. QED
        BY <1>4, <1>5, <2>1, DescriptorsKept DEF IInv
<1>12. Dispatchers'
      BY <1>2, <1>4, <1>6, <1>7, <1>8 DEF IInv, KeepState, SameWhere, Dispatchers
<1>13. MutexSide'
  <2>1. \A x \in Thread : OutsideMutexes(x)
        BY <1>2 DEF OutsideMutexes
  <2>2. QED
        BY <1>2, <1>6, <1>7, <2>1, MutexFrame DEF IInv, SameWhere
<1>14. ThreadSide'
  <2>1. Joins'
        BY <1>2, <1>4, <1>6
        DEF IInv, ThreadSide, KeepMem, KeepState, KeepWait, KeepJoin, KeepLock, SameWhere,
            Joins, GoingOn
  <2>2. Exits'
        BY <1>2, <1>4, <1>7, <1>8
        DEF IInv, ThreadSide, KeepWait, KeepJoin, KeepLock, Exits
  <2>3. Unborn'
        BY <1>2, <1>4, <1>7
        DEF IInv, ThreadSide, KeepMem, KeepWait, KeepJoin, KeepLock, Unborn
  <2>4. Creation'
        BY <1>2, <1>4, <1>7, HandleAssumption DEF IInv, ThreadSide, KeepMem, Creation, Fresh
  <2>5. QED
        BY <2>1, <2>2, <2>3, <2>4 DEF ThreadSide
<1>15. SpinLocks'
      BY <1>2, <1>4, <1>6 DEF IInv, KeepLock, SameWhere, SpinLocks
<1>16. QED
      BY <1>9, <1>10, <1>11, <1>12, <1>13, <1>14, <1>15 DEF IInv

-----------------------------------------------------------------------------
(* The steps of main()                                                     *)

\* A step of main() that leaves the threads where they are and changes nothing in
\* the descriptors but the memory of Main.
LEMMA MainApart ==
  ASSUME IInv, UNCHANGED <<mut, mmrll, kt, ut, inCS, sent, got>>,
         td' \in TdType, KeepState, KeepWait, KeepJoin, KeepFor, KeepIntr, KeepLock,
         \A x \in Thread \ {Main} : td'[x].mem = td[x].mem,
         td'[Main].mem # "none" \/ td[Main].mem = "none",
         td[Main].mem = "freed" => td'[Main].mem = "freed",
         mpc' \in MainLabel, enabled' \in BOOLEAN, mmrll_lk' \in Lock \cup {"main"},
         \A x \in Thread : mmrll_lk' = x => mmrll_lk = x, Creation'
  PROVE IInv'
<1>1. \A x \in Thread : SameWhere(x)
      BY WhereSame
<1>2. \A x \in Thread : Off(x)' <=> Off(x)
      BY <1>1 DEF SameWhere, Off
<1>3. TypeOK'
      BY DEF IInv, TypeOK, TdType
<1>4. Places'
  <2>1. \A x \in Thread, m \in Mutex : Waits(x, m)' <=> Waits(x, m)
        BY DEF Waits
  <2>2. QED
        BY <1>1, <2>1 DEF IInv, SameWhere, Places
<1>5. Descriptors'
      BY DEF IInv, KeepState, KeepFor, KeepIntr, Descriptors
<1>6. Dispatchers'
      BY <1>1, <1>2 DEF IInv, KeepState, SameWhere, Dispatchers
<1>7. MutexSide'
  <2>1. \A x \in Thread : OutsideMutexes(x)
        BY DEF OutsideMutexes
  <2>2. QED
        BY <1>1, <1>2, <2>1, MutexFrame DEF IInv, SameWhere
<1>8. ThreadSide'
  <2>1. Joins'
        BY <1>1 DEF IInv, ThreadSide, KeepState, KeepWait, KeepJoin, KeepLock, SameWhere,
           Joins, GoingOn
  <2>2. Exits'
        BY <1>2 DEF IInv, ThreadSide, KeepWait, KeepJoin, KeepLock, Exits
  <2>3. Unborn'
        BY <1>2 DEF IInv, ThreadSide, KeepWait, KeepJoin, KeepLock, Unborn
  <2>4. QED
        BY <2>1, <2>2, <2>3 DEF ThreadSide
<1>9. SpinLocks'
      BY <1>1 DEF IInv, KeepLock, SameWhere, SpinLocks
<1>10. QED
      BY <1>3, <1>4, <1>5, <1>6, <1>7, <1>8, <1>9 DEF IInv

\* main() creates the descriptor of the thread of thread_main.
LEMMA MainCreateKeeps ==
  ASSUME IInv, MainCreate
  PROVE IInv'
<1>1. /\ UNCHANGED <<mut, mmrll, mmrll_lk, kt, ut, enabled, inCS, sent, got>>
      /\ mpc = "create" /\ mpc' = "create_lock" /\ Main \in Thread
      BY HandleAssumption DEF MainCreate
<1>2. /\ td[Main].mem = "none" /\ ut[Main].pc = "client" /\ Off(Main)
      /\ td[Main].wait /\ td[Main].join_thread = NULL /\ td[Main].mem_lock = NULL
      /\ \A x \in Thread : ut[x].arg # Main
      BY <1>1 DEF IInv, ThreadSide, Creation, Unborn
<1>3. td[Main].wait_for = NULL /\ td[Main].state = "RUNNING"
      BY <1>1, <1>2, Ranges DEF IInv, Descriptors, Agrees, States
<1>4. PICK d : d = td_init({})
      OBVIOUS
<1>5. /\ d.mem = "live" /\ d.state = "RUNNING" /\ d.wait = TRUE /\ d.join_thread = NULL
      /\ d.wait_for = NULL /\ d.mem_lock = NULL /\ d.intr_off = FALSE
      BY <1>4 DEF td_init, NoDescr
<1>6. d \in [mem: {"none", "live", "freed"}, state: States, wait: BOOLEAN,
              join_thread: Thread \cup {NULL},
              wait_for: Thread \cup Mutex \cup {NULL}, intr_off: BOOLEAN,
              pend_sig: SUBSET Signal, blocked: SUBSET Signal, mem_lock: Lock]
      BY <1>4 DEF td_init, NoDescr, States, Lock
<1>7. td' \in TdType /\ td'[Main] = d /\ \A x \in Thread \ {Main} : td'[x] = td[x]
  <2>1. td \in TdType
        BY DEF IInv, TypeOK, TdType
  <2>2. td' = [td EXCEPT ![Main] = d]
        BY <1>4 DEF MainCreate
  <2>3. QED
        BY <1>1, <1>6, <2>1, <2>2 DEF TdType
<1>8. TypeOK'
      BY <1>1, <1>7 DEF IInv, TypeOK, TdType, MainLabel
<1>9. /\ KeepState /\ KeepWait /\ KeepJoin /\ KeepFor /\ KeepLock
      /\ \A x \in Thread : td'[x].mem = IF x = Main THEN "live" ELSE td[x].mem
  <2>1. KeepWait
    <3>1. td[Main].wait = TRUE
          BY <1>1, <1>2 DEF IInv, TypeOK
    <3>2. QED
          BY <1>5, <1>7, <3>1 DEF KeepWait
  <2>2. KeepState
        BY <1>3, <1>5, <1>7 DEF KeepState
  <2>3. KeepJoin
        BY <1>2, <1>5, <1>7 DEF KeepJoin
  <2>4. KeepFor
        BY <1>3, <1>5, <1>7 DEF KeepFor
  <2>5. KeepLock
        BY <1>2, <1>5, <1>7 DEF KeepLock
  <2>6. QED
        BY <1>5, <1>7, <2>1, <2>2, <2>3, <2>4, <2>5
<1>10. Descriptors'
  <2> SUFFICES ASSUME NEW x \in Thread
               PROVE Agrees(ut'[x].pc, ut'[x].arg, td'[x].state, td'[x].wait_for,
                            td'[x].intr_off)
      BY DEF Descriptors
  <2>1. Agrees(ut[x].pc, ut[x].arg, td[x].state, td[x].wait_for, td[x].intr_off)
        BY DEF IInv, Descriptors
  <2>2. CASE x = Main
        BY <1>1, <1>2, <1>9, <2>1, <2>2
        DEF KeepFor, KeepState, Agrees, MutexPc, CreatePc, JoinerPc, OnCpuPc, IntrOffPc
  <2>3. CASE x # Main
        BY <1>1, <1>7, <2>1, <2>3
  <2>4. QED
        BY <2>2, <2>3
<1>11. \A x \in Thread : SameWhere(x)
      BY <1>1, WhereSame
<1>12. \A x \in Thread : Off(x)' <=> Off(x)
      BY <1>11 DEF SameWhere, Off
<1>13. Places'
  <2>1. \A x \in Thread, m \in Mutex : Waits(x, m)' <=> Waits(x, m)
        BY <1>1 DEF Waits
  <2>2. QED
        BY <1>1, <1>11, <2>1 DEF IInv, SameWhere, Places
<1>14. Dispatchers'
      BY <1>1, <1>9, <1>11, <1>12 DEF IInv, KeepState, SameWhere, Dispatchers
<1>15. MutexSide'
  <2>1. \A x \in Thread : OutsideMutexes(x)
        BY <1>1 DEF OutsideMutexes
  <2>2. QED
        BY <1>1, <1>11, <1>12, <2>1, MutexFrame DEF IInv, SameWhere
<1>16. ThreadSide'
  <2>1. Joins'
        BY <1>1, <1>2, <1>3, <1>9, <1>11
        DEF IInv, ThreadSide, KeepState, KeepWait, KeepJoin, KeepLock, SameWhere,
            Joins, GoingOn
  <2>2. Exits'
        BY <1>1, <1>9, <1>12 DEF IInv, ThreadSide, KeepWait, KeepJoin, KeepLock, Exits
  <2>3. Unborn'
        BY <1>1, <1>9, <1>12 DEF IInv, ThreadSide, KeepWait, KeepJoin, KeepLock, Unborn
  <2>4. Creation'
    <3>1. \A x \in Thread : Fresh(x)' <=> Fresh(x) \/ x = Main
          BY <1>1, <1>2, <1>9, <1>12 DEF Fresh
    <3>2. QED
          BY <1>1, <1>2, <1>9, <3>1 DEF IInv, ThreadSide, Creation, CreatePc
  <2>5. QED
        BY <2>1, <2>2, <2>3, <2>4 DEF ThreadSide
<1>17. SpinLocks'
      BY <1>1, <1>9, <1>11 DEF IInv, KeepLock, SameWhere, SpinLocks
<1>18. QED
      BY <1>8, <1>10, <1>13, <1>14, <1>15, <1>16, <1>17 DEF IInv

\* main() takes the lock of the ready list.
LEMMA MainLockKeeps ==
  ASSUME IInv, MainLock
  PROVE IInv'
<1>1. /\ UNCHANGED <<td, mut, mmrll, kt, ut, enabled, inCS, sent, got>>
      /\ mpc = "create_lock" /\ mpc' = "create_enq" /\ mmrll_lk' = "main"
      BY DEF MainLock, mmrll_lock
<1>2. /\ KeepState /\ KeepWait /\ KeepJoin /\ KeepFor /\ KeepIntr /\ KeepLock
      /\ td' \in TdType /\ enabled' \in BOOLEAN
      BY <1>1 DEF KeepState, KeepWait, KeepJoin, KeepFor, KeepIntr, KeepLock, IInv, TypeOK,
         TdType
<1>3. \A x \in Thread : Fresh(x)' <=> Fresh(x)
      BY <1>1 DEF Fresh, Off, Ready, Dispatched
<1>4. Creation'
      BY <1>1, <1>3, HandleAssumption DEF IInv, ThreadSide, Creation, CreatePc
<1>5. QED
      BY <1>1, <1>2, <1>4, MainApart, HandleAssumption DEF MainLabel

\* main() puts the new thread in the ready list.
LEMMA MainEnqKeeps ==
  ASSUME IInv, MainEnq
  PROVE IInv'
<1>1. /\ UNCHANGED <<td, mut, kt, ut, enabled, inCS, sent, got>>
      /\ mpc = "create_enq" /\ mpc' = "spin" /\ mmrll_lk' = NULL
      /\ Main \in Thread /\ NULL \in Lock
      BY HandleAssumption DEF MainEnq, mmrll_enqueue, Lock
<1>2. Fresh(Main) /\ \A x \in Thread : ut[x].pc \in CreatePc => ut[x].arg # Main
      BY <1>1 DEF IInv, ThreadSide, Creation, CreatePc
<1>3. td[Main].mem # "none" /\ ut[Main].pc = "client" /\ ~Ready(Main) /\ ~Dispatched(Main)
      BY <1>2 DEF Fresh, Off
<1>4. /\ mmrll' \in Seq(Thread)
      /\ \A x \in Thread : Ready(x)' <=> Ready(x) \/ x = Main
      /\ Distinct(mmrll)'
      BY <1>1, <1>3, AppendFacts, Ranges DEF MainEnq, mmrll_enqueue, IInv, Places, Ready
<1>5. \A x \in Thread : /\ Dispatched(x)' <=> Dispatched(x)
                        /\ Runs(x)' <=> Runs(x)
                        /\ Posting(x)' <=> Posting(x)
                        /\ Resumed(x)' <=> Resumed(x)
      BY <1>1 DEF Dispatched, Runs, Posting, Resumed
<1>6. \A x \in Thread : Off(x)' <=> Off(x) /\ x # Main
      BY <1>3, <1>4, <1>5 DEF Off
<1>7. TypeOK'
      BY <1>1, <1>4 DEF IInv, TypeOK, MainLabel
<1>8. Places'
  <2>1. \A x \in Thread, m \in Mutex : Waits(x, m)' <=> Waits(x, m)
        BY <1>1 DEF Waits
  <2>2. \A m \in Mutex : ~Waits(Main, m)
        BY <1>1, <1>3 DEF IInv, MutexSide, Waiters
  <2>3. QED
        BY <1>1, <1>3, <1>4, <1>5, <2>1, <2>2 DEF IInv, Places
<1>9. Descriptors'
      BY <1>1 DEF IInv, Descriptors
<1>10. Dispatchers'
      BY <1>1, <1>3, <1>4, <1>5, <1>6 DEF IInv, Dispatchers, OnCpuPc, CreatePc
<1>11. MutexSide'
  <2>1. \A x \in Thread : OutsideMutexes(x)
        BY <1>1 DEF OutsideMutexes
  <2>2. QED
        BY <1>1, <1>3, <1>5, <1>6, <2>1, MutexFrame DEF IInv
<1>12. ThreadSide'
  <2>1. Joins'
        BY <1>1, <1>3, <1>4, <1>5 DEF IInv, ThreadSide, Joins, GoingOn
  <2>2. Exits'
        BY <1>1, <1>3, <1>6 DEF IInv, ThreadSide, Exits
  <2>3. Unborn'
        BY <1>1, <1>3, <1>6 DEF IInv, ThreadSide, Unborn
  <2>4. Creation'
    <3>1. \A x \in Thread : Fresh(x)' <=> Fresh(x) /\ x # Main
          BY <1>1, <1>6 DEF Fresh
    <3>2. QED
          BY <1>1, <1>2, <1>3, <3>1 DEF IInv, ThreadSide, Creation, CreatePc
  <2>5. QED
        BY <2>1, <2>2, <2>3, <2>4 DEF ThreadSide
<1>13. SpinLocks'
      BY <1>1, <1>5, HandleAssumption DEF IInv, SpinLocks
<1>14. QED
      BY <1>7, <1>8, <1>9, <1>10, <1>11, <1>12, <1>13 DEF IInv

\* main() waits for thread_main, tells the dispatchers to stop, waits for them.
LEMMA MainWaitKeeps ==
  ASSUME IInv, MainSpin \/ MainDeinit \/ MainReap
  PROVE IInv'
<1>1. /\ UNCHANGED <<td, mut, mmrll, mmrll_lk, kt, ut, inCS, sent, got>>
      /\ enabled' \in BOOLEAN
      /\ mpc \in {"spin", "deinit", "reap"} /\ mpc' \in {"free", "reap", "done"}
  <2>1. enabled \in BOOLEAN
        BY DEF IInv, TypeOK
  <2>2. QED
        BY <2>1 DEF MainSpin, MainDeinit, MainReap
<1>2. /\ KeepState /\ KeepWait /\ KeepJoin /\ KeepFor /\ KeepIntr /\ KeepLock
      /\ td' \in TdType /\ mmrll_lk' \in Lock \cup {"main"}
      BY <1>1 DEF KeepState, KeepWait, KeepJoin, KeepFor, KeepIntr, KeepLock, IInv, TypeOK,
         TdType
<1>3. \A x \in Thread : Fresh(x)' <=> Fresh(x)
      BY <1>1 DEF Fresh, Off, Ready, Dispatched
<1>4. Creation'
      BY <1>1, <1>3, HandleAssumption DEF IInv, ThreadSide, Creation, CreatePc
<1>5. QED
      BY <1>1, <1>2, <1>4, MainApart DEF MainLabel

\* main() frees the descriptor of thread_main.
LEMMA MainFreeKeeps ==
  ASSUME IInv, MainFree
  PROVE IInv'
<1>1. /\ UNCHANGED <<mut, mmrll, mmrll_lk, kt, ut, enabled, inCS, sent, got>>
      /\ mpc = "free" /\ mpc' = "deinit" /\ Main \in Thread
      BY HandleAssumption DEF MainFree
<1>2. td[Main].mem # "none"
      BY <1>1 DEF IInv, ThreadSide, Creation
<1>3. /\ KeepState /\ KeepWait /\ KeepJoin /\ KeepFor /\ KeepIntr /\ KeepLock
      /\ td' \in TdType
      /\ \A x \in Thread \ {Main} : td'[x].mem = td[x].mem
      /\ td'[Main].mem # "none" /\ (td[Main].mem = "freed" => td'[Main].mem = "freed")
  <2>1. td \in TdType
        BY DEF IInv, TypeOK, TdType
  <2>2. CASE td' = td
        BY <1>2, <2>1, <2>2 DEF KeepState, KeepWait, KeepJoin, KeepFor, KeepIntr, KeepLock
  <2>3. CASE td' = [td EXCEPT ![Main].mem = "freed"]
        BY <1>1, <2>1, <2>3
        DEF TdType, KeepState, KeepWait, KeepJoin, KeepFor, KeepIntr, KeepLock
  <2>4. QED
        BY <2>2, <2>3 DEF MainFree
<1>4. \A x \in Thread : Fresh(x)' <=> Fresh(x)
      BY <1>1, <1>2, <1>3 DEF Fresh, Off, Ready, Dispatched
<1>5. Creation'
      BY <1>1, <1>2, <1>3, <1>4 DEF IInv, ThreadSide, Creation, CreatePc
<1>6. mmrll_lk' \in Lock \cup {"main"} /\ enabled' \in BOOLEAN
      BY <1>1 DEF IInv, TypeOK
<1>7. QED
      BY <1>1, <1>3, <1>5, <1>6, MainApart DEF MainLabel

-----------------------------------------------------------------------------
(* The induction                                                           *)

\* In the state mmsched_init leaves, nobody is anywhere.
LEMMA InitIInv ==
  ASSUME Init
  PROVE IInv
<1>1. /\ \A t \in Thread : /\ td[t].mem = "none" /\ td[t].state = "RUNNING" /\ td[t].wait
                           /\ td[t].join_thread = NULL /\ td[t].wait_for = NULL
                           /\ td[t].mem_lock = NULL
                           /\ ut[t].pc = "client" /\ ut[t].arg = NULL
      /\ \A m \in Mutex : /\ mut[m].mem = "none" /\ mut[m].owner = NULL
                          /\ mut[m].waitll = <<>> /\ mut[m].mem_lock = NULL
                          /\ inCS[m] = {}
      /\ \A k \in KThread : kt[k].pc = "loop" /\ kt[k].cur = NULL
      /\ mmrll = <<>> /\ mmrll_lk = NULL /\ mpc = "create" /\ Main \in Thread
      BY HandleAssumption DEF Init, NoDescr, NoMutex, mut_init
<1>2. /\ \A t \in Thread : ~Ready(t) /\ ~Dispatched(t) /\ ~Runs(t) /\ ~Posting(t) /\ ~Resumed(t)
      /\ \A t \in Thread, m \in Mutex : ~Waits(t, m)
      /\ Distinct(mmrll) /\ \A m \in Mutex : Distinct(mut[m].waitll)
      BY <1>1, HandleAssumption
      DEF Ready, Dispatched, Runs, Posting, Resumed, Waits, InList, Distinct
<1>3. TypeOK
  <2>1. NoDescr \in [mem: {"none", "live", "freed"}, state: States, wait: BOOLEAN,
                     join_thread: Thread \cup {NULL},
                     wait_for: Thread \cup Mutex \cup {NULL}, intr_off: BOOLEAN,
                     pend_sig: SUBSET Signal, blocked: SUBSET Signal, mem_lock: Lock]
        BY DEF NoDescr, States, Lock
  <2>2. NoMutex \in [mem: {"none", "live"}, owner: Thread \cup {NULL},
                     waitll: Seq(Thread), mem_lock: Lock]
    <3>1. NoMutex = [mem |-> "none", owner |-> NULL, waitll |-> <<>>, mem_lock |-> NULL]
          BY DEF NoMutex, mut_init
    <3>2. QED
          BY <3>1 DEF Lock
  <2>3. /\ td \in [Thread -> [mem: {"none", "live", "freed"}, state: States, wait: BOOLEAN,
                        join_thread: Thread \cup {NULL},
                        wait_for: Thread \cup Mutex \cup {NULL}, intr_off: BOOLEAN,
                        pend_sig: SUBSET Signal, blocked: SUBSET Signal, mem_lock: Lock]]
        /\ mut \in [Mutex -> [mem: {"none", "live"}, owner: Thread \cup {NULL},
                              waitll: Seq(Thread), mem_lock: Lock]]
        BY <2>1, <2>2 DEF Init
  <2>4. kt \in [KThread -> [pc: DispatchLabel, cur: Thread \cup {NULL}, pend: SUBSET Signal]]
        BY DEF Init, DispatchLabel
  <2>5. ut \in [Thread -> [pc: UserLabel,
                  arg: Thread \cup Mutex \cup (Thread \X Signal) \cup {NULL}]]
        BY DEF Init, UserLabel
  <2>6. /\ mmrll \in Seq(Thread) /\ mmrll_lk \in Lock \cup {"main"} /\ enabled \in BOOLEAN
        /\ mpc \in MainLabel /\ inCS \in [Mutex -> SUBSET Thread]
        /\ sent \in [Thread -> SUBSET Signal] /\ got \in [Thread -> SUBSET Signal]
        BY DEF Init, Lock, MainLabel
  <2>7. QED
        BY <2>3, <2>4, <2>5, <2>6 DEF TypeOK
<1>4. Places
      BY <1>1, <1>2 DEF Places
<1>5. Descriptors
  <2> SUFFICES ASSUME NEW t \in Thread
               PROVE Agrees("client", NULL, "RUNNING", NULL, td[t].intr_off)
      BY <1>1 DEF Descriptors
  <2>1. QED
        BY DEF Agrees, MutexPc, CreatePc, JoinerPc, OnCpuPc, IntrOffPc
<1>6. Dispatchers
      BY <1>1, <1>2, HandleAssumption DEF Dispatchers, OnCpuPc, CreatePc, WakePc
<1>7. MutexSide
      BY <1>1, <1>2, HandleAssumption
      DEF MutexSide, MemberLocks, Waiters, Owners, MutexExclusion, Handing, HandPc
<1>8. ThreadSide
      BY <1>1, <1>2, HandleAssumption
      DEF ThreadSide, Joins, Exits, Unborn, Creation, GoingOn, Fresh, Off, JoinerPc, WakePc,
          CreatePc
<1>9. SpinLocks
      BY <1>1, HandleAssumption DEF SpinLocks
<1>10. QED
      BY <1>3, <1>4, <1>5, <1>6, <1>7, <1>8, <1>9 DEF IInv

\* Without a call of thread_kill no step of thread_kill is ever taken.
LEMMA NoKillStep ==
  ASSUME NoKill, IInv, NEW k \in KThread, NEW t \in Thread
  PROVE /\ \A u \in Thread, s \in Signal : ~KillCall(k, t, u, s)
        /\ ~SigStep(k, t)
<1>1. ut[t].pc \notin {"kill_lock", "kill_set", "kill_intr"}
      BY DEF IInv, Descriptors, Agrees
<1>2. QED
      BY <1>1 DEF NoKill, KillCall, SigStep, KillLock, KillSet, KillIntr, At

\* A step of a dispatcher.
LEMMA DispatchKeeps ==
  ASSUME IInv, NEW k \in KThread, Dispatch(k) \/ Preempt(k) \/ PostRepeatAlarm(k)
  PROVE IInv'
<1>1. PostRepeat(k) => PostRepeatAlarm(k)
      BY DEF PostRepeat, PostRepeatAlarm
<1>2. QED
      BY <1>1, LoopKeeps, GetLockKeeps, GetKeeps, SigLockKeeps, SigSendKeeps, RunKeeps,
         PreemptKeeps, PostRepeatAlarmKeeps, PostRunningKeeps, EnqLockKeeps, EnqKeeps,
         PostWaitJoinKeeps, PostWaitMutexKeeps, PostExitedKeeps, ExitLockKeeps,
         ExitOverKeeps, ExitCheckKeeps, WakeLockKeeps, WakeKeeps
      DEF Dispatch

\* A step of thread_create, thread_join, thread_exit or thread_yield.
LEMMA CntlKeeps ==
  ASSUME IInv, NEW k \in KThread, NEW t \in Thread, CntlCall(k, t) \/ CntlStep(k, t)
  PROVE IInv'
<1>1. CASE CntlCall(k, t)
      BY <1>1, CreateCallKeeps, JoinCallKeeps, ThreadExitKeeps, ThreadYieldKeeps
      DEF CntlCall
<1>2. CASE CntlStep(k, t)
  <2>1. CASE JoinLock(k, t) \/ JoinCheck(k, t)
        BY <2>1, JoinAlternatives, JoinRefusedKeeps, JoinRegistersKeeps, JoinGoesOnKeeps,
           JoinParksKeeps
  <2>2. CASE \/ CreateLock(k, t) \/ CreateEnq(k, t) \/ JoinRefuse(k, t)
             \/ JoinResume(k, t) \/ JoinFree(k, t) \/ YieldBack(k, t)
        BY <2>2, CreateLockKeeps, CreateEnqKeeps, JoinRefuseKeeps, JoinResumeKeeps,
           JoinFreeKeeps, YieldBackKeeps
  <2>3. QED
        BY <1>2, <2>1, <2>2 DEF CntlStep
<1>3. QED
      BY <1>1, <1>2

\* A step of a call of a mutex.
LEMMA SyncKeeps ==
  ASSUME IInv, NEW k \in KThread, NEW t \in Thread, SyncCall(k, t) \/ SyncStep(k, t)
  PROVE IInv'
<1>1. CASE SyncCall(k, t)
  <2>1. PICK m \in Mutex : \/ MutexInit(k, t, m) \/ MutexDestroy(k, t, m)
                           \/ LockCall(k, t, m) \/ TryCall(k, t, m) \/ UnlockCall(k, t, m)
        BY <1>1 DEF SyncCall
  <2>2. CASE MutexInit(k, t, m) \/ MutexDestroy(k, t, m)
        BY <2>2, MutexInitKeeps, MutexDestroyKeeps
  <2>3. CASE LockCall(k, t, m) \/ TryCall(k, t, m) \/ UnlockCall(k, t, m)
        BY <2>3, MutexCallKeeps DEF LockCall, TryCall, UnlockCall
  <2>4. QED
        BY <2>1, <2>2, <2>3
<1>2. CASE SyncStep(k, t)
  <2>1. CASE LockSpin(k, t) \/ TrySpin(k, t) \/ UnlockSpin(k, t)
        BY <2>1, MutLockKeeps DEF LockSpin, TrySpin, UnlockSpin
  <2>2. CASE LockCheck(k, t) \/ TryCheck(k, t) \/ UnlockCheck(k, t) \/ UnlockRel(k, t)
        BY <2>2, Alternatives, TakesKeeps, BecomesWaiterKeeps, GivesBackKeeps,
           ReleasesKeeps, PassesOnKeeps
  <2>3. CASE \/ LockQueue(k, t) \/ LockWoken(k, t) \/ UnlockList(k, t) \/ UnlockEnq(k, t)
        BY <2>3, LockQueueKeeps, LockWokenKeeps, UnlockListKeeps, UnlockEnqKeeps
  <2>4. QED
        BY <1>2, <2>1, <2>2, <2>3 DEF SyncStep
<1>3. QED
      BY <1>1, <1>2

\* A step of main().
LEMMA MainKeeps ==
  ASSUME IInv, MainStep
  PROVE IInv'
  BY MainCreateKeeps, MainLockKeeps, MainEnqKeeps, MainWaitKeeps, MainFreeKeeps
  DEF MainStep

\* Nothing happens.
LEMMA StutterKeeps ==
  ASSUME IInv, UNCHANGED vars
  PROVE IInv'
<1>1. UNCHANGED <<td, mut, mmrll, mmrll_lk, kt, ut, enabled, mpc, inCS, sent, got>>
      BY DEF vars
<1>2. /\ KeepState /\ KeepWait /\ KeepJoin /\ KeepFor /\ KeepIntr /\ KeepLock
      /\ td' \in TdType /\ enabled' \in BOOLEAN /\ mpc' \in MainLabel
      /\ mmrll_lk' \in Lock \cup {"main"}
      BY <1>1 DEF KeepState, KeepWait, KeepJoin, KeepFor, KeepIntr, KeepLock, IInv, TypeOK,
         TdType
<1>3. \A x \in Thread : Fresh(x)' <=> Fresh(x)
      BY <1>1 DEF Fresh, Off, Ready, Dispatched
<1>4. Creation'
      BY <1>1, <1>3, HandleAssumption DEF IInv, ThreadSide, Creation
<1>5. QED
      BY <1>1, <1>2, <1>4, MainApart

\* Every step of the library keeps the invariant.
LEMMA NextIInv ==
  ASSUME NoKill, IInv, [Next]_vars
  PROVE IInv'
<1>1. CASE MainStep
      BY <1>1, MainKeeps
<1>2. ASSUME NEW k \in KThread, Dispatch(k) \/ Preempt(k) \/ PostRepeatAlarm(k)
      PROVE IInv'
      BY <1>2, DispatchKeeps
<1>3. ASSUME NEW k \in KThread, NEW t \in Thread, UserCall(k, t) \/ UserStep(k, t)
      PROVE IInv'
  <2>1. CASE CntlCall(k, t) \/ CntlStep(k, t)
        BY <2>1, CntlKeeps
  <2>2. CASE SyncCall(k, t) \/ SyncStep(k, t)
        BY <2>2, SyncKeeps
  <2>3. CASE SigCall(k, t) \/ SigStep(k, t)
        BY <2>3, NoKillStep, ThreadSigmaskKeeps DEF SigCall
  <2>4. QED
        BY <1>3, <2>1, <2>2, <2>3 DEF UserCall, UserStep
<1>4. CASE Finished \/ UNCHANGED vars
      BY <1>4, StutterKeeps DEF Finished
<1>5. QED
      BY <1>1, <1>2, <1>3, <1>4 DEF Next
=============================================================================
