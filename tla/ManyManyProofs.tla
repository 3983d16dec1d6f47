--------------------------- MODULE ManyManyProofs ---------------------------
(***************************************************************************)
(* Theorems about the many-many library, for every set of threads, kernel  *)
(* threads and mutexes.  The client is assumed not to call thread_kill,    *)
(* whose td_enable_intr acts on the target; two theorems assume also that  *)
(* no two threads join the same thread.  ManyManyInduction has the         *)
(* inductive invariant.  The theorem about thread_kill, which is the last, *)
(* has an invariant of its own.                                            *)
(***************************************************************************)
EXTENDS ManyManyInduction

-----------------------------------------------------------------------------
(* What the invariant implies                                              *)

\* The places of the invariant are those of OnePlace.
LEMMA IInvOnePlace ==
  ASSUME IInv
  PROVE OnePlace
<1>1. \A m \in Mutex, t \in Thread : InList(t, mut[m].waitll) =>
        /\ ~Ready(t)
        /\ \A k \in KThread : kt[k].cur = t => kt[k].pc = "post"
  <2> SUFFICES ASSUME NEW m \in Mutex, NEW t \in Thread, Waits(t, m), NEW k \in KThread,
                      kt[k].cur = t
               PROVE kt[k].pc = "post"
      BY DEF IInv, Places, Waits
  <2>1. Posting(t)
        BY DEF IInv, Places, Dispatched
  <2>2. QED
        BY <2>1, HandleAssumption DEF IInv, Places, Posting
<1>2. QED
      BY <1>1 DEF IInv, Places, Distinct, OnePlace

\* A thread that is nowhere waits for something that can happen, or somebody has it
\* in hand.
LEMMA IInvNoLostThread ==
  ASSUME IInv
  PROVE NoLostThread
<1> SUFFICES ASSUME NEW t \in Thread, td[t].mem = "live", td[t].state # "EXITED", Off(t)
             PROVE AboutToBeReady(t) \/ Parked(t)
    BY DEF NoLostThread, Off
<1>1. ut[t].pc # "exited"
      BY DEF IInv, Descriptors, Agrees, ThreadSide, Joins
<1>2. ut[t].pc \in {"client", "lock_wait", "join_wait"}
      BY <1>1 DEF IInv, Dispatchers
<1>3. CASE ut[t].pc = "client"
  <2>1. Fresh(t)
        BY <1>3 DEF Fresh
  <2>2. QED
        BY <2>1 DEF IInv, ThreadSide, Creation, CreatePc, AboutToBeReady
<1>4. CASE ut[t].pc = "lock_wait"
  <2>1. PICK m \in Mutex : ut[t].arg = m
        BY <1>4 DEF IInv, Descriptors, Agrees, MutexPc
  <2>2. CASE Waits(t, m)
        BY <2>2 DEF IInv, MutexSide, Waiters, Waits, Parked
  <2>3. CASE ~Waits(t, m)
    <3>1. PICK x \in Thread : ut[x].pc \in HandPc /\ ut[x].arg = m
          BY <1>4, <2>1, <2>3 DEF IInv, MutexSide, Handing
    <3>2. mut[ut[x].arg].owner = t
          BY <1>4, <2>1, <2>3, <3>1 DEF IInv, MutexSide, Waiters
    <3>3. QED
          BY <3>1, <3>2 DEF HandPc, AboutToBeReady
  <2>4. QED
        BY <2>2, <2>3
<1>5. CASE ut[t].pc = "join_wait"
  <2>1. PICK u \in Thread : ut[t].arg = u
        BY <1>5 DEF IInv, Descriptors, Agrees, JoinerPc
  <2>2. td[u].join_thread = t
        BY <1>5, <2>1 DEF IInv, ThreadSide, Joins, JoinerPc
  <2>3. CASE td[u].wait
        BY <1>5, <2>1, <2>2, <2>3 DEF Parked
  <2>4. CASE ~td[u].wait
    <3>1. PICK k \in KThread : kt[k].pc \in WakePc /\ kt[k].cur = u
          BY <1>5, <2>1, <2>4 DEF IInv, ThreadSide, Exits
    <3>2. QED
          BY <2>2, <3>1 DEF WakePc, AboutToBeReady
  <2>5. QED
        BY <2>3, <2>4
<1>6. QED
      BY <1>2, <1>3, <1>4, <1>5

\* Whoever has a mutex in an argument or a wait target is in a call of that mutex.
LEMMA IInvDestroyedNotUsed ==
  ASSUME IInv
  PROVE DestroyedNotUsed
<1> SUFFICES ASSUME NEW m \in Mutex, NEW t \in Thread, mut[m].mem = "none"
             PROVE ut[t].arg # m /\ td[t].wait_for # m
    BY DEF DestroyedNotUsed
<1>1. ut[t].arg # m
      BY DEF IInv, MutexSide, MemberLocks
<1>2. td[t].wait_for = ut[t].arg \/ td[t].wait_for = NULL
      BY DEF IInv, Descriptors, Agrees
<1>3. QED
      BY <1>1, <1>2, HandleAssumption

\* A thread that goes on in thread_join has a target that is over.
LEMMA IInvJoinSound ==
  ASSUME IInv
  PROVE JoinSound
<1> SUFFICES ASSUME NEW t \in Thread,
                    (Runs(t) /\ ut[t].pc = "join_wait") \/ ut[t].pc = "join_free",
                    NEW u \in Thread, ut[t].arg = u
             PROVE ~td[u].wait /\ td[u].state = "EXITED" /\ ~Runs(u) /\ ~Ready(u)
    BY DEF IInv, Descriptors, Agrees, JoinerPc, JoinSound
<1>1. GoingOn(t) /\ ut[t].pc \in JoinerPc
      BY DEF GoingOn, Runs, Resumed, JoinerPc
<1>2. ~td[u].wait /\ ~Dispatched(u) /\ td[u].state # "JOINED"
      BY <1>1 DEF IInv, ThreadSide, Joins
<1>3. ut[u].pc = "exited"
      BY <1>2 DEF IInv, ThreadSide, Joins
<1>4. QED
      BY <1>2, <1>3 DEF IInv, Descriptors, Agrees, Dispatchers, Runs, Dispatched

-----------------------------------------------------------------------------
(* Safety of every client that does not call thread_kill                   *)

\* The invariant holds in every reachable state.
THEOREM Invariance ==
  ASSUME NoKill
  PROVE Spec => []IInv
<1>1. Init => IInv
      BY InitIInv
<1>2. IInv /\ [Next]_vars => IInv'
      BY NextIInv
<1>3. QED
      BY <1>1, <1>2, PTL DEF Spec

\* The descriptors, the mutexes and the lists keep their types.
THEOREM TypeCorrect ==
  ASSUME NoKill
  PROVE Spec => []TypeOK
<1>1. IInv => TypeOK
      BY DEF IInv
<1>2. QED
      BY <1>1, Invariance, PTL

\* No context is resumed twice: a thread is on one kernel thread, or once in the
\* ready list, or once in the wait list of one mutex.
THEOREM ThreadsInOnePlace ==
  ASSUME NoKill
  PROVE Spec => []OnePlace
<1>1. IInv => OnePlace
      BY IInvOnePlace
<1>2. QED
      BY <1>1, Invariance, PTL

\* No thread falls out of the library, whatever the order of parking and waking.
THEOREM NoThreadIsLost ==
  ASSUME NoKill
  PROVE Spec => []NoLostThread
<1>1. IInv => NoLostThread
      BY IInvNoLostThread
<1>2. QED
      BY <1>1, Invariance, PTL

\* A mutex has at most the thread in its critical section that is its owner.
THEOREM MutualExclusion ==
  ASSUME NoKill
  PROVE Spec => []MutexExclusion
<1>1. IInv => MutexExclusion
      BY DEF IInv, MutexSide
<1>2. QED
      BY <1>1, Invariance, PTL

\* Nobody refers to a mutex that a client has destroyed after its own unlock.
THEOREM DestroyIsSafe ==
  ASSUME NoKill
  PROVE Spec => []DestroyedNotUsed
<1>1. IInv => DestroyedNotUsed
      BY IInvDestroyedNotUsed
<1>2. QED
      BY <1>1, Invariance, PTL

\* thread_join goes on only when its target has finished for good.
THEOREM JoinIsSound ==
  ASSUME NoKill
  PROVE Spec => []JoinSound
<1>1. IInv => JoinSound
      BY IInvJoinSound
<1>2. QED
      BY <1>1, Invariance, PTL

-----------------------------------------------------------------------------
(* The mutexes implement MutexSpec                                         *)

\* x is inside a thread_mutex_lock of m and does not have m yet.
Asks(x, m) == /\ ut[x].arg = m
              /\ \/ ut[x].pc \in {"lock_spin", "lock_check", "lock_queue"}
                 \/ ut[x].pc = "lock_wait" /\ Waits(x, m)

\* The abstract mutex of m takes a step or none.
Simulated(m) == [Abstract(m)!Next]_(Abstract(m)!vars)

\* A step that changes neither the owner nor who asks is a stuttering step.
LEMMA Stutters ==
  ASSUME NEW m \in Mutex, mut'[m].owner = mut[m].owner,
         \A x \in Thread : Asks(x, m)' <=> Asks(x, m)
  PROVE Simulated(m)
<1>1. Asking(m)' = Asking(m)
      BY DEF Asking, Asks, Waits
<1>2. QED
      BY <1>1 DEF Simulated, Abstract!vars

\* The abstract steps, by the owner of m and the threads that ask for it.
LEMMA AbstractSteps ==
  ASSUME NEW m \in Mutex, NEW t \in Thread
  PROVE /\ (/\ mut'[m].owner = mut[m].owner /\ ~Asks(t, m)
            /\ \A x \in Thread : Asks(x, m)' <=> Asks(x, m) \/ x = t) => Simulated(m)
        /\ (/\ mut[m].owner = NULL /\ mut'[m].owner = t /\ Asks(t, m)
            /\ \A x \in Thread : Asks(x, m)' <=> Asks(x, m) /\ x # t) => Simulated(m)
        /\ (/\ mut[m].owner = NULL /\ mut'[m].owner = t /\ ~Asks(t, m)
            /\ \A x \in Thread : Asks(x, m)' <=> Asks(x, m)) => Simulated(m)
        /\ (/\ mut[m].owner = t /\ mut'[m].owner = NULL
            /\ \A x \in Thread : Asks(x, m)' <=> Asks(x, m)) => Simulated(m)
        /\ \A w \in Thread :
             (/\ mut[m].owner = t /\ mut'[m].owner = w /\ Asks(w, m)
              /\ \A x \in Thread : Asks(x, m)' <=> Asks(x, m) /\ x # w) => Simulated(m)
<1>1. Asking(m) = {x \in Thread : Asks(x, m)} /\ Asking(m)' = {x \in Thread : Asks(x, m)'}
      BY DEF Asking, Asks, Waits
<1>2. ASSUME mut'[m].owner = mut[m].owner, ~Asks(t, m),
             \A x \in Thread : Asks(x, m)' <=> Asks(x, m) \/ x = t
      PROVE Simulated(m)
  <2>1. Abstract(m)!Ask(t)
        BY <1>1, <1>2 DEF Abstract!Ask
  <2>2. QED
        BY <2>1 DEF Simulated, Abstract!Next
<1>3. ASSUME mut[m].owner = NULL, mut'[m].owner = t, Asks(t, m),
             \A x \in Thread : Asks(x, m)' <=> Asks(x, m) /\ x # t
      PROVE Simulated(m)
  <2>1. Abstract(m)!Grant(t)
        BY <1>1, <1>3 DEF Abstract!Grant
  <2>2. QED
        BY <2>1 DEF Simulated, Abstract!Next
<1>4. ASSUME mut[m].owner = NULL, mut'[m].owner = t, ~Asks(t, m),
             \A x \in Thread : Asks(x, m)' <=> Asks(x, m)
      PROVE Simulated(m)
  <2>1. Abstract(m)!Take(t)
        BY <1>1, <1>4 DEF Abstract!Take
  <2>2. QED
        BY <2>1 DEF Simulated, Abstract!Next
<1>5. ASSUME mut[m].owner = t, mut'[m].owner = NULL,
             \A x \in Thread : Asks(x, m)' <=> Asks(x, m)
      PROVE Simulated(m)
  <2>1. Abstract(m)!Release(t)
        BY <1>1, <1>5 DEF Abstract!Release
  <2>2. QED
        BY <2>1 DEF Simulated, Abstract!Next
<1>6. ASSUME NEW w \in Thread, mut[m].owner = t, mut'[m].owner = w, Asks(w, m),
             \A x \in Thread : Asks(x, m)' <=> Asks(x, m) /\ x # w
      PROVE Simulated(m)
  <2>1. Abstract(m)!HandOver(t, w)
        BY <1>1, <1>6 DEF Abstract!HandOver
  <2>2. QED
        BY <2>1 DEF Simulated, Abstract!Next
<1>7. QED
      BY <1>2, <1>3, <1>4, <1>5, <1>6

\* The owners and the wait lists stay.
MutexesStay == \A n \in Mutex : mut'[n].owner = mut[n].owner /\ mut'[n].waitll = mut[n].waitll

\* Nobody makes a step in a call of a mutex, or the step is one in which the
\* thread asks for the same mutex before and after, or for none.
LEMMA QuietSteps ==
  ASSUME MutexesStay,
         \A x \in Thread, n \in Mutex :
           \/ ut'[x].pc = ut[x].pc /\ ut'[x].arg = ut[x].arg
           \/ Asks(x, n)' <=> Asks(x, n)
  PROVE \A n \in Mutex : Simulated(n)
<1> SUFFICES ASSUME NEW n \in Mutex PROVE Simulated(n)
    OBVIOUS
<1>1. mut'[n].owner = mut[n].owner /\ \A x \in Thread : Waits(x, n)' <=> Waits(x, n)
      BY DEF MutexesStay, Waits
<1>2. \A x \in Thread : Asks(x, n)' <=> Asks(x, n)
      BY <1>1 DEF Asks
<1>3. QED
      BY <1>1, <1>2, Stutters

\* A step of t outside the calls of a mutex, or in one but not on the way from asking
\* to having.
LEMMA QuietThread ==
  ASSUME MutexesStay, NEW t \in Thread, NEW l, NEW a, UtSet(t, l, a),
         \/ /\ ut[t].pc \notin {"lock_spin", "lock_check", "lock_queue", "lock_wait"}
            /\ l \notin {"lock_spin", "lock_check", "lock_queue", "lock_wait"}
         \/ /\ ut[t].pc \in {"lock_spin", "lock_check", "lock_queue"} /\ a = ut[t].arg
            /\ l \in {"lock_spin", "lock_check", "lock_queue"}
         \/ /\ ut[t].pc = "lock_wait" /\ (\A n \in Mutex : ~Waits(t, n))
            /\ l \notin {"lock_spin", "lock_check", "lock_queue", "lock_wait"}
  PROVE \A n \in Mutex : Simulated(n)
<1>1. ASSUME NEW x \in Thread, NEW n \in Mutex
      PROVE \/ ut'[x].pc = ut[x].pc /\ ut'[x].arg = ut[x].arg
            \/ Asks(x, n)' <=> Asks(x, n)
      BY DEF UtSet, Asks
<1>2. QED
      BY <1>1, QuietSteps

\* Only the threads in their own contexts make steps in the calls of the mutexes.
LEMMA DispatchSimulated ==
  ASSUME IInv, NEW k \in KThread, Dispatch(k) \/ Preempt(k) \/ PostRepeatAlarm(k)
  PROVE \A n \in Mutex : Simulated(n)
<1>1. ut' = ut
      BY DEF Dispatch, Loop, GetLock, Get, SigLock, SigSend, Run, PostRepeat, PostRunning,
         EnqLock, Enq, PostWaitJoin, PostWaitMutex, PostExited, ExitLock, ExitOver,
         ExitCheck, WakeLock, Wake, Preempt, PostRepeatAlarm
<1>2. MutexesStay
  <2>1. CASE PostWaitMutex(k)
    <3>1. mut \in MutType
          BY DEF IInv, TypeOK, MutType
    <3>2. QED
          BY <2>1, <3>1 DEF PostWaitMutex, MutType, MutexesStay
  <2>2. CASE ~PostWaitMutex(k)
    <3>1. mut' = mut
          BY <2>2 DEF Dispatch, Loop, GetLock, Get, SigLock, SigSend, Run, PostRepeat,
             PostRunning, EnqLock, Enq, PostWaitJoin, PostExited, ExitLock, ExitOver,
             ExitCheck, WakeLock, Wake, Preempt, PostRepeatAlarm
    <3>2. QED
          BY <3>1 DEF MutexesStay
  <2>3. QED
        BY <2>1, <2>2
<1>3. QED
      BY <1>1, <1>2, QuietSteps

\* Nor does main().
LEMMA MainSimulated ==
  ASSUME MainStep
  PROVE \A n \in Mutex : Simulated(n)
<1>1. mut' = mut /\ ut' = ut
      BY DEF MainStep, MainCreate, MainLock, MainEnq, MainSpin, MainFree, MainDeinit, MainReap
<1>2. QED
      BY <1>1, QuietSteps DEF MutexesStay

\* Nor do the steps of the other calls.
LEMMA CntlSimulated ==
  ASSUME IInv, NEW k \in KThread, NEW t \in Thread,
         CntlCall(k, t) \/ CntlStep(k, t) \/ \E S \in SUBSET Signal : ThreadSigmask(k, t, S)
  PROVE \A n \in Mutex : Simulated(n)
<1>1. MutexesStay
  <2>1. mut' = mut
        BY DEF CntlCall, CntlStep, CreateCall, JoinCall, ThreadExit, ThreadYield, CreateLock,
           CreateEnq, JoinLock, JoinRefuse, JoinCheck, JoinResume, JoinFree, YieldBack,
           ThreadSigmask
  <2>2. QED
        BY <2>1 DEF MutexesStay
<1>2. CASE CntlCall(k, t)
  <2>1. ut[t].pc = "client" /\ TypeOK
        BY <1>2 DEF IInv, CntlCall, CreateCall, JoinCall, ThreadExit, ThreadYield, Calls, At
  <2>2. PICK l \in {"create_lock", "join_lock", "exited", "yielded"},
             a \in Thread \cup {ut[t].arg} : UtSet(t, l, a)
    <3>1. CASE \E u \in Thread : CreateCall(k, t, u) \/ JoinCall(k, t, u)
          BY <2>1, <3>1, CallFacts DEF CreateCall, JoinCall, UserLabel
    <3>2. CASE ThreadExit(k, t) \/ ThreadYield(k, t)
          BY <2>1, <3>2, GotoFacts DEF ThreadExit, ThreadYield, UserLabel
    <3>3. QED
          BY <1>2, <3>1, <3>2 DEF CntlCall
  <2>3. QED
        BY <1>1, <2>1, <2>2, QuietThread
<1>3. CASE CntlStep(k, t)
  <2>1. /\ ut[t].pc \notin {"lock_spin", "lock_check", "lock_queue", "lock_wait"}
        /\ TypeOK
        BY <1>3 DEF IInv, CntlStep, CreateLock, CreateEnq, JoinLock, JoinRefuse, JoinCheck,
           JoinResume, JoinFree, YieldBack, At
  <2>2. PICK l \in {"client", "create_enq", "join_refuse", "join_check", "join_wait",
                    "join_free"},
             a \in {NULL, ut[t].arg} : UtSet(t, l, a)
    <3>1. CASE CreateEnq(k, t) \/ JoinRefuse(k, t) \/ JoinFree(k, t) \/ YieldBack(k, t)
          BY <2>1, <3>1, ReturnFacts DEF CreateEnq, JoinRefuse, JoinFree, YieldBack
    <3>2. CASE CreateLock(k, t) \/ JoinLock(k, t) \/ JoinCheck(k, t) \/ JoinResume(k, t)
          BY <2>1, <3>2, GotoFacts DEF CreateLock, JoinLock, JoinCheck, JoinResume, UserLabel
    <3>3. QED
          BY <1>3, <3>1, <3>2 DEF CntlStep
  <2>3. QED
        BY <1>1, <2>1, <2>2, QuietThread
<1>4. CASE \E S \in SUBSET Signal : ThreadSigmask(k, t, S)
  <2>1. ut' = ut
        BY <1>4 DEF ThreadSigmask
  <2>2. QED
        BY <1>1, <2>1, QuietSteps
<1>5. QED
      BY <1>2, <1>3, <1>4

\* thread_mutex_init and thread_mutex_destroy: nobody asks for the mutex and it has
\* no owner.
LEMMA InitDestroySimulated ==
  ASSUME IInv, NEW k \in KThread, NEW t \in Thread, NEW m \in Mutex,
         MutexInit(k, t, m) \/ MutexDestroy(k, t, m)
  PROVE \A n \in Mutex : Simulated(n)
<1>1. mut \in MutType /\ ut' = ut
      BY DEF IInv, TypeOK, MutType, MutexInit, MutexDestroy
<1>2. CASE MutexDestroy(k, t, m)
  <2>1. MutexesStay
        BY <1>1, <1>2 DEF MutexDestroy, MutType, MutexesStay
  <2>2. QED
        BY <1>1, <2>1, QuietSteps
<1>3. CASE MutexInit(k, t, m)
  <2>1. /\ mut'[m].owner = NULL
        /\ \A n \in Mutex \ {m} : mut'[n].owner = mut[n].owner /\ mut'[n].waitll = mut[n].waitll
        BY <1>1, <1>3 DEF MutexInit, MutType, mut_init
  <2>2. mut[m].owner = NULL /\ \A x \in Thread : ut[x].arg # m
        BY <1>3 DEF MutexInit, IInv, MutexSide, MemberLocks, Owners
  <2>3. ASSUME NEW n \in Mutex PROVE Simulated(n)
    <3>1. mut'[n].owner = mut[n].owner /\ \A x \in Thread : Asks(x, n)' <=> Asks(x, n)
          BY <1>1, <2>1, <2>2 DEF Asks, Waits
    <3>2. QED
          BY <3>1, Stutters
  <2>4. QED
        BY <2>3
<1>4. QED
      BY <1>2, <1>3

\* A call of the mutex: thread_mutex_lock asks.
LEMMA MutexCallSimulated ==
  ASSUME IInv, NEW k \in KThread, NEW t \in Thread, NEW m \in Mutex, NEW op,
         NEW l \in {"lock_spin", "try_spin", "unlock_spin"}, MutexCall(k, t, m, op, l)
  PROVE \A n \in Mutex : Simulated(n)
<1>1. ut[t].pc = "client" /\ mut' = mut
      BY DEF MutexCall, Calls, At
<1>2. UtSet(t, l, m)
      BY CallFacts DEF MutexCall, IInv, UserLabel
<1>3. MutexesStay
      BY <1>1 DEF MutexesStay
<1>4. CASE l # "lock_spin"
      BY <1>1, <1>2, <1>3, <1>4, QuietThread
<1>5. CASE l = "lock_spin"
  <2> SUFFICES ASSUME NEW n \in Mutex PROVE Simulated(n)
      OBVIOUS
  <2>1. mut'[n].owner = mut[n].owner /\ \A x \in Thread : Waits(x, n)' <=> Waits(x, n)
        BY <1>1 DEF Waits
  <2>2. CASE n = m
    <3>1. ~Asks(t, n) /\ \A x \in Thread : Asks(x, n)' <=> Asks(x, n) \/ x = t
          BY <1>1, <1>2, <1>5, <2>1, <2>2 DEF UtSet, Asks
    <3>2. QED
          BY <2>1, <3>1, AbstractSteps
  <2>3. CASE n # m
    <3>1. \A x \in Thread : Asks(x, n)' <=> Asks(x, n)
          BY <1>1, <1>2, <1>5, <2>1, <2>3 DEF UtSet, Asks
    <3>2. QED
          BY <2>1, <3>1, Stutters
  <2>4. QED
        BY <2>2, <2>3
<1>6. QED
      BY <1>4, <1>5

\* The member lock is taken.
LEMMA MutLockSimulated ==
  ASSUME IInv, NEW k \in KThread, NEW t \in Thread,
         LockSpin(k, t) \/ TrySpin(k, t) \/ UnlockSpin(k, t)
  PROVE \A n \in Mutex : Simulated(n)
<1>1. PICK l \in {"lock_check", "try_check", "unlock_check"} :
        /\ UtSet(t, l, ut[t].arg)
        /\ l = "lock_check" <=> ut[t].pc = "lock_spin"
        /\ ut[t].pc \in {"lock_spin", "try_spin", "unlock_spin"}
      BY GotoFacts DEF LockSpin, TrySpin, UnlockSpin, mut_lock, At, IInv, UserLabel
<1>2. MutexesStay
  <2>1. mut \in MutType
        BY DEF IInv, TypeOK, MutType
  <2>2. QED
        BY SMTT(30), <2>1 DEF LockSpin, TrySpin, UnlockSpin, mut_lock, MutType, MutexesStay
<1>3. QED
      BY <1>1, <1>2, QuietThread

\* A thread that acquires the free mutex is granted it, or takes it in
\* thread_mutex_trylock.
LEMMA TakesSimulated ==
  ASSUME IInv, NEW k \in KThread, NEW t \in Thread, NEW m \in Mutex,
         NEW from \in {"lock_check", "try_check"}, Takes(k, t, m, from)
  PROVE \A n \in Mutex : Simulated(n)
<1>1. ut[t].pc = from /\ ut[t].arg = m /\ mut[m].owner = NULL
      BY DEF Takes, TakeFree, At
<1>2. UtSet(t, "client", NULL)
      BY ReturnFacts DEF Takes, TakeFree, IInv
<1>3. /\ mut'[m].owner = t
      /\ \A n \in Mutex : mut'[n].waitll = mut[n].waitll /\ (n # m => mut'[n].owner = mut[n].owner)
  <2>1. mut \in MutType
        BY DEF IInv, TypeOK, MutType
  <2>2. QED
        BY <2>1 DEF Takes, TakeFree, MutType
<1> SUFFICES ASSUME NEW n \in Mutex PROVE Simulated(n)
    OBVIOUS
<1>4. \A x \in Thread : Waits(x, n)' <=> Waits(x, n)
      BY <1>3 DEF Waits
<1>5. \A x \in Thread : Asks(x, n)' <=> Asks(x, n) /\ x # t
      BY <1>2, <1>4, HandleAssumption DEF UtSet, Asks
<1>6. CASE n = m /\ from = "lock_check"
  <2>1. Asks(t, n)
        BY <1>1, <1>6 DEF Asks
  <2>2. QED
        BY <1>1, <1>3, <1>5, <1>6, <2>1, AbstractSteps
<1>7. CASE n = m /\ from = "try_check"
  <2>1. ~Asks(t, n)
        BY <1>1, <1>7 DEF Asks
  <2>2. \A x \in Thread : Asks(x, n)' <=> Asks(x, n)
        BY <1>5, <2>1
  <2>3. QED
        BY <1>1, <1>3, <1>7, <2>1, <2>2, AbstractSteps
<1>8. CASE n # m
  <2>1. \A x \in Thread : Asks(x, n)' <=> Asks(x, n)
        BY <1>1, <1>5, <1>8 DEF Asks
  <2>2. QED
        BY <1>3, <1>8, <2>1, Stutters
<1>9. QED
      BY <1>6, <1>7, <1>8

\* The owner releases the mutex, for nobody or for a thread that asks.
LEMMA ReleaseSimulated ==
  ASSUME IInv, NEW k \in KThread, NEW t \in Thread, NEW m \in Mutex,
         Releases(k, t, m) \/ PassesOn(k, t, m)
  PROVE \A n \in Mutex : Simulated(n)
<1>1. ut[t].pc = "unlock_check" /\ ut[t].arg = m /\ mut[m].owner = t
      BY DEF Releases, PassesOn, At
<1>2. mut \in MutType
      BY DEF IInv, TypeOK, MutType
<1> SUFFICES ASSUME NEW n \in Mutex PROVE Simulated(n)
    OBVIOUS
<1>3. CASE Releases(k, t, m)
  <2>1. UtSet(t, "client", NULL)
        BY <1>3, ReturnFacts DEF Releases, IInv
  <2>2. /\ mut'[m].owner = NULL
        /\ \A x \in Mutex : /\ mut'[x].waitll = mut[x].waitll
                            /\ x # m => mut'[x].owner = mut[x].owner
        BY <1>2, <1>3 DEF Releases, MutType
  <2>3. \A x \in Thread : Waits(x, n)' <=> Waits(x, n)
        BY <2>2 DEF Waits
  <2>4. \A x \in Thread : Asks(x, n)' <=> Asks(x, n)
        BY <1>1, <2>1, <2>3 DEF UtSet, Asks
  <2>5. CASE n = m
        BY <1>1, <2>2, <2>4, <2>5, AbstractSteps
  <2>6. CASE n # m
        BY <2>2, <2>4, <2>6, Stutters
  <2>7. QED
        BY <2>5, <2>6
<1>4. CASE PassesOn(k, t, m)
  <2>1. UtSet(t, "unlock_list", ut[t].arg)
        BY <1>4, GotoFacts DEF PassesOn, IInv, UserLabel
  <2>2. /\ mut[m].waitll \in Seq(Thread) /\ mut[m].waitll # <<>> /\ Distinct(mut[m].waitll)
        BY <1>2, <1>4 DEF PassesOn, MutType, IInv, Places
  <2>3. PICK w \in Thread : w = Head(mut[m].waitll)
        BY <2>2, TailFacts
  <2>4. /\ mut'[m].owner = w /\ mut'[m].waitll = Tail(mut[m].waitll)
        /\ \A x \in Mutex \ {m} : mut'[x].waitll = mut[x].waitll /\ mut'[x].owner = mut[x].owner
        BY <1>2, <1>4, <2>3 DEF PassesOn, MutType
  <2>5. CASE n = m
    <3>1. /\ Waits(w, n)
          /\ \A x \in Thread : Waits(x, n)' <=> Waits(x, n) /\ x # w
          BY <2>2, <2>3, <2>4, <2>5, TailFacts DEF Waits
    <3>2. ut[w].pc = "lock_wait" /\ ut[w].arg = n /\ w # t
          BY <1>1, <3>1 DEF IInv, MutexSide, Waiters
    <3>3. Asks(w, n) /\ \A x \in Thread : Asks(x, n)' <=> Asks(x, n) /\ x # w
          BY <1>1, <2>1, <3>1, <3>2 DEF UtSet, Asks
    <3>4. QED
          BY <1>1, <2>4, <2>5, <3>3, AbstractSteps
  <2>6. CASE n # m
    <3>1. \A x \in Thread : Waits(x, n)' <=> Waits(x, n)
          BY <2>4, <2>6 DEF Waits
    <3>2. \A x \in Thread : Asks(x, n)' <=> Asks(x, n)
          BY <1>1, <2>1, <3>1 DEF UtSet, Asks
    <3>3. QED
          BY <2>4, <2>6, <3>2, Stutters
  <2>7. QED
        BY <2>5, <2>6
<1>5. QED
      BY <1>3, <1>4

\* The steps of a mutex call in which the caller asks before and after, or neither.
LEMMA RestSimulated ==
  ASSUME IInv, NEW k \in KThread, NEW t \in Thread,
         \/ \E m \in Mutex : \/ BecomesWaiter(k, t, m)
                             \/ \E from \in {"try_check", "unlock_check", "unlock_rel"} :
                                  GivesBack(k, t, m, from)
         \/ LockWoken(k, t) \/ UnlockList(k, t) \/ UnlockEnq(k, t)
  PROVE \A n \in Mutex : Simulated(n)
<1>1. MutexesStay
  <2>1. mut \in MutType
        BY DEF IInv, TypeOK, MutType
  <2>2. CASE \E m \in Mutex, from \in {"try_check", "unlock_check", "unlock_rel"} :
               GivesBack(k, t, m, from)
        BY <2>1, <2>2 DEF GivesBack, MutType, MutexesStay
  <2>3. CASE mut' = mut
        BY <2>3 DEF MutexesStay
  <2>4. QED
        BY <2>2, <2>3 DEF BecomesWaiter, LockWoken, UnlockList, UnlockEnq
<1>2. CASE \E m \in Mutex : BecomesWaiter(k, t, m)
  <2>1. ut[t].pc = "lock_check" /\ UtSet(t, "lock_queue", ut[t].arg)
        BY <1>2, GotoFacts DEF BecomesWaiter, At, IInv, UserLabel
  <2>2. QED
        BY <1>1, <2>1, QuietThread
<1>3. CASE \E m \in Mutex, from \in {"try_check", "unlock_check", "unlock_rel"} :
             GivesBack(k, t, m, from)
  <2>1. /\ ut[t].pc \in {"try_check", "unlock_check", "unlock_rel"}
        /\ UtSet(t, "client", NULL)
        BY <1>3, ReturnFacts DEF GivesBack, At, IInv
  <2>2. QED
        BY <1>1, <2>1, QuietThread
<1>4. CASE LockWoken(k, t)
  <2>1. kt[k].pc = "user" /\ kt[k].cur = t /\ ut[t].pc = "lock_wait" /\ UtSet(t, "client", NULL)
        BY <1>4, ReturnFacts DEF LockWoken, At, IInv
  <2>2. \A n \in Mutex : ~Waits(t, n)
        BY <2>1, Acting
  <2>3. QED
        BY <1>1, <2>1, <2>2, QuietThread
<1>5. CASE UnlockList(k, t) \/ UnlockEnq(k, t)
  <2>1. PICK l \in {"unlock_enq", "unlock_rel"} :
          ut[t].pc \in {"unlock_list", "unlock_enq"} /\ UtSet(t, l, ut[t].arg)
        BY <1>5, GotoFacts DEF UnlockList, UnlockEnq, At, IInv, UserLabel
  <2>2. QED
        BY <1>1, <2>1, QuietThread
<1>6. QED
      BY <1>2, <1>3, <1>4, <1>5

\* A caller that parks goes on asking, in the wait list.
LEMMA LockQueueSimulated ==
  ASSUME IInv, NEW k \in KThread, NEW t \in Thread, LockQueue(k, t)
  PROVE \A n \in Mutex : Simulated(n)
<1>1. ut[t].pc = "lock_queue" /\ UtSet(t, "lock_wait", ut[t].arg)
      BY GotoFacts DEF LockQueue, At, IInv, UserLabel
<1>2. PICK m \in Mutex : ut[t].arg = m
      BY <1>1 DEF IInv, Descriptors, Agrees, MutexPc
<1>3. /\ mut'[m].waitll = Append(mut[m].waitll, t)
      /\ \A n \in Mutex : mut'[n].owner = mut[n].owner /\ (n # m => mut'[n].waitll = mut[n].waitll)
  <2>1. mut \in MutType
        BY DEF IInv, TypeOK, MutType
  <2>2. QED
        BY <1>2, <2>1 DEF LockQueue, MutType
<1> SUFFICES ASSUME NEW n \in Mutex PROVE Simulated(n)
    OBVIOUS
<1>4. \A x \in Thread : Waits(x, n)' <=> Waits(x, n) \/ (n = m /\ x = t)
  <2>1. mut[n].waitll \in Seq(Thread)
        BY Ranges DEF IInv
  <2>2. CASE n = m
    <3>1. \A x \in Thread : InList(x, Append(mut[m].waitll, t)) <=>
                              InList(x, mut[m].waitll) \/ x = t
          BY <2>1, <2>2, AppendFacts
    <3>2. QED
          BY <1>3, <2>2, <3>1 DEF Waits
  <2>3. CASE n # m
        BY <1>3, <2>3 DEF Waits
  <2>4. QED
        BY <2>2, <2>3
<1>5. \A x \in Thread : Asks(x, n)' <=> Asks(x, n)
      BY <1>1, <1>2, <1>4 DEF UtSet, Asks
<1>6. QED
      BY <1>3, <1>5, Stutters

\* A step of a call of a mutex.
LEMMA SyncSimulated ==
  ASSUME IInv, NEW k \in KThread, NEW t \in Thread, SyncCall(k, t) \/ SyncStep(k, t)
  PROVE \A n \in Mutex : Simulated(n)
<1>1. CASE SyncCall(k, t)
  <2>1. PICK m \in Mutex : \/ MutexInit(k, t, m) \/ MutexDestroy(k, t, m)
                           \/ LockCall(k, t, m) \/ TryCall(k, t, m) \/ UnlockCall(k, t, m)
        BY <1>1 DEF SyncCall
  <2>2. CASE MutexInit(k, t, m) \/ MutexDestroy(k, t, m)
        BY <2>2, InitDestroySimulated
  <2>3. CASE LockCall(k, t, m) \/ TryCall(k, t, m) \/ UnlockCall(k, t, m)
        BY <2>3, MutexCallSimulated DEF LockCall, TryCall, UnlockCall
  <2>4. QED
        BY <2>1, <2>2, <2>3
<1>2. CASE SyncStep(k, t)
  <2>1. CASE LockSpin(k, t) \/ TrySpin(k, t) \/ UnlockSpin(k, t)
        BY <2>1, MutLockSimulated
  <2>2. CASE LockCheck(k, t) \/ TryCheck(k, t) \/ UnlockCheck(k, t) \/ UnlockRel(k, t)
        BY <2>2, Alternatives, TakesSimulated, RestSimulated, ReleaseSimulated
  <2>3. CASE LockQueue(k, t)
        BY <2>3, LockQueueSimulated
  <2>4. CASE LockWoken(k, t) \/ UnlockList(k, t) \/ UnlockEnq(k, t)
        BY <2>4, RestSimulated
  <2>5. QED
        BY <1>2, <2>1, <2>2, <2>3, <2>4 DEF SyncStep
<1>3. QED
      BY <1>1, <1>2

\* Every step of the library is a step of every abstract mutex, or none.
LEMMA NextSimulated ==
  ASSUME NoKill, IInv, [Next]_vars
  PROVE \A m \in Mutex : Simulated(m)
<1>1. CASE MainStep
      BY <1>1, MainSimulated
<1>2. ASSUME NEW k \in KThread, Dispatch(k) \/ Preempt(k) \/ PostRepeatAlarm(k)
      PROVE \A m \in Mutex : Simulated(m)
      BY <1>2, DispatchSimulated
<1>3. ASSUME NEW k \in KThread, NEW t \in Thread, UserCall(k, t) \/ UserStep(k, t)
      PROVE \A m \in Mutex : Simulated(m)
  <2>1. CASE SyncCall(k, t) \/ SyncStep(k, t)
        BY <2>1, SyncSimulated
  <2>2. CASE CntlCall(k, t) \/ CntlStep(k, t) \/ SigCall(k, t) \/ SigStep(k, t)
        BY <2>2, NoKillStep, CntlSimulated DEF SigCall
  <2>3. QED
        BY <1>3, <2>1, <2>2 DEF UserCall, UserStep
<1>4. CASE Finished \/ UNCHANGED vars
  <2>1. mut' = mut /\ ut' = ut
        BY <1>4 DEF Finished, vars
  <2>2. QED
        BY <2>1, QuietSteps DEF MutexesStay
<1>5. QED
      BY <1>1, <1>2, <1>3, <1>4 DEF Next

\* The mutexes of the library are abstract mutexes: granted when free or passed by
\* the holder to a thread that asks, and given back by the holder only.
THEOREM MutexesImplementSpec ==
  ASSUME NoKill
  PROVE Spec => ImplementsMutex
<1>1. Init => \A m \in Mutex : Abstract(m)!Init
  <2> SUFFICES ASSUME Init, NEW m \in Mutex PROVE mut[m].owner = NULL /\ Asking(m) = {}
      BY DEF Abstract!Init
  <2>1. QED
        BY DEF Init, NoMutex, mut_init, Asking
<1>2. IInv /\ [Next]_vars =>
        [\A m \in Mutex : [Abstract(m)!Next]_(Abstract(m)!vars)]_vars
      BY NextSimulated DEF Simulated
<1>3. QED
      BY <1>1, <1>2, Invariance, PTL DEF Spec, ImplementsMutex

-----------------------------------------------------------------------------
(* Clients in which a thread has at most one joiner                        *)

\* At most one thread of the client ever joins a given thread.
OneJoiner == \A p, q \in JoinPairs : p[2] = q[2] => p = q

\* What is invariant besides, for such a client: the joiner that is registered is
\* the only one, and a freed descriptor has been joined.
JoinedOnce ==
  /\ \A t, u \in Thread : ut[t].arg = u =>
       /\ ut[t].pc \in JoinerPc \cup {"join_lock"} => <<t, u>> \in JoinPairs
       /\ ut[t].pc = "join_lock" => td[u].join_thread = NULL
  /\ \A t \in Thread : ut[t].pc # "join_refuse"
  /\ \A t, u \in Thread : td[u].join_thread = t => <<t, u>> \in JoinPairs
  /\ \A u \in Thread \ {Main} : td[u].mem = "freed" => td[u].state = "JOINED"

\* x makes no step of thread_join, or one after it has registered.
JoinsOn(x) ==
  ut'[x].pc \in JoinerPc \cup {"join_lock", "join_refuse"} =>
    /\ ut'[x].arg = ut[x].arg
    /\ ut'[x].pc = ut[x].pc \/ (ut[x].pc \in JoinerPc /\ ut'[x].pc \in JoinerPc)

\* No descriptor is freed, joined or registered with.
NoJoin ==
  /\ \A x \in Thread : td'[x].join_thread = td[x].join_thread
  /\ \A x \in Thread \ {Main} : td'[x].mem = "freed" => td[x].mem = "freed"
  /\ \A x \in Thread : td[x].state = "JOINED" => td'[x].state = "JOINED"

\* A step that has nothing to do with thread_join.
LEMMA JoinedFrame ==
  ASSUME JoinedOnce, NoJoin, \A x \in Thread : JoinsOn(x)
  PROVE JoinedOnce'
  BY DEF JoinedOnce, NoJoin, JoinsOn, JoinerPc

\* The steps of the dispatcher and of main().
LEMMA DispatchJoinedOnce ==
  ASSUME IInv, JoinedOnce, NEW k \in KThread,
         Dispatch(k) \/ Preempt(k) \/ PostRepeatAlarm(k)
  PROVE JoinedOnce'
<1>1. ut' = ut
      BY DEF Dispatch, Loop, GetLock, Get, SigLock, SigSend, Run, PostRepeat, PostRunning,
         EnqLock, Enq, PostWaitJoin, PostWaitMutex, PostExited, ExitLock, ExitOver,
         ExitCheck, WakeLock, Wake, Preempt, PostRepeatAlarm
<1>2. NoJoin
  <2>1. td \in TdType
        BY DEF IInv, TypeOK, TdType
  <2>2. CASE SigLock(k) \/ SigSend(k) \/ ExitLock(k) \/ ExitOver(k) \/ ExitCheck(k)
        BY <2>1, <2>2 DEF SigLock, SigSend, ExitLock, ExitOver, ExitCheck, TdType, NoJoin
  <2>3. CASE PostWaitJoin(k)
        BY <2>1, <2>3 DEF PostWaitJoin, TdType, NoJoin
  <2>4. CASE td' = td
        BY <2>4 DEF NoJoin
  <2>5. QED
        BY <2>2, <2>3, <2>4
        DEF Dispatch, Loop, GetLock, Get, Run, PostRepeat, PostRunning, EnqLock, Enq,
            PostWaitMutex, PostExited, WakeLock, Wake, Preempt, PostRepeatAlarm
<1>3. QED
      BY <1>1, <1>2, JoinedFrame DEF JoinsOn

\* main() frees no descriptor but that of thread_main.
LEMMA MainJoinedOnce ==
  ASSUME IInv, JoinedOnce, MainStep
  PROVE JoinedOnce'
<1>1. ut' = ut
      BY DEF MainStep, MainCreate, MainLock, MainEnq, MainSpin, MainFree, MainDeinit, MainReap
<1>2. NoJoin
  <2>1. td \in TdType
        BY DEF IInv, TypeOK, TdType
  <2>2. CASE MainCreate
    <3>1. td[Main].mem = "none" /\ Main \in Thread
          BY <2>2, HandleAssumption DEF MainCreate, IInv, ThreadSide, Creation
    <3>2. td[Main].join_thread = NULL /\ td[Main].state # "JOINED"
          BY <3>1 DEF IInv, ThreadSide, Unborn, Descriptors, Agrees
    <3>3. /\ td'[Main].join_thread = NULL
          /\ \A x \in Thread \ {Main} : td'[x] = td[x]
          BY <2>1, <2>2, <3>1 DEF MainCreate, td_init, NoDescr, TdType
    <3>4. QED
          BY <3>2, <3>3 DEF NoJoin
  <2>3. CASE MainFree
        BY <2>1, <2>3 DEF MainFree, TdType, NoJoin
  <2>4. CASE td' = td
        BY <2>4 DEF NoJoin
  <2>5. QED
        BY <2>2, <2>3, <2>4 DEF MainStep, MainLock, MainEnq, MainSpin, MainDeinit, MainReap
<1>3. QED
      BY <1>1, <1>2, JoinedFrame DEF JoinsOn

\* The calls of a mutex.
LEMMA SyncJoinedOnce ==
  ASSUME IInv, JoinedOnce, NEW k \in KThread, NEW t \in Thread,
         SyncCall(k, t) \/ SyncStep(k, t)
  PROVE JoinedOnce'
<1>1. CASE SyncCall(k, t)
  <2>1. td' = td
        BY <1>1 DEF SyncCall, MutexInit, MutexDestroy, LockCall, TryCall, UnlockCall, MutexCall
  <2>2. \A x \in Thread : JoinsOn(x)
    <3>1. CASE ut' = ut
          BY <3>1 DEF JoinsOn
    <3>2. CASE \E m \in Mutex, l \in {"lock_spin", "try_spin", "unlock_spin"} :
                 ut' = [ut EXCEPT ![t] = [pc |-> l, arg |-> m]]
      <4>1. PICK m \in Mutex, l \in {"lock_spin", "try_spin", "unlock_spin"} : UtSet(t, l, m)
            BY <3>2, CallFacts DEF IInv, UserLabel
      <4>2. QED
            BY <4>1 DEF UtSet, JoinsOn, JoinerPc
    <3>3. QED
          BY <1>1, <3>1, <3>2
          DEF SyncCall, MutexInit, MutexDestroy, LockCall, TryCall, UnlockCall, MutexCall
  <2>3. QED
        BY <2>1, <2>2, JoinedFrame DEF NoJoin
<1>2. CASE SyncStep(k, t)
  <2>1. kt[k].pc = "user" /\ kt[k].cur = t
        BY <1>2 DEF SyncStep, LockSpin, TrySpin, UnlockSpin, mut_lock, LockCheck, LockQueue,
           LockWoken, TryCheck, UnlockCheck, UnlockList, UnlockEnq, UnlockRel, At
  <2>2. \A x \in Thread : JoinsOn(x)
    <3>1. CASE Return(t)
          BY <3>1, ReturnFacts DEF UtSet, JoinsOn, JoinerPc, IInv
    <3>2. CASE \E l \in {"lock_check", "lock_queue", "lock_wait", "try_check", "unlock_check",
                         "unlock_list", "unlock_enq", "unlock_rel"} : Goto(t, l)
      <4>1. PICK l \in {"lock_check", "lock_queue", "lock_wait", "try_check", "unlock_check",
                        "unlock_list", "unlock_enq", "unlock_rel"} : UtSet(t, l, ut[t].arg)
            BY <3>2, GotoFacts DEF IInv, UserLabel
      <4>2. QED
            BY <4>1 DEF UtSet, JoinsOn, JoinerPc
    <3>3. QED
          BY <1>2, <3>1, <3>2
          DEF SyncStep, LockSpin, TrySpin, UnlockSpin, mut_lock, LockCheck, TakeFree,
              LockQueue, LockWoken, TryCheck, UnlockCheck, UnlockList, UnlockEnq, UnlockRel
  <2>3. NoJoin
    <3>1. td \in TdType /\ td[t].state # "JOINED"
          BY SMTT(30), <2>1, Acting DEF IInv, TypeOK, TdType, Descriptors, Agrees
    <3>2. CASE td' = td
          BY <3>2 DEF NoJoin
    <3>3. CASE LockCheck(k, t)
          BY <3>1, <3>2, <3>3 DEF LockCheck, TdType, NoJoin
    <3>4. CASE LockWoken(k, t)
          BY <3>1, <3>4 DEF LockWoken, TdType, NoJoin
    <3>5. CASE UnlockCheck(k, t) \/ UnlockEnq(k, t)
      <4>1. CASE td' = [td EXCEPT ![t].intr_off = TRUE]
            BY ONLY <3>1, <4>1 DEF TdType, NoJoin
      <4>2. CASE td' = [td EXCEPT ![t].intr_off = FALSE]
            BY ONLY <3>1, <4>2 DEF TdType, NoJoin
      <4>3. QED
            BY <3>2, <3>5, <4>1, <4>2 DEF UnlockCheck, UnlockEnq
    <3>6. QED
          BY <1>2, <3>2, <3>3, <3>4, <3>5
          DEF SyncStep, LockSpin, TrySpin, UnlockSpin, mut_lock, LockQueue, TryCheck,
              UnlockList, UnlockRel
  <2>4. QED
        BY <2>2, <2>3, JoinedFrame
<1>3. QED
      BY <1>1, <1>2

\* thread_join is called for a thread that nobody has joined yet.
LEMMA JoinCallJoinedOnce ==
  ASSUME OneJoiner, IInv, JoinedOnce, NEW k \in KThread, NEW t \in Thread,
         NEW u \in Thread, JoinCall(k, t, u)
  PROVE JoinedOnce'
<1>1. /\ kt[k].pc = "user" /\ kt[k].cur = t /\ ut[t].pc = "client"
      /\ <<t, u>> \in JoinPairs /\ td[u].state # "JOINED"
      BY DEF JoinCall, Calls, At
<1>2. td[u].join_thread = NULL
  <2> SUFFICES ASSUME NEW j \in Thread, td[u].join_thread = j PROVE FALSE
      BY Ranges DEF IInv
  <2>1. <<j, u>> \in JoinPairs
        BY DEF JoinedOnce
  <2>2. j = t
    <3>1. <<j, u>>[2] = <<t, u>>[2] => <<j, u>> = <<t, u>>
          BY <1>1, <2>1 DEF OneJoiner
    <3>2. QED
          BY <3>1
  <2>3. ut[t].pc \in JoinerPc
        BY <1>1, <2>2 DEF IInv, ThreadSide, Joins
  <2>4. QED
        BY <1>1, <2>3 DEF JoinerPc
<1>3. UtSet(t, "join_lock", u)
      BY CallFacts DEF JoinCall, IInv, UserLabel
<1>4. NoJoin
  <2>1. td \in TdType
        BY DEF IInv, TypeOK, TdType
  <2>2. QED
        BY <2>1 DEF JoinCall, TdType, NoJoin
<1>5. QED
      BY <1>1, <1>2, <1>3, <1>4 DEF UtSet, JoinedOnce, NoJoin, JoinerPc

\* The caller registers: nobody else is on the way to the same thread.
LEMMA JoinRegistersJoinedOnce ==
  ASSUME OneJoiner, IInv, JoinedOnce, NEW k \in KThread, NEW t \in Thread,
         NEW u \in Thread, JoinRegisters(k, t, u)
  PROVE JoinedOnce'
<1>1. /\ kt[k].pc = "user" /\ kt[k].cur = t /\ ut[t].pc = "join_lock" /\ ut[t].arg = u
      BY DEF JoinRegisters, At
<1>2. <<t, u>> \in JoinPairs
      BY <1>1 DEF JoinedOnce
<1>3. ASSUME NEW x \in Thread, <<x, u>> \in JoinPairs
      PROVE x = t
  <2>1. <<x, u>>[2] = <<t, u>>[2] => <<x, u>> = <<t, u>>
        BY <1>2, <1>3 DEF OneJoiner
  <2>2. QED
        BY <2>1
<1>4. UtSet(t, "join_check", u)
      BY <1>1, GotoFacts DEF JoinRegisters, IInv, UserLabel
<1>5. td[t].state # "JOINED" /\ t # u
      BY <1>1, Acting DEF IInv, Descriptors, Agrees, ThreadSide, Joins
<1>6. /\ \A x \in Thread : td'[x].join_thread = IF x = u THEN t ELSE td[x].join_thread
      /\ \A x \in Thread : td'[x].mem = td[x].mem
      /\ \A x \in Thread \ {t} : td'[x].state = td[x].state
  <2>1. td \in TdType
        BY DEF IInv, TypeOK, TdType
  <2>2. QED
        BY <1>5, <2>1 DEF JoinRegisters, TdType
<1>7. \A x \in Thread \ {t} : ut[x].pc = "join_lock" => ut[x].arg # u
      BY <1>3 DEF JoinedOnce
<1>8. td[t].mem # "freed" \/ t = Main
      BY <1>5 DEF JoinedOnce
<1>9. QED
      BY <1>1, <1>2, <1>4, <1>6, <1>7, <1>8 DEF UtSet, JoinedOnce, JoinerPc

\* The target is marked joined and freed in one step.
LEMMA JoinFreeJoinedOnce ==
  ASSUME IInv, JoinedOnce, NEW k \in KThread, NEW t \in Thread, JoinFree(k, t)
  PROVE JoinedOnce'
<1>1. ut[t].pc = "join_free"
      BY DEF JoinFree, At
<1>2. PICK u \in Thread : ut[t].arg = u
      BY <1>1 DEF IInv, Descriptors, Agrees, JoinerPc
<1>3. UtSet(t, "client", NULL)
      BY ReturnFacts DEF JoinFree, IInv
<1>4. /\ \A x \in Thread : td'[x].join_thread = td[x].join_thread
      /\ \A x \in Thread : td'[x].state = IF x = u THEN "JOINED" ELSE td[x].state
      /\ \A x \in Thread \ {u} : td'[x].mem = td[x].mem
  <2>1. td \in TdType
        BY DEF IInv, TypeOK, TdType
  <2>2. QED
        BY <1>2, <2>1 DEF JoinFree, TdType
<1>5. QED
      BY <1>1, <1>3, <1>4 DEF UtSet, JoinedOnce, JoinerPc

\* The calls that create, end, join and yield.
LEMMA CntlJoinedOnce ==
  ASSUME OneJoiner, IInv, JoinedOnce, NEW k \in KThread, NEW t \in Thread,
         CntlCall(k, t) \/ CntlStep(k, t) \/ \E S \in SUBSET Signal : ThreadSigmask(k, t, S)
  PROVE JoinedOnce'
<1>1. td \in TdType
      BY DEF IInv, TypeOK, TdType
<1>2. CASE \E u \in Thread : CreateCall(k, t, u)
  <2>1. PICK u \in Thread : CreateCall(k, t, u)
        BY <1>2
  <2>2. kt[k].pc = "user" /\ kt[k].cur = t /\ td[u].mem = "none"
        BY <2>1 DEF CreateCall, Calls, At
  <2>3. td[u].join_thread = NULL /\ td[u].state # "JOINED" /\ u # t
        BY <2>2, Acting DEF IInv, ThreadSide, Unborn, Descriptors, Agrees
  <2>4. /\ td'[u].join_thread = NULL /\ td'[u].mem = "live"
        /\ \A x \in Thread \ {u} : /\ td'[x].join_thread = td[x].join_thread
                                   /\ td'[x].mem = td[x].mem /\ td'[x].state = td[x].state
    <3>1. PICK d : d = td_init(td[t].blocked)
          OBVIOUS
    <3>2. d.mem = "live" /\ d.join_thread = NULL
          BY <3>1 DEF td_init, NoDescr
    <3>3. td' = [[td EXCEPT ![u] = d] EXCEPT ![t].intr_off = TRUE]
          BY <1>1, <2>1, <2>3, <3>1 DEF CreateCall, TdType
    <3>4. QED
          BY <1>1, <2>3, <3>2, <3>3 DEF TdType
  <2>5. UtSet(t, "create_lock", u)
        BY <2>1, CallFacts DEF CreateCall, IInv, UserLabel
  <2>6. NoJoin /\ \A x \in Thread : JoinsOn(x)
        BY <2>3, <2>4, <2>5 DEF UtSet, NoJoin, JoinsOn, JoinerPc
  <2>7. QED
        BY <2>6, JoinedFrame
<1>3. CASE ThreadExit(k, t) \/ ThreadYield(k, t)
  <2>1. kt[k].pc = "user" /\ kt[k].cur = t /\ TypeOK
        BY <1>3 DEF ThreadExit, ThreadYield, Calls, At, IInv
  <2>2. td[t].state # "JOINED"
        BY <2>1, Acting DEF IInv, Descriptors, Agrees
  <2>3. PICK l \in {"exited", "yielded"} : UtSet(t, l, ut[t].arg)
        BY <1>3, <2>1, GotoFacts DEF ThreadExit, ThreadYield, UserLabel
  <2>4. NoJoin
        BY <1>1, <1>3, <2>2 DEF ThreadExit, ThreadYield, TdType, NoJoin
  <2>5. \A x \in Thread : JoinsOn(x)
        BY <2>3 DEF UtSet, JoinsOn, JoinerPc
  <2>6. QED
        BY <2>4, <2>5, JoinedFrame
<1>4. CASE CreateLock(k, t) \/ CreateEnq(k, t) \/ YieldBack(k, t)
  <2>1. PICK l \in {"create_enq", "client"}, a \in {NULL, ut[t].arg} : UtSet(t, l, a)
        BY <1>4, GotoFacts, ReturnFacts DEF CreateLock, CreateEnq, YieldBack, IInv, UserLabel
  <2>2. NoJoin
        BY <1>1, <1>4 DEF CreateLock, CreateEnq, YieldBack, TdType, NoJoin
  <2>3. \A x \in Thread : JoinsOn(x)
        BY <2>1 DEF UtSet, JoinsOn, JoinerPc
  <2>4. QED
        BY <2>2, <2>3, JoinedFrame
<1>5. CASE JoinCheck(k, t) \/ JoinResume(k, t)
  <2>1. /\ kt[k].pc = "user" /\ kt[k].cur = t /\ TypeOK
        /\ ut[t].pc \in {"join_check", "join_wait"}
        BY <1>5 DEF JoinCheck, JoinResume, At, IInv
  <2>2. td[t].state # "JOINED"
        BY <2>1 DEF IInv, Descriptors, Agrees
  <2>3. PICK l \in {"join_wait", "join_free"} : UtSet(t, l, ut[t].arg)
        BY <1>5, <2>1, GotoFacts DEF JoinCheck, JoinResume, UserLabel
  <2>4. NoJoin
        BY <1>1, <1>5, <2>2 DEF JoinCheck, JoinResume, TdType, NoJoin
  <2>5. \A x \in Thread : JoinsOn(x)
        BY <2>1, <2>3 DEF UtSet, JoinsOn, JoinerPc
  <2>6. QED
        BY <2>4, <2>5, JoinedFrame
<1>6. CASE JoinLock(k, t)
  <2>1. PICK u \in Thread : JoinRefused(k, t, u) \/ JoinRegisters(k, t, u)
        BY <1>6, JoinAlternatives
  <2>2. ~JoinRefused(k, t, u)
        BY DEF JoinRefused, At, JoinedOnce
  <2>3. QED
        BY <2>1, <2>2, JoinRegistersJoinedOnce
<1>7. CASE JoinRefuse(k, t)
      BY <1>7 DEF JoinRefuse, At, JoinedOnce
<1>8. CASE \E S \in SUBSET Signal : ThreadSigmask(k, t, S)
  <2>1. ut' = ut
        BY <1>8 DEF ThreadSigmask
  <2>2. PICK S \in SUBSET Signal :
          td' = [[td EXCEPT ![t].blocked = S] EXCEPT ![t].intr_off = FALSE]
        BY <1>1, <1>8 DEF ThreadSigmask, TdType
  <2>3. NoJoin
        BY <1>1, <2>2 DEF TdType, NoJoin
  <2>4. QED
        BY <2>1, <2>3, JoinedFrame DEF JoinsOn
<1>9. QED
      BY <1>2, <1>3, <1>4, <1>5, <1>6, <1>7, <1>8, JoinCallJoinedOnce, JoinFreeJoinedOnce
      DEF CntlCall, CntlStep

\* For a client without a second joiner, no step breaks either invariant.
LEMMA NextJoinedOnce ==
  ASSUME NoKill, OneJoiner, IInv, JoinedOnce, [Next]_vars
  PROVE JoinedOnce'
<1>1. CASE MainStep
      BY <1>1, MainJoinedOnce
<1>2. ASSUME NEW k \in KThread, Dispatch(k) \/ Preempt(k) \/ PostRepeatAlarm(k)
      PROVE JoinedOnce'
      BY <1>2, DispatchJoinedOnce
<1>3. ASSUME NEW k \in KThread, NEW t \in Thread, UserCall(k, t) \/ UserStep(k, t)
      PROVE JoinedOnce'
  <2>1. CASE SyncCall(k, t) \/ SyncStep(k, t)
        BY <2>1, SyncJoinedOnce
  <2>2. CASE CntlCall(k, t) \/ CntlStep(k, t) \/ SigCall(k, t) \/ SigStep(k, t)
        BY <2>2, NoKillStep, CntlJoinedOnce DEF SigCall
  <2>3. QED
        BY <1>3, <2>1, <2>2 DEF UserCall, UserStep
<1>4. CASE Finished \/ UNCHANGED vars
  <2>1. td' = td /\ ut' = ut
        BY <1>4 DEF Finished, vars
  <2>2. QED
        BY <2>1 DEF JoinedOnce
<1>5. QED
      BY <1>1, <1>2, <1>3, <1>4 DEF Next

\* Nobody has been created.
LEMMA InitJoinedOnce ==
  ASSUME Init
  PROVE JoinedOnce
<1>1. \A t \in Thread : /\ ut[t].pc = "client" /\ ut[t].arg = NULL
                        /\ td[t].join_thread = NULL /\ td[t].mem = "none"
      BY DEF Init, NoDescr
<1>2. QED
      BY <1>1, HandleAssumption DEF JoinedOnce, JoinerPc

\* A holder is in a section that no SIGALRM interrupts.
LEMMA HoldersRun ==
  ASSUME IInv, JoinedOnce
  PROVE HolderOnCpu
<1>1. ASSUME NEW t \in Thread, mmrll_lk = t
      PROVE Runs(t)
      BY <1>1 DEF IInv, SpinLocks, Dispatchers, OnCpuPc, CreatePc
<1>2. ASSUME NEW t \in Thread, NEW u \in Thread, td[u].mem_lock = t
      PROVE \/ Runs(t)
            \/ \E k \in KThread : /\ kt[k].cur = t /\ kt[k].pc = "post"
                                  /\ ut[t].pc = "join_wait" /\ td[t].state = "WAIT_JOIN"
  <2>1. ut[t].pc = "join_check" \/ (ut[t].pc = "join_wait" /\ Posting(t))
        BY <1>2 DEF IInv, SpinLocks, JoinedOnce
  <2>2. CASE ut[t].pc = "join_check"
        BY <2>2 DEF IInv, Dispatchers, OnCpuPc
  <2>3. CASE ut[t].pc = "join_wait" /\ Posting(t)
    <3>1. td[t].state = "WAIT_JOIN"
          BY <2>3 DEF IInv, Descriptors, Agrees
    <3>2. QED
          BY <2>3, <3>1 DEF Posting
  <2>4. QED
        BY <2>1, <2>2, <2>3
<1>3. QED
      BY <1>1, <1>2 DEF HolderOnCpu

\* A call that has a thread for its argument makes that thread or joins it.
LEMMA ThreadArguments ==
  ASSUME IInv, JoinedOnce, NEW t \in Thread, NEW u \in Thread, ut[t].arg = u
  PROVE ut[t].pc \in CreatePc \cup JoinerPc \cup {"join_lock"}
<1>1. /\ Agrees(ut[t].pc, ut[t].arg, td[t].state, td[t].wait_for, td[t].intr_off)
      /\ ut[t].pc \in UserLabel
      BY Ranges DEF IInv, Descriptors
<1>2. /\ ut[t].pc \notin {"kill_lock", "kill_set", "kill_intr"}
      /\ ut[t].pc \notin {"client", "exited", "yielded"}
      /\ ut[t].pc \notin MutexPc
      /\ ut[t].pc # "join_refuse"
      BY <1>1, HandleAssumption DEF Agrees, JoinedOnce
<1>3. QED
      BY <1>1, <1>2 DEF UserLabel, MutexPc, CreatePc, JoinerPc

\* The one joiner of a thread has returned from thread_join when the descriptor of
\* the thread has been freed.
LEMMA FreedIsNotUsed ==
  ASSUME IInv, JoinedOnce
  PROVE JoinedNotUsed
<1> SUFFICES ASSUME NEW u \in Thread \ {Main}, td[u].mem = "freed"
             PROVE NotUsed(u)
    BY DEF JoinedNotUsed
<1>1. td[u].state = "JOINED"
      BY DEF JoinedOnce
<1>2. /\ ut[u].pc = "exited" /\ ~Dispatched(u) /\ ~Ready(u)
      /\ td[u].join_thread # NULL
      BY <1>1 DEF IInv, Descriptors, Agrees, Dispatchers, ThreadSide, Joins
<1>3. ASSUME NEW t \in Thread, ut[t].arg = u
      PROVE FALSE
  <2>1. ut[t].pc \in CreatePc \cup JoinerPc \cup {"join_lock"}
        BY <1>3, ThreadArguments
  <2>2. CASE ut[t].pc \in CreatePc
        BY <1>2, <1>3, <2>2 DEF IInv, ThreadSide, Creation, Fresh
  <2>3. CASE ut[t].pc \in JoinerPc
        BY <1>1, <1>3, <2>3 DEF IInv, ThreadSide, Joins
  <2>4. CASE ut[t].pc = "join_lock"
        BY <1>2, <1>3, <2>4 DEF JoinedOnce
  <2>5. QED
        BY <2>1, <2>2, <2>3, <2>4
<1>4. ASSUME NEW t \in Thread
      PROVE td[t].wait_for # u
  <2>1. td[t].wait_for = ut[t].arg \/ td[t].wait_for = NULL
        BY DEF IInv, Descriptors, Agrees
  <2>2. QED
        BY <1>3, <2>1, HandleAssumption
<1>5. QED
      BY <1>2, <1>3, <1>4 DEF NotUsed

\* The two invariants hold together.
THEOREM JoinedOnceInvariance ==
  ASSUME NoKill, OneJoiner
  PROVE Spec => [](IInv /\ JoinedOnce)
<1>1. Init => JoinedOnce
      BY InitJoinedOnce
<1>2. IInv /\ JoinedOnce /\ [Next]_vars => JoinedOnce'
      BY NextJoinedOnce
<1>3. QED
      BY <1>1, <1>2, Invariance, PTL DEF Spec

\* A thread that holds the lock of the ready list or of a descriptor is not
\* preempted, so that nobody spins on a lock whose holder waits for a kernel thread.
THEOREM HoldersOnCpu ==
  ASSUME NoKill, OneJoiner
  PROVE Spec => []HolderOnCpu
<1>1. IInv /\ JoinedOnce => HolderOnCpu
      BY HoldersRun
<1>2. QED
      BY <1>1, JoinedOnceInvariance, PTL

\* The descriptor that thread_join has freed is in no list, on no kernel thread and
\* in no call.
THEOREM JoinedIsNotUsed ==
  ASSUME NoKill, OneJoiner
  PROVE Spec => []JoinedNotUsed
<1>1. IInv /\ JoinedOnce => JoinedNotUsed
      BY FreedIsNotUsed
<1>2. QED
      BY <1>1, JoinedOnceInvariance, PTL

-----------------------------------------------------------------------------
(* Signals, for clients that never leave a kernel thread                   *)

\* No thread of the client parks or exits: one that does may leave a signal pending
\* on its kernel thread.  The client is free to call thread_kill.
NeverParks == Ops \cap {"join", "exit", "lock"} = {}

KillPc == {"kill_lock", "kill_set", "kill_intr"}

TryPc == {"try_spin", "try_check", "unlock_spin", "unlock_check"}

\* The dispatcher has no thread.
IdlePc == {"loop", "get_lock", "get", "returned"}

\* Where the threads of such a client can be.
NoPark ==
  \A t \in Thread :
    /\ ut[t].pc \in CreatePc \cup KillPc \cup TryPc \cup {"client", "yielded"}
    /\ ut[t].pc \in CreatePc => ut[t].arg \in Thread
    /\ ut[t].pc \in KillPc => ut[t].arg \in Thread \X Signal
    /\ ut[t].pc \in TryPc => ut[t].arg \in Mutex

\* What thread_kill has left for a thread, and what has reached it.
Pending ==
  \A t \in Thread : /\ td[t].state = "RUNNING"
                    /\ td[t].pend_sig \subseteq sent[t]
                    /\ got[t] \subseteq sent[t]

\* The signals that are pending on a kernel thread are those of its thread; a
\* dispatcher lets no thread go before they have been delivered.
OnKernel ==
  /\ \A k \in KThread :
       /\ kt[k].pc \in IdlePc \cup {"sig_lock", "sig_send", "run", "user", "post",
                                    "enq_lock", "enq"}
       /\ kt[k].cur = NULL <=> kt[k].pc \in IdlePc
       /\ kt[k].pc \in IdlePc \cup {"enq_lock", "enq"} => kt[k].pend = {}
  /\ \A k \in KThread, t \in Thread : kt[k].cur = t => kt[k].pend \subseteq sent[t]

NoWaiter == \A m \in Mutex : mut[m].waitll = <<>>

\* The inductive invariant.
SigInv == TypeOK /\ NoPark /\ Pending /\ OnKernel /\ NoWaiter

\* The state and the pending signals of every thread stay.
KeepSig == \A x \in Thread : /\ td'[x].state = td[x].state
                             /\ td'[x].pend_sig = td[x].pend_sig

\* Nobody has been created.
LEMMA InitSigInv ==
  ASSUME Init
  PROVE SigInv
<1>1. TypeOK
      BY InitIInv DEF IInv
<1>2. NoPark /\ Pending
      BY DEF Init, NoDescr, NoPark, Pending, CreatePc, KillPc, TryPc
<1>3. OnKernel
      BY HandleAssumption DEF Init, OnKernel, IdlePc
<1>4. NoWaiter
      BY DEF Init, NoMutex, mut_init, NoWaiter
<1>5. QED
      BY <1>1, <1>2, <1>3, <1>4 DEF SigInv

\* The steps of main().
LEMMA MainSig ==
  ASSUME SigInv, MainStep
  PROVE SigInv'
<1>1. td \in TdType /\ Main \in Thread
      BY HandleAssumption DEF SigInv, TypeOK, TdType
<1>2. /\ UNCHANGED <<kt, ut, mut, sent, got, inCS>>
      BY DEF MainStep, MainCreate, MainLock, MainEnq, MainSpin, MainFree, MainDeinit,
             MainReap
<1>3. /\ mmrll' \in Seq(Thread) /\ mmrll_lk' \in Lock \cup {"main"} /\ mpc' \in MainLabel
      /\ enabled' \in BOOLEAN
  <2>1. /\ mmrll' = mmrll \/ mmrll' = Append(mmrll, Main)
        /\ mmrll_lk' \in {mmrll_lk, NULL, "main"}
        /\ enabled' = enabled \/ enabled' = FALSE
        BY DEF MainStep, MainCreate, MainLock, MainEnq, MainSpin, MainFree, MainDeinit,
               MainReap, mmrll_lock, mmrll_enqueue
  <2>2. mpc' \in MainLabel
        BY DEF MainStep, MainCreate, MainLock, MainEnq, MainSpin, MainFree, MainDeinit,
               MainReap, MainLabel
  <2>3. mmrll \in Seq(Thread) /\ mmrll_lk \in Lock \cup {"main"} /\ enabled \in BOOLEAN
        BY DEF SigInv, TypeOK
  <2>4. mmrll' \in Seq(Thread)
        BY <1>1, <2>1, <2>3
  <2>5. QED
        BY <2>1, <2>2, <2>3, <2>4 DEF Lock
<1>4. td' \in TdType
  <2>1. CASE MainCreate
    <3>1. PICK d : d = td_init({})
          OBVIOUS
    <3>2. d \in [mem: {"none", "live", "freed"}, state: States, wait: BOOLEAN,
              join_thread: Thread \cup {NULL},
              wait_for: Thread \cup Mutex \cup {NULL}, intr_off: BOOLEAN,
              pend_sig: SUBSET Signal, blocked: SUBSET Signal, mem_lock: Lock]
          BY <3>1 DEF td_init, NoDescr, States, Lock
    <3>3. td' = [td EXCEPT ![Main] = d]
          BY <2>1, <3>1 DEF MainCreate
    <3>4. QED
          BY <1>1, <3>2, <3>3 DEF TdType
  <2>2. CASE MainFree
        BY <1>1, <2>2 DEF MainFree, TdType
  <2>3. CASE td' = td
        BY <1>1, <2>3
  <2>4. QED
        BY <2>1, <2>2, <2>3 DEF MainStep, MainLock, MainEnq, MainSpin, MainDeinit, MainReap
<1>5. \A x \in Thread : /\ td'[x].state \in {td[x].state, "RUNNING"}
                        /\ td'[x].pend_sig \in {td[x].pend_sig, {}}
  <2>1. CASE MainCreate
        BY <1>1, <2>1 DEF MainCreate, TdType, td_init, NoDescr
  <2>2. CASE MainFree
        BY <1>1, <2>2 DEF MainFree, TdType
  <2>3. CASE td' = td
        BY <2>3
  <2>4. QED
        BY <2>1, <2>2, <2>3 DEF MainStep, MainLock, MainEnq, MainSpin, MainDeinit, MainReap
<1>6. TypeOK'
      BY <1>2, <1>3, <1>4 DEF SigInv, TypeOK, TdType
<1>7. Pending'
      BY <1>2, <1>5 DEF SigInv, Pending
<1>8. NoPark' /\ OnKernel' /\ NoWaiter'
      BY <1>2 DEF SigInv, NoPark, OnKernel, NoWaiter
<1>9. QED
      BY <1>6, <1>7, <1>8 DEF SigInv

\* k goes to place l with the thread c and the pending signals S.
KtSig(k, l, c, S) ==
  \A j \in KThread : /\ kt'[j].pc = IF j = k THEN l ELSE kt[j].pc
                     /\ kt'[j].cur = IF j = k THEN c ELSE kt[j].cur
                     /\ kt'[j].pend = IF j = k THEN S ELSE kt[j].pend

\* What the dispatcher owes the signals that are pending on its kernel thread.
LEMMA KtSigKeeps ==
  ASSUME OnKernel, NEW k \in KThread, NEW l, NEW c, NEW S, KtSig(k, l, c, S),
         sent' = sent,
         l \in IdlePc \cup {"sig_lock", "sig_send", "run", "user", "post", "enq_lock", "enq"},
         c = NULL <=> l \in IdlePc,
         l \in IdlePc \cup {"enq_lock", "enq"} => S = {},
         \A t \in Thread : c = t => S \subseteq sent[t]
  PROVE OnKernel'
  BY DEF OnKernel, KtSig

\* A step that changes the place of a dispatcher only.
LEMMA StepSig ==
  ASSUME SigInv, NEW k \in KThread, NEW l \in DispatchLabel, kt' = [kt EXCEPT ![k].pc = l],
         sent' = sent,
         \/ kt[k].pc \in IdlePc /\ l \in IdlePc
         \/ /\ kt[k].cur \in Thread
            /\ l \in {"sig_lock", "sig_send", "run", "user", "post", "enq_lock", "enq"}
            /\ l \in {"enq_lock", "enq"} => kt[k].pend = {}
  PROVE OnKernel' /\ kt' \in KtType
<1>1. kt \in KtType /\ OnKernel /\ NULL \notin Thread
      BY HandleAssumption DEF SigInv, TypeOK, KtType
<1>2. KtSig(k, l, kt[k].cur, kt[k].pend)
      BY <1>1 DEF KtSig, KtType
<1>3. kt' \in KtType
      BY <1>1 DEF KtType
<1>4. /\ l \in IdlePc \cup {"sig_lock", "sig_send", "run", "user", "post", "enq_lock", "enq"}
      /\ kt[k].cur = NULL <=> l \in IdlePc
      /\ l \in IdlePc \cup {"enq_lock", "enq"} => kt[k].pend = {}
      /\ \A t \in Thread : kt[k].cur = t => kt[k].pend \subseteq sent[t]
      BY <1>1 DEF OnKernel, IdlePc
<1>5. QED
      BY <1>1, <1>2, <1>3, <1>4, KtSigKeeps

\* The steps of a dispatcher in which a thread that never parks can be involved.
LEMMA DispatchCases ==
  ASSUME SigInv, NEW k \in KThread, Dispatch(k) \/ Preempt(k) \/ PostRepeatAlarm(k)
  PROVE \/ Loop(k) \/ GetLock(k) \/ Get(k)
        \/ kt[k].cur \in Thread /\ (\/ SigLock(k) \/ SigSend(k) \/ Run(k) \/ PostRepeat(k)
                                    \/ PostRunning(k) \/ EnqLock(k) \/ Enq(k)
                                    \/ Preempt(k) \/ PostRepeatAlarm(k))
<1>1. /\ kt[k].cur \in Thread \cup {NULL}
      /\ kt[k].pc \in IdlePc \cup {"sig_lock", "sig_send", "run", "user", "post", "enq_lock", "enq"}
      /\ kt[k].cur = NULL <=> kt[k].pc \in IdlePc
      /\ kt[k].cur \in Thread => td[kt[k].cur].state = "RUNNING"
      BY DEF SigInv, TypeOK, OnKernel, Pending
<1>2. ~ExitLock(k) /\ ~ExitOver(k) /\ ~ExitCheck(k) /\ ~WakeLock(k) /\ ~Wake(k)
      BY <1>1 DEF ExitLock, ExitOver, ExitCheck, WakeLock, Wake, Step, IdlePc
<1>3. ~PostWaitJoin(k) /\ ~PostWaitMutex(k) /\ ~PostExited(k)
      BY <1>1 DEF PostWaitJoin, PostWaitMutex, PostExited, Step, IdlePc
<1>4. kt[k].cur \in Thread \/ Loop(k) \/ GetLock(k) \/ Get(k)
      BY <1>1, <1>2, <1>3
      DEF Dispatch, SigLock, SigSend, Run, PostRepeat, PostRunning, EnqLock, Enq, Preempt,
          PostRepeatAlarm, Step, IdlePc
<1>5. QED
      BY <1>2, <1>3, <1>4 DEF Dispatch

\* The steps of the dispatcher.
LEMMA DispatchSig ==
  ASSUME SigInv, NEW k \in KThread, Dispatch(k) \/ Preempt(k) \/ PostRepeatAlarm(k)
  PROVE SigInv'
<1> DEFINE t == kt[k].cur
<1>1. /\ kt \in KtType /\ td \in TdType /\ mmrll \in Seq(Thread)
      /\ sent \in [Thread -> SUBSET Signal] /\ got \in [Thread -> SUBSET Signal]
      /\ NULL \notin Thread /\ OnKernel /\ Pending
      BY HandleAssumption DEF SigInv, TypeOK, KtType, TdType
<1>2. UNCHANGED <<ut, mut, enabled, mpc, inCS, sent>>
      BY DispatchCases DEF Loop, GetLock, Get, SigLock, SigSend, Run, PostRepeat, PostRunning,
         EnqLock, Enq, Preempt, PostRepeatAlarm
<1>3. OnKernel' /\ kt' \in KtType /\ mmrll' \in Seq(Thread)
  <2>1. CASE Loop(k) \/ GetLock(k)
    <3>1. mmrll' = mmrll /\ kt[k].pc \in IdlePc
          BY <2>1 DEF Loop, GetLock, Step, IdlePc
    <3>2. PICK l \in {"get_lock", "returned", "get"} : kt' = [kt EXCEPT ![k].pc = l]
          BY <2>1 DEF Loop, GetLock, Step
    <3>3. l \in DispatchLabel /\ l \in IdlePc
          BY DEF DispatchLabel, IdlePc
    <3>4. QED
          BY <1>1, <1>2, <3>1, <3>2, <3>3, StepSig
  <2>2. CASE Get(k)
    <3>1. kt[k].pc = "get" /\ kt[k].pend = {} /\ kt[k].cur = NULL
          BY <1>1, <2>2 DEF Get, OnKernel, IdlePc
    <3>2. CASE mmrll = <<>>
      <4>1. KtSig(k, "loop", NULL, {}) /\ kt' \in KtType /\ mmrll' = mmrll
        <5>1. kt' = [[kt EXCEPT ![k].pc = "loop"] EXCEPT ![k].cur = NULL] /\ mmrll' = mmrll
              BY <1>1, <2>2, <3>2 DEF Get, ToLoop, KtType
        <5>2. QED
              BY <1>1, <3>1, <5>1 DEF KtSig, KtType, DispatchLabel
      <4>2. QED
            BY <1>1, <1>2, <4>1, KtSigKeeps DEF IdlePc
    <3>3. CASE mmrll # <<>>
      <4>1. PICK h \in Thread : h = Head(mmrll)
            BY <1>1, <3>3
      <4>2. td[h].state = "RUNNING"
            BY <1>1 DEF Pending
      <4>3. kt' = [kt EXCEPT ![k].cur = h, ![k].pc = "sig_lock"]
            BY <2>2, <3>3, <4>1, <4>2 DEF Get
      <4>4. kt' = [[kt EXCEPT ![k].cur = h] EXCEPT ![k].pc = "sig_lock"]
            BY <1>1, <4>3 DEF KtType
      <4>5. KtSig(k, "sig_lock", h, {}) /\ kt' \in KtType
            BY <1>1, <3>1, <4>4 DEF KtSig, KtType, DispatchLabel
      <4>6. mmrll' \in Seq(Thread)
            BY <1>1, <2>2, <3>3 DEF Get
      <4>7. QED
            BY <1>1, <1>2, <4>5, <4>6, KtSigKeeps DEF IdlePc
    <3>4. QED
          BY <3>2, <3>3
  <2>3. CASE t \in Thread /\ (SigLock(k) \/ PostRepeat(k) \/ PostRunning(k) \/ EnqLock(k)
                              \/ Preempt(k) \/ PostRepeatAlarm(k))
    <3>1. PICK l \in {"sig_send", "run", "enq_lock", "enq", "post"} :
            /\ kt' = [kt EXCEPT ![k].pc = l]
            /\ l \in {"enq_lock", "enq"} => kt[k].pend = {}
      <4>1. CASE SigLock(k) \/ PostRepeat(k) \/ PostRepeatAlarm(k) \/ Preempt(k)
            BY <4>1 DEF SigLock, PostRepeat, PostRepeatAlarm, Preempt, ret_cxt, Step
      <4>2. CASE PostRunning(k)
            BY <4>2 DEF PostRunning, Step
      <4>3. CASE EnqLock(k)
            BY <1>1, <4>3 DEF EnqLock, Step, OnKernel
      <4>4. QED
            BY <2>3, <4>1, <4>2, <4>3
    <3>2. mmrll' = mmrll
          BY <2>3 DEF SigLock, PostRepeat, PostRunning, EnqLock, Preempt, PostRepeatAlarm
    <3>3. /\ l \in DispatchLabel
          /\ l \in {"sig_lock", "sig_send", "run", "user", "post", "enq_lock", "enq"}
          BY DEF DispatchLabel
    <3>4. QED
          BY <1>1, <1>2, <2>3, <3>1, <3>2, <3>3, StepSig
  <2>4. CASE t \in Thread /\ SigSend(k)
    <3>1. kt' = [[kt EXCEPT ![k].pc = "run"] EXCEPT ![k].pend = kt[k].pend \cup td[t].pend_sig]
          BY <1>1, <2>4 DEF SigSend, KtType
    <3>2. kt[k].pend \cup td[t].pend_sig \subseteq sent[t] /\ td[t].pend_sig \subseteq Signal
          BY <1>1, <2>4 DEF OnKernel, Pending, TdType
    <3>3. KtSig(k, "run", t, kt[k].pend \cup td[t].pend_sig) /\ kt' \in KtType
          BY ZenonT(60), <1>1, <3>1, <3>2 DEF KtSig, KtType, DispatchLabel
    <3>4. mmrll' = mmrll
          BY <2>4 DEF SigSend
    <3>5. QED
          BY <1>1, <1>2, <2>4, <3>2, <3>3, <3>4, KtSigKeeps DEF IdlePc
  <2>5. CASE t \in Thread /\ Run(k)
    <3>1. kt' = [[kt EXCEPT ![k].pc = "user"] EXCEPT ![k].pend = kt[k].pend \cap td[t].blocked]
          BY <1>1, <2>5 DEF Run, KtType
    <3>2. kt[k].pend \cap td[t].blocked \subseteq sent[t]
          BY <1>1, <2>5 DEF OnKernel
    <3>3. KtSig(k, "user", t, kt[k].pend \cap td[t].blocked) /\ kt' \in KtType
          BY ZenonT(60), <1>1, <3>1, <3>2 DEF KtSig, KtType, DispatchLabel
    <3>4. mmrll' = mmrll
          BY <2>5 DEF Run
    <3>5. QED
          BY <1>1, <1>2, <2>5, <3>2, <3>3, <3>4, KtSigKeeps DEF IdlePc
  <2>6. CASE t \in Thread /\ Enq(k)
    <3>1. kt' = [[kt EXCEPT ![k].pc = "loop"] EXCEPT ![k].cur = NULL]
          BY <1>1, <2>6 DEF Enq, ToLoop, KtType
    <3>2. kt[k].pend = {}
          BY <1>1, <2>6 DEF Enq, OnKernel
    <3>3. KtSig(k, "loop", NULL, {})
          BY <1>1, <3>1, <3>2 DEF KtSig, KtType
    <3>4. kt' \in KtType
          BY ZenonT(60), <1>1, <3>1 DEF KtType, DispatchLabel
    <3>5. mmrll' \in Seq(Thread)
          BY <1>1, <2>6 DEF Enq, mmrll_enqueue
    <3>6. QED
          BY <1>1, <1>2, <3>3, <3>4, <3>5, KtSigKeeps DEF IdlePc
  <2>7. QED
        BY <2>1, <2>2, <2>3, <2>4, <2>5, <2>6, DispatchCases
<1>4. td' \in TdType /\ \A x \in Thread : /\ td'[x].state = td[x].state
                                          /\ td'[x].pend_sig \in {td[x].pend_sig, {}}
  <2>1. CASE td' = td
        BY <1>1, <2>1
  <2>2. CASE t \in Thread /\ SigLock(k)
    <3>1. td' = [td EXCEPT ![t].mem_lock = k] /\ k \in Lock
          BY <2>2 DEF SigLock, Lock
    <3>2. td' \in TdType
          BY <1>1, <2>2, <3>1, TdUpdates
    <3>3. QED
          BY <1>1, <3>1, <3>2 DEF TdType
  <2>3. CASE t \in Thread /\ SigSend(k)
    <3>1. td' = [[td EXCEPT ![t].pend_sig = {}] EXCEPT ![t].mem_lock = NULL]
          BY <1>1, <2>3 DEF SigSend, TdType
    <3>2. /\ \A d \in TdType : [d EXCEPT ![t].mem_lock = NULL] \in TdType
          /\ [td EXCEPT ![t].pend_sig = {}] \in TdType
          BY <1>1, <2>3, TdUpdates DEF Lock
    <3>3. td' \in TdType
          BY <3>1, <3>2
    <3>4. \A x \in Thread : td'[x].state = td[x].state
          BY <1>1, <3>1 DEF TdType
    <3>5. \A x \in Thread : td'[x].pend_sig \in {td[x].pend_sig, {}}
          BY <1>1, <3>1 DEF TdType
    <3>6. QED
          BY <3>3, <3>4, <3>5
  <2>4. QED
        BY <2>1, <2>2, <2>3, DispatchCases
        DEF Loop, GetLock, Get, Run, PostRepeat, PostRunning, EnqLock, Enq, Preempt,
            PostRepeatAlarm
<1>5. got' \in [Thread -> SUBSET Signal] /\ \A x \in Thread : got'[x] \subseteq sent[x]
  <2>1. CASE got' = got
        BY <1>1, <2>1 DEF Pending
  <2>2. CASE t \in Thread /\ Run(k)
    <3>1. got' = [got EXCEPT ![t] = got[t] \cup (kt[k].pend \ td[t].blocked)]
          BY <1>1, <2>2 DEF Run
    <3>2. kt[k].pend \subseteq sent[t] /\ kt[k].pend \subseteq Signal
          BY <1>1, <2>2 DEF OnKernel, KtType
    <3>3. QED
          BY <1>1, <2>2, <3>1, <3>2 DEF Pending
  <2>3. QED
        BY <2>1, <2>2, DispatchCases
        DEF Loop, GetLock, Get, SigLock, SigSend, PostRepeat, PostRunning, EnqLock, Enq, Preempt,
            PostRepeatAlarm
<1>6. mmrll_lk' \in Lock \cup {"main"}
      BY DispatchCases
      DEF Loop, GetLock, Get, SigLock, SigSend, Run, PostRepeat, PostRunning, EnqLock, Enq, Preempt,
          PostRepeatAlarm, mmrll_lock, mmrll_enqueue, Lock, SigInv, TypeOK
<1>7. TypeOK'
      BY <1>2, <1>3, <1>4, <1>5, <1>6 DEF SigInv, TypeOK, KtType, TdType
<1>8. Pending'
      BY <1>1, <1>2, <1>4, <1>5 DEF Pending
<1>9. NoPark' /\ NoWaiter'
      BY <1>2 DEF SigInv, NoPark, NoWaiter
<1>10. QED
      BY <1>3, <1>7, <1>8, <1>9 DEF SigInv

\* A call or a step of a thread that is not thread_kill, thread_sigmask or a mutex
\* operation.
LEMMA CntlSig ==
  ASSUME NeverParks, SigInv, NEW k \in KThread, NEW t \in Thread,
         CntlCall(k, t) \/ CntlStep(k, t)
  PROVE SigInv'
<1>1. /\ td \in TdType /\ kt \in KtType /\ mmrll \in Seq(Thread) /\ TypeOK
      /\ NULL \notin Thread /\ OnKernel /\ Pending /\ NoPark
      BY HandleAssumption DEF SigInv, TypeOK, KtType, TdType
<1>2. \/ \E u \in Thread : CreateCall(k, t, u)
      \/ ThreadYield(k, t) \/ CreateLock(k, t) \/ CreateEnq(k, t) \/ YieldBack(k, t)
  <2>1. ~ThreadExit(k, t) /\ \A u \in Thread : ~JoinCall(k, t, u)
        BY DEF NeverParks, ThreadExit, JoinCall, Calls
  <2>2. /\ ~JoinLock(k, t) /\ ~JoinRefuse(k, t) /\ ~JoinCheck(k, t) /\ ~JoinResume(k, t)
        /\ ~JoinFree(k, t)
        BY <1>1 DEF NoPark, CreatePc, KillPc, TryPc, JoinLock, JoinRefuse, JoinCheck, JoinResume,
           JoinFree, At
  <2>3. QED
        BY <2>1, <2>2 DEF CntlCall, CntlStep
<1>3. UNCHANGED <<mut, enabled, mpc, inCS, sent, got>> /\ kt[k].cur = t /\ kt[k].pc = "user"
      BY <1>2 DEF CreateCall, ThreadYield, CreateLock, CreateEnq, YieldBack, Calls, At
<1>4. /\ td' \in TdType
      /\ \A x \in Thread : /\ td'[x].state \in {td[x].state, "RUNNING"}
                           /\ td'[x].pend_sig \in {td[x].pend_sig, {}}
  <2>1. CASE \E i \in BOOLEAN : td' = [td EXCEPT ![t].intr_off = i]
    <3>1. PICK i \in BOOLEAN : td' = [td EXCEPT ![t].intr_off = i]
          BY <2>1
    <3>2. td' \in TdType
          BY <1>1, <3>1, TdUpdates
    <3>3. QED
          BY <1>1, <3>1, <3>2 DEF TdType
  <2>2. CASE \E u \in Thread : CreateCall(k, t, u)
    <3>1. PICK u \in Thread : CreateCall(k, t, u)
          BY <2>2
    <3>2. PICK d : d = td_init(td[t].blocked)
          OBVIOUS
    <3>3. /\ d.state = "RUNNING" /\ d.pend_sig = {}
          /\ d \in [mem: {"none", "live", "freed"}, state: States, wait: BOOLEAN,
                    join_thread: Thread \cup {NULL},
                    wait_for: Thread \cup Mutex \cup {NULL}, intr_off: BOOLEAN,
                    pend_sig: SUBSET Signal, blocked: SUBSET Signal, mem_lock: Lock]
      <4>1. td[t].blocked \subseteq Signal
            BY <1>1 DEF TdType
      <4>2. QED
            BY <3>2, <4>1 DEF td_init, NoDescr, States, Lock
    <3>4. td' = [[td EXCEPT ![u] = d] EXCEPT ![t].intr_off = TRUE]
          BY <1>1, <3>1, <3>2 DEF CreateCall, TdType
    <3>5. [td EXCEPT ![u] = d] \in TdType
          BY <1>1, <3>3 DEF TdType
    <3>6. td' \in TdType
          BY <3>4, <3>5, TdUpdates
    <3>7. QED
          BY <1>1, <3>3, <3>4, <3>6 DEF TdType
  <2>3. CASE td' = td
        BY <1>1, <2>3
  <2>4. QED
        BY <1>2, <2>1, <2>2, <2>3 DEF ThreadYield, CreateLock, CreateEnq, YieldBack
<1>5. /\ ut' \in UtType /\ NoPark'
  <2>1. PICK l \in CreatePc \cup {"client", "yielded"}, a \in Thread \cup {NULL} \cup {ut[t].arg} :
          /\ UtSet(t, l, a) /\ ut' \in UtType
          /\ l \in CreatePc => a \in Thread
    <3>1. CASE \E u \in Thread : CreateCall(k, t, u)
          BY <1>1, <3>1, CallFacts DEF CreateCall, UserLabel, CreatePc
    <3>2. CASE ThreadYield(k, t)
          BY <1>1, <3>2, GotoFacts DEF ThreadYield, UserLabel, CreatePc
    <3>3. CASE CreateLock(k, t)
      <4>1. ut[t].arg \in Thread
            BY <1>1, <3>3 DEF CreateLock, At, NoPark, CreatePc
      <4>2. QED
            BY <1>1, <3>3, <4>1, GotoFacts DEF CreateLock, UserLabel, CreatePc
    <3>4. CASE CreateEnq(k, t) \/ YieldBack(k, t)
          BY <1>1, <3>4, ReturnFacts DEF CreateEnq, YieldBack, CreatePc
    <3>5. QED
          BY <1>2, <3>1, <3>2, <3>3, <3>4
  <2>2. QED
        BY <1>1, <2>1 DEF NoPark, UtSet, CreatePc, KillPc, TryPc
<1>6. kt' \in KtType /\ OnKernel'
  <2>1. CASE kt' = kt
        BY <1>1, <1>3, <2>1 DEF OnKernel
  <2>2. CASE kt' = [kt EXCEPT ![k].pc = "post"]
        BY <1>1, <1>3, <2>2, StepSig DEF DispatchLabel
  <2>3. QED
        BY <1>2, <2>1, <2>2 DEF CreateCall, ThreadYield, CreateLock, CreateEnq, YieldBack, ret_cxt
<1>7. mmrll' \in Seq(Thread) /\ mmrll_lk' \in Lock \cup {"main"}
  <2>1. CASE CreateEnq(k, t)
    <3>1. ut[t].arg \in Thread
          BY <1>1, <2>1 DEF CreateEnq, At, NoPark, CreatePc
    <3>2. QED
          BY <1>1, <2>1, <3>1 DEF CreateEnq, mmrll_enqueue, Lock
  <2>2. CASE CreateLock(k, t)
        BY <1>1, <2>2 DEF CreateLock, mmrll_lock, Lock
  <2>3. CASE UNCHANGED <<mmrll, mmrll_lk>>
        BY <2>3 DEF SigInv, TypeOK
  <2>4. QED
        BY <1>2, <2>1, <2>2, <2>3 DEF CreateCall, ThreadYield, YieldBack
<1>8. TypeOK'
      BY <1>1, <1>3, <1>4, <1>5, <1>6, <1>7 DEF TypeOK, KtType, TdType, UtType
<1>9. Pending'
      BY <1>1, <1>3, <1>4 DEF Pending
<1>10. NoWaiter'
      BY <1>3 DEF SigInv, NoWaiter
<1>11. QED
      BY <1>5, <1>6, <1>8, <1>9, <1>10 DEF SigInv

\* The calls of a mutex that do not park.
LEMMA SyncSig ==
  ASSUME NeverParks, SigInv, NEW k \in KThread, NEW t \in Thread,
         SyncCall(k, t) \/ SyncStep(k, t)
  PROVE SigInv'
<1>1. /\ mut \in MutType /\ TypeOK /\ NoPark /\ NoWaiter
      BY DEF SigInv, TypeOK, MutType
<1>2. \/ \E m \in Mutex : \/ MutexInit(k, t, m) \/ MutexDestroy(k, t, m)
                          \/ TryCall(k, t, m) \/ UnlockCall(k, t, m)
      \/ TrySpin(k, t) \/ TryCheck(k, t) \/ UnlockSpin(k, t) \/ UnlockCheck(k, t)
  <2>1. \A m \in Mutex : ~LockCall(k, t, m)
        BY DEF NeverParks, LockCall, MutexCall, Calls
  <2>2. /\ ~LockSpin(k, t) /\ ~LockCheck(k, t) /\ ~LockQueue(k, t) /\ ~LockWoken(k, t)
        /\ ~UnlockList(k, t) /\ ~UnlockEnq(k, t) /\ ~UnlockRel(k, t)
        BY <1>1 DEF NoPark, CreatePc, KillPc, TryPc, LockSpin, mut_lock, LockCheck, LockQueue,
           LockWoken, UnlockList, UnlockEnq, UnlockRel, At
  <2>3. QED
        BY <2>1, <2>2 DEF SyncCall, SyncStep
<1>3. ut[t].pc \in TryPc => /\ ut[t].arg \in Mutex
                            /\ mut[ut[t].arg].waitll = <<>>
      BY <1>1 DEF NoPark, NoWaiter
<1>4. UNCHANGED <<td, mmrll, mmrll_lk, kt, enabled, mpc, sent, got>>
  <2>1. CASE UnlockCheck(k, t)
        BY <1>3, <2>1 DEF UnlockCheck, At, TryPc
  <2>2. QED
        BY <1>2, <2>1
        DEF MutexInit, MutexDestroy, TryCall, UnlockCall, MutexCall, TrySpin, TryCheck,
            TakeFree, UnlockSpin, mut_lock
<1>5. ut' \in UtType /\ NoPark'
  <2>1. CASE \E m \in Mutex : MutexInit(k, t, m) \/ MutexDestroy(k, t, m)
    <3>1. ut' = ut
          BY <2>1 DEF MutexInit, MutexDestroy
    <3>2. QED
          BY <1>1, <3>1 DEF TypeOK, UtType, NoPark
  <2>2. CASE ~\E m \in Mutex : MutexInit(k, t, m) \/ MutexDestroy(k, t, m)
    <3>1. PICK l \in TryPc \cup {"client"}, a \in Mutex \cup {NULL} :
            /\ UtSet(t, l, a) /\ ut' \in UtType
            /\ l \in TryPc => a \in Mutex
      <4>1. CASE \E m \in Mutex : TryCall(k, t, m) \/ UnlockCall(k, t, m)
            BY <1>1, <4>1, CallFacts DEF TryCall, UnlockCall, MutexCall, UserLabel, TryPc
      <4>2. CASE TrySpin(k, t) \/ UnlockSpin(k, t)
        <5>1. ut[t].arg \in Mutex
              BY <1>3, <4>2 DEF TrySpin, UnlockSpin, mut_lock, At, TryPc
        <5>2. QED
              BY <1>1, <4>2, <5>1, GotoFacts DEF TrySpin, UnlockSpin, mut_lock, UserLabel, TryPc
      <4>3. CASE TryCheck(k, t) \/ UnlockCheck(k, t)
        <5>1. Return(t)
              BY <1>3, <4>3 DEF TryCheck, TakeFree, UnlockCheck, At, TryPc
        <5>2. QED
              BY <1>1, <5>1, ReturnFacts DEF TryPc
      <4>4. QED
            BY <1>2, <2>2, <4>1, <4>2, <4>3
    <3>2. QED
          BY <1>1, <3>1 DEF NoPark, UtSet, CreatePc, KillPc, TryPc
  <2>3. QED
        BY <2>1, <2>2
<1>6. mut' \in MutType /\ NoWaiter'
  <2>1. CASE mut' = mut
        BY <1>1, <2>1 DEF NoWaiter
  <2>2. CASE \E m \in Mutex : MutexInit(k, t, m)
    <3>1. PICK m \in Mutex : mut' = [mut EXCEPT ![m] = mut_init]
          BY <2>2 DEF MutexInit
    <3>2. QED
          BY <1>1, <3>1 DEF MutType, mut_init, Lock, NoWaiter
  <2>3. CASE \E m \in Mutex : MutexDestroy(k, t, m)
    <3>1. PICK m \in Mutex : mut' = [mut EXCEPT ![m].mem = "none"]
          BY <2>3 DEF MutexDestroy
    <3>2. QED
          BY <1>1, <3>1 DEF MutType, NoWaiter
  <2>4. CASE TrySpin(k, t) \/ UnlockSpin(k, t) \/ TryCheck(k, t) \/ UnlockCheck(k, t)
    <3>1. ut[t].pc \in TryPc
          BY <2>4 DEF TrySpin, UnlockSpin, mut_lock, TryCheck, UnlockCheck, At, TryPc
    <3>2. PICK m \in Mutex : m = ut[t].arg /\ mut[m].waitll = <<>>
          BY <1>3, <3>1
    <3>3. CASE \E h \in Lock : mut' = [mut EXCEPT ![m].mem_lock = h]
      <4>1. PICK h \in Lock : mut' = [mut EXCEPT ![m].mem_lock = h]
            BY <3>3
      <4>2. QED
            BY <1>1, <4>1 DEF MutType, NoWaiter
    <3>4. CASE \E o \in Thread \cup {NULL} :
                 mut' = [mut EXCEPT ![m].owner = o, ![m].mem_lock = NULL]
      <4>1. PICK o \in Thread \cup {NULL} :
              mut' = [mut EXCEPT ![m].owner = o, ![m].mem_lock = NULL]
            BY <3>4
      <4>2. mut' = [[mut EXCEPT ![m].owner = o] EXCEPT ![m].mem_lock = NULL]
            BY <1>1, <4>1 DEF MutType
      <4>3. QED
            BY <1>1, <4>2 DEF MutType, NoWaiter, Lock
    <3>5. CASE TrySpin(k, t) \/ UnlockSpin(k, t)
          BY <3>2, <3>3, <3>5 DEF TrySpin, UnlockSpin, mut_lock, Lock
    <3>6. CASE TryCheck(k, t)
          BY <3>2, <3>3, <3>4, <3>6 DEF TryCheck, TakeFree, Lock
    <3>7. CASE UnlockCheck(k, t)
          BY <3>2, <3>3, <3>4, <3>7 DEF UnlockCheck, Lock
    <3>8. QED
          BY <2>4, <3>5, <3>6, <3>7
  <2>5. QED
        BY <1>2, <2>1, <2>2, <2>3, <2>4 DEF TryCall, UnlockCall, MutexCall
<1>7. inCS' \in [Mutex -> SUBSET Thread]
  <2>1. inCS \in [Mutex -> SUBSET Thread]
        BY <1>1 DEF TypeOK
  <2>2. \/ inCS' = inCS
        \/ \E m \in Mutex : \/ inCS' = [inCS EXCEPT ![m] = inCS[m] \cup {t}]
                            \/ inCS' = [inCS EXCEPT ![m] = inCS[m] \ {t}]
    <3>1. CASE TryCheck(k, t) \/ UnlockCheck(k, t)
      <4>1. PICK m \in Mutex : m = ut[t].arg /\ mut[m].waitll = <<>>
            BY <1>3, <3>1 DEF TryCheck, UnlockCheck, At, TryPc
      <4>2. QED
            BY <3>1, <4>1 DEF TryCheck, TakeFree, UnlockCheck
    <3>2. QED
          BY <1>2, <3>1
          DEF MutexInit, MutexDestroy, TryCall, UnlockCall, MutexCall, TrySpin, UnlockSpin, mut_lock
  <2>3. QED
        BY <2>1, <2>2
<1>8. TypeOK'
      BY <1>1, <1>4, <1>5, <1>6, <1>7 DEF TypeOK, UtType, MutType
<1>9. Pending' /\ OnKernel'
      BY <1>4 DEF SigInv, Pending, OnKernel
<1>10. QED
      BY <1>5, <1>6, <1>8, <1>9 DEF SigInv

\* thread_kill, in four steps, and thread_sigmask.
LEMMA SignalsSig ==
  ASSUME SigInv, NEW k \in KThread, NEW t \in Thread, SigCall(k, t) \/ SigStep(k, t)
  PROVE SigInv'
<1>1. /\ td \in TdType /\ kt \in KtType /\ TypeOK /\ NoPark /\ Pending /\ OnKernel
      /\ sent \in [Thread -> SUBSET Signal] /\ got \in [Thread -> SUBSET Signal]
      /\ NULL \notin Thread
      BY HandleAssumption DEF SigInv, TypeOK, TdType, KtType
<1>2. /\ UNCHANGED <<mut, mmrll, mmrll_lk, enabled, mpc, inCS>>
      /\ kt[k].pc = "user" /\ kt[k].cur = t
      BY DEF SigCall, SigStep, KillCall, KillLock, KillSet, KillIntr, ThreadSigmask, Calls, At
<1>3. CASE \E S \in SUBSET Signal : ThreadSigmask(k, t, S)
  <2>1. PICK S \in SUBSET Signal : ThreadSigmask(k, t, S)
        BY <1>3
  <2>2. ut' = ut /\ sent' = sent
        BY <2>1 DEF ThreadSigmask
  <2>3. td' \in TdType /\ KeepSig
    <3>1. td' = [[td EXCEPT ![t].blocked = S] EXCEPT ![t].intr_off = FALSE]
          BY <1>1, <2>1 DEF ThreadSigmask, TdType
    <3>2. /\ \A d \in TdType : [d EXCEPT ![t].intr_off = FALSE] \in TdType
          /\ [td EXCEPT ![t].blocked = S] \in TdType
          BY <1>1, TdUpdates
    <3>3. td' \in TdType
          BY <3>1, <3>2
    <3>4. QED
          BY <1>1, <3>1, <3>3 DEF TdType, KeepSig
  <2>4. kt[k].pend \subseteq sent[t] /\ kt[k].pend \subseteq Signal
        BY <1>1, <1>2 DEF OnKernel, KtType
  <2>5. kt' \in KtType /\ OnKernel'
    <3>1. kt' = [kt EXCEPT ![k].pend = kt[k].pend \cap S]
          BY <2>1 DEF ThreadSigmask
    <3>2. kt' \in KtType
          BY <1>1, <3>1 DEF KtType
    <3>3. KtSig(k, "user", t, kt[k].pend \cap S)
          BY <1>1, <1>2, <3>1 DEF KtSig, KtType
    <3>4. QED
          BY <1>1, <2>2, <2>4, <3>2, <3>3, KtSigKeeps DEF IdlePc
  <2>6. got' \in [Thread -> SUBSET Signal] /\ \A x \in Thread : got'[x] \subseteq sent[x]
    <3>1. got' = [got EXCEPT ![t] = got[t] \cup (kt[k].pend \ S)]
          BY <2>1 DEF ThreadSigmask
    <3>2. QED
          BY <1>1, <2>4, <3>1 DEF Pending
  <2>7. TypeOK'
        BY <1>1, <1>2, <2>2, <2>3, <2>5, <2>6 DEF TypeOK, TdType, KtType
  <2>8. Pending'
        BY <1>1, <2>2, <2>3, <2>6 DEF Pending, KeepSig
  <2>9. NoPark' /\ NoWaiter'
        BY <1>2, <2>2 DEF SigInv, NoPark, NoWaiter
  <2>10. QED
        BY <2>5, <2>7, <2>8, <2>9 DEF SigInv
<1>4. CASE SigStep(k, t) \/ \E u \in Thread, s \in Signal : KillCall(k, t, u, s)
  <2>1. kt' = kt /\ got' = got
        BY <1>4 DEF SigStep, KillCall, KillLock, KillSet, KillIntr
  <2>2. PICK u \in Thread, s \in Signal :
          \/ KillCall(k, t, u, s)
          \/ SigStep(k, t) /\ ut[t].pc \in KillPc /\ ut[t].arg = <<u, s>>
    <3>1. CASE SigStep(k, t)
      <4>1. ut[t].pc \in KillPc
            BY <3>1 DEF SigStep, KillLock, KillSet, KillIntr, At, KillPc
      <4>2. ut[t].arg \in Thread \X Signal
            BY <1>1, <4>1 DEF NoPark
      <4>3. QED
            BY <3>1, <4>1, <4>2
    <3>2. QED
          BY <1>4, <3>1
  <2>3. SigStep(k, t) /\ ut[t].arg = <<u, s>> => ut[t].arg[1] = u /\ ut[t].arg[2] = s
        OBVIOUS
  <2>4. \/ sent' = sent
        \/ sent' = [sent EXCEPT ![u] = sent[u] \cup {s}]
        BY <2>2, <2>3 DEF KillCall, SigStep, KillLock, KillSet, KillIntr
  <2>5. sent' \in [Thread -> SUBSET Signal] /\ \A x \in Thread : sent[x] \subseteq sent'[x]
        BY <1>1, <2>4
  <2>6. /\ td' \in TdType
        /\ \A x \in Thread : /\ td'[x].state = td[x].state
                             /\ td'[x].pend_sig \subseteq td[x].pend_sig \cup sent'[x]
    <3>1. CASE \E i \in BOOLEAN : td' = [td EXCEPT ![u].intr_off = i]
      <4>1. PICK i \in BOOLEAN : td' = [td EXCEPT ![u].intr_off = i]
            BY <3>1
      <4>2. td' \in TdType
            BY <1>1, <4>1, TdUpdates
      <4>3. QED
            BY <1>1, <4>1, <4>2 DEF TdType
    <3>2. CASE td' = [td EXCEPT ![u].mem_lock = t]
      <4>1. td' \in TdType
            BY <1>1, <3>2, TdUpdates DEF Lock
      <4>2. QED
            BY <1>1, <3>2, <4>1 DEF TdType
    <3>3. CASE KillSet(k, t) /\ ut[t].arg = <<u, s>>
      <4>1. /\ td' = [[td EXCEPT ![u].pend_sig = td[u].pend_sig \cup {s}]
                          EXCEPT ![u].mem_lock = NULL]
            /\ sent' = [sent EXCEPT ![u] = sent[u] \cup {s}]
            BY <1>1, <3>3 DEF KillSet, TdType
      <4>2. /\ \A d \in TdType : [d EXCEPT ![u].mem_lock = NULL] \in TdType
            /\ \A S \in SUBSET Signal : [td EXCEPT ![u].pend_sig = S] \in TdType
            BY <1>1, TdUpdates DEF Lock
      <4>3. td[u].pend_sig \cup {s} \in SUBSET Signal
            BY <1>1 DEF TdType
      <4>4. td' \in TdType
            BY <4>1, <4>2, <4>3
      <4>5. s \in sent'[u]
            BY <1>1, <4>1
      <4>6. QED
            BY <1>1, <4>1, <4>4, <4>5 DEF TdType
    <3>4. QED
          BY <2>2, <2>3, <3>1, <3>2, <3>3 DEF KillCall, SigStep, KillLock, KillIntr
  <2>7. ut' \in UtType /\ NoPark'
    <3>1. PICK l \in KillPc \cup {"client"}, a \in {NULL, <<u, s>>} :
            /\ UtSet(t, l, a) /\ ut' \in UtType
            /\ l \in KillPc => a = <<u, s>>
      <4>1. CASE KillCall(k, t, u, s)
            BY <1>1, <4>1 DEF KillCall, TypeOK, UtType, UtSet, KillPc, UserLabel
      <4>2. CASE KillLock(k, t) \/ KillSet(k, t)
        <5>1. PICK l \in {"kill_set", "kill_intr"} : Goto(t, l)
              BY <4>2 DEF KillLock, KillSet
        <5>2. l \in UserLabel /\ l \in KillPc
              BY DEF UserLabel, KillPc
        <5>3. UtSet(t, l, ut[t].arg) /\ ut' \in UtType
              BY <1>1, <5>1, <5>2, GotoFacts
        <5>4. ut[t].pc # "client"
              BY <4>2 DEF KillLock, KillSet, At
        <5>5. ut[t].arg = <<u, s>>
              BY <2>2, <5>4 DEF KillCall, Calls, At
        <5>6. QED
              BY <5>2, <5>3, <5>5
      <4>3. CASE KillIntr(k, t)
            BY <1>1, <4>3, ReturnFacts DEF KillIntr, KillPc
      <4>4. QED
            BY <2>2, <4>1, <4>2, <4>3 DEF SigStep
    <3>2. <<u, s>> \in Thread \X Signal
          OBVIOUS
    <3>3. QED
          BY <1>1, <3>1, <3>2 DEF NoPark, UtSet, CreatePc, KillPc, TryPc
  <2>8. TypeOK'
        BY <1>1, <1>2, <2>1, <2>5, <2>6, <2>7 DEF TypeOK, TdType, UtType
  <2>9. Pending'
        BY <1>1, <2>1, <2>5, <2>6 DEF Pending
  <2>10. OnKernel' /\ NoWaiter'
    <3>1. OnKernel'
          BY <1>1, <2>1, <2>5 DEF OnKernel
    <3>2. QED
          BY <1>2, <3>1 DEF SigInv, NoWaiter
  <2>11. QED
        BY <2>7, <2>8, <2>9, <2>10 DEF SigInv
<1>5. QED
      BY <1>3, <1>4 DEF SigCall

\* No step of such a client breaks the invariant.
LEMMA NextSigInv ==
  ASSUME NeverParks, SigInv, [Next]_vars
  PROVE SigInv'
<1>1. CASE MainStep
      BY <1>1, MainSig
<1>2. ASSUME NEW k \in KThread, Dispatch(k) \/ Preempt(k) \/ PostRepeatAlarm(k)
      PROVE SigInv'
      BY <1>2, DispatchSig
<1>3. ASSUME NEW k \in KThread, NEW t \in Thread, UserCall(k, t) \/ UserStep(k, t)
      PROVE SigInv'
      BY <1>3, CntlSig, SyncSig, SignalsSig DEF UserCall, UserStep
<1>4. CASE Finished \/ UNCHANGED vars
  <2>1. UNCHANGED vars
        BY <1>4 DEF Finished
  <2>2. QED
        BY <2>1 DEF vars, SigInv, TypeOK, NoPark, Pending, OnKernel, NoWaiter
<1>5. QED
      BY <1>1, <1>2, <1>3, <1>4 DEF Next

\* A signal reaches no thread but those that thread_kill named, as long as the
\* dispatcher's test for pending signals is made before a thread leaves its kernel
\* thread: a thread that is preempted or yields.
THEOREM SignalsReachTargets ==
  ASSUME NeverParks
  PROVE Spec => []SignalToTarget
<1>1. Init => SigInv
      BY InitSigInv
<1>2. SigInv /\ [Next]_vars => SigInv'
      BY NextSigInv
<1>3. SigInv => SignalToTarget
      BY DEF SigInv, Pending, SignalToTarget
<1>4. QED
      BY <1>1, <1>2, <1>3, PTL DEF Spec
=============================================================================
