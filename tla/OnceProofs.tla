----------------------------- MODULE OnceProofs -----------------------------
(***************************************************************************)
(* A proof, for every set of threads, that a program which initializes its *)
(* spinlock through thread_once is one that SpinLock allows, so that what  *)
(* is proved of the spinlock holds of it.                                  *)
(***************************************************************************)
EXTENDS Once, SpinLockProofs

OnceType == /\ once \in {THREAD_ONCE_INIT, 0}
            /\ opc \in [Thread -> {"start", "routine", "success", "fail"}]
            /\ pc \in [Thread -> {"client", "spin", "set_owner", "clear_owner",
                                  "release"}]

\* Before the compare-and-swap is won there is no object and nobody is past it.
NotYet == once = THREAD_ONCE_INIT =>
            ~alive /\ \A t \in Thread : opc[t] = "start"

\* The routine is run by one thread, and before the object exists.
OneRoutine ==
  \A t \in Thread : opc[t] = "routine" =>
    ~alive /\ \A u \in Thread : opc[u] = "routine" => u = t

\* A thread uses the spinlock after it has returned from thread_once.
UseLater == \A t \in Thread : ~Returned(t) => pc[t] = "client"

\* The inductive invariant.
OnceInv == OnceType /\ NotYet /\ OneRoutine /\ UseLater

\* A call of the spinlock leaves its existence and the places of other threads
\* alone.
LEMMA UseLocal ==
  ASSUME NEW t \in Thread, OnceType, Use(t)
  PROVE  /\ Returned(t)
         /\ UNCHANGED <<once, opc, alive>>
         /\ pc' \in [Thread -> {"client", "spin", "set_owner", "clear_owner",
                                "release"}]
         /\ \A u \in Thread : u # t => pc'[u] = pc[u]
<1> USE DEF OnceType, Goto, spin_acq_lock
<1>1. CASE Spin(t)
      BY <1>1 DEF Use, Spin
<1>2. CASE SetOwner(t) \/ ClearOwner(t) \/ Release(t)
      BY <1>2 DEF Use, SetOwner, ClearOwner, Release
<1>3. CASE LockCall(t)
      BY <1>3 DEF Use, LockCall
<1>4. CASE TryLock(t)
      BY <1>4 DEF Use, TryLock
<1>5. CASE Unlock(t)
      BY <1>5 DEF Use, Unlock
<1>6. QED
      BY <1>1, <1>2, <1>3, <1>4, <1>5 DEF Use, Library

\* Every step of thread_once and of its client keeps the invariant.
LEMMA NextOnceInv == OnceInv /\ [OnceNext]_onceVars => OnceInv'
<1> SUFFICES ASSUME OnceInv, [OnceNext]_onceVars PROVE OnceInv'
    OBVIOUS
<1> USE DEF OnceInv, OnceType, NotYet, OneRoutine, UseLater, Returned,
            THREAD_ONCE_INIT
<1>1. ASSUME NEW t \in Thread, OnceCall(t) PROVE OnceInv'
      BY <1>1 DEF OnceCall, vars
<1>2. ASSUME NEW t \in Thread, InitRoutine(t) PROVE OnceInv'
      BY <1>2 DEF InitRoutine, spin_init
<1>3. ASSUME NEW t \in Thread, Use(t) PROVE OnceInv'
      BY <1>3, UseLocal
<1>4. ASSUME NEW t \in Thread, StartAgain(t) PROVE OnceInv'
      BY <1>4 DEF StartAgain, SpinDestroy
<1>5. CASE UNCHANGED onceVars
      BY <1>5 DEF onceVars, vars
<1>6. QED
      BY <1>1, <1>2, <1>3, <1>4, <1>5 DEF OnceNext

\* The control variable, the winner of thread_once and the object stay consistent.
THEOREM OnceInvariance == OnceSpec => []OnceInv
<1>1. OnceInit => OnceInv
      BY DEF OnceInit, Init, OnceInv, OnceType, NotYet, OneRoutine, UseLater,
         THREAD_ONCE_INIT
<1>2. QED
      BY <1>1, NextOnceInv, PTL DEF OnceSpec

\* Whatever threads race in thread_once, the spinlock its routine creates is
\* initialized when it does not exist and nobody uses it.
THEOREM OnceSafe == OnceSpec => UsesSpinLock
<1>1. OnceInit => Init
      BY DEF OnceInit
<1>2. OnceInv /\ [OnceNext]_onceVars => [Next]_vars
  <2> SUFFICES ASSUME OnceInv, [OnceNext]_onceVars PROVE [Next]_vars
      OBVIOUS
  <2>1. ASSUME NEW t \in Thread, OnceCall(t) PROVE UNCHANGED vars
        BY <2>1 DEF OnceCall
  <2>2. ASSUME NEW t \in Thread, InitRoutine(t) PROVE SpinInit(t)
        BY <2>2 DEF InitRoutine, SpinInit, OnceInv, OneRoutine, UseLater, Returned
  <2>3. ASSUME NEW t \in Thread, Use(t) PROVE Library(t) \/ Client(t)
        BY <2>3 DEF Use, Client
  <2>4. ASSUME NEW t \in Thread, StartAgain(t) PROVE SpinDestroy(t)
        BY <2>4 DEF StartAgain
  <2>5. CASE UNCHANGED onceVars
        BY <2>5 DEF onceVars
  <2>6. QED
        BY <2>1, <2>2, <2>3, <2>4, <2>5 DEF OnceNext, Next, Client
<1>3. QED
      BY <1>1, <1>2, OnceInvariance, PTL DEF OnceSpec, UsesSpinLock, Spec

\* The spinlock that thread_once initializes is a mutex to all the threads that
\* raced for it.
THEOREM OnceMutex == OnceSpec => ImplementsMutex /\ []OwnerAlone
  BY OnceSafe, Refinement, OwnerCorrect, PTL DEF UsesSpinLock
=============================================================================
