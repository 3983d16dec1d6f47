--------------------------- MODULE SpinLockProofs ---------------------------
(***************************************************************************)
(* Proofs, for every set of threads, that the owner field and the lock     *)
(* word of the spinlock agree and that together they refine MutexSpec.     *)
(***************************************************************************)
EXTENDS SpinLock, TLAPS

\* The word is acquired whenever some thread is inside, and a thread on its way
\* in or out is not in its critical section.
InsideHasWord ==
  /\ \A t \in Thread : Inside(t) => lock = SPINLOCK_ACQUIRED
  /\ \A t \in holds : pc[t] \in {"client", "spin"}

\* A destroyed or not yet initialized spinlock is used by nobody.
DeadIsUnused == ~alive => holds = {} /\ \A t \in Thread : pc[t] = "client"

\* The inductive invariant.
IInv == TypeOK /\ InsideHasWord /\ OwnerAlone /\ DeadIsUnused

\* The invariant holds before thread_spin_init and every step keeps it.
THEOREM Invariance == Spec => []IInv
<1> USE NullAssumption
    DEF IInv, TypeOK, InsideHasWord, OwnerAlone, DeadIsUnused, Inside, Goto,
        spin_acq_lock, SPINLOCK_ACQUIRED, SPINLOCK_NOT_ACQUIRED
<1>1. Init => IInv
      BY DEF Init
<1>2. IInv /\ [Next]_vars => IInv'
  <2> SUFFICES ASSUME IInv, [Next]_vars PROVE IInv'
      OBVIOUS
  <2>1. ASSUME NEW t \in Thread, SpinInit(t) \/ SpinDestroy(t) PROVE IInv'
        BY <2>1 DEF SpinInit, spin_init, SpinDestroy
  <2>2. ASSUME NEW t \in Thread, LockCall(t) PROVE IInv'
        BY <2>2 DEF LockCall
  <2>3. ASSUME NEW t \in Thread, Spin(t) PROVE IInv'
        BY <2>3 DEF Spin
  <2>4. ASSUME NEW t \in Thread, TryLock(t) PROVE IInv'
        BY <2>4 DEF TryLock
  <2>5. ASSUME NEW t \in Thread, SetOwner(t) PROVE IInv'
        BY <2>5 DEF SetOwner
  <2>6. ASSUME NEW t \in Thread, Unlock(t) PROVE IInv'
        BY <2>6 DEF Unlock
  <2>7. ASSUME NEW t \in Thread, ClearOwner(t) PROVE IInv'
        BY <2>7 DEF ClearOwner
  <2>8. ASSUME NEW t \in Thread, Release(t) PROVE IInv'
        BY <2>8 DEF Release
  <2>9. CASE UNCHANGED vars
        BY <2>9 DEF vars
  <2>10. QED
        BY <2>1, <2>2, <2>3, <2>4, <2>5, <2>6, <2>7, <2>8, <2>9
        DEF Next, Library, Client
<1>3. QED
      BY <1>1, <1>2, PTL DEF Spec

\* The owner check of thread_spin_unlock admits the thread that won the
\* compare-and-swap, and nobody else is inside with it.
THEOREM OwnerCorrect == Spec => []OwnerAlone
<1>1. IInv => OwnerAlone
      BY DEF IInv
<1>2. QED
      BY <1>1, Invariance, PTL

-----------------------------------------------------------------------------
\* With one thread inside at most, the abstract holder is that thread.
LEMMA HolderIs ==
  ASSUME OwnerAlone
  PROVE  /\ \A t \in Thread : Holder = t <=> Inside(t)
         /\ Holder = NULL <=> \A t \in Thread : ~Inside(t)
  BY NullAssumption DEF OwnerAlone, Holder

\* The same of the state a step leads to.
LEMMA HolderIsNext ==
  ASSUME OwnerAlone'
  PROVE  /\ \A t \in Thread : Holder' = t <=> Inside(t)'
         /\ Holder' = NULL <=> \A t \in Thread : ~Inside(t)'
  BY NullAssumption DEF OwnerAlone, Holder

\* Every step of the spinlock is a step of MutexSpec or a stutter.
LEMMA StepSimulation ==
  IInv /\ IInv' /\ [Next]_vars => [Abstract!Next]_(Abstract!vars)
<1> DEFINE Asks == {t \in Thread : pc[t] = "spin"}
           Simulated == Abstract!Next \/ UNCHANGED <<Holder, Asks>>
           Quiet == Asks' = Asks /\ \A u \in Thread : Inside(u)' <=> Inside(u)
<1> SUFFICES ASSUME IInv, IInv', [Next]_vars PROVE Simulated
    BY DEF Abstract!vars
<1>0. TypeOK /\ OwnerAlone /\ OwnerAlone' /\ InsideHasWord
      BY DEF IInv
<1>1. ASSUME \A u \in Thread : Inside(u)' <=> Inside(u) PROVE Holder' = Holder
  <2>1. CASE \E t \in Thread : Inside(t)
        BY <1>0, <1>1, <2>1, HolderIs, HolderIsNext
  <2>2. CASE \A t \in Thread : ~Inside(t)
        BY <1>0, <1>1, <2>2, HolderIs, HolderIsNext
  <2>3. QED
        BY <2>1, <2>2
<1>2. ASSUME Quiet PROVE Simulated
      BY <1>1, <1>2
<1> HIDE DEF Simulated
<1> USE DEF Goto
<1>3. ASSUME NEW t \in Thread, LockCall(t) PROVE Simulated
  <2>1. /\ t \notin Asks
        /\ Asks' = Asks \cup {t}
        /\ \A u \in Thread : Inside(u)' <=> Inside(u)
        BY <1>0, <1>3 DEF LockCall, Inside, TypeOK
  <2>2. QED
        BY <2>1, <1>1 DEF Abstract!Next, Abstract!Ask, Simulated
<1>4. ASSUME NEW t \in Thread, Spin(t) \/ TryLock(t) PROVE Simulated
  <2>1. CASE lock = SPINLOCK_NOT_ACQUIRED
    <3>1. /\ Asks' = Asks \ {t}
          /\ \A u \in Thread : ~Inside(u)
          /\ Inside(t)'
          BY <1>0, <1>4, <2>1 DEF Spin, TryLock, spin_acq_lock, Inside, TypeOK,
             InsideHasWord, SPINLOCK_ACQUIRED, SPINLOCK_NOT_ACQUIRED
    <3>2. Holder = NULL /\ Holder' = t
          BY <3>1, <1>0, HolderIs, HolderIsNext
    <3>3. CASE t \in Asks
          BY <3>1, <3>2, <3>3 DEF Abstract!Next, Abstract!Grant, Simulated
    <3>4. CASE t \notin Asks
      <4>1. Asks' = Asks
            BY <3>1, <3>4
      <4>2. QED
            BY <4>1, <3>2, <3>4 DEF Abstract!Next, Abstract!Take, Simulated
    <3>5. QED
          BY <3>3, <3>4
  <2>2. CASE lock # SPINLOCK_NOT_ACQUIRED
    <3>1. Quiet
          BY <1>0, <1>4, <2>2 DEF Spin, TryLock, spin_acq_lock, Inside, TypeOK
    <3>2. QED
          BY <3>1, <1>2
  <2>3. QED
        BY <2>1, <2>2
<1>5. ASSUME NEW t \in Thread, Release(t) PROVE Simulated
  <2>1. /\ Asks' = Asks
        /\ Inside(t)
        /\ \A u \in Thread : ~Inside(u)'
        BY <1>0, <1>5 DEF Release, Inside, TypeOK, OwnerAlone, InsideHasWord
  <2>2. Holder = t /\ Holder' = NULL
        BY <2>1, <1>0, HolderIs, HolderIsNext
  <2>3. QED
        BY <2>1, <2>2 DEF Abstract!Next, Abstract!Release, Simulated
<1>6. ASSUME NEW t \in Thread,
             \/ SpinInit(t) \/ SpinDestroy(t) \/ SetOwner(t) \/ Unlock(t)
             \/ ClearOwner(t)
      PROVE  Simulated
  <2>1. Quiet
        BY <1>0, <1>6 DEF SpinInit, spin_init, SpinDestroy, SetOwner, Unlock, ClearOwner,
           Inside, TypeOK, OwnerAlone
  <2>2. QED
        BY <2>1, <1>2
<1>7. ASSUME UNCHANGED vars PROVE Simulated
  <2>1. Quiet
        BY <1>7 DEF vars, Inside
  <2>2. QED
        BY <2>1, <1>2
<1>8. QED
      BY <1>3, <1>4, <1>5, <1>6, <1>7 DEF Next, Library, Client

\* The spinlock implements MutexSpec: one thread has it at a time, and it is
\* given back by that thread only.
THEOREM Refinement == Spec => ImplementsMutex
<1>1. Init => Abstract!Init
      BY DEF Init, Abstract!Init, Holder, Inside
<1>2. IInv /\ IInv' /\ [Next]_vars => [Abstract!Next]_(Abstract!vars)
      BY StepSimulation
<1>3. QED
      BY <1>1, <1>2, Invariance, PTL DEF Spec, ImplementsMutex, Abstract!Spec
=============================================================================
