------------------------- MODULE OneOneMutexProofs -------------------------
(***************************************************************************)
(* Proofs, for every set of threads, of the safety properties of the       *)
(* one-one mutex and of its refinement of MutexSpec.                       *)
(***************************************************************************)
EXTENDS OneOneMutex, TLAPS

\* The word is acquired whenever some thread is inside: what makes a won
\* compare-and-swap exclude everybody else.
InsideHasWord == \A t \in Thread : Inside(t) => lock = MUTEX_ACQUIRED

\* A thread on its way in or out is not in its critical section.
HoldsApart ==
  \A t \in holds : pc[t] \notin {"set_owner", "clear_owner", "release"}

\* The kernel's queue is the set of threads that sleep.
QueueIsSleepers == asleep = {t \in Thread : pc[t] = "asleep"}

\* A destroyed or not yet initialized mutex is used by nobody but late wakers.
DeadIsUnused ==
  ~alive => /\ holds = {}
            /\ \A t \in Thread : pc[t] \in {"client", "wake_late"}

\* The inductive invariant.
IInv == /\ TypeOK
        /\ InsideHasWord
        /\ MutualExclusion
        /\ OwnerIsHolder
        /\ HoldsApart
        /\ QueueIsSleepers
        /\ DeadIsUnused
        /\ NoLostWakeup

\* The state thread_mutex_init is called in satisfies the invariant.
LEMMA InitIInv == Init => IInv
  BY NullAssumption DEF Init, IInv, TypeOK, InsideHasWord, MutualExclusion,
     OwnerIsHolder, HoldsApart, QueueIsSleepers, DeadIsUnused, NoLostWakeup,
     Inside, Label, MUTEX_ACQUIRED, MUTEX_NOT_ACQUIRED

\* Every step of every call keeps the invariant: one case per action.
LEMMA NextIInv == IInv /\ [Next]_vars => IInv'
<1> SUFFICES ASSUME IInv, [Next]_vars PROVE IInv'
    OBVIOUS
<1> USE NullAssumption
    DEF IInv, TypeOK, InsideHasWord, MutualExclusion, OwnerIsHolder,
        HoldsApart, QueueIsSleepers, DeadIsUnused, NoLostWakeup, Inside, Label,
        Goto, MUTEX_ACQUIRED, MUTEX_NOT_ACQUIRED
<1>1. ASSUME NEW t \in Thread, MutexInit(t) PROVE IInv'
      BY <1>1 DEF MutexInit
<1>2. ASSUME NEW t \in Thread, MutexDestroy(t) PROVE IInv'
      BY <1>2 DEF MutexDestroy
<1>3. ASSUME NEW t \in Thread, LockCall(t) PROVE IInv'
      BY <1>3 DEF LockCall
<1>4. ASSUME NEW t \in Thread, LockCas(t) PROVE IInv'
      BY <1>4 DEF LockCas
<1>5. ASSUME NEW t \in Thread, FutexWait(t) PROVE IInv'
      BY <1>5 DEF FutexWait
<1>6. ASSUME NEW t \in Thread, FutexInterrupted(t) PROVE IInv'
      BY <1>6 DEF FutexInterrupted
<1>7. ASSUME NEW t \in Thread, LockRetry(t) PROVE IInv'
      BY <1>7 DEF LockRetry
<1>8. ASSUME NEW t \in Thread, SetOwner(t) PROVE IInv'
      BY <1>8 DEF SetOwner
<1>9. ASSUME NEW t \in Thread, TryLock(t) PROVE IInv'
      BY <1>9 DEF TryLock
<1>10. ASSUME NEW t \in Thread, Unlock(t) PROVE IInv'
      BY <1>10 DEF Unlock
<1>11. ASSUME NEW t \in Thread, ClearOwner(t) PROVE IInv'
      BY <1>11 DEF ClearOwner
<1>12. ASSUME NEW t \in Thread, Release(t) PROVE IInv'
      BY <1>12 DEF Release
<1>13. ASSUME NEW t \in Thread, Wake(t) PROVE IInv'
      BY <1>13 DEF Wake
<1>14. ASSUME NEW t \in Thread, WakeLate(t) PROVE IInv'
      BY <1>14 DEF WakeLate
<1>15. CASE UNCHANGED vars
      BY <1>15 DEF vars
<1>16. QED
      BY <1>1, <1>2, <1>3, <1>4, <1>5, <1>6, <1>7, <1>8, <1>9, <1>10, <1>11,
         <1>12, <1>13, <1>14, <1>15 DEF Next, Library, Client

\* The lock word, the owner field, the futex queue and the threads' places
\* stay consistent in every behaviour of the mutex.
THEOREM Invariance == Spec => []IInv
<1>1. Init => IInv
      BY InitIInv
<1>2. IInv /\ [Next]_vars => IInv'
      BY NextIInv
<1>3. QED
      BY <1>1, <1>2, PTL DEF Spec

\* thread_mutex_lock, trylock and unlock keep every field in its range.
THEOREM TypeCorrect == Spec => []TypeOK
<1>1. IInv => TypeOK
      BY DEF IInv
<1>2. QED
      BY <1>1, Invariance, PTL

\* At most one thread is between winning the compare-and-swap of
\* thread_mutex_lock or trylock and giving the word back in unlock.
THEOREM Exclusion == Spec => []MutualExclusion
<1>1. IInv => MutualExclusion
      BY DEF IInv
<1>2. QED
      BY <1>1, Invariance, PTL

\* The owner check of thread_mutex_unlock admits the holder and nobody else.
THEOREM OwnerCorrect == Spec => []OwnerIsHolder
<1>1. IInv => OwnerIsHolder
      BY DEF IInv
<1>2. QED
      BY <1>1, Invariance, PTL

\* No thread sleeps in mut_wait on a free word unless a wake-up or a retry
\* is on its way.
THEOREM WakeupKept == Spec => []NoLostWakeup
<1>1. IInv => NoLostWakeup
      BY DEF IInv
<1>2. QED
      BY <1>1, Invariance, PTL

-----------------------------------------------------------------------------
(* Refinement.                                                             *)

\* Under mutual exclusion the abstract holder is the thread that is inside,
\* before and after a step.
LEMMA HolderIs ==
  ASSUME MutualExclusion
  PROVE  /\ \A t \in Thread : Holder = t <=> Inside(t)
         /\ Holder = NULL <=> \A t \in Thread : ~Inside(t)
  BY NullAssumption DEF MutualExclusion, Holder

\* The same of the state a step leads to.
LEMMA HolderIsNext ==
  ASSUME MutualExclusion'
  PROVE  /\ \A t \in Thread : Holder' = t <=> Inside(t)'
         /\ Holder' = NULL <=> \A t \in Thread : ~Inside(t)'
  BY NullAssumption DEF MutualExclusion, Holder

\* A step after which the same threads are inside keeps the abstract holder.
LEMMA HolderKept ==
  ASSUME MutualExclusion, MutualExclusion',
         \A t \in Thread : Inside(t)' <=> Inside(t)
  PROVE  Holder' = Holder
<1>1. CASE \E t \in Thread : Inside(t)
      BY <1>1, HolderIs, HolderIsNext
<1>2. CASE \A t \in Thread : ~Inside(t)
      BY <1>2, HolderIs, HolderIsNext
<1>3. QED
      BY <1>1, <1>2

\* Every step of the lock word and the futex queue is a step of MutexSpec or
\* a stutter.
LEMMA StepSimulation ==
  IInv /\ IInv' /\ [Next]_vars => [Abstract!Next]_(Abstract!vars)
<1> SUFFICES ASSUME IInv, IInv', [Next]_vars
             PROVE  Abstract!Next \/ UNCHANGED <<Holder, Asking>>
    BY DEF Abstract!vars
<1> DEFINE Simulated == Abstract!Next \/ UNCHANGED <<Holder, Asking>>
<1>0. /\ TypeOK /\ MutualExclusion /\ MutualExclusion'
      /\ InsideHasWord /\ HoldsApart /\ OwnerIsHolder /\ QueueIsSleepers
      BY DEF IInv
<1> HIDE DEF Simulated
<1> USE DEF Goto
<1>1. ASSUME NEW t \in Thread, LockCall(t) PROVE Simulated
  <2>1. /\ t \notin Asking
        /\ Asking' = Asking \cup {t}
        /\ \A u \in Thread : Inside(u)' <=> Inside(u)
        BY <1>0, <1>1 DEF LockCall, Asking, Inside, TypeOK
  <2>2. Holder' = Holder
        BY <2>1, <1>0, HolderKept
  <2>3. QED
        BY <2>1, <2>2 DEF Abstract!Next, Abstract!Ask, Simulated
<1>2. ASSUME NEW t \in Thread, LockCas(t) PROVE Simulated
  <2>1. CASE lock = MUTEX_NOT_ACQUIRED
    <3>1. /\ t \in Asking
          /\ Asking' = Asking \ {t}
          /\ \A u \in Thread : ~Inside(u)
          /\ Inside(t)'
          BY <1>0, <1>2, <2>1 DEF LockCas, Asking, Inside, TypeOK, InsideHasWord,
             MUTEX_ACQUIRED, MUTEX_NOT_ACQUIRED
    <3>2. Holder = NULL /\ Holder' = t
          BY <3>1, <1>0, HolderIs, HolderIsNext
    <3>3. QED
          BY <3>1, <3>2 DEF Abstract!Next, Abstract!Grant, Simulated
  <2>2. CASE lock # MUTEX_NOT_ACQUIRED
    <3>1. /\ Asking' = Asking
          /\ \A u \in Thread : Inside(u)' <=> Inside(u)
          BY <1>0, <1>2, <2>2 DEF LockCas, Asking, Inside, TypeOK
    <3>2. QED
          BY <3>1, <1>0, HolderKept DEF Simulated
  <2>3. QED
        BY <2>1, <2>2
<1>3. ASSUME NEW t \in Thread, TryLock(t) PROVE Simulated
  <2>1. CASE lock = MUTEX_NOT_ACQUIRED
    <3>1. /\ t \notin Asking
          /\ Asking' = Asking
          /\ \A u \in Thread : ~Inside(u)
          /\ Inside(t)'
          BY <1>0, <1>3, <2>1 DEF TryLock, Asking, Inside, TypeOK, InsideHasWord,
             MUTEX_ACQUIRED, MUTEX_NOT_ACQUIRED
    <3>2. Holder = NULL /\ Holder' = t
          BY <3>1, <1>0, HolderIs, HolderIsNext
    <3>3. QED
          BY <3>1, <3>2 DEF Abstract!Next, Abstract!Take, Simulated
  <2>2. CASE lock # MUTEX_NOT_ACQUIRED
    <3>1. /\ Asking' = Asking
          /\ \A u \in Thread : Inside(u)' <=> Inside(u)
          BY <1>0, <1>3, <2>2 DEF TryLock, Asking, Inside, TypeOK
    <3>2. QED
          BY <3>1, <1>0, HolderKept DEF Simulated
  <2>3. QED
        BY <2>1, <2>2
<1>4. ASSUME NEW t \in Thread, Release(t) PROVE Simulated
  <2>1. /\ Asking' = Asking
        /\ Inside(t)
        /\ \A u \in Thread : u # t => ~Inside(u)
        /\ \A u \in Thread : u # t => (Inside(u)' <=> Inside(u))
        /\ ~Inside(t)'
        BY <1>0, <1>4 DEF Release, Asking, Inside, TypeOK, MutualExclusion,
           HoldsApart
  <2>2. Holder = t /\ Holder' = NULL
        BY <2>1, <1>0, HolderIs, HolderIsNext
  <2>3. QED
        BY <2>1, <2>2 DEF Abstract!Next, Abstract!Release, Simulated
<1>5. ASSUME NEW t \in Thread,
             \/ MutexInit(t) \/ MutexDestroy(t) \/ FutexWait(t)
             \/ FutexInterrupted(t) \/ LockRetry(t) \/ SetOwner(t)
             \/ Unlock(t) \/ ClearOwner(t) \/ Wake(t) \/ WakeLate(t)
      PROVE  Simulated
  <2>1. /\ Asking' = Asking
        /\ \A u \in Thread : Inside(u)' <=> Inside(u)
    <3>1. CASE MutexInit(t) \/ MutexDestroy(t) \/ FutexWait(t)
          BY <1>0, <3>1 DEF MutexInit, MutexDestroy, FutexWait, Asking, Inside,
             TypeOK
    <3>2. CASE FutexInterrupted(t) \/ LockRetry(t) \/ Wake(t) \/ WakeLate(t)
          BY <1>0, <3>2 DEF FutexInterrupted, LockRetry, Wake, WakeLate, Asking,
             Inside, TypeOK, QueueIsSleepers
    <3>3. CASE SetOwner(t) \/ Unlock(t) \/ ClearOwner(t)
          BY <1>0, <3>3 DEF SetOwner, Unlock, ClearOwner, Asking, Inside,
             TypeOK, OwnerIsHolder
    <3>4. QED
          BY <1>5, <3>1, <3>2, <3>3
  <2>2. QED
        BY <2>1, <1>0, HolderKept DEF Simulated
<1>6. ASSUME UNCHANGED vars PROVE Simulated
  <2>1. /\ Asking' = Asking
        /\ \A u \in Thread : Inside(u)' <=> Inside(u)
        BY <1>6 DEF vars, Asking, Inside
  <2>2. QED
        BY <2>1, <1>0, HolderKept DEF Simulated
<1>7. Simulated
      BY <1>1, <1>2, <1>3, <1>4, <1>5, <1>6 DEF Next, Library, Client
<1>8. QED
      BY <1>7 DEF Simulated

\* The one-one mutex implements MutexSpec: the mutex is granted to one thread
\* at a time, to a thread that asked or tried, and given back by its holder.
THEOREM Refinement == Spec => ImplementsMutex
<1>1. Init => Abstract!Init
      BY DEF Init, Abstract!Init, Holder, Inside, Asking
<1>2. IInv /\ IInv' /\ [Next]_vars => [Abstract!Next]_(Abstract!vars)
      BY StepSimulation
<1>3. QED
      BY <1>1, <1>2, Invariance, PTL DEF Spec, ImplementsMutex, Abstract!Spec
=============================================================================
