-------------------------------- MODULE Once --------------------------------
(***************************************************************************)
(* thread_once (hybrid/src/thread_cntl.c; the same code in the one-one and *)
(* the many-many library), used for what it is for: its init_routine       *)
(* creates an object that all threads share, here the spinlock of module   *)
(* SpinLock.  The caller that wins the compare-and-swap runs the routine;  *)
(* the others return THREAD_FAIL at once, whether it is done or not, and   *)
(* use the object when they find it there.                                 *)
(***************************************************************************)
EXTENDS Integers, SpinLock

VARIABLES once,   \* *once_control
          opc     \* opc[t]: where t is in thread_once, and what it returned

onceVars == <<once, opc, vars>>

THREAD_ONCE_INIT == -1

OnceInit == /\ Init
            /\ once = THREAD_ONCE_INIT
            /\ opc = [t \in Thread |-> "start"]

Returned(t) == opc[t] \in {"success", "fail"}

-----------------------------------------------------------------------------
\* Mutant of OnceCall: the word is set without a look at its old value.
OnceCallBlind(t) ==
  /\ opc[t] = "start"
  /\ once' = 0
  /\ opc' = [opc EXCEPT ![t] = "routine"]
  /\ UNCHANGED vars

\* Mutant of OnceCall: the result of the compare-and-swap is negated.
OnceCallInverted(t) ==
  /\ opc[t] = "start"
  /\ \/ /\ once = THREAD_ONCE_INIT
        /\ once' = 0
        /\ opc' = [opc EXCEPT ![t] = "fail"]
     \/ /\ once # THREAD_ONCE_INIT
        /\ opc' = [opc EXCEPT ![t] = "routine"]
        /\ UNCHANGED once
  /\ UNCHANGED vars

\* atomic_cas(once_control, -1, 0)
OnceCall(t) ==
  /\ opc[t] = "start"
  /\ \/ /\ once = THREAD_ONCE_INIT
        /\ once' = 0
        /\ opc' = [opc EXCEPT ![t] = "routine"]
     \/ /\ once # THREAD_ONCE_INIT
        /\ opc' = [opc EXCEPT ![t] = "fail"]
        /\ UNCHANGED once
  /\ UNCHANGED vars

\* init_routine() calls thread_spin_init.
InitRoutine(t) ==
  /\ opc[t] = "routine"
  /\ opc' = [opc EXCEPT ![t] = "success"]
  /\ spin_init
  /\ UNCHANGED <<once, pc, holds>>

-----------------------------------------------------------------------------
(* The client                                                              *)

Use(t) == /\ Returned(t)
          /\ Library(t) \/ LockCall(t) \/ TryLock(t) \/ Unlock(t)
          /\ UNCHANGED <<once, opc>>

\* The spinlock is destroyed and the program sets once_control to
\* THREAD_ONCE_INIT to start again.
StartAgain(t) == /\ \A u \in Thread : Returned(u)
                 /\ SpinDestroy(t)
                 /\ once' = THREAD_ONCE_INIT
                 /\ opc' = [u \in Thread |-> "start"]

OnceNext == \E t \in Thread :
              OnceCall(t) \/ InitRoutine(t) \/ Use(t) \/ StartAgain(t)

OnceSpec == OnceInit /\ [][OnceNext]_onceVars

\* The kernel runs every thread; the init_routine returns.
FairOnceSpec == OnceSpec /\ \A t \in Thread : WF_onceVars(InitRoutine(t))

-----------------------------------------------------------------------------
(* Properties                                                              *)

\* Whatever threads race in thread_once, the program is one that SpinLock
\* allows: in particular nobody initializes a spinlock that exists, free or held.
UsesSpinLock == Spec

\* A thread whose thread_once returned THREAD_FAIL can count on the object: the
\* routine is run, by somebody else.
OnceInitializes == \A t \in Thread : opc[t] = "fail" ~> alive

\* A thread that has returned from thread_once, with whatever result, finds the
\* object initialized.
ReadyOnReturn == \A t \in Thread : Returned(t) => alive
=============================================================================
