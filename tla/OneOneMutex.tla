---------------------------- MODULE OneOneMutex ----------------------------
(***************************************************************************)
(* The mutex of the one-one library (one-one/src/thread_sync.c).  A        *)
(* ThreadMutex is a lock word driven by compare-and-swap, an owner field   *)
(* written outside any lock, and the futex queue the kernel keeps for the  *)
(* word.  Every thread is a kernel thread: a step is one access to shared  *)
(* memory or one futex system call, and any interleaving may happen.       *)
(***************************************************************************)
CONSTANTS Thread,   \* the threads that share the mutex
          NULL      \* the null thread handle

ASSUME NullAssumption == NULL \notin Thread

MUTEX_ACQUIRED     == 0
MUTEX_NOT_ACQUIRED == 1

VARIABLES alive,    \* the mutex object is allocated and initialized
          lock,     \* mutex->lock, the futex word
          owner,    \* mutex->owner
          asleep,   \* the threads the kernel keeps in the word's futex queue
          state,    \* state[t]: the descriptor's state field
          pc,       \* pc[t]: where t is in the library; "client" when outside
          holds     \* the threads that returned from an acquire and have not
                    \* yet passed the owner check of a release: the client's view

vars == <<alive, lock, owner, asleep, state, pc, holds>>

Label == {"client", "lock_cas", "futex_wait", "asleep", "awake", "set_owner",
          "clear_owner", "release", "wake", "wake_late"}

TypeOK == /\ alive \in BOOLEAN
          /\ lock \in {MUTEX_ACQUIRED, MUTEX_NOT_ACQUIRED}
          /\ owner \in Thread \cup {NULL}
          /\ asleep \subseteq Thread
          /\ state \in [Thread -> {"RUNNING", "WAIT_MUTEX"}]
          /\ pc \in [Thread -> Label]
          /\ holds \subseteq Thread

Init == /\ alive = FALSE
        /\ lock = MUTEX_NOT_ACQUIRED
        /\ owner = NULL
        /\ asleep = {}
        /\ state = [t \in Thread |-> "RUNNING"]
        /\ pc = [t \in Thread |-> "client"]
        /\ holds = {}

Goto(t, l) == pc' = [pc EXCEPT ![t] = l]

-----------------------------------------------------------------------------
(* thread_mutex_init, thread_mutex_destroy.  The caller owns the object    *)
(* while it initializes it, and destroys it only when no thread holds it   *)
(* or is inside a call on it, but for one: whoever gets the mutex last may *)
(* destroy it while the thread that released it has yet to call mut_wake.  *)

MutexInit(t) == /\ pc[t] = "client"
                /\ ~alive
                /\ alive' = TRUE
                /\ owner' = NULL
                /\ lock' = MUTEX_NOT_ACQUIRED
                /\ UNCHANGED <<asleep, state, pc, holds>>

MutexDestroy(t) == /\ alive
                   /\ holds = {}
                   /\ \A u \in Thread : pc[u] \in {"client", "wake", "wake_late"}
                   /\ alive' = FALSE
                   /\ pc' = [u \in Thread |->
                               IF pc[u] = "wake" THEN "wake_late" ELSE pc[u]]
                   /\ UNCHANGED <<lock, owner, asleep, state, holds>>

-----------------------------------------------------------------------------
(* thread_mutex_lock                                                       *)

LockCall(t) == /\ pc[t] = "client"
               /\ alive
               /\ Goto(t, "lock_cas")
               /\ UNCHANGED <<alive, lock, owner, asleep, state, holds>>

\* while (!mut_acq_lock(*mutex)): the compare-and-swap of the loop condition.
LockCas(t) ==
  /\ pc[t] = "lock_cas"
  /\ \/ /\ lock = MUTEX_NOT_ACQUIRED
        /\ lock' = MUTEX_ACQUIRED
        /\ Goto(t, "set_owner")
        /\ UNCHANGED state
     \/ /\ lock = MUTEX_ACQUIRED
        /\ state' = [state EXCEPT ![t] = "WAIT_MUTEX"]
        /\ Goto(t, "futex_wait")
        /\ UNCHANGED lock
  /\ UNCHANGED <<alive, owner, asleep, holds>>

\* Mutant of FutexWait: a sleep that does not compare the word first.
FutexWaitUnchecked(t) ==
  /\ pc[t] = "futex_wait"
  /\ asleep' = asleep \cup {t}
  /\ Goto(t, "asleep")
  /\ UNCHANGED <<alive, lock, owner, state, holds>>

\* mut_wait: the kernel compares the word and queues the thread in one step,
\* or refuses at once (EAGAIN) because the word has changed.
FutexWait(t) ==
  /\ pc[t] = "futex_wait"
  /\ \/ /\ lock = MUTEX_ACQUIRED
        /\ asleep' = asleep \cup {t}
        /\ Goto(t, "asleep")
     \/ /\ lock # MUTEX_ACQUIRED
        /\ Goto(t, "awake")
        /\ UNCHANGED asleep
  /\ UNCHANGED <<alive, lock, owner, state, holds>>

\* A signal handled by the sleeper ends the system call early (EINTR).
FutexInterrupted(t) ==
  /\ pc[t] = "asleep"
  /\ asleep' = asleep \ {t}
  /\ Goto(t, "awake")
  /\ UNCHANGED <<alive, lock, owner, state, holds>>

\* Mutant of LockRetry: the loop is an if, as if the wake-up were the grant.
LockRetryAssumed(t) ==
  /\ pc[t] = "awake"
  /\ state' = [state EXCEPT ![t] = "RUNNING"]
  /\ Goto(t, "set_owner")
  /\ UNCHANGED <<alive, lock, owner, asleep, holds>>

LockRetry(t) ==
  /\ pc[t] = "awake"
  /\ state' = [state EXCEPT ![t] = "RUNNING"]
  /\ Goto(t, "lock_cas")
  /\ UNCHANGED <<alive, lock, owner, asleep, holds>>

\* mut_set_owner after a successful compare-and-swap, then THREAD_SUCCESS.
SetOwner(t) ==
  /\ pc[t] = "set_owner"
  /\ owner' = t
  /\ holds' = holds \cup {t}
  /\ Goto(t, "client")
  /\ UNCHANGED <<alive, lock, asleep, state>>

-----------------------------------------------------------------------------
(* thread_mutex_trylock: the same compare-and-swap, tried once; the second *)
(* disjunct returns EBUSY.                                                 *)

TryLock(t) ==
  /\ pc[t] = "client"
  /\ alive
  /\ \/ /\ lock = MUTEX_NOT_ACQUIRED
        /\ lock' = MUTEX_ACQUIRED
        /\ Goto(t, "set_owner")
     \/ /\ lock = MUTEX_ACQUIRED
        /\ UNCHANGED <<lock, pc>>
  /\ UNCHANGED <<alive, owner, asleep, state, holds>>

-----------------------------------------------------------------------------
(* thread_mutex_unlock.  Any thread may call it; the owner field decides.  *)

\* Mutant of Unlock: the owner check is dropped.
UnlockUnchecked(t) ==
  /\ pc[t] = "client"
  /\ alive
  /\ holds' = holds \ {t}
  /\ Goto(t, "clear_owner")
  /\ UNCHANGED <<alive, lock, owner, asleep, state>>

\* The owner check; the second disjunct returns EACCES.
Unlock(t) ==
  /\ pc[t] = "client"
  /\ alive
  /\ \/ /\ owner = t
        /\ holds' = holds \ {t}
        /\ Goto(t, "clear_owner")
     \/ /\ owner # t
        /\ UNCHANGED <<holds, pc>>
  /\ UNCHANGED <<alive, lock, owner, asleep, state>>

\* Mutant of ClearOwner: the owner field is left as it is.
ClearOwnerMissing(t) ==
  /\ pc[t] = "clear_owner"
  /\ Goto(t, "release")
  /\ UNCHANGED <<alive, lock, owner, asleep, state, holds>>

\* mut_set_owner(NULL), while the word is still acquired.
ClearOwner(t) ==
  /\ pc[t] = "clear_owner"
  /\ owner' = NULL
  /\ Goto(t, "release")
  /\ UNCHANGED <<alive, lock, asleep, state, holds>>

\* mut_rel_lock: a compare-and-swap whose result is not looked at.
Release(t) ==
  /\ pc[t] = "release"
  /\ lock' = MUTEX_NOT_ACQUIRED
  /\ Goto(t, "wake")
  /\ UNCHANGED <<alive, owner, asleep, state, holds>>

\* Mutant of Wake: no sleeper is woken.
WakeMissing(t) ==
  /\ pc[t] = "wake"
  /\ Goto(t, "client")
  /\ UNCHANGED <<alive, lock, owner, asleep, state, holds>>

\* mut_wake: the kernel wakes one sleeper, if there is one.
Wake(t) ==
  /\ pc[t] = "wake"
  /\ \/ \E u \in asleep :
          /\ asleep' = asleep \ {u}
          /\ pc' = [pc EXCEPT ![t] = "client", ![u] = "awake"]
     \/ /\ asleep = {}
        /\ Goto(t, "client")
        /\ UNCHANGED asleep
  /\ UNCHANGED <<alive, lock, owner, state, holds>>

\* mut_wake of a mutex destroyed since it was released: only the address is used.
\* A sleeper of the mutex that is there by now may be woken for nothing.
WakeLate(t) ==
  /\ pc[t] = "wake_late"
  /\ \/ \E u \in asleep :
          /\ asleep' = asleep \ {u}
          /\ pc' = [pc EXCEPT ![t] = "client", ![u] = "awake"]
     \/ /\ Goto(t, "client")
        /\ UNCHANGED asleep
  /\ UNCHANGED <<alive, lock, owner, state, holds>>

-----------------------------------------------------------------------------
(* A step inside the library, which the kernel's scheduling brings about   *)
(* in the end, and a call, which the client may or may not make.           *)

Library(t) == \/ LockCas(t) \/ FutexWait(t) \/ LockRetry(t) \/ SetOwner(t)
              \/ ClearOwner(t) \/ Release(t) \/ Wake(t) \/ WakeLate(t)

Client(t) == \/ MutexInit(t) \/ MutexDestroy(t) \/ LockCall(t) \/ TryLock(t)
             \/ Unlock(t)

Next == \E t \in Thread : Library(t) \/ Client(t) \/ FutexInterrupted(t)

Spec == Init /\ [][Next]_vars

\* Kernel threads are scheduled preemptively: none is held back for ever.
FairSpec == Spec /\ \A t \in Thread : WF_vars(Library(t))

-----------------------------------------------------------------------------
(* Properties                                                              *)

\* t has won the compare-and-swap and has not yet undone it.
Inside(t) == \/ t \in holds
             \/ pc[t] \in {"set_owner", "clear_owner", "release"}

\* The threads inside thread_mutex_lock that have not won yet.
Asking == {t \in Thread : pc[t] \in {"lock_cas", "futex_wait", "asleep", "awake"}}

\* Between a successful thread_mutex_lock or thread_mutex_trylock and the
\* thread_mutex_unlock that ends it, a thread is alone in its critical section,
\* although sleepers are woken while newcomers may take the word first.
MutualExclusion == \A t, u \in Thread : Inside(t) /\ Inside(u) => t = u

\* The owner field, written outside the compare-and-swap and read by every
\* caller of thread_mutex_unlock without a lock, names exactly the thread that
\* may release: never an earlier owner, never one that is still asking.
OwnerIsHolder ==
  \A t \in Thread : owner = t <=> t \in holds \/ pc[t] = "clear_owner"

\* Whenever the word is free and threads sleep on it, some thread is about to
\* issue mut_wake or to retry the compare-and-swap, so that nobody sleeps on
\* a free mutex: a release that slips between the failed compare-and-swap and
\* the futex call is not lost.
NoLostWakeup ==
  lock = MUTEX_NOT_ACQUIRED /\ asleep # {} =>
    \E t \in Thread : pc[t] \in {"wake", "awake", "lock_cas"}

\* A free mutex with sleepers is acquired again: thread_mutex_unlock "provides
\* the access to the lock to another thread which has been waiting".
FreeMutexTaken ==
  lock = MUTEX_NOT_ACQUIRED /\ asleep # {} ~> lock = MUTEX_ACQUIRED

\* The thread that is inside, the holder of the abstract mutex.
Holder == IF \E t \in Thread : Inside(t)
          THEN CHOOSE t \in Thread : Inside(t) ELSE NULL

\* The lock word, the owner field and the futex queue together implement the
\* mutex of MutexSpec: one grant per release, to a thread that asked.
Abstract == INSTANCE MutexSpec
              WITH NoOne <- NULL, holder <- Holder, asking <- Asking

ImplementsMutex == Abstract!Spec
=============================================================================
