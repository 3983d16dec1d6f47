------------------------------ MODULE SpinLock ------------------------------
(***************************************************************************)
(* The spinlock of all three libraries (hybrid/src/thread_sync.c; the      *)
(* one-one and the many-many library have the same code).  A lock word is  *)
(* driven by compare-and-swap; the owner field is written and read outside *)
(* it.  A step is one access to shared memory.                             *)
(***************************************************************************)
CONSTANTS Thread,   \* the threads that share the spinlock
          NULL      \* the null thread handle

ASSUME NullAssumption == NULL \notin Thread

SPINLOCK_ACQUIRED     == 0
SPINLOCK_NOT_ACQUIRED == 1

VARIABLES alive,    \* the spinlock object is allocated and initialized
          lock,     \* spinlock->lock
          owner,    \* spinlock->owner
          pc,       \* pc[t]: where t is in the library; "client" when outside
          holds     \* the threads that returned from an acquire and have not
                    \* yet passed the owner check of a release

vars == <<alive, lock, owner, pc, holds>>

TypeOK ==
  /\ alive \in BOOLEAN
  /\ lock \in {SPINLOCK_ACQUIRED, SPINLOCK_NOT_ACQUIRED}
  /\ owner \in Thread \cup {NULL}
  /\ pc \in [Thread -> {"client", "spin", "set_owner", "clear_owner", "release"}]
  /\ holds \subseteq Thread

Init == /\ alive = FALSE
        /\ lock = SPINLOCK_NOT_ACQUIRED
        /\ owner = NULL
        /\ pc = [t \in Thread |-> "client"]
        /\ holds = {}

Goto(t, l) == pc' = [pc EXCEPT ![t] = l]

\* spin_acq_lock: the compare-and-swap that succeeds.
spin_acq_lock(t) == /\ lock = SPINLOCK_NOT_ACQUIRED
                    /\ lock' = SPINLOCK_ACQUIRED
                    /\ Goto(t, "set_owner")

-----------------------------------------------------------------------------
(* thread_spin_init and thread_spin_destroy, called by a thread that has   *)
(* the object to itself.                                                   *)

\* spin_alloc and spin_init: what thread_spin_init stores.
spin_init == /\ alive' = TRUE
             /\ owner' = NULL
             /\ lock' = SPINLOCK_NOT_ACQUIRED

SpinInit(t) == /\ pc[t] = "client"
               /\ ~alive
               /\ spin_init
               /\ UNCHANGED <<pc, holds>>

SpinDestroy(t) == /\ alive
                  /\ holds = {}
                  /\ \A u \in Thread : pc[u] = "client"
                  /\ alive' = FALSE
                  /\ UNCHANGED <<lock, owner, pc, holds>>

-----------------------------------------------------------------------------
(* thread_spin_lock, thread_spin_trylock                                   *)

LockCall(t) == /\ pc[t] = "client"
               /\ alive
               /\ Goto(t, "spin")
               /\ UNCHANGED <<alive, lock, owner, holds>>

\* Mutant of Spin: the lock word is read and then set, without compare-and-swap.
SpinBlind(t) == /\ pc[t] = "spin"
                /\ lock' = SPINLOCK_ACQUIRED
                /\ Goto(t, "set_owner")
                /\ UNCHANGED <<alive, owner, holds>>

\* while (!spin_acq_lock(*spinlock)): a failed attempt changes nothing.
Spin(t) == /\ pc[t] = "spin"
           /\ \/ spin_acq_lock(t)
              \/ lock = SPINLOCK_ACQUIRED /\ UNCHANGED <<lock, pc>>
           /\ UNCHANGED <<alive, owner, holds>>

\* One attempt; the second disjunct returns EBUSY.
TryLock(t) == /\ pc[t] = "client"
              /\ alive
              /\ \/ spin_acq_lock(t)
                 \/ lock = SPINLOCK_ACQUIRED /\ UNCHANGED <<lock, pc>>
              /\ UNCHANGED <<alive, owner, holds>>

\* spin_set_owner, then THREAD_SUCCESS.
SetOwner(t) == /\ pc[t] = "set_owner"
               /\ owner' = t
               /\ holds' = holds \cup {t}
               /\ Goto(t, "client")
               /\ UNCHANGED <<alive, lock>>

-----------------------------------------------------------------------------
(* thread_spin_unlock                                                      *)

\* The owner check; the second disjunct returns EACCES.
Unlock(t) == /\ pc[t] = "client"
             /\ alive
             /\ \/ owner = t /\ holds' = holds \ {t} /\ Goto(t, "clear_owner")
                \/ owner # t /\ UNCHANGED <<holds, pc>>
             /\ UNCHANGED <<alive, lock, owner>>

\* Mutant of ClearOwner: the lock word is released before the owner is cleared.
ClearOwnerLate(t) == /\ pc[t] = "clear_owner"
                     /\ lock' = SPINLOCK_NOT_ACQUIRED
                     /\ Goto(t, "release")
                     /\ UNCHANGED <<alive, owner, holds>>

ClearOwner(t) == /\ pc[t] = "clear_owner"
                 /\ owner' = NULL
                 /\ Goto(t, "release")
                 /\ UNCHANGED <<alive, lock, holds>>

\* spin_rel_lock: a compare-and-swap whose result is not looked at.
Release(t) == /\ pc[t] = "release"
              /\ lock' = SPINLOCK_NOT_ACQUIRED
              /\ Goto(t, "client")
              /\ UNCHANGED <<alive, owner, holds>>

-----------------------------------------------------------------------------
Library(t) == Spin(t) \/ SetOwner(t) \/ ClearOwner(t) \/ Release(t)

Client(t) == \/ SpinInit(t) \/ SpinDestroy(t) \/ LockCall(t) \/ TryLock(t)
             \/ Unlock(t)

Next == \E t \in Thread : Library(t) \/ Client(t)

Spec == Init /\ [][Next]_vars

-----------------------------------------------------------------------------
(* Properties                                                              *)

\* t has won the compare-and-swap and has not yet undone it.
Inside(t) == \/ t \in holds
             \/ pc[t] \in {"set_owner", "clear_owner", "release"}

\* The owner field, which thread_spin_unlock reads without having the lock,
\* names exactly the thread that may release, and that thread is alone inside.
OwnerAlone ==
  /\ \A t, u \in Thread : Inside(t) /\ Inside(u) => t = u
  /\ \A t \in Thread : owner = t <=> t \in holds \/ pc[t] = "clear_owner"

\* The thread that is inside, the holder of the abstract mutex.
Holder == IF \E t \in Thread : Inside(t)
          THEN CHOOSE t \in Thread : Inside(t) ELSE NULL

Abstract == INSTANCE MutexSpec
              WITH NoOne <- NULL, holder <- Holder,
                   asking <- {t \in Thread : pc[t] = "spin"}

\* The lock word and the owner field together implement the mutex of MutexSpec.
ImplementsMutex == Abstract!Spec
=============================================================================
