------------------------------- MODULE MMSync -------------------------------
(***************************************************************************)
(* The mutex of the many-many library (many-many/src/thread_sync.c): an    *)
(* owner, a list of waiting threads and a member lock.  A release with     *)
(* waiters hands the mutex to the first of them.  The member lock is taken *)
(* with interrupts on, so its holder may be preempted.                     *)
(***************************************************************************)
EXTENDS MMDescr

\* mut_lock: the first thread to see the member lock free takes it.
mut_lock(k, t, from, to) ==
  LET m == ut[t].arg IN
  /\ At(k, t, from)
  /\ mut[m].mem_lock = NULL
  /\ mut' = [mut EXCEPT ![m].mem_lock = t]
  /\ Goto(t, to)
  /\ UNCHANGED <<td, mmrll, mmrll_lk, kt, enabled, mpc, inCS, sent, got>>

-----------------------------------------------------------------------------
(* thread_mutex_init, thread_mutex_destroy                                 *)

MutexInit(k, t, m) ==
  /\ Calls(k, t, "init")
  /\ mut[m].mem = "none"
  /\ mut' = [mut EXCEPT ![m] = mut_init]
  /\ UNCHANGED <<td, mmrll, mmrll_lk, kt, ut, enabled, mpc, inCS, sent, got>>

\* t may still acquire m, or has not yet given it back.
Wants(t, m) == \/ t \in inCS[m]
               \/ /\ ut[t].arg = m
                  /\ ut[t].pc \in {"lock_spin", "lock_check", "lock_queue",
                                   "lock_wait", "try_spin", "try_check",
                                   "unlock_spin", "unlock_check"}

\* A client destroys a mutex that nobody wants any more; it cannot know whether
\* an earlier holder has returned from its thread_mutex_unlock.
MutexDestroy(k, t, m) ==
  /\ Calls(k, t, "destroy")
  /\ mut[m].mem = "live"
  /\ \A u \in Thread : ~Wants(u, m)
  /\ mut' = [mut EXCEPT ![m].mem = "none"]
  /\ UNCHANGED <<td, mmrll, mmrll_lk, kt, ut, enabled, mpc, inCS, sent, got>>

-----------------------------------------------------------------------------
\* The client of t makes the call op on the mutex m.
MutexCall(k, t, m, op, l) ==
  /\ Calls(k, t, op)
  /\ mut[m].mem = "live"
  /\ ut' = [ut EXCEPT ![t] = [pc |-> l, arg |-> m]]
  /\ UNCHANGED <<td, mut, mmrll, mmrll_lk, kt, enabled, mpc, inCS, sent, got>>

\* The free mutex m becomes t's, the member lock is released and the call
\* returns THREAD_SUCCESS.
TakeFree(t, m) ==
  /\ mut[m].owner = NULL
  /\ mut' = [mut EXCEPT ![m].owner = t, ![m].mem_lock = NULL]
  /\ inCS' = [inCS EXCEPT ![m] = @ \cup {t}]
  /\ Return(t)

-----------------------------------------------------------------------------
(* thread_mutex_lock                                                       *)

LockCall(k, t, m) == MutexCall(k, t, m, "lock", "lock_spin")

LockSpin(k, t) == mut_lock(k, t, "lock_spin", "lock_check")

\* The owner check: take the mutex, or become a waiter with interrupts off.
LockCheck(k, t) ==
  LET m == ut[t].arg IN
  /\ At(k, t, "lock_check")
  /\ \/ TakeFree(t, m) /\ UNCHANGED td
     \/ /\ mut[m].owner # NULL
        /\ td' = [td EXCEPT ![t].intr_off = TRUE,
                            ![t].state = "WAIT_MUTEX",
                            ![t].wait_for = m]
        /\ Goto(t, "lock_queue")
        /\ UNCHANGED <<mut, inCS>>
  /\ UNCHANGED <<mmrll, mmrll_lk, kt, enabled, mpc, sent, got>>

\* Mutant of LockQueue: the waiter releases the member lock itself, before
\* its context is saved.
LockQueueUnlocks(k, t) ==
  LET m == ut[t].arg IN
  /\ At(k, t, "lock_queue")
  /\ mut' = [mut EXCEPT ![m].waitll = Append(@, t), ![m].mem_lock = NULL]
  /\ ret_cxt(k)
  /\ Goto(t, "lock_wait")
  /\ UNCHANGED <<td, mmrll, mmrll_lk, enabled, mpc, inCS, sent, got>>

\* mut_add_wait_thread and td_ret_cxt; the dispatcher releases the member lock.
LockQueue(k, t) ==
  LET m == ut[t].arg IN
  /\ At(k, t, "lock_queue")
  /\ mut' = [mut EXCEPT ![m].waitll = Append(@, t)]
  /\ ret_cxt(k)
  /\ Goto(t, "lock_wait")
  /\ UNCHANGED <<td, mmrll, mmrll_lk, enabled, mpc, inCS, sent, got>>

\* The thread runs again because a release made it the owner.
LockWoken(k, t) ==
  LET m == ut[t].arg IN
  /\ At(k, t, "lock_wait")
  /\ td' = [td EXCEPT ![t].wait_for = NULL,
                      ![t].state = "RUNNING",
                      ![t].intr_off = FALSE]
  /\ inCS' = [inCS EXCEPT ![m] = @ \cup {t}]
  /\ Return(t)
  /\ UNCHANGED <<mut, mmrll, mmrll_lk, kt, enabled, mpc, sent, got>>

-----------------------------------------------------------------------------
(* thread_mutex_trylock                                                    *)

TryCall(k, t, m) == MutexCall(k, t, m, "trylock", "try_spin")

TrySpin(k, t) == mut_lock(k, t, "try_spin", "try_check")

\* Mutant of TryCheck: the owner is not looked at.
TryCheckTakes(k, t) ==
  LET m == ut[t].arg IN
  /\ At(k, t, "try_check")
  /\ mut' = [mut EXCEPT ![m].owner = t, ![m].mem_lock = NULL]
  /\ inCS' = [inCS EXCEPT ![m] = @ \cup {t}]
  /\ Return(t)
  /\ UNCHANGED <<td, mmrll, mmrll_lk, kt, enabled, mpc, sent, got>>

\* Take the free mutex, or release the member lock and return EBUSY.
TryCheck(k, t) ==
  LET m == ut[t].arg IN
  /\ At(k, t, "try_check")
  /\ \/ TakeFree(t, m)
     \/ /\ mut[m].owner # NULL
        /\ mut' = [mut EXCEPT ![m].mem_lock = NULL]
        /\ Return(t)
        /\ UNCHANGED inCS
  /\ UNCHANGED <<td, mmrll, mmrll_lk, kt, enabled, mpc, sent, got>>

-----------------------------------------------------------------------------
(* thread_mutex_unlock                                                     *)

UnlockCall(k, t, m) == MutexCall(k, t, m, "unlock", "unlock_spin")

UnlockSpin(k, t) == mut_lock(k, t, "unlock_spin", "unlock_check")

\* Mutant of UnlockCheck: the mutex is freed although threads wait for it.
UnlockCheckFrees(k, t) ==
  LET m == ut[t].arg IN
  /\ At(k, t, "unlock_check")
  /\ \/ /\ mut[m].owner # t
        /\ mut' = [mut EXCEPT ![m].mem_lock = NULL]
        /\ Return(t)
        /\ UNCHANGED <<td, inCS>>
     \/ /\ mut[m].owner = t
        /\ mut' = [mut EXCEPT ![m].owner = NULL, ![m].mem_lock = NULL]
        /\ inCS' = [inCS EXCEPT ![m] = @ \ {t}]
        /\ Return(t)
        /\ UNCHANGED td
  /\ UNCHANGED <<mmrll, mmrll_lk, kt, enabled, mpc, sent, got>>

\* Mutant of UnlockCheck: the caller need not be the owner.
UnlockCheckAnyone(k, t) ==
  LET m == ut[t].arg IN
  /\ At(k, t, "unlock_check")
  /\ \/ /\ mut[m].waitll # <<>>
        /\ mut' = [mut EXCEPT ![m].owner = Head(mut[m].waitll),
                              ![m].waitll = Tail(@)]
        /\ td' = [td EXCEPT ![t].intr_off = TRUE]
        /\ Goto(t, "unlock_list")
     \/ /\ mut[m].waitll = <<>>
        /\ mut' = [mut EXCEPT ![m].owner = NULL, ![m].mem_lock = NULL]
        /\ Return(t)
        /\ UNCHANGED td
  /\ inCS' = [inCS EXCEPT ![m] = @ \ {t}]
  /\ UNCHANGED <<mmrll, mmrll_lk, kt, enabled, mpc, sent, got>>

\* The owner check: EACCES; or the first waiter is made the owner and the
\* interrupts are disabled to enqueue it; or the mutex is freed.
UnlockCheck(k, t) ==
  LET m == ut[t].arg IN
  /\ At(k, t, "unlock_check")
  /\ \/ /\ mut[m].owner # t
        /\ mut' = [mut EXCEPT ![m].mem_lock = NULL]
        /\ Return(t)
        /\ UNCHANGED <<td, inCS>>
     \/ /\ mut[m].owner = t
        /\ mut[m].waitll # <<>>
        /\ mut' = [mut EXCEPT ![m].owner = Head(mut[m].waitll),
                              ![m].waitll = Tail(@)]
        /\ td' = [td EXCEPT ![t].intr_off = TRUE]
        /\ inCS' = [inCS EXCEPT ![m] = @ \ {t}]
        /\ Goto(t, "unlock_list")
     \/ /\ mut[m].owner = t
        /\ mut[m].waitll = <<>>
        /\ mut' = [mut EXCEPT ![m].owner = NULL, ![m].mem_lock = NULL]
        /\ inCS' = [inCS EXCEPT ![m] = @ \ {t}]
        /\ Return(t)
        /\ UNCHANGED td
  /\ UNCHANGED <<mmrll, mmrll_lk, kt, enabled, mpc, sent, got>>

\* Mutant of UnlockList: the member lock is released before the new owner is put
\* in the ready list.
UnlockListEarly(k, t) ==
  /\ At(k, t, "unlock_list")
  /\ mmrll_lock(t)
  /\ mut' = [mut EXCEPT ![ut[t].arg].mem_lock = NULL]
  /\ Goto(t, "unlock_enq")
  /\ UNCHANGED <<td, mmrll, kt, enabled, mpc, inCS, sent, got>>

UnlockList(k, t) ==
  /\ At(k, t, "unlock_list")
  /\ mmrll_lock(t)
  /\ Goto(t, "unlock_enq")
  /\ UNCHANGED <<td, mut, mmrll, kt, enabled, mpc, inCS, sent, got>>

\* Mutant of UnlockEnq: the new owner is not made ready.
UnlockEnqForgets(k, t) ==
  /\ At(k, t, "unlock_enq")
  /\ mmrll_lk' = NULL
  /\ td' = [td EXCEPT ![t].intr_off = FALSE]
  /\ Goto(t, "unlock_rel")
  /\ UNCHANGED <<mut, mmrll, kt, enabled, mpc, inCS, sent, got>>

\* The waiter, which is the owner while the member lock is held, gets ready.
UnlockEnq(k, t) ==
  /\ At(k, t, "unlock_enq")
  /\ mmrll_enqueue(mut[ut[t].arg].owner)
  /\ td' = [td EXCEPT ![t].intr_off = FALSE]
  /\ Goto(t, "unlock_rel")
  /\ UNCHANGED <<mut, kt, enabled, mpc, inCS, sent, got>>

UnlockRel(k, t) ==
  /\ At(k, t, "unlock_rel")
  /\ mut' = [mut EXCEPT ![ut[t].arg].mem_lock = NULL]
  /\ Return(t)
  /\ UNCHANGED <<td, mmrll, mmrll_lk, kt, enabled, mpc, inCS, sent, got>>

-----------------------------------------------------------------------------
SyncCall(k, t) == \E m \in Mutex :
  \/ MutexInit(k, t, m) \/ MutexDestroy(k, t, m)
  \/ LockCall(k, t, m) \/ TryCall(k, t, m) \/ UnlockCall(k, t, m)

SyncStep(k, t) == \/ LockSpin(k, t) \/ LockCheck(k, t) \/ LockQueue(k, t)
                  \/ LockWoken(k, t)
                  \/ TrySpin(k, t) \/ TryCheck(k, t)
                  \/ UnlockSpin(k, t) \/ UnlockCheck(k, t) \/ UnlockList(k, t)
                  \/ UnlockEnq(k, t) \/ UnlockRel(k, t)
=============================================================================
