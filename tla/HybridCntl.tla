----------------------------- MODULE HybridCntl -----------------------------
(***************************************************************************)
(* Creation, join, exit and yield of hybrid threads                        *)
(* (hybrid/src/thread_cntl.c).  A call that returns an error before it has *)
(* changed anything is the absence of a step.  A thread that returns from  *)
(* its start routine does what thread_exit does.  A handle is used once    *)
(* thread_create has returned it, when the ktid field is stored: what a    *)
(* client that is earlier meets is in OneOneCntl.                          *)
(***************************************************************************)
EXTENDS HybridSched

-----------------------------------------------------------------------------
(* thread_create                                                           *)

\* td_oo_init and td_mm_init; the wait word of a one-one thread is left to
\* clone.  clone and getcontext give the new thread the signal mask of its creator.
td_init(u, mask) ==
  [state |-> "RUNNING", wait |-> u \notin OneOne,
   given |-> FALSE, join_td |-> NULL, wait_join_td |-> NULL,
   intr_off |-> FALSE, pend_sig |-> {}, blocked |-> mask,
   mem_lock |-> NULL]

CreateCall(t, u) ==
  /\ t \in Creator
  /\ Calls(t, u, IF u \in OneOne THEN "create_clone" ELSE "create_lock")
  /\ ut[u].pc = "unborn"
  /\ u # Main
  /\ \A v \in Thread : ut[v].arg # u
  /\ td' = [td EXCEPT ![u] = td_init(u, td[t].blocked),
                      ![t].intr_off = intr(t, u \in MMThread)]
  /\ UNCHANGED <<mmrll, mmrll_lk, kt, enabled, mpc, freed, got>>

\* td_oo_create: the kernel sets the wait word and starts the child; or clone
\* fails, and thread_create returns EAGAIN.
CreateClone(t) ==
  LET u == ut[t].arg IN
  /\ At(t, "create_clone")
  /\ \/ /\ td' = [td EXCEPT ![u].wait = TRUE]
        /\ ut' = [ut EXCEPT ![u].pc = "client", ![t].pc = "create_store"]
     \/ Return(t) /\ UNCHANGED td
  /\ UNCHANGED <<mmrll, mmrll_lk, kt, enabled, mpc, freed, got>>

CreateStore(t) ==
  /\ At(t, "create_store")
  /\ td' = [td EXCEPT ![ut[t].arg].given = TRUE]
  /\ Return(t)
  /\ UNCHANGED <<mmrll, mmrll_lk, kt, enabled, mpc, freed, got>>

CreateLock(t) ==
  /\ At(t, "create_lock")
  /\ mmrll_lock(t)
  /\ Goto(t, "create_enq")
  /\ UNCHANGED <<td, mmrll, kt, enabled, mpc, freed, got>>

CreateEnq(t) ==
  LET u == ut[t].arg IN
  /\ At(t, "create_enq")
  /\ mmrll_enqueue(u)
  /\ td' = [td EXCEPT ![t].intr_off = FALSE, ![u].given = TRUE]
  /\ ut' = [ut EXCEPT ![u].pc = "client", ![t] = [pc |-> "client", arg |-> NULL]]
  /\ UNCHANGED <<kt, enabled, mpc, freed, got>>

-----------------------------------------------------------------------------
(* thread_join                                                             *)

\* The checks made without the lock: EINVAL, EDEADLK.
JoinCall(t, u) ==
  /\ <<t, u>> \in JoinPairs
  /\ Calls(t, u, "join_lock")
  /\ td[u].given
  /\ td[u].state # "JOINED"
  /\ t # u
  /\ td[t].join_td # u
  /\ td' = [td EXCEPT ![t].intr_off = intr(t, TRUE)]
  /\ UNCHANGED <<mmrll, mmrll_lk, kt, enabled, mpc, freed, got>>

\* Mutant of JoinLock: the check for another joining thread is dropped.
JoinLockNoOther(t) ==
  LET u == ut[t].arg IN
  /\ At(t, "join_lock")
  /\ td[u].mem_lock = NULL
  /\ td' = [td EXCEPT ![u].mem_lock = t, ![u].join_td = t,
                      ![t].wait_join_td = u, ![t].state = "WAIT_JOIN"]
  /\ Goto(t, "join_check")
  /\ UNCHANGED <<mmrll, mmrll_lk, kt, enabled, mpc, freed, got>>

\* td_lock of the target.  If somebody joins it already the interrupts are
\* enabled before the lock is released; otherwise the caller registers.
JoinLock(t) ==
  LET u == ut[t].arg IN
  /\ At(t, "join_lock")
  /\ td[u].mem_lock = NULL
  /\ \/ /\ td[u].join_td # NULL
        /\ td' = [td EXCEPT ![u].mem_lock = t, ![t].intr_off = FALSE]
        /\ Goto(t, "join_refuse")
     \/ /\ td[u].join_td = NULL
        /\ td' = [td EXCEPT ![u].mem_lock = t, ![u].join_td = t,
                            ![t].wait_join_td = u, ![t].state = "WAIT_JOIN"]
        /\ Goto(t, "join_check")
  /\ UNCHANGED <<mmrll, mmrll_lk, kt, enabled, mpc, freed, got>>

\* td_unlock, then EINVAL.
JoinRefuse(t) ==
  /\ At(t, "join_refuse")
  /\ td' = [td EXCEPT ![ut[t].arg].mem_lock = NULL]
  /\ Return(t)
  /\ UNCHANGED <<mmrll, mmrll_lk, kt, enabled, mpc, freed, got>>

\* Mutant of JoinCheck: a many-many caller releases the lock itself.
JoinCheckUnlocks(t) ==
  LET u == ut[t].arg IN
  /\ At(t, "join_check")
  /\ td' = [td EXCEPT ![u].mem_lock = NULL]
  /\ \/ ~td[u].wait /\ Goto(t, "join_done") /\ UNCHANGED kt
     \/ td[u].wait /\ t \in OneOne /\ Goto(t, "join_futex") /\ UNCHANGED kt
     \/ td[u].wait /\ t \in MMThread /\ Goto(t, "join_parked") /\ ret_cxt(t)
  /\ UNCHANGED <<mmrll, mmrll_lk, enabled, mpc, freed, got>>

\* Under the lock: while the target is not over a one-one caller releases the
\* lock and waits on the futex, a many-many caller goes back to the dispatcher,
\* which releases the lock.
JoinCheck(t) ==
  LET u == ut[t].arg IN
  /\ At(t, "join_check")
  /\ \/ /\ ~td[u].wait
        /\ td' = [td EXCEPT ![u].mem_lock = NULL]
        /\ Goto(t, "join_done")
        /\ UNCHANGED kt
     \/ /\ td[u].wait /\ t \in OneOne
        /\ td' = [td EXCEPT ![u].mem_lock = NULL]
        /\ Goto(t, "join_futex")
        /\ UNCHANGED kt
     \/ /\ td[u].wait /\ t \in MMThread
        /\ Goto(t, "join_parked")
        /\ ret_cxt(t)
        /\ UNCHANGED td
  /\ UNCHANGED <<mmrll, mmrll_lk, enabled, mpc, freed, got>>

\* futex(&thread->wait, FUTEX_WAIT, ...): the kernel compares the word with the
\* id, or with 1, and goes to sleep in one step.
JoinFutex(t) ==
  /\ At(t, "join_futex")
  /\ Goto(t, IF td[ut[t].arg].wait THEN "join_sleep" ELSE "join_done")
  /\ UNCHANGED <<td, mmrll, mmrll_lk, kt, enabled, mpc, freed, got>>

\* Mutant of JoinResume: a many-many caller does not wait for the kernel.
JoinResumeAtOnce(t) ==
  /\ At(t, "join_parked")
  /\ Goto(t, "join_done")
  /\ UNCHANGED <<td, mmrll, mmrll_lk, kt, enabled, mpc, freed, got>>

\* A many-many caller is dispatched again; it spins until the kernel has ended a
\* one-one target.
JoinResume(t) ==
  /\ At(t, "join_parked")
  /\ ut[t].arg \in OneOne => ~td[ut[t].arg].wait
  /\ Goto(t, "join_done")
  /\ UNCHANGED <<td, mmrll, mmrll_lk, kt, enabled, mpc, freed, got>>

JoinDone(t) ==
  /\ At(t, "join_done")
  /\ td' = [td EXCEPT ![t].state = "RUNNING", ![t].wait_join_td = NULL,
                      ![t].intr_off = FALSE]
  /\ Goto(t, "join_free")
  /\ UNCHANGED <<mmrll, mmrll_lk, kt, enabled, mpc, freed, got>>

\* The return value is read, the target marked joined, and its stack, or its
\* stack and contexts, freed; the descriptor stays.
JoinFree(t) ==
  LET u == ut[t].arg IN
  /\ At(t, "join_free")
  /\ td' = [td EXCEPT ![u].state = "JOINED"]
  /\ freed' = [freed EXCEPT ![u] = @ + 1]
  /\ Return(t)
  /\ UNCHANGED <<mmrll, mmrll_lk, kt, enabled, mpc, got>>

-----------------------------------------------------------------------------
(* thread_exit, and the end of _one_one_start and _many_many_start         *)

ThreadExit(t) ==
  /\ At(t, "client")
  /\ td' = [td EXCEPT ![t].intr_off = intr(t, TRUE), ![t].state = "EXITED"]
  /\ \/ t \in MMThread /\ Goto(t, "exited") /\ ret_cxt(t)
     \/ t \in OneOne /\ Goto(t, "exit_lock") /\ UNCHANGED kt
  /\ UNCHANGED <<mmrll, mmrll_lk, enabled, mpc, freed, got>>

OneOneLock(t) ==
  /\ At(t, "exit_lock")
  /\ td[t].mem_lock = NULL
  /\ td' = [td EXCEPT ![t].mem_lock = t]
  /\ Goto(t, "exit_check")
  /\ UNCHANGED <<mmrll, mmrll_lk, kt, enabled, mpc, freed, got>>

\* td_has_join_thread: the lock is released when nobody joins or a many-many
\* thread does, and kept when it is a one-one thread.
OneOneCheck(t) ==
  /\ At(t, "exit_check")
  /\ \/ /\ td[t].join_td \in OneOne
        /\ Goto(t, "exiting")
        /\ UNCHANGED td
     \/ /\ td[t].join_td \notin OneOne
        /\ td' = [td EXCEPT ![t].mem_lock = NULL]
        /\ Goto(t, IF td[t].join_td = NULL THEN "exiting" ELSE "exit_list")
  /\ UNCHANGED <<mmrll, mmrll_lk, kt, enabled, mpc, freed, got>>

OneOneList(t) ==
  /\ At(t, "exit_list")
  /\ mmrll_lock(t)
  /\ Goto(t, "exit_enq")
  /\ UNCHANGED <<td, mmrll, kt, enabled, mpc, freed, got>>

OneOneEnq(t) ==
  /\ At(t, "exit_enq")
  /\ mmrll_enqueue(td[t].join_td)
  /\ Goto(t, "exiting")
  /\ UNCHANGED <<td, kt, enabled, mpc, freed, got>>

\* The end of a kernel thread (CLONE_CHILD_CLEARTID): the wait word is cleared
\* and one sleeper woken.
KernelExit(t) ==
  /\ At(t, "exiting")
  /\ td' = [td EXCEPT ![t].wait = FALSE]
  /\ \/ Sleepers(t) = {} /\ Goto(t, "gone")
     \/ \E u \in Sleepers(t) :
          ut' = [ut EXCEPT ![t].pc = "gone", ![u].pc = "join_done"]
  /\ UNCHANGED <<mmrll, mmrll_lk, kt, enabled, mpc, freed, got>>

-----------------------------------------------------------------------------
(* thread_yield; that of a one-one thread is the kernel's alone            *)

ThreadYield(t) ==
  /\ t \in MMThread
  /\ At(t, "client")
  /\ td' = [td EXCEPT ![t].intr_off = TRUE]
  /\ Goto(t, "yielded")
  /\ ret_cxt(t)
  /\ UNCHANGED <<mmrll, mmrll_lk, enabled, mpc, freed, got>>

YieldBack(t) ==
  /\ At(t, "yielded")
  /\ td' = [td EXCEPT ![t].intr_off = FALSE]
  /\ Return(t)
  /\ UNCHANGED <<mmrll, mmrll_lk, kt, enabled, mpc, freed, got>>

-----------------------------------------------------------------------------
CntlCall(t) == \/ \E u \in Thread : CreateCall(t, u) \/ JoinCall(t, u)
               \/ ThreadExit(t) \/ ThreadYield(t)

CntlStep(t) == \/ CreateClone(t) \/ CreateStore(t) \/ CreateLock(t) \/ CreateEnq(t)
               \/ JoinLock(t) \/ JoinRefuse(t) \/ JoinCheck(t) \/ JoinFutex(t)
               \/ JoinResume(t) \/ JoinDone(t) \/ JoinFree(t)
               \/ OneOneLock(t) \/ OneOneCheck(t) \/ OneOneList(t) \/ OneOneEnq(t)
               \/ KernelExit(t) \/ YieldBack(t)
=============================================================================
