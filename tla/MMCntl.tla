------------------------------- MODULE MMCntl -------------------------------
(***************************************************************************)
(* Creation, join, exit and yield of many-many threads                     *)
(* (many-many/src/thread_cntl.c).  A call that returns an error before it  *)
(* has changed anything is the absence of a step.  A thread that returns   *)
(* from its start routine does what thread_exit does.                      *)
(***************************************************************************)
EXTENDS MMDescr

(* thread_create                                                           *)

CreateCall(k, t, u) ==
  /\ Calls(k, t, "create")
  /\ td[u].mem = "none"
  /\ u # Main
  /\ td' = [td EXCEPT ![u] = td_init(td[t].blocked), ![t].intr_off = TRUE]
  /\ ut' = [ut EXCEPT ![t] = [pc |-> "create_lock", arg |-> u]]
  /\ UNCHANGED <<mut, mmrll, mmrll_lk, kt, enabled, mpc, inCS, sent, got>>

CreateLock(k, t) ==
  /\ At(k, t, "create_lock")
  /\ mmrll_lock(t)
  /\ Goto(t, "create_enq")
  /\ UNCHANGED <<td, mut, mmrll, kt, enabled, mpc, inCS, sent, got>>

CreateEnq(k, t) ==
  /\ At(k, t, "create_enq")
  /\ mmrll_enqueue(ut[t].arg)
  /\ td' = [td EXCEPT ![t].intr_off = FALSE]
  /\ Return(t)
  /\ UNCHANGED <<mut, kt, enabled, mpc, inCS, sent, got>>

-----------------------------------------------------------------------------
(* thread_join                                                             *)

\* The checks made without the lock, EINVAL and EDEADLK, and td_disable_intr.
\* Joining a handle whose descriptor has been freed is undefined: the client
\* is assumed not to start such a call.
JoinCall(k, t, u) ==
  /\ Calls(k, t, "join")
  /\ <<t, u>> \in JoinPairs
  /\ td[u].mem = "live"
  /\ td[u].state # "JOINED"
  /\ t # u
  /\ td[t].join_thread # u
  /\ td' = [td EXCEPT ![t].intr_off = TRUE]
  /\ ut' = [ut EXCEPT ![t] = [pc |-> "join_lock", arg |-> u]]
  /\ UNCHANGED <<mut, mmrll, mmrll_lk, kt, enabled, mpc, inCS, sent, got>>

\* td_lock of the target.  If somebody joins it already the interrupts are
\* enabled before the lock is released; otherwise the caller registers.
JoinLock(k, t) ==
  LET u == ut[t].arg IN
  /\ At(k, t, "join_lock")
  /\ td[u].mem_lock = NULL
  /\ \/ /\ td[u].join_thread # NULL
        /\ td' = [td EXCEPT ![u].mem_lock = t, ![t].intr_off = FALSE]
        /\ Goto(t, "join_refuse")
     \/ /\ td[u].join_thread = NULL
        /\ td' = [td EXCEPT ![u].mem_lock = t,
                            ![u].join_thread = t,
                            ![t].wait_for = u,
                            ![t].state = "WAIT_JOIN"]
        /\ Goto(t, "join_check")
  /\ UNCHANGED <<mut, mmrll, mmrll_lk, kt, enabled, mpc, inCS, sent, got>>

\* td_unlock, then EINVAL.
JoinRefuse(k, t) ==
  /\ At(k, t, "join_refuse")
  /\ td' = [td EXCEPT ![ut[t].arg].mem_lock = NULL]
  /\ Return(t)
  /\ UNCHANGED <<mut, mmrll, mmrll_lk, kt, enabled, mpc, inCS, sent, got>>

\* Mutant of JoinCheck: the caller parks without looking whether the target
\* is over.
JoinCheckParks(k, t) ==
  /\ At(k, t, "join_check")
  /\ ret_cxt(k)
  /\ Goto(t, "join_wait")
  /\ UNCHANGED <<td, mut, mmrll, mmrll_lk, enabled, mpc, inCS, sent, got>>

\* Mutant of JoinCheck: the caller goes on without waiting for the target.
JoinCheckGoesOn(k, t) ==
  /\ At(k, t, "join_check")
  /\ td' = [td EXCEPT ![ut[t].arg].mem_lock = NULL]
  /\ Goto(t, "join_wait")
  /\ UNCHANGED <<mut, mmrll, mmrll_lk, kt, enabled, mpc, inCS, sent, got>>

\* Under the lock: back to the dispatcher, which releases the lock, while the
\* target is not over; else release the lock and go on.
JoinCheck(k, t) ==
  LET u == ut[t].arg IN
  /\ At(k, t, "join_check")
  /\ Goto(t, "join_wait")
  /\ \/ /\ td[u].wait
        /\ ret_cxt(k)
        /\ UNCHANGED td
     \/ /\ ~td[u].wait
        /\ td' = [td EXCEPT ![u].mem_lock = NULL]
        /\ UNCHANGED kt
  /\ UNCHANGED <<mut, mmrll, mmrll_lk, enabled, mpc, inCS, sent, got>>

JoinResume(k, t) ==
  /\ At(k, t, "join_wait")
  /\ td' = [td EXCEPT ![t].state = "RUNNING",
                      ![t].wait_for = NULL,
                      ![t].intr_off = FALSE]
  /\ Goto(t, "join_free")
  /\ UNCHANGED <<mut, mmrll, mmrll_lk, kt, enabled, mpc, inCS, sent, got>>

\* The return value is read, the target marked joined and td_free called.
JoinFree(k, t) ==
  /\ At(k, t, "join_free")
  /\ td' = [td EXCEPT ![ut[t].arg].state = "JOINED", ![ut[t].arg].mem = "freed"]
  /\ Return(t)
  /\ UNCHANGED <<mut, mmrll, mmrll_lk, kt, enabled, mpc, inCS, sent, got>>

-----------------------------------------------------------------------------
(* thread_exit and the end of _many_many_start; thread_yield               *)

ThreadExit(k, t) ==
  /\ Calls(k, t, "exit")
  /\ td' = [td EXCEPT ![t].intr_off = TRUE, ![t].state = "EXITED"]
  /\ Goto(t, "exited")
  /\ ret_cxt(k)
  /\ UNCHANGED <<mut, mmrll, mmrll_lk, enabled, mpc, inCS, sent, got>>

ThreadYield(k, t) ==
  /\ Calls(k, t, "yield")
  /\ td' = [td EXCEPT ![t].intr_off = TRUE]
  /\ Goto(t, "yielded")
  /\ ret_cxt(k)
  /\ UNCHANGED <<mut, mmrll, mmrll_lk, enabled, mpc, inCS, sent, got>>

YieldBack(k, t) ==
  /\ At(k, t, "yielded")
  /\ td' = [td EXCEPT ![t].intr_off = FALSE]
  /\ Return(t)
  /\ UNCHANGED <<mut, mmrll, mmrll_lk, kt, enabled, mpc, inCS, sent, got>>

-----------------------------------------------------------------------------
CntlCall(k, t) == \/ \E u \in Thread : CreateCall(k, t, u) \/ JoinCall(k, t, u)
                  \/ ThreadExit(k, t) \/ ThreadYield(k, t)

CntlStep(k, t) == \/ CreateLock(k, t) \/ CreateEnq(k, t)
                  \/ JoinLock(k, t) \/ JoinRefuse(k, t) \/ JoinCheck(k, t)
                  \/ JoinResume(k, t) \/ JoinFree(k, t)
                  \/ YieldBack(k, t)
=============================================================================
