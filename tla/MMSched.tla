------------------------------ MODULE MMSched ------------------------------
(***************************************************************************)
(* The dispatcher of the many-many library, _mmsched_dispatch, and its     *)
(* timer handler _mmsched_yield (many-many/src/mmsched.c).  Each kernel    *)
(* thread runs one dispatcher with all signals blocked.                    *)
(***************************************************************************)
EXTENDS MMDescr

\* The dispatcher of k moves from place l to place m.
Step(k, l, m) == kt[k].pc = l /\ kt' = [kt EXCEPT ![k].pc = m]

\* The dispatcher of k is done with its thread.
ToLoop(k) == kt' = [kt EXCEPT ![k].pc = "loop", ![k].cur = NULL]

\* while (mmsched_enabled)
Loop(k) ==
  /\ \/ enabled /\ Step(k, "loop", "get_lock")
     \/ ~enabled /\ Step(k, "loop", "returned")
  /\ UNCHANGED <<td, mut, mmrll, mmrll_lk, ut, enabled, mpc, inCS, sent, got>>

GetLock(k) ==
  /\ Step(k, "get_lock", "get")
  /\ mmrll_lock(k)
  /\ UNCHANGED <<td, mut, mmrll, ut, enabled, mpc, inCS, sent, got>>

\* get_next_thread under the list lock, and the test of the thread's state.
Get(k) ==
  /\ kt[k].pc = "get"
  /\ \/ /\ mmrll = <<>>
        /\ ToLoop(k)
        /\ UNCHANGED mmrll
     \/ /\ mmrll # <<>>
        /\ kt' = [kt EXCEPT
             ![k].cur = Head(mmrll),
             ![k].pc = IF td[Head(mmrll)].state = "RUNNING" THEN "sig_lock" ELSE "run"]
        /\ mmrll' = Tail(mmrll)
  /\ mmrll_lk' = NULL
  /\ UNCHANGED <<td, mut, ut, enabled, mpc, inCS, sent, got>>

-----------------------------------------------------------------------------
(* send_pending_signals                                                    *)

SigLock(k) ==
  LET t == kt[k].cur IN
  /\ Step(k, "sig_lock", "sig_send")
  /\ td[t].mem_lock = NULL
  /\ td' = [td EXCEPT ![t].mem_lock = k]
  /\ UNCHANGED <<mut, mmrll, mmrll_lk, ut, enabled, mpc, inCS, sent, got>>

\* Mutant of SigSend: the signals are taken out of the mask and not sent.
SigSendDrops(k) ==
  LET t == kt[k].cur IN
  /\ Step(k, "sig_send", "run")
  /\ td' = [td EXCEPT ![t].pend_sig = {}, ![t].mem_lock = NULL]
  /\ UNCHANGED <<mut, mmrll, mmrll_lk, ut, enabled, mpc, inCS, sent, got>>

\* Every pending signal is sent to the kernel thread, where it stays pending
\* until a context with the signal unblocked runs.
SigSend(k) ==
  LET t == kt[k].cur IN
  /\ kt[k].pc = "sig_send"
  /\ kt' = [kt EXCEPT ![k].pc = "run", ![k].pend = @ \cup td[t].pend_sig]
  /\ td' = [td EXCEPT ![t].pend_sig = {}, ![t].mem_lock = NULL]
  /\ UNCHANGED <<mut, mmrll, mmrll_lk, ut, enabled, mpc, inCS, sent, got>>

-----------------------------------------------------------------------------
(* The swap to the user thread and what brings the dispatcher back         *)

\* td_set_cxt: the thread's signal mask is installed and the kernel delivers
\* the pending signals the mask lets through.
Run(k) ==
  LET t == kt[k].cur IN
  /\ kt[k].pc = "run"
  /\ kt' = [kt EXCEPT ![k].pc = "user", ![k].pend = @ \cap td[t].blocked]
  /\ got' = [got EXCEPT ![t] = @ \cup (kt[k].pend \ td[t].blocked)]
  /\ UNCHANGED <<td, mut, mmrll, mmrll_lk, ut, enabled, mpc, inCS, sent>>

\* Mutant of Preempt: the handler does not look at intr_off.
PreemptAlways(k) ==
  /\ kt[k].pc = "user"
  /\ ret_cxt(k)
  /\ UNCHANGED <<td, mut, mmrll, mmrll_lk, ut, enabled, mpc, inCS, sent, got>>

\* SIGALRM: _mmsched_yield swaps to the dispatcher; with interrupts off it only
\* restarts the timer.
Preempt(k) ==
  /\ kt[k].pc = "user"
  /\ ~td[kt[k].cur].intr_off
  /\ ret_cxt(k)
  /\ UNCHANGED <<td, mut, mmrll, mmrll_lk, ut, enabled, mpc, inCS, sent, got>>

-----------------------------------------------------------------------------
(* The switch on the state of the thread that came back                    *)

\* THREAD_STATE_RUNNING with a signal pending on the kernel thread: the same
\* thread runs again (goto REPEAT_LABEL).
PostRepeat(k) ==
  /\ Step(k, "post", "run")
  /\ td[kt[k].cur].state = "RUNNING"
  /\ kt[k].pend # {}
  /\ UNCHANGED <<td, mut, mmrll, mmrll_lk, ut, enabled, mpc, inCS, sent, got>>

\* The same, when it is SIGALRM that is pending: the timer expired after the
\* thread had left its context and before td_timer_stop.
PostRepeatAlarm(k) ==
  /\ Step(k, "post", "run")
  /\ td[kt[k].cur].state = "RUNNING"
  /\ UNCHANGED <<td, mut, mmrll, mmrll_lk, ut, enabled, mpc, inCS, sent, got>>

\* Mutant of PostRunning: the thread is queued with its signal still pending on
\* the kernel thread.
PostRunningAlways(k) ==
  /\ Step(k, "post", "enq_lock")
  /\ td[kt[k].cur].state = "RUNNING"
  /\ UNCHANGED <<td, mut, mmrll, mmrll_lk, ut, enabled, mpc, inCS, sent, got>>

PostRunning(k) ==
  /\ Step(k, "post", "enq_lock")
  /\ td[kt[k].cur].state = "RUNNING"
  /\ kt[k].pend = {}
  /\ UNCHANGED <<td, mut, mmrll, mmrll_lk, ut, enabled, mpc, inCS, sent, got>>

EnqLock(k) ==
  /\ Step(k, "enq_lock", "enq")
  /\ mmrll_lock(k)
  /\ UNCHANGED <<td, mut, mmrll, ut, enabled, mpc, inCS, sent, got>>

Enq(k) ==
  /\ kt[k].pc = "enq"
  /\ mmrll_enqueue(kt[k].cur)
  /\ ToLoop(k)
  /\ UNCHANGED <<td, mut, ut, enabled, mpc, inCS, sent, got>>

\* The lock of the target, taken by the joiner, is released for it.
PostWaitJoin(k) ==
  /\ kt[k].pc = "post"
  /\ td[kt[k].cur].state = "WAIT_JOIN"
  /\ td' = [td EXCEPT ![td[kt[k].cur].wait_for].mem_lock = NULL]
  /\ ToLoop(k)
  /\ UNCHANGED <<mut, mmrll, mmrll_lk, ut, enabled, mpc, inCS, sent, got>>

\* The member lock of the mutex, taken by the waiter, is released for it.
PostWaitMutex(k) ==
  /\ kt[k].pc = "post"
  /\ td[kt[k].cur].state = "WAIT_MUTEX"
  /\ mut' = [mut EXCEPT ![td[kt[k].cur].wait_for].mem_lock = NULL]
  /\ ToLoop(k)
  /\ UNCHANGED <<td, mmrll, mmrll_lk, ut, enabled, mpc, inCS, sent, got>>

PostExited(k) ==
  /\ Step(k, "post", "exit_lock")
  /\ td[kt[k].cur].state = "EXITED"
  /\ UNCHANGED <<td, mut, mmrll, mmrll_lk, ut, enabled, mpc, inCS, sent, got>>

-----------------------------------------------------------------------------
(* post_schedule_exited_action                                             *)

ExitLock(k) ==
  LET t == kt[k].cur IN
  /\ Step(k, "exit_lock", "exit_over")
  /\ td[t].mem_lock = NULL
  /\ td' = [td EXCEPT ![t].mem_lock = k]
  /\ UNCHANGED <<mut, mmrll, mmrll_lk, ut, enabled, mpc, inCS, sent, got>>

\* Mutant of ExitOver: the lock is released before the joining thread is
\* looked for.
ExitOverUnlocks(k) ==
  LET t == kt[k].cur IN
  /\ Step(k, "exit_over", "exit_check")
  /\ td' = [td EXCEPT ![t].wait = FALSE, ![t].mem_lock = NULL]
  /\ UNCHANGED <<mut, mmrll, mmrll_lk, ut, enabled, mpc, inCS, sent, got>>

\* td_set_over
ExitOver(k) ==
  LET t == kt[k].cur IN
  /\ Step(k, "exit_over", "exit_check")
  /\ td' = [td EXCEPT ![t].wait = FALSE]
  /\ UNCHANGED <<mut, mmrll, mmrll_lk, ut, enabled, mpc, inCS, sent, got>>

\* td_has_joining, and td_unlock on either path.
ExitCheck(k) ==
  LET t == kt[k].cur IN
  /\ kt[k].pc = "exit_check"
  /\ td' = [td EXCEPT ![t].mem_lock = NULL]
  /\ \/ td[t].join_thread # NULL /\ Step(k, "exit_check", "wake_lock")
     \/ td[t].join_thread = NULL /\ ToLoop(k)
  /\ UNCHANGED <<mut, mmrll, mmrll_lk, ut, enabled, mpc, inCS, sent, got>>

WakeLock(k) ==
  /\ Step(k, "wake_lock", "wake")
  /\ mmrll_lock(k)
  /\ UNCHANGED <<td, mut, mmrll, ut, enabled, mpc, inCS, sent, got>>

\* Mutant of Wake: it is the exited thread that is put in the list.
WakeSelf(k) ==
  /\ kt[k].pc = "wake"
  /\ mmrll_enqueue(kt[k].cur)
  /\ ToLoop(k)
  /\ UNCHANGED <<td, mut, ut, enabled, mpc, inCS, sent, got>>

Wake(k) ==
  /\ kt[k].pc = "wake"
  /\ mmrll_enqueue(td[kt[k].cur].join_thread)
  /\ ToLoop(k)
  /\ UNCHANGED <<td, mut, ut, enabled, mpc, inCS, sent, got>>

-----------------------------------------------------------------------------
\* The steps of the dispatcher that the kernel brings about in the end.
Dispatch(k) ==
  \/ Loop(k) \/ GetLock(k) \/ Get(k) \/ SigLock(k) \/ SigSend(k) \/ Run(k)
  \/ PostRepeat(k) \/ PostRunning(k) \/ EnqLock(k) \/ Enq(k)
  \/ PostWaitJoin(k) \/ PostWaitMutex(k)
  \/ PostExited(k) \/ ExitLock(k) \/ ExitOver(k) \/ ExitCheck(k)
  \/ WakeLock(k) \/ Wake(k)
=============================================================================
