---------------------------- MODULE HybridSched ----------------------------
(***************************************************************************)
(* The shared state of the hybrid library (hybrid/src/thread_descr.h) and  *)
(* its dispatcher (hybrid/src/mmsched.c).  A thread is one-one, a kernel   *)
(* thread of its own, or many-many, a context that the dispatchers of the  *)
(* set KThread take from the ready list.                                   *)
(***************************************************************************)
EXTENDS Naturals, Sequences, FiniteSets

CONSTANTS Thread,    \* the handles thread_create can give out
          OneOne,    \* those of type THREAD_TYPE_ONE_ONE
          Main,      \* the handle of the thread that runs thread_main
          KThread,   \* the kernel threads that run _mmsched_dispatch
          NULL,      \* the null pointer, and the value of a free lock
          Signal,    \* the signals other than SIGALRM
          Creator,   \* the threads whose client calls thread_create
          JoinPairs, \* <<t, u>>: the client lets t call thread_join(u)
          KillPairs, \* <<t, u>>: the client lets t call thread_kill(u)
          Masker     \* the threads whose client calls thread_sigmask

ASSUME HybridAssumption ==
  /\ OneOne \subseteq Thread
  /\ Main \in OneOne
  /\ NULL \notin Thread \cup KThread
  /\ Thread \cap KThread = {}
  /\ JoinPairs \subseteq Thread \X Thread
  /\ KillPairs \subseteq Thread \X Thread

VARIABLES td,        \* td[t]: the descriptor of t
          mmrll,     \* the ready list, head first
          mmrll_lk,  \* the lock of the ready list
          kt,        \* kt[k]: the kernel thread k
          ut,        \* ut[t]: where t is in its own code
          enabled,   \* mmsched_enabled
          mpc,       \* where main() is
          freed,     \* freed[t]: how often the stack of t has been unmapped
          got        \* got[t]: the signals delivered while t ran

vars == <<td, mmrll, mmrll_lk, kt, ut, enabled, mpc, freed, got>>

MMThread == Thread \ OneOne

UserLabel == {"unborn", "client",
              "create_clone", "create_store", "create_lock", "create_enq",
              "join_lock", "join_refuse", "join_check", "join_futex",
              "join_sleep", "join_parked", "join_done", "join_free",
              "yielded", "exited", "kill_lock", "kill_set",
              "exit_lock", "exit_check", "exit_list", "exit_enq", "exiting",
              "gone"}

DispatchLabel == {"loop", "get_lock", "get", "sig_lock", "sig_send", "run",
                  "user", "post", "enq_lock", "enq", "exit_lock", "exit_over",
                  "exit_check", "futex_wake", "wake_lock", "wake", "returned"}

MainLabel == {"create", "spin", "free", "deinit", "reap", "done"}

Lock == {NULL} \cup Thread \cup KThread

TypeOK ==
  /\ td \in [Thread -> [state        : {"RUNNING", "EXITED", "JOINED", "WAIT_JOIN"},
                        wait         : BOOLEAN,
                        given        : BOOLEAN,
                        join_td      : Thread \cup {NULL},
                        wait_join_td : Thread \cup {NULL},
                        intr_off     : BOOLEAN,
                        pend_sig     : SUBSET Signal,
                        blocked      : SUBSET Signal,
                        mem_lock     : Lock]]
  /\ mmrll \in Seq(MMThread)
  /\ mmrll_lk \in Lock
  /\ kt \in [KThread -> [pc: DispatchLabel, cur: MMThread \cup {NULL},
                         pend: SUBSET Signal]]
  /\ ut \in [Thread -> [pc: UserLabel,
                        arg: Thread \cup (Thread \X Signal) \cup {NULL}]]
  /\ enabled \in BOOLEAN
  /\ mpc \in MainLabel
  /\ freed \in [Thread -> 0..2]
  /\ got \in [Thread -> SUBSET Signal]

\* t runs in its context: a one-one thread always, a many-many thread on the
\* kernel thread that has dispatched it.
Runs(t) == t \in OneOne \/ \E k \in KThread : kt[k].cur = t /\ kt[k].pc = "user"

At(t, l) == ut[t].pc = l /\ Runs(t)

Goto(t, l) == ut' = [ut EXCEPT ![t].pc = l]

\* The call is over.
Return(t) == ut' = [ut EXCEPT ![t] = [pc |-> "client", arg |-> NULL]]

\* Interrupts of t are disabled or enabled; only a many-many thread has them.
intr(t, off) == IF t \in OneOne THEN FALSE ELSE off

\* The client of t makes a call about u.
Calls(t, u, l) == /\ At(t, "client")
                  /\ ut' = [ut EXCEPT ![t] = [pc |-> l, arg |-> u]]

\* td_mm_ret_cxt, td_mm_exit_cxt: the kernel thread of t is back in its
\* dispatcher.
ret_cxt(t) == kt' = [k \in KThread |->
                       IF kt[k].cur = t THEN [kt[k] EXCEPT !.pc = "post"] ELSE kt[k]]

mmrll_lock(h) == mmrll_lk = NULL /\ mmrll_lk' = h

\* mmrll_enqueue and mmrll_unlock.
mmrll_enqueue(t) == mmrll' = Append(mmrll, t) /\ mmrll_lk' = NULL

\* The threads that sleep on the wait word of u.
Sleepers(u) == {t \in Thread : ut[t].pc = "join_sleep" /\ ut[t].arg = u}

-----------------------------------------------------------------------------
(* _mmsched_dispatch                                                       *)

Step(k, l, m) == kt[k].pc = l /\ kt' = [kt EXCEPT ![k].pc = m]

ToLoop(k) == kt' = [kt EXCEPT ![k].pc = "loop", ![k].cur = NULL]

\* while (mmsched_enabled)
Loop(k) ==
  /\ \/ enabled /\ Step(k, "loop", "get_lock")
     \/ ~enabled /\ Step(k, "loop", "returned")
  /\ UNCHANGED <<td, mmrll, mmrll_lk, ut, enabled, mpc, freed, got>>

GetLock(k) ==
  /\ Step(k, "get_lock", "get")
  /\ mmrll_lock(k)
  /\ UNCHANGED <<td, mmrll, ut, enabled, mpc, freed, got>>

\* get_next_thread under the list lock, and the test of the thread's state.
Get(k) ==
  /\ kt[k].pc = "get"
  /\ \/ /\ mmrll = <<>>
        /\ ToLoop(k)
        /\ UNCHANGED mmrll
     \/ /\ mmrll # <<>>
        /\ kt' = [kt EXCEPT
             ![k].cur = Head(mmrll),
             ![k].pc = IF td[Head(mmrll)].state = "RUNNING" THEN "sig_lock" ELSE "run"]
        /\ mmrll' = Tail(mmrll)
  /\ mmrll_lk' = NULL
  /\ UNCHANGED <<td, ut, enabled, mpc, freed, got>>

\* send_pending_signals, under the lock of the thread.
SigLock(k) ==
  /\ Step(k, "sig_lock", "sig_send")
  /\ td[kt[k].cur].mem_lock = NULL
  /\ td' = [td EXCEPT ![kt[k].cur].mem_lock = k]
  /\ UNCHANGED <<mmrll, mmrll_lk, ut, enabled, mpc, freed, got>>

\* Mutant of SigSend: the signals are taken out of the mask and not sent.
SigSendDrops(k) ==
  /\ Step(k, "sig_send", "run")
  /\ td' = [td EXCEPT ![kt[k].cur].pend_sig = {}, ![kt[k].cur].mem_lock = NULL]
  /\ UNCHANGED <<mmrll, mmrll_lk, ut, enabled, mpc, freed, got>>

\* Every pending signal is sent to the kernel thread, where it stays pending
\* until a context with the signal unblocked runs.
SigSend(k) ==
  LET t == kt[k].cur IN
  /\ kt[k].pc = "sig_send"
  /\ kt' = [kt EXCEPT ![k].pc = "run", ![k].pend = @ \cup td[t].pend_sig]
  /\ td' = [td EXCEPT ![t].pend_sig = {}, ![t].mem_lock = NULL]
  /\ UNCHANGED <<mmrll, mmrll_lk, ut, enabled, mpc, freed, got>>

\* td_mm_set_cxt: the thread's signal mask is installed and the kernel delivers
\* the pending signals the mask lets through.
Run(k) ==
  LET t == kt[k].cur IN
  /\ kt[k].pc = "run"
  /\ kt' = [kt EXCEPT ![k].pc = "user", ![k].pend = @ \cap td[t].blocked]
  /\ got' = [got EXCEPT ![t] = @ \cup (kt[k].pend \ td[t].blocked)]
  /\ UNCHANGED <<td, mmrll, mmrll_lk, ut, enabled, mpc, freed>>

\* Mutant of Preempt: the handler does not look at intr_off.
PreemptAlways(k) ==
  /\ Step(k, "user", "post")
  /\ UNCHANGED <<td, mmrll, mmrll_lk, ut, enabled, mpc, freed, got>>

\* SIGALRM: _mmsched_yield swaps to the dispatcher; with interrupts off it only
\* restarts the timer.
Preempt(k) ==
  /\ Step(k, "user", "post")
  /\ ~td[kt[k].cur].intr_off
  /\ UNCHANGED <<td, mmrll, mmrll_lk, ut, enabled, mpc, freed, got>>

\* THREAD_STATE_RUNNING with a signal pending on the kernel thread: the same
\* thread runs again (goto REPEAT_LABEL).
PostRepeat(k) ==
  /\ Step(k, "post", "run")
  /\ td[kt[k].cur].state = "RUNNING"
  /\ kt[k].pend # {}
  /\ UNCHANGED <<td, mmrll, mmrll_lk, ut, enabled, mpc, freed, got>>

\* The same, when it is SIGALRM that is pending: the timer expired after the
\* thread had left its context and before td_mm_timer_stop.
PostRepeatAlarm(k) ==
  /\ Step(k, "post", "run")
  /\ td[kt[k].cur].state = "RUNNING"
  /\ UNCHANGED <<td, mmrll, mmrll_lk, ut, enabled, mpc, freed, got>>

PostRunning(k) ==
  /\ Step(k, "post", "enq_lock")
  /\ td[kt[k].cur].state = "RUNNING"
  /\ kt[k].pend = {}
  /\ UNCHANGED <<td, mmrll, mmrll_lk, ut, enabled, mpc, freed, got>>

EnqLock(k) ==
  /\ Step(k, "enq_lock", "enq")
  /\ mmrll_lock(k)
  /\ UNCHANGED <<td, mmrll, ut, enabled, mpc, freed, got>>

Enq(k) ==
  /\ kt[k].pc = "enq"
  /\ mmrll_enqueue(kt[k].cur)
  /\ ToLoop(k)
  /\ UNCHANGED <<td, ut, enabled, mpc, freed, got>>

\* The lock of the target, taken by the joiner, is released for it.
PostWaitJoin(k) ==
  /\ kt[k].pc = "post"
  /\ td[kt[k].cur].state = "WAIT_JOIN"
  /\ td' = [td EXCEPT ![td[kt[k].cur].wait_join_td].mem_lock = NULL]
  /\ ToLoop(k)
  /\ UNCHANGED <<mmrll, mmrll_lk, ut, enabled, mpc, freed, got>>

PostExited(k) ==
  /\ Step(k, "post", "exit_lock")
  /\ td[kt[k].cur].state = "EXITED"
  /\ UNCHANGED <<td, mmrll, mmrll_lk, ut, enabled, mpc, freed, got>>

-----------------------------------------------------------------------------
(* post_schedule_exited_action                                             *)

ExitLock(k) ==
  /\ Step(k, "exit_lock", "exit_over")
  /\ td[kt[k].cur].mem_lock = NULL
  /\ td' = [td EXCEPT ![kt[k].cur].mem_lock = k]
  /\ UNCHANGED <<mmrll, mmrll_lk, ut, enabled, mpc, freed, got>>

\* td_set_over
ExitOver(k) ==
  /\ Step(k, "exit_over", "exit_check")
  /\ td' = [td EXCEPT ![kt[k].cur].wait = FALSE]
  /\ UNCHANGED <<mmrll, mmrll_lk, ut, enabled, mpc, freed, got>>

\* Mutant of ExitCheck: the type of the joining thread is not looked at.
ExitCheckNoType(k) ==
  LET j == td[kt[k].cur].join_td IN
  /\ kt[k].pc = "exit_check"
  /\ td' = [td EXCEPT ![kt[k].cur].mem_lock = NULL]
  /\ \/ j = NULL /\ ToLoop(k)
     \/ j # NULL /\ Step(k, "exit_check", "wake_lock")
  /\ UNCHANGED <<mmrll, mmrll_lk, ut, enabled, mpc, freed, got>>

\* td_has_join_thread and the type of the joining thread; td_unlock on every
\* path.
ExitCheck(k) ==
  LET j == td[kt[k].cur].join_td IN
  /\ kt[k].pc = "exit_check"
  /\ td' = [td EXCEPT ![kt[k].cur].mem_lock = NULL]
  /\ \/ j = NULL /\ ToLoop(k)
     \/ j \in OneOne /\ Step(k, "exit_check", "futex_wake")
     \/ j \in MMThread /\ Step(k, "exit_check", "wake_lock")
  /\ UNCHANGED <<mmrll, mmrll_lk, ut, enabled, mpc, freed, got>>

\* Mutant of FutexWake: no sleeper is woken.
FutexWakeNobody(k) ==
  /\ kt[k].pc = "futex_wake"
  /\ ToLoop(k)
  /\ UNCHANGED <<td, mmrll, mmrll_lk, ut, enabled, mpc, freed, got>>

\* futex(&thread->wait, FUTEX_WAKE, 1)
FutexWake(k) ==
  LET S == Sleepers(kt[k].cur) IN
  /\ kt[k].pc = "futex_wake"
  /\ \/ S = {} /\ UNCHANGED ut
     \/ \E t \in S : Goto(t, "join_done")
  /\ ToLoop(k)
  /\ UNCHANGED <<td, mmrll, mmrll_lk, enabled, mpc, freed, got>>

WakeLock(k) ==
  /\ Step(k, "wake_lock", "wake")
  /\ mmrll_lock(k)
  /\ UNCHANGED <<td, mmrll, ut, enabled, mpc, freed, got>>

Wake(k) ==
  /\ kt[k].pc = "wake"
  /\ mmrll_enqueue(td[kt[k].cur].join_td)
  /\ ToLoop(k)
  /\ UNCHANGED <<td, ut, enabled, mpc, freed, got>>

-----------------------------------------------------------------------------
\* The steps of the dispatcher that the kernel brings about in the end.
Dispatch(k) ==
  \/ Loop(k) \/ GetLock(k) \/ Get(k) \/ SigLock(k) \/ SigSend(k) \/ Run(k)
  \/ PostRepeat(k) \/ PostRunning(k) \/ EnqLock(k) \/ Enq(k) \/ PostWaitJoin(k)
  \/ PostExited(k) \/ ExitLock(k) \/ ExitOver(k) \/ ExitCheck(k)
  \/ FutexWake(k) \/ WakeLock(k) \/ Wake(k)
=============================================================================
