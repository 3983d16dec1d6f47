------------------------------- MODULE Hybrid -------------------------------
(***************************************************************************)
(* The hybrid library as a whole: main() of hybrid/src/thread_main.c, the  *)
(* dispatchers, and the calls of one-one and many-many threads.  The       *)
(* thread of thread_main is one-one.                                       *)
(***************************************************************************)
EXTENDS HybridCntl, HybridSig

\* The state mmsched_init leaves.
Init ==
  /\ td = [t \in Thread |-> td_init(t, {})]
  /\ mmrll = <<>>
  /\ mmrll_lk = NULL
  /\ kt = [k \in KThread |-> [pc |-> "loop", cur |-> NULL, pend |-> {}]]
  /\ ut = [t \in Thread |-> [pc |-> "unborn", arg |-> NULL]]
  /\ enabled = TRUE
  /\ mpc = "create"
  /\ freed = [t \in Thread |-> 0]
  /\ got = [t \in Thread |-> {}]

-----------------------------------------------------------------------------
(* main()                                                                  *)

\* thread_create(&main_td, thread_main, NULL, THREAD_TYPE_ONE_ONE): its steps
\* touch nothing that others read before main() looks at the wait word.
MainCreate ==
  /\ mpc = "create" /\ mpc' = "spin"
  /\ td' = [td EXCEPT ![Main] = [td_init(Main, {}) EXCEPT !.wait = TRUE, !.given = TRUE]]
  /\ Goto(Main, "client")
  /\ UNCHANGED <<mmrll, mmrll_lk, kt, enabled, freed, got>>

\* while (!td_is_over(main_td))
MainSpin ==
  /\ mpc = "spin" /\ mpc' = "free"
  /\ ~td[Main].wait
  /\ UNCHANGED <<td, mmrll, mmrll_lk, kt, ut, enabled, freed, got>>

\* if (!td_is_joined(main_td)) td_oo_free(main_td)
MainFree ==
  /\ mpc = "free" /\ mpc' = "deinit"
  /\ freed' = IF td[Main].state = "JOINED" THEN freed
              ELSE [freed EXCEPT ![Main] = @ + 1]
  /\ UNCHANGED <<td, mmrll, mmrll_lk, kt, ut, enabled, got>>

\* mmsched_deinit: the flag, then a futex wait for every kernel thread.
MainDeinit ==
  /\ mpc = "deinit" /\ mpc' = "reap"
  /\ enabled' = FALSE
  /\ UNCHANGED <<td, mmrll, mmrll_lk, kt, ut, freed, got>>

MainReap ==
  /\ mpc = "reap" /\ mpc' = "done"
  /\ \A k \in KThread : kt[k].pc = "returned"
  /\ UNCHANGED <<td, mmrll, mmrll_lk, kt, ut, enabled, freed, got>>

MainStep == MainCreate \/ MainSpin \/ MainFree \/ MainDeinit \/ MainReap

-----------------------------------------------------------------------------
\* What the client of a thread calls, and what a call does.
UserCall(t) == CntlCall(t) \/ SigCall(t)
UserStep(t) == CntlStep(t) \/ SigStep(t)

\* main() has returned and the process is gone.
Finished == mpc = "done" /\ UNCHANGED vars

Next == \/ mpc # "done" /\ MainStep
        \/ \E k \in KThread :
             mpc # "done" /\ (Dispatch(k) \/ Preempt(k) \/ PostRepeatAlarm(k))
        \/ \E t \in Thread : mpc # "done" /\ (UserCall(t) \/ UserStep(t))
        \/ Finished

Spec == Init /\ [][Next]_vars

\* The kernel runs main(), the one-one threads and the dispatchers; a spin on a
\* lock is not put off for ever by others that take it again and again, a time
\* slice is long against the steps between two preemptions, and the timer that
\* is restarted as often as it finds interrupts off finds them on in the end.  Nor
\* does it expire in the few instructions before td_mm_timer_stop time after time.
FairSpec ==
  /\ Spec
  /\ WF_vars(MainStep)
  /\ \A k \in KThread : /\ SF_vars(Dispatch(k)) /\ SF_vars(PostRunning(k))
                        /\ SF_vars(Preempt(k))
  /\ \A t \in Thread : SF_vars(UserStep(t))

-----------------------------------------------------------------------------
(* Properties                                                              *)

Ready(t) == \E i \in 1..Len(mmrll) : mmrll[i] = t
Dispatched(t) == \E k \in KThread : kt[k].cur = t

\* t has left its stack for ever: the kernel has ended it, or its dispatcher has
\* set it over.
Ended(t) == IF t \in OneOne THEN ut[t].pc = "gone"
            ELSE /\ ut[t].pc = "exited" /\ ~td[t].wait
                 /\ ~Ready(t) /\ \A k \in KThread :
                      kt[k].cur = t => kt[k].pc \in {"exit_check", "futex_wake",
                                                     "wake_lock", "wake"}

\* Whatever the types of the two threads, a thread_join that has stopped waiting
\* has a target that has ended: a one-one thread that puts its many-many joiner
\* in the ready list still has to leave its stack.
JoinSound ==
  \A t \in Thread : ut[t].pc \in {"join_done", "join_free"} => Ended(ut[t].arg)

\* A stack is unmapped once, and when nobody runs on it any more.
FreedOnce == \A t \in Thread : freed[t] <= 1 /\ (freed[t] > 0 => Ended(t))

\* A many-many thread is in one place: on one kernel thread or once in the ready
\* list.  A joiner made ready before its context is saved would be resumed twice.
OnePlace ==
  /\ \A i, j \in 1..Len(mmrll) : mmrll[i] = mmrll[j] => i = j
  /\ \A k, l \in KThread : kt[k].cur = kt[l].cur /\ kt[k].cur # NULL => k = l
  /\ \A t \in Thread : Ready(t) => ~Dispatched(t)

\* A one-one joiner does not sleep on the wait word of a target that is over,
\* unless the dispatcher that has set it over is about to wake it.
NoSleepOnOver ==
  \A t \in Thread : ut[t].pc = "join_sleep" =>
    LET u == ut[t].arg IN
    td[u].wait \/ \E k \in KThread : /\ kt[k].cur = u
                                     /\ kt[k].pc \in {"exit_check", "futex_wake"}

\* A many-many thread that holds the lock of the ready list or of a descriptor
\* is not preempted.  The exceptions are a joiner that has parked itself, whose
\* dispatcher is about to release the lock for it, and the refused joiner, which
\* enables its interrupts before it releases the lock.
HolderOnCpu ==
  \A t \in MMThread : (mmrll_lk = t \/ \E u \in Thread : td[u].mem_lock = t) =>
    \/ Runs(t)
    \/ ut[t].pc = "join_refuse"
    \/ \E k \in KThread : /\ kt[k].cur = t /\ kt[k].pc = "post"
                          /\ ut[t].pc = "join_parked"

-----------------------------------------------------------------------------
(* Liveness                                                                *)

\* t waits for u, and u has exited.
AwaitsEnd(t, u) == td[u].join_td = t /\ td[u].state = "EXITED"

\* A thread_join whose target has exited goes on.
JoinReturns ==
  \A p \in JoinPairs :
    AwaitsEnd(p[1], p[2]) ~> td[p[2]].state = "JOINED" \/ ~enabled

\* thread_kill returns, although its caller may be preempted anywhere: it holds the
\* lock of its target with its own interrupts disabled.
KillReturns ==
  \A p \in KillPairs : ut[p[1]].pc = "kill_lock" ~> ut[p[1]].pc = "client" \/ ~enabled

\* A signal that thread_kill has left to a many-many thread is delivered to it by
\* whatever kernel thread takes it next, unless it blocks the signal, exits or is
\* parked in thread_join.
SignalDelivered ==
  \A p \in KillPairs, s \in Signal :
    s \in td[p[2]].pend_sig
      ~> \/ s \in got[p[2]] \/ s \in td[p[2]].blocked
         \/ ut[p[2]].pc \in {"exited", "join_parked"} \/ ~enabled

\* A join that finds another joiner returns EINVAL.
RefusedJoinReturns ==
  \A p \in JoinPairs :
    ut[p[1]].pc = "join_lock" /\ ut[p[1]].arg = p[2] /\ Ended(p[2])
      ~> ut[p[1]].pc \in {"client", "join_done", "join_free"} \/ ~enabled
=============================================================================
