------------------------------ MODULE ManyMany ------------------------------
(***************************************************************************)
(* The many-many library as a whole: main() of thread_main.c, which starts *)
(* the dispatchers, creates the thread of thread_main and waits for it;    *)
(* the dispatchers; and the calls user threads make while they run.        *)
(***************************************************************************)
EXTENDS MMSched, MMCntl, MMSync, MMSig

\* The state mmsched_init leaves: every dispatcher is about to look at
\* mmsched_enabled and nobody exists yet.
Init ==
  /\ td = [t \in Thread |-> NoDescr]
  /\ mut = [m \in Mutex |-> NoMutex]
  /\ mmrll = <<>>
  /\ mmrll_lk = NULL
  /\ kt = [k \in KThread |-> [pc |-> "loop", cur |-> NULL, pend |-> {}]]
  /\ ut = [t \in Thread |-> [pc |-> "client", arg |-> NULL]]
  /\ enabled = TRUE
  /\ mpc = "create"
  /\ inCS = [m \in Mutex |-> {}]
  /\ sent = [t \in Thread |-> {}]
  /\ got = [t \in Thread |-> {}]

-----------------------------------------------------------------------------
(* main()                                                                  *)

\* thread_create(&main_td, thread_main, NULL), in three steps.
MainCreate ==
  /\ mpc = "create"
  /\ mpc' = "create_lock"
  /\ td' = [td EXCEPT ![Main] = td_init({})]
  /\ UNCHANGED <<mut, mmrll, mmrll_lk, kt, ut, enabled, inCS, sent, got>>

MainLock ==
  /\ mpc = "create_lock"
  /\ mpc' = "create_enq"
  /\ mmrll_lock("main")
  /\ UNCHANGED <<td, mut, mmrll, kt, ut, enabled, inCS, sent, got>>

MainEnq ==
  /\ mpc = "create_enq"
  /\ mpc' = "spin"
  /\ mmrll_enqueue(Main)
  /\ UNCHANGED <<td, mut, kt, ut, enabled, inCS, sent, got>>

\* while (!td_is_over(main_td)): a read without the lock.
MainSpin ==
  /\ mpc = "spin"
  /\ ~td[Main].wait
  /\ mpc' = "free"
  /\ UNCHANGED <<td, mut, mmrll, mmrll_lk, kt, ut, enabled, inCS, sent, got>>

\* if (!td_is_joined(main_td)) td_free(main_td)
MainFree ==
  /\ mpc = "free"
  /\ mpc' = "deinit"
  /\ td' = IF td[Main].state = "JOINED" THEN td ELSE [td EXCEPT ![Main].mem = "freed"]
  /\ UNCHANGED <<mut, mmrll, mmrll_lk, kt, ut, enabled, inCS, sent, got>>

\* Mutant of MainDeinit: the dispatchers are not told to stop.
MainDeinitForgets ==
  /\ mpc = "deinit"
  /\ mpc' = "reap"
  /\ UNCHANGED <<td, mut, mmrll, mmrll_lk, kt, ut, enabled, inCS, sent, got>>

\* mmsched_deinit: the flag, then a futex wait for every kernel thread.
MainDeinit ==
  /\ mpc = "deinit"
  /\ mpc' = "reap"
  /\ enabled' = FALSE
  /\ UNCHANGED <<td, mut, mmrll, mmrll_lk, kt, ut, inCS, sent, got>>

MainReap ==
  /\ mpc = "reap"
  /\ \A k \in KThread : kt[k].pc = "returned"
  /\ mpc' = "done"
  /\ UNCHANGED <<td, mut, mmrll, mmrll_lk, kt, ut, enabled, inCS, sent, got>>

MainStep == \/ MainCreate \/ MainLock \/ MainEnq \/ MainSpin \/ MainFree
            \/ MainDeinit \/ MainReap

-----------------------------------------------------------------------------
UserCall(k, t) == CntlCall(k, t) \/ SyncCall(k, t) \/ SigCall(k, t)
UserStep(k, t) == CntlStep(k, t) \/ SyncStep(k, t) \/ SigStep(k, t)

\* main() has returned and the process is gone.
Finished == mpc = "done" /\ UNCHANGED vars

Next == \/ MainStep
        \/ \E k \in KThread : Dispatch(k) \/ Preempt(k) \/ PostRepeatAlarm(k)
        \/ \E k \in KThread, t \in Thread : UserCall(k, t) \/ UserStep(k, t)
        \/ Finished

Spec == Init /\ [][Next]_vars

\* The kernel runs main() and every kernel thread; a timer that is restarted as
\* often as it finds interrupts off finds them on in the end.  Neither a spin on
\* a lock nor the steps between two preemptions can be put off for ever: a time
\* slice is long against them.  Nor does the timer expire in the few
\* instructions before td_timer_stop time after time.
FairSpec ==
  /\ Spec
  /\ SF_vars(MainStep)
  /\ \A k \in KThread : /\ SF_vars(Dispatch(k)) /\ SF_vars(PostRunning(k))
                         /\ SF_vars(Preempt(k))
  /\ \A t \in Thread : SF_vars(\E k \in KThread : UserStep(k, t))

-----------------------------------------------------------------------------
(* Properties                                                              *)

InList(t, s) == \E i \in 1..Len(s) : s[i] = t

Ready(t) == InList(t, mmrll)
Dispatched(t) == \E k \in KThread : kt[k].cur = t
Runs(t) == \E k \in KThread : kt[k].cur = t /\ kt[k].pc = "user"

\* A thread is in one place: on one kernel thread, or once in the ready list,
\* or once in the wait list of one mutex.  One context is never resumed twice.
\* The one overlap is a waiter whose dispatcher has not yet released the member
\* lock of the mutex for it.
OnePlace ==
  /\ \A i, j \in 1..Len(mmrll) : mmrll[i] = mmrll[j] => i = j
  /\ \A k, l \in KThread : kt[k].cur = kt[l].cur /\ kt[k].cur # NULL => k = l
  /\ \A t \in Thread : Ready(t) => ~Dispatched(t)
  /\ \A m \in Mutex : \A i, j \in 1..Len(mut[m].waitll) :
       mut[m].waitll[i] = mut[m].waitll[j] => i = j
  /\ \A m \in Mutex, t \in Thread : InList(t, mut[m].waitll) =>
       /\ ~Ready(t)
       /\ \A k \in KThread : kt[k].cur = t => kt[k].pc = "post"

\* Somebody is about to put t in the ready list.
AboutToBeReady(t) ==
  \/ t = Main /\ mpc \in {"create_lock", "create_enq"}
  \/ \E u \in Thread :
       \/ ut[u].pc \in {"create_lock", "create_enq"} /\ ut[u].arg = t
       \/ /\ ut[u].pc \in {"unlock_list", "unlock_enq"}
          /\ mut[ut[u].arg].owner = t
  \/ \E k \in KThread :
       /\ kt[k].pc \in {"exit_check", "wake_lock", "wake"}
       /\ td[kt[k].cur].join_thread = t

\* t waits for a mutex that has an owner, or for a thread that is not over.
Parked(t) ==
  \/ \E m \in Mutex : InList(t, mut[m].waitll) /\ mut[m].owner # NULL
  \/ \E u \in Thread : /\ ut[t].pc = "join_wait" /\ ut[t].arg = u
                       /\ td[u].join_thread = t
                       /\ td[u].wait

\* No thread falls out of the library: one that exists and has not exited is
\* ready, dispatched, about to be made ready, or waits for something that can
\* still happen.  A waiter enqueued after the last wake-up would break this.
NoLostThread ==
  \A t \in Thread : td[t].mem = "live" /\ td[t].state # "EXITED" =>
    Ready(t) \/ Dispatched(t) \/ AboutToBeReady(t) \/ Parked(t)

\* Whoever holds a lock that a dispatcher or a thread with interrupts off may
\* spin on, the ready list's or a descriptor's, is running on a kernel thread and
\* not preempted: what td_disable_intr is for.  The one exception is a joiner that
\* has parked itself and whose dispatcher is about to release the lock for it.
HolderOnCpu ==
  /\ \A t \in Thread : mmrll_lk = t => Runs(t)
  /\ \A t, u \in Thread : td[u].mem_lock = t =>
       \/ Runs(t)
       \/ \E k \in KThread : /\ kt[k].cur = t /\ kt[k].pc = "post"
                             /\ ut[t].pc = "join_wait" /\ td[t].state = "WAIT_JOIN"

\* Between a successful acquire and the release that ends it, a thread is the
\* owner of the mutex and alone, although the mutex is passed on while its next
\* owner is still parked.
MutexExclusion ==
  \A m \in Mutex : \A t \in inCS[m] : mut[m].owner = t

\* A mutex that a client destroys after its own unlock, with nobody left who asks
\* for it, is not touched any more: neither by an earlier holder that is still on
\* its way out of thread_mutex_unlock nor by the dispatcher of a waiter.
DestroyedNotUsed ==
  \A m \in Mutex, t \in Thread :
    mut[m].mem = "none" => ut[t].arg # m /\ td[t].wait_for # m

\* When thread_join goes on, its target has finished: the wait word is clear,
\* the state is EXITED, and the target will not be dispatched again.
JoinSound ==
  \A t \in Thread :
    (Runs(t) /\ ut[t].pc = "join_wait") \/ ut[t].pc = "join_free" =>
      LET u == ut[t].arg IN
      ~td[u].wait /\ td[u].state = "EXITED" /\ ~Runs(u) /\ ~Ready(u)

\* No dispatcher, no list and no call in progress refers to the descriptor of u.
NotUsed(u) == /\ ~Dispatched(u) /\ ~Ready(u)
              /\ \A t \in Thread : ut[t].pc # "client" => ut[t].arg # u
              /\ \A t \in Thread : td[t].wait_for # u

\* Nobody uses a descriptor that thread_join has freed.
JoinedNotUsed ==
  \A u \in Thread \ {Main} : td[u].mem = "freed" => NotUsed(u)

\* The same of the descriptor that main() frees once the wait word of the
\* thread_main thread is clear.
MainNotUsed == td[Main].mem = "freed" => NotUsed(Main)

\* A signal is delivered to no thread but the ones thread_kill named.
SignalToTarget == \A t \in Thread : got[t] \subseteq sent[t]

\* EDEADLK keeps two threads from waiting for each other.
NoMutualJoin ==
  \A t, u \in Thread : ~(td[t].join_thread = u /\ td[u].join_thread = t)

-----------------------------------------------------------------------------
(* Liveness                                                                *)

\* A release has made t, parked in thread_mutex_lock, the owner of m.
HandedOver(t, m) == /\ ut[t].pc = "lock_wait" /\ ut[t].arg = m
                    /\ mut[m].owner = t /\ ~InList(t, mut[m].waitll)

\* The mutex handed to a waiter reaches it: its thread_mutex_lock returns.
HandOverArrives ==
  \A t \in Thread, m \in Mutex : HandedOver(t, m) ~> t \in inCS[m] \/ ~enabled

\* A thread that waits for a target that has exited goes on.
JoinReturns ==
  \A p \in JoinPairs :
    td[p[2]].join_thread = p[1] /\ td[p[2]].state = "EXITED"
      ~> td[p[2]].state = "JOINED" \/ ~enabled

\* The program exits once thread_main has.
ProgramExits == td[Main].state = "EXITED" ~> mpc = "done"

\* A signal accepted by thread_kill is delivered, unless its target blocks it or
\* exits.
SignalDelivered ==
  \A t \in Thread, s \in Signal :
    s \in td[t].pend_sig
      ~> \/ s \in got[t] \/ s \in td[t].blocked
         \/ td[t].state = "EXITED" \/ ~enabled

\* A thread that yields lets the threads of the ready list run: it is put at the
\* end of the list.
YieldLetsOthersRun ==
  \A t, u \in Thread :
    ut[t].pc = "yielded" /\ Ready(u) ~> Runs(u) \/ ~enabled

\* thread_kill returns.
KillReturns ==
  \A t \in Thread : ut[t].pc = "kill_lock" ~> ut[t].pc = "client" \/ ~enabled

\* A join that finds another joiner returns EINVAL.
RefusedJoinReturns ==
  \A t \in Thread : ut[t].pc = "join_refuse" ~> ut[t].pc = "client" \/ ~enabled

-----------------------------------------------------------------------------
(* The mutexes implement MutexSpec.                                        *)

Asking(m) == {t \in Thread :
                /\ ut[t].arg = m
                /\ \/ ut[t].pc \in {"lock_spin", "lock_check", "lock_queue"}
                   \/ ut[t].pc = "lock_wait" /\ InList(t, mut[m].waitll)}

Abstract(m) == INSTANCE MutexSpec
                 WITH NoOne <- NULL, holder <- mut[m].owner, asking <- Asking(m)

\* Every mutex of the library is the abstract one: granted when free, or passed
\* by its holder to a thread that asks, and given back by its holder only.
\* (The conjunction of Abstract(m)!Spec over all m, in the form TLC can check.)
ImplementsMutex ==
  /\ \A m \in Mutex : Abstract(m)!Init
  /\ [][\A m \in Mutex : [Abstract(m)!Next]_(Abstract(m)!vars)]_vars
=============================================================================
