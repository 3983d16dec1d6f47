----------------------------- MODULE OneOneCntl -----------------------------
(***************************************************************************)
(* The life of a one-one thread: main() of one-one/src/thread_main.c,      *)
(* thread_create, thread_join and thread_exit of thread_cntl.c, and        *)
(* thread_kill of thread_sig.c.  Every thread is a kernel thread.  The     *)
(* wait word of a descriptor belongs to the kernel: clone sets it to the   *)
(* kernel id, and the end of the thread clears it and wakes one futex      *)
(* sleeper.  The ktid field belongs to the creator, which stores it when   *)
(* clone returns, by when the child may have run for long.                 *)
(*                                                                         *)
(* A call that returns an error before it has changed anything is the      *)
(* absence of a step.                                                      *)
(***************************************************************************)
EXTENDS Naturals, FiniteSets

CONSTANTS Thread,      \* the handles thread_create can give out
          Main,        \* the handle of the thread that runs thread_main
          NULL,        \* the null handle
          JoinPairs,   \* <<t, u>>: the client lets t call thread_join(u)
          KillPairs,   \* <<t, u>>: the client lets t call thread_kill(u)
          EarlyHandles \* the client lets a thread that runs pass thread_self()
                       \* to others before its creator's thread_create returns

ASSUME HandleAssumption ==
  /\ Main \in Thread /\ NULL \notin Thread
  /\ JoinPairs \subseteq Thread \X Thread
  /\ KillPairs \subseteq Thread \X Thread
  /\ EarlyHandles \in BOOLEAN

\* The values of a word that holds a kernel id: zero, the id of the thread, and
\* whatever else malloc left there.
ZERO == 0
TID  == 1
JUNK == 2

VARIABLES td,     \* td[t]: the descriptor of t
          pc,     \* pc[t]: where t is in the library
          arg,    \* arg[t]: the handle the call of t is about
          mpc,    \* where main() is
          freed,  \* freed[t]: how often the stack of t has been unmapped
          sent,   \* the threads a successful thread_kill was called for
          got     \* the threads a signal has reached

vars == <<td, pc, arg, mpc, freed, sent, got>>

Label == {"unborn", "client", "create_clone", "create_store",
          "join_lock", "join_check", "join_futex", "join_sleep", "join_woken",
          "join_mark", "join_free", "kill_send", "exiting", "gone"}

MainLabel == {"create", "clone", "store", "spin", "free", "return", "done"}

\* The fields of struct Thread that are shared.
Descr == [state    : {"RUNNING", "EXITED", "JOINED", "WAIT_JOIN"},
          wait     : {ZERO, TID},
          ktid     : {ZERO, TID, JUNK},
          join_td  : Thread \cup {NULL},
          mem_lock : Thread \cup {NULL}]

TypeOK ==
  /\ td \in [Thread -> Descr]
  /\ pc \in [Thread -> Label]
  /\ arg \in [Thread -> Thread \cup {NULL}]
  /\ mpc \in MainLabel
  /\ freed \in [Thread -> 0..2]
  /\ sent \subseteq Thread
  /\ got \subseteq Thread

\* td_alloc and td_init; the ktid field keeps what malloc left in it.
td_init(word) == [state |-> "RUNNING", wait |-> ZERO, ktid |-> word,
                  join_td |-> NULL, mem_lock |-> NULL]

\* main() is about to call thread_create for thread_main.
Init == /\ td = [t \in Thread |-> td_init(ZERO)]
        /\ pc = [t \in Thread |-> "unborn"]
        /\ arg = [t \in Thread |-> NULL]
        /\ mpc = "create"
        /\ freed = [t \in Thread |-> 0]
        /\ sent = {}
        /\ got = {}

Goto(t, l) == pc' = [pc EXCEPT ![t] = l]

\* The client of t makes a call about u.
Call(t, u, l) == /\ pc[t] = "client"
                 /\ Goto(t, l)
                 /\ arg' = [arg EXCEPT ![t] = u]

\* The call of t returns.
Return(t) == /\ Goto(t, "client")
             /\ arg' = [arg EXCEPT ![t] = NULL]

\* u runs or has run, and t can have its handle.
Known(t, u) == /\ pc[u] # "unborn"
               /\ t = u \/ EarlyHandles \/ td[u].ktid = TID

\* The effect of clone on the descriptor: the kernel sets the wait word before
\* the child runs (CLONE_PARENT_SETTID).
clone(u) == td' = [td EXCEPT ![u].wait = TID]

-----------------------------------------------------------------------------
(* thread_create                                                           *)

\* Handles are given out once; u is one that no descriptor has used.
CreateCall(t, u) ==
  /\ pc[u] = "unborn"
  /\ u # Main
  /\ \A v \in Thread : arg[v] # u
  /\ Call(t, u, "create_clone")
  /\ \E word \in {ZERO, JUNK} : td' = [td EXCEPT ![u] = td_init(word)]
  /\ UNCHANGED <<mpc, freed, sent, got>>

\* td_create: clone starts the child; or it fails, and thread_create returns
\* EAGAIN.
CreateClone(t) ==
  /\ pc[t] = "create_clone"
  /\ \/ /\ clone(arg[t])
        /\ pc' = [pc EXCEPT ![arg[t]] = "client", ![t] = "create_store"]
        /\ UNCHANGED arg
     \/ Return(t) /\ UNCHANGED td
  /\ UNCHANGED <<mpc, freed, sent, got>>

\* The creator stores what clone returned.
CreateStore(t) ==
  /\ pc[t] = "create_store"
  /\ td' = [td EXCEPT ![arg[t]].ktid = TID]
  /\ Return(t)
  /\ UNCHANGED <<mpc, freed, sent, got>>

-----------------------------------------------------------------------------
(* thread_join                                                             *)

\* The checks made without the lock: EINVAL, EDEADLK.
JoinCall(t, u) ==
  /\ <<t, u>> \in JoinPairs
  /\ Known(t, u)
  /\ td[u].state # "JOINED"
  /\ t # u
  /\ td[t].join_td # u
  /\ Call(t, u, "join_lock")
  /\ UNCHANGED <<td, mpc, freed, sent, got>>

\* td_lock of the target.
JoinLock(t) ==
  /\ pc[t] = "join_lock"
  /\ td[arg[t]].mem_lock = NULL
  /\ td' = [td EXCEPT ![arg[t]].mem_lock = t]
  /\ Goto(t, "join_check")
  /\ UNCHANGED <<arg, mpc, freed, sent, got>>

\* Mutant of JoinCheck: the check for another joining thread is dropped.
JoinCheckNoOther(t) ==
  LET u == arg[t] IN
  /\ pc[t] = "join_check"
  /\ td' = [td EXCEPT ![u].mem_lock = NULL, ![u].join_td = t,
                      ![t].state = IF td[u].wait = ZERO THEN @ ELSE "WAIT_JOIN"]
  /\ Goto(t, IF td[u].wait = ZERO THEN "join_mark" ELSE "join_futex")
  /\ UNCHANGED <<arg, mpc, freed, sent, got>>

\* Mutant of JoinCheck: the end of the target is read off its state field.
JoinCheckState(t) ==
  LET u == arg[t] IN
  /\ pc[t] = "join_check"
  /\ \/ /\ td[u].join_td # NULL
        /\ td' = [td EXCEPT ![u].mem_lock = NULL]
        /\ Return(t)
     \/ /\ td[u].join_td = NULL
        /\ td' = [td EXCEPT ![u].mem_lock = NULL, ![u].join_td = t,
              ![t].state = IF td[u].state = "EXITED" THEN @ ELSE "WAIT_JOIN"]
        /\ Goto(t, IF td[u].state = "EXITED" THEN "join_mark" ELSE "join_futex")
        /\ UNCHANGED arg
  /\ UNCHANGED <<mpc, freed, sent, got>>

\* Under the lock: another thread joins the target already (EINVAL); or the
\* caller registers, and will wait unless the target is over.
JoinCheck(t) ==
  LET u == arg[t] IN
  /\ pc[t] = "join_check"
  /\ \/ /\ td[u].join_td # NULL
        /\ td' = [td EXCEPT ![u].mem_lock = NULL]
        /\ Return(t)
     \/ /\ td[u].join_td = NULL
        /\ td[u].wait # ZERO
        /\ td' = [td EXCEPT ![u].mem_lock = NULL, ![u].join_td = t,
                            ![t].state = "WAIT_JOIN"]
        /\ Goto(t, "join_futex")
        /\ UNCHANGED arg
     \/ /\ td[u].join_td = NULL
        /\ td[u].wait = ZERO
        /\ td' = [td EXCEPT ![u].mem_lock = NULL, ![u].join_td = t]
        /\ Goto(t, "join_mark")
        /\ UNCHANGED arg
  /\ UNCHANGED <<mpc, freed, sent, got>>

\* Mutant of JoinFutex: an error of the futex call makes the join fail.
JoinFutexFails(t) ==
  /\ pc[t] = "join_futex"
  /\ \/ /\ td[arg[t]].wait = td[arg[t]].ktid
        /\ Goto(t, "join_sleep")
        /\ UNCHANGED <<td, arg>>
     \/ /\ td[arg[t]].wait # td[arg[t]].ktid
        /\ td' = [td EXCEPT ![t].state = "RUNNING"]
        /\ Return(t)
  /\ UNCHANGED <<mpc, freed, sent, got>>

\* Mutant of JoinFutex: a sleep that does not compare the wait word first.
JoinFutexUnchecked(t) ==
  /\ pc[t] = "join_futex"
  /\ Goto(t, "join_sleep")
  /\ UNCHANGED <<td, arg, mpc, freed, sent, got>>

\* futex(&thread->wait, FUTEX_WAIT, td_get_ktid(thread)): sleep if the word has
\* the value of the ktid field, return at once (EAGAIN) if not.
JoinFutex(t) ==
  /\ pc[t] = "join_futex"
  /\ \/ td[arg[t]].wait = td[arg[t]].ktid /\ Goto(t, "join_sleep")
     \/ td[arg[t]].wait # td[arg[t]].ktid /\ Goto(t, "join_woken")
  /\ UNCHANGED <<td, arg, mpc, freed, sent, got>>

\* The wait is over, for whatever reason: the word is not looked at again.
JoinWoken(t) ==
  /\ pc[t] = "join_woken"
  /\ td' = [td EXCEPT ![t].state = "RUNNING"]
  /\ Goto(t, "join_mark")
  /\ UNCHANGED <<arg, mpc, freed, sent, got>>

\* Both branches of the check meet: the target is marked.
JoinMark(t) ==
  /\ pc[t] = "join_mark"
  /\ td' = [td EXCEPT ![arg[t]].state = "JOINED"]
  /\ Goto(t, "join_free")
  /\ UNCHANGED <<arg, mpc, freed, sent, got>>

\* The return value is read; td_free unmaps the stack and keeps the descriptor.
JoinFree(t) ==
  /\ pc[t] = "join_free"
  /\ freed' = [freed EXCEPT ![arg[t]] = @ + 1]
  /\ Return(t)
  /\ UNCHANGED <<td, mpc, sent, got>>

-----------------------------------------------------------------------------
(* The end of _one_one_start, and thread_exit                              *)

\* The start routine has returned: the state is set, and the kernel takes over.
StartReturns(t) ==
  /\ pc[t] = "client"
  /\ td' = [td EXCEPT ![t].state = "EXITED"]
  /\ Goto(t, "exiting")
  /\ UNCHANGED <<arg, mpc, freed, sent, got>>

\* thread_exit does the same from inside the routine.
ThreadExit(t) == StartReturns(t)

\* The threads that sleep on the wait word of u.
Sleepers(u) == {t \in Thread : pc[t] = "join_sleep" /\ arg[t] = u}

\* Mutant of KernelExit: the word is cleared and nobody is woken.
KernelExitSilent(t) ==
  /\ pc[t] = "exiting"
  /\ td' = [td EXCEPT ![t].wait = ZERO]
  /\ Goto(t, "gone")
  /\ UNCHANGED <<arg, mpc, freed, sent, got>>

\* The kernel ends the thread: it clears the wait word and wakes one sleeper
\* (CLONE_CHILD_CLEARTID).
KernelExit(t) ==
  /\ pc[t] = "exiting"
  /\ td' = [td EXCEPT ![t].wait = ZERO]
  /\ \/ \E u \in Sleepers(t) : pc' = [pc EXCEPT ![t] = "gone", ![u] = "join_woken"]
     \/ Sleepers(t) = {} /\ Goto(t, "gone")
  /\ UNCHANGED <<arg, mpc, freed, sent, got>>

-----------------------------------------------------------------------------
(* thread_kill                                                             *)

KillCall(t, u) ==
  /\ <<t, u>> \in KillPairs
  /\ Known(t, u)
  /\ td[u].state \notin {"EXITED", "JOINED"}
  /\ Call(t, u, "kill_send")
  /\ UNCHANGED <<td, mpc, freed, sent, got>>

\* tgkill to the id in the ktid field, whose result is not looked at.  The
\* handler of the client runs, without SA_RESTART: a futex sleep ends (EINTR).
KillSend(t) ==
  LET u == arg[t] IN
  /\ pc[t] = "kill_send"
  /\ sent' = sent \cup {u}
  /\ arg' = [arg EXCEPT ![t] = NULL]
  /\ \/ /\ td[u].ktid = TID /\ pc[u] # "gone"
        /\ got' = got \cup {u}
        /\ pc' = IF pc[u] = "join_sleep"
                 THEN [pc EXCEPT ![t] = "client", ![u] = "join_woken"]
                 ELSE [pc EXCEPT ![t] = "client"]
     \/ /\ td[u].ktid # TID \/ pc[u] = "gone"
        /\ Goto(t, "client")
        /\ UNCHANGED got
  /\ UNCHANGED <<td, mpc, freed>>

-----------------------------------------------------------------------------
(* main()                                                                  *)

\* thread_create for thread_main, which is assumed to succeed.
MainCreate ==
  /\ mpc = "create" /\ mpc' = "clone"
  /\ \E word \in {ZERO, JUNK} : td' = [td EXCEPT ![Main] = td_init(word)]
  /\ UNCHANGED <<pc, arg, freed, sent, got>>

MainClone ==
  /\ mpc = "clone" /\ mpc' = "store"
  /\ clone(Main)
  /\ Goto(Main, "client")
  /\ UNCHANGED <<arg, freed, sent, got>>

MainStore ==
  /\ mpc = "store" /\ mpc' = "spin"
  /\ td' = [td EXCEPT ![Main].ktid = TID]
  /\ UNCHANGED <<pc, arg, freed, sent, got>>

\* Mutant of MainSpin: main() does not wait.
MainSpinNot ==
  /\ mpc = "spin" /\ mpc' = "free"
  /\ UNCHANGED <<td, pc, arg, freed, sent, got>>

\* while (!td_is_over(main_td))
MainSpin ==
  /\ mpc = "spin" /\ mpc' = "free"
  /\ td[Main].wait = ZERO
  /\ UNCHANGED <<td, pc, arg, freed, sent, got>>

\* if (!td_is_joined(main_td)) td_free(main_td)
MainFree ==
  /\ mpc = "free" /\ mpc' = "return"
  /\ freed' = IF td[Main].state = "JOINED" THEN freed
              ELSE [freed EXCEPT ![Main] = @ + 1]
  /\ UNCHANGED <<td, pc, arg, sent, got>>

\* return 0: the process exits, whatever its other threads are doing.
MainReturn ==
  /\ mpc = "return" /\ mpc' = "done"
  /\ UNCHANGED <<td, pc, arg, freed, sent, got>>

-----------------------------------------------------------------------------
MainStep == \/ MainCreate \/ MainClone \/ MainStore \/ MainSpin \/ MainFree
            \/ MainReturn

\* Steps inside the library, and the calls a client may make.
Library(t) == \/ CreateClone(t) \/ CreateStore(t)
              \/ JoinLock(t) \/ JoinCheck(t) \/ JoinFutex(t) \/ JoinWoken(t)
              \/ JoinMark(t) \/ JoinFree(t) \/ KernelExit(t) \/ KillSend(t)

Client(t) == \/ \E u \in Thread : CreateCall(t, u) \/ JoinCall(t, u) \/ KillCall(t, u)
             \/ ThreadExit(t)

\* main() has returned and the process is gone.
Finished == mpc = "done" /\ UNCHANGED vars

Next == \/ mpc # "done" /\ (MainStep \/ \E t \in Thread : Library(t) \/ Client(t))
        \/ Finished

Spec == Init /\ [][Next]_vars

\* The kernel runs main() and every thread.  JoinLock spins on a lock that no
\* thread holds for ever, so that its compare-and-swap succeeds in the end.
FairSpec == /\ Spec
            /\ WF_vars(mpc # "done" /\ MainStep)
            /\ \A t \in Thread : SF_vars(mpc # "done" /\ Library(t))

-----------------------------------------------------------------------------
(* Properties                                                              *)

\* The clients for which the library can keep what it says of thread_join: no
\* signal ends a wait early, since a thread that is signalled never joins; and a
\* handle is used once thread_create has returned it.
Disciplined == /\ \A p \in KillPairs, q \in JoinPairs : p[2] # q[1]
               /\ ~EarlyHandles

\* The clients that leave the thread of thread_main to main().
MainUnjoined == \A t \in Thread : <<t, Main>> \notin JoinPairs

\* The stack of a thread is not unmapped while the thread runs on it: neither
\* thread_join nor main() gets to td_free before the kernel has ended it.
StackInUse == \A t \in Thread : freed[t] > 0 => pc[t] = "gone"

\* A stack is unmapped once: two joiners, or a joiner and main(), never both
\* free the same thread.
FreedOnce == \A t \in Thread : freed[t] <= 1

\* t has registered with its target and has not unmapped its stack yet.
Joins(t) == pc[t] \in {"join_futex", "join_sleep", "join_woken", "join_mark", "join_free"}

\* The joining thread of u, if there is one, has still to unmap its stack.
JoinPending(u) == \E t \in Thread : Joins(t) /\ arg[t] = u /\ td[u].join_td = t

\* A thread that registers with a target unmaps its stack, once, however its wait
\* ends: from the registration on the stack is there as long as that thread is in
\* thread_join, and has been unmapped once when it is not.  The registration is for
\* good, so that a join that gave up would lose the stack, and others are refused.
\* Refused joiners, signals, and handles passed on before ktid is stored change
\* nothing; only the stack of thread_main is main()'s as well.
JoinerFrees ==
  \A u \in Thread \ {Main} :
    freed[u] = IF td[u].join_td = NULL \/ JoinPending(u) THEN 0 ELSE 1

\* A thread_join that has stopped waiting has a target that is over, so that
\* the return value it reads is the final one.
JoinAfterExit ==
  \A t \in Thread :
    pc[t] \in {"join_woken", "join_mark", "join_free"} => pc[arg[t]] = "gone"

\* EDEADLK keeps two threads from waiting for each other.
NoMutualJoin ==
  \A t, u \in Thread : ~(td[t].join_td = u /\ td[u].join_td = t)

\* The signal of a successful thread_kill reaches its target, unless the target
\* ends.  It is not so of a thread that signals itself before its creator has stored
\* its kernel id.
KillReaches == \A t \in sent : t \in got \/ pc[t] = "gone"

\* No one sleeps on the wait word of a thread that is over.
NoSleepOnOver == \A t \in Thread : pc[t] = "gone" => Sleepers(t) = {}

\* A thread that joins a target that exits returns from thread_join.
JoinReturns ==
  \A p \in JoinPairs :
    td[p[2]].join_td = p[1] /\ td[p[2]].state = "EXITED"
      ~> freed[p[2]] > 0 \/ mpc = "done"

\* The program exits once thread_main has.
ProgramExits == td[Main].state = "EXITED" ~> mpc = "done"
=============================================================================
