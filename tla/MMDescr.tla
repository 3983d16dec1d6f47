------------------------------ MODULE MMDescr ------------------------------
(***************************************************************************)
(* The shared state of the many-many library: the thread descriptors of    *)
(* many-many/src/thread_descr.h, the mutex object of thread_sync.h, the    *)
(* ready list of mmrll.c, and the kernel threads that run the dispatcher   *)
(* of mmsched.c.  The modules that extend this one add the operations.     *)
(*                                                                         *)
(* A Lock is the word of mods/lock.c.  The model keeps in it who acquired  *)
(* it, where the code keeps only that somebody did; no guard looks at the  *)
(* name.  lock_acquire is a step that is enabled while the lock is free.   *)
(***************************************************************************)
EXTENDS Naturals, Sequences, FiniteSets

CONSTANTS Thread,    \* the handles thread_create can give out
          Main,      \* the handle of the thread that runs thread_main
          KThread,   \* the kernel threads that run _mmsched_dispatch
          Mutex,     \* the mutex objects
          Signal,    \* the signals other than SIGALRM
          NULL,      \* the null pointer, and the value of a free lock
          Ops,       \* the library calls the client makes
          JoinPairs, \* <<t, u>>: the client lets t call thread_join(u)
          KillPairs  \* <<t, u>>: the client lets t call thread_kill(u)

ASSUME HandleAssumption ==
  /\ Main \in Thread
  /\ NULL \notin Thread \cup KThread \cup Mutex
  /\ Thread \cap KThread = {} /\ Thread \cap Mutex = {} /\ "main" \notin Thread
  /\ JoinPairs \subseteq Thread \X Thread
  /\ KillPairs \subseteq Thread \X Thread

VARIABLES td,        \* td[t]: the descriptor of t
          mut,       \* mut[m]: the mutex object m
          mmrll,     \* the ready list, head first
          mmrll_lk,  \* the lock of the ready list
          kt,        \* kt[k]: the kernel thread k
          ut,        \* ut[t]: where t is in its own code
          enabled,   \* mmsched_enabled
          mpc,       \* where main() is
          inCS,      \* inCS[m]: the threads whose acquire of m succeeded and
                     \* that have not passed a release: the client's view
          sent, got  \* sent[t], got[t]: the signals thread_kill accepted for t
                     \* and the signals delivered while t ran

vars == <<td, mut, mmrll, mmrll_lk, kt, ut, enabled, mpc, inCS, sent, got>>

States == {"RUNNING", "EXITED", "JOINED", "WAIT_JOIN", "WAIT_MUTEX"}

\* The places of a user thread inside the library; "client" is outside it.
UserLabel == {"client",
              "create_lock", "create_enq",
              "join_lock", "join_refuse", "join_check", "join_wait", "join_free",
              "exited", "yielded",
              "lock_spin", "lock_check", "lock_queue", "lock_wait",
              "try_spin", "try_check",
              "unlock_spin", "unlock_check", "unlock_list", "unlock_enq",
              "unlock_rel",
              "kill_lock", "kill_set", "kill_intr"}

\* The places of a dispatcher; "user" is inside the context of its thread.
DispatchLabel == {"loop", "get_lock", "get", "sig_lock", "sig_send", "run",
                  "user", "post", "enq_lock", "enq", "exit_lock", "exit_over",
                  "exit_check", "wake_lock", "wake", "returned"}

MainLabel == {"create", "create_lock", "create_enq", "spin", "free", "deinit",
              "reap", "done"}

Lock == {NULL} \cup Thread \cup KThread

TypeOK ==
  /\ td \in [Thread ->
       [mem        : {"none", "live", "freed"},
        state      : States,
        wait       : BOOLEAN,
        join_thread: Thread \cup {NULL},
        wait_for   : Thread \cup Mutex \cup {NULL},
        intr_off   : BOOLEAN,
        pend_sig   : SUBSET Signal,
        blocked    : SUBSET Signal,
        mem_lock   : Lock]]
  /\ mut \in [Mutex -> [mem: {"none", "live"}, owner: Thread \cup {NULL},
                        waitll: Seq(Thread), mem_lock: Lock]]
  /\ mmrll \in Seq(Thread)
  /\ mmrll_lk \in Lock \cup {"main"}
  /\ kt \in [KThread -> [pc: DispatchLabel, cur: Thread \cup {NULL},
                         pend: SUBSET Signal]]
  /\ ut \in [Thread -> [pc: UserLabel,
                        arg: Thread \cup Mutex \cup (Thread \X Signal) \cup {NULL}]]
  /\ enabled \in BOOLEAN
  /\ mpc \in MainLabel
  /\ inCS \in [Mutex -> SUBSET Thread]
  /\ sent \in [Thread -> SUBSET Signal]
  /\ got \in [Thread -> SUBSET Signal]

\* A descriptor before td_alloc.
NoDescr == [mem |-> "none", state |-> "RUNNING", wait |-> TRUE,
            join_thread |-> NULL, wait_for |-> NULL, intr_off |-> FALSE,
            pend_sig |-> {}, blocked |-> {}, mem_lock |-> NULL]

\* td_alloc, td_init and td_init_cxt: getcontext gives the new context the
\* signal mask of its creator.
td_init(mask) == [NoDescr EXCEPT !.mem = "live", !.blocked = mask]

\* mut_alloc and mut_init; the object before them.
mut_init == [mem |-> "live", owner |-> NULL, waitll |-> <<>>, mem_lock |-> NULL]
NoMutex == [mut_init EXCEPT !.mem = "none"]

\* t runs in its own context on the kernel thread k, at place l.
At(k, t, l) == kt[k].pc = "user" /\ kt[k].cur = t /\ ut[t].pc = l

Goto(t, l) == ut' = [ut EXCEPT ![t].pc = l]

\* The call is over.
Return(t) == ut' = [ut EXCEPT ![t] = [pc |-> "client", arg |-> NULL]]

\* The client of t makes the call op.
Calls(k, t, op) == op \in Ops /\ At(k, t, "client")

\* td_ret_cxt, td_exit_cxt: the kernel thread is back in its dispatcher.
ret_cxt(k) == kt' = [kt EXCEPT ![k].pc = "post"]

mmrll_lock(h) == mmrll_lk = NULL /\ mmrll_lk' = h

\* mmrll_enqueue and mmrll_unlock.
mmrll_enqueue(t) == mmrll' = Append(mmrll, t) /\ mmrll_lk' = NULL
=============================================================================
