# A TLA+ model of libthreads

libthreads is three user-level thread libraries in C with one interface
(`src/README.md`): **one-one**, where each thread is a kernel thread made with
`clone`; **many-many**, where user contexts are scheduled on a fixed set of
kernel threads by a dispatcher with a preemption timer; and **hybrid**, where a
program uses both kinds. This directory models the parts that run concurrently,
checks them with TLC on small instances, and proves the central safety
properties with TLAPS for any number of threads.

## 1. Inventory

| Part | State | Operations | Interacts with |
|---|---|---|---|
| one-one thread control (`one-one/src/thread_cntl.c`, `thread_descr.h`, `thread_main.c`) | per thread: `state`, `wait` word, `ktid`, `join_td`, `mem_lock`, stack | create, join, exit, self, equal, yield, main() | the kernel: clone sets `wait`, the end of a thread clears it and wakes one futex sleeper |
| one-one mutex (`one-one/src/thread_sync.c`) | futex word, owner | init, lock, trylock, unlock, destroy | futex |
| one-one signals (`one-one/src/thread_sig.c`) | `ktid` | kill, sigmask | ends a futex wait early |
| spin lock (`*/src/thread_sync.c`) | lock word, owner | init, lock, trylock, unlock, destroy | threads only; the code is the same in the three libraries |
| many-many dispatcher (`many-many/src/mmsched.c`, `mmrll.c`) | ready list and its lock, `mmsched_enabled`, per kernel thread the current thread and its pending signals | dispatch, preempt, put back, end a thread, wake its joiner, stop | every other part: all threads run from it |
| many-many thread control (`many-many/src/thread_cntl.c`, `thread_main.c`) | per thread: `state`, `wait`, `join_thread`, `wait_for`, `intr_off`, `mem_lock` | create, join, exit, yield, main() | the caller parks itself, the dispatcher wakes it |
| many-many mutex (`many-many/src/thread_sync.c`) | owner, wait list, `mem_lock` | init, lock, trylock, unlock with hand-off, destroy | the ready list |
| many-many signals (`many-many/src/thread_sig.c`) | pending mask, blocked mask | kill, sigmask | sent by the dispatcher when the target is next dispatched |
| hybrid control, dispatcher, signals (`hybrid/src/`) | both descriptors in one, `type` | the above, and joins across the two kinds | both halves |
| once (`*/src/thread_cntl.c`) | one word | `thread_once` | whatever its routine initializes |
| lists (`*/src/mods/list.c`, `list.h`, `mmrll.c`) | head and tail per list, `next` and `prev` per thread | init, enqueue, dequeue, is-empty | ready list and wait lists share the links of a thread |
| locks, stacks, timers, signal helpers, utilities (`*/src/mods/`) | - | wrappers | used by all |

What is hard in this code:

- **Fields read without their lock.** `thread_join` looks at the state of its
  target and at its own `join_thread` before it takes the lock of the target;
  main() looks at `wait` and `state` with no lock; `ktid` is written by the
  creator while the child already runs.
- **Wake-ups.** The futex mutex wakes after it has released; a joiner sleeps on
  a word the kernel clears; a many-many joiner and a many-many waiter park
  between a check and a wake-up by another kernel thread.
- **Preemption inside the library.** The timer may take a many-many thread off
  its kernel thread anywhere, also with a lock that the dispatcher spins on;
  `td_disable_intr` is the only protection.
- **Freed descriptors.** Joiners and main() free descriptors that dispatchers,
  lists and other joiners may still hold.
- **Freed mutexes.** `mut_wake` of a one-one unlock, and the release of the member lock
  of a many-many one, come after the mutex has been given to somebody who may be the
  one to destroy it.
- **Signals.** They end futex waits, arrive at kernel threads rather than at user
  threads, and stay pending there across context switches.
- **Lists.** An operation is several stores, and a thread has one pair of links for
  all lists it may be in.

`PROJECT.json` lists each hazard with its line and the properties that cover it.
What makes each part correct:

- mutex and spin lock: one holder, the owner field names it, no sleeper is
  forgotten, the whole is an abstract mutex;
- thread control: a join returns only after the end of its target and does return;
  a descriptor is freed once and never used again; two threads never wait for
  each other;
- dispatcher: a thread is in one place, none is lost, the holder of a lock is on
  a CPU, ready threads run, the program ends;
- signals: they reach their target and nobody else, and the call that sends one returns;
- lists: the links spell out the queue that the dispatcher relies on;
- once: the routine is run once, and is run.

## 2. Modules and the code they model

| Module | Models |
|---|---|
| `MutexSpec` | the promise of every lock of the library: a holder, a set of threads that ask; granted when free, or passed by the holder to one that asks; given back by the holder only |
| `QueueSpec` | the promise of a list: a queue for each list, first in first out |
| `LinkedList` | the linked lists, a store at a time, and the lock around each |
| `OneOneMutex` | the futex mutex |
| `OneOneCntl` | the life of one-one threads: main(), create, join, exit, kill |
| `SpinLock` | the spin lock |
| `Once` | `thread_once` with a routine that initializes the spin lock (EXTENDS `SpinLock`) |
| `MMDescr` | the shared state of the many-many library |
| `MMSched` | the dispatcher and the timer (EXTENDS `MMDescr`) |
| `MMCntl` | create, join, exit, yield (EXTENDS `MMDescr`) |
| `MMSync` | the mutex, with init and destroy (EXTENDS `MMDescr`) |
| `MMSig` | kill and sigmask (EXTENDS `MMDescr`) |
| `ManyMany` | their composition with main(), and the properties |
| `HybridSched` | the shared state of the hybrid library and its dispatcher |
| `HybridCntl` | create, join, exit, yield of one-one and many-many threads (EXTENDS `HybridSched`) |
| `HybridSig` | kill and sigmask of both types (EXTENDS `HybridSched`) |
| `Hybrid` | their composition with main(), and the properties |
| `OneOneMutexProofs`, `OneOneCntlProofs`, `SpinLockProofs`, `OnceProofs`, `LinkedListProofs` | theorems and proofs about the module of that name |
| `ManyManyInduction` | the inductive invariant of `ManyMany` and one lemma per action that it is preserved |
| `ManyManyProofs` | the theorems about `ManyMany` (EXTENDS `ManyManyInduction`) |
| `HybridProofs` | the inductive invariant of `Hybrid`, one lemma per action that it is preserved, and the theorems |
| `MCOneOneMutex`, `MCOneOneCntl`, `MCOnce`, `MCLinkedList`, `MCManyMany`, `MCHybrid` | instances for TLC |

A step of a model is one access to shared memory: one atomic instruction, one
system call, or a stretch of code that runs under a lock and touches only what
the lock guards. A `pc` names the place of a thread in the library between two
steps; `"client"` is outside it. Names of fields and operations are those of the
source. The `map` of `PROJECT.json` gives the lines of every definition.

`ManyMany` has three kinds of actors. `kt[k]` is a kernel thread: its place in
`_mmsched_dispatch`, the thread `cur` it has taken from the ready list, and the
signals the kernel keeps pending for it. `ut[t]` is a user thread: its place in
its own code, which moves only while some `kt[k]` is in `"user"` with `cur = t`.
`mpc` is main(). `Preempt(k)` is the SIGALRM handler: enabled whenever `k` runs a
user thread that has not disabled interrupts. So "preempted anywhere" is
literally what TLC explores. `sent`, `got` and `inCS` are history variables for
the properties and guard nothing, except that the client unlocks what it holds.

In `OneOneCntl`, `JoinPairs`, `KillPairs` and `EarlyHandles` say what the client
does: who calls join and kill on whom, and whether a thread hands out
`thread_self()` before the `thread_create` that made it has returned. In
`ManyMany` `Ops`, `JoinPairs` and `KillPairs` do the same. They
let a run ask its question of exactly the clients it is about.

`Hybrid` is built as `ManyMany` is. `OneOne` is the set of handles whose thread is a
kernel thread of its own: such a thread moves whenever the kernel lets it, sleeps
on the futex of the wait word, and is ended by `KernelExit`, which clears the word;
the others need a dispatcher. What is new is where the two meet: `ExitCheck` wakes a
joiner by its type, `OneOneCheck` and `OneOneEnq` put a many-many joiner in the
ready list before the kernel ends the target, and `JoinResume` is the spin that
waits for that end. A signal to a one-one thread is the kernel's business and ends its
futex wait (`KillOneOne`); a signal to a many-many thread is a mark in its descriptor,
set under its member lock (`KillCall`, `KillLock`, `KillSet`), that `SigSend` turns into
a signal pending on the kernel thread and `Run` delivers as far as the mask of the
thread allows. `Creator` and `Masker` are the threads whose clients create and change
their masks.

The lists of `ManyMany` and `Hybrid` are sequences. `LinkedList` is the reason why they
may be: it has the heads, tails and links of `list.c`, every store a step of its own, one
lock per list and one pair of links per thread, and implements `QueueSpec`, in which an
enqueue and a dequeue are one step. Its actors stand for dispatchers and callers, reduced
to what they do with lists.

`Once` composes with `SpinLock`: `UsesSpinLock` says that a program in which any number of
threads race in `thread_once` and then use the lock is one that `SpinLock` allows, where
the caller of init is alone; so what is proved of `SpinLock` is true of that program.

Abstractions, with the reason:

- Memory is sequentially consistent. Locks and futex words use full barriers
  (`atomic_compare_exchange_strong`); plain fields are neither atomic nor volatile,
  so that this describes the unoptimised build of `build/install.sh` on x86.
- Freed memory keeps its last value until a step uses it; the properties say that
  no step does. A handle is given out once.
- `ktid` of a new one-one descriptor holds what malloc left: zero or something
  that is not the id (`ZERO`, `JUNK`).
- The context switch of `swapcontext` is one step (see section 5).
- The timer has no period: it may expire at any moment. The user thread id
  counter is left out: nothing reads it.
- Allocation succeeds; `clone` may fail in `CreateClone`, but not for
  thread_main, whose failure ends the program at once.
- Signal handlers return and are installed without `SA_RESTART`, so that a handled
  signal ends a futex wait.
- A signal set is a set, `pend_sig` included.
- A client destroys a mutex when no thread holds it or asks for it. A thread that is on
  its way out of unlock does not count: that is the race worth checking (`WakeLate`,
  `DestroyedNotUsed`). A mutex may be initialized again.
- thread_sigmask sets the mask to any set of signals: SIG_BLOCK and SIG_UNBLOCK reach the
  same masks. The mask of the one-one library is left out, as no step of it looks at one.
- Disabling interrupts is one step with what comes right before it in `JoinCall` (reads
  without a lock) and `UnlockCheck` (writes under the member lock) of the many-many
  library: what a preemption between the two would let others do, they can do from
  another kernel thread after the reads, or not at all under the lock. `MainReap` waits
  until the kernel thread is gone where the code waits on a futex once.
- A call that returns an error before it has changed shared state is the absence
  of a step; error paths that do change it (refused joins, failed clone) are actions.

## 3. Runs

Passing runs (TLC; deadlock is checked in all but `hybrid_join`, where the system
really may stop: see `HybridExitLocked.cfg` below):

| Run | Instance | Shows |
|---|---|---|
| `one_one_mutex` | 4 threads, fair | one holder, exact owner field, no lost wake-up, with interrupted waits and with destroy and re-initialisation while a late `mut_wake` is on its way; a free mutex with sleepers is taken; each step is one of `MutexSpec` |
| `one_one_join` | 4 threads, fair; two joiners of one target, a second target, kills across them | join after exit, stacks freed once and never in use, none lost to a join that is refused or finds its target gone, no sleep on a thread that is over; joins return |
| `once_spin` | 4 threads, fair | the routine of thread_once is run, and by one thread; the owner field agrees with the lock word; each step is one of `MutexSpec` |
| `ready_list` | 2 actors, 4 threads, 2 lists | the links of each list represent its queue between operations; each operation is one step of `QueueSpec` |
| `mm_mutex` | 3 threads on 2 kernel threads, init, lock, trylock, unlock, destroy and a race of two joiners | one place, no lost thread, exclusion with hand-off, no use of a destroyed mutex; refinement of `MutexSpec` |
| `mm_join` | 3 threads on 2, a chain of joins, yields | no lost thread, lock holders on CPU, sound joins, no use after free |
| `mm_signals` | 2 threads on 2, one signal, fair | no stray signal while targets do not park or exit; accepted signals are delivered unless blocked |
| `mm_live` | 2 threads on 2, a mutex and a join, fair | a mutex handed over reaches its new owner, joins return, the program exits |
| `hybrid_join` | 2 one-one and 2 many-many threads on 2 kernel threads, joins in each combination of types, two joiners each of a one-one and a many-many target, one signal to a one-one thread that may block it | a join goes on when its target has left its stack, which is freed once; no joiner is resumed twice or left asleep on a cleared word; lock holders on CPU |
| `hybrid_live` | 1 one-one and 2 many-many threads on 1 kernel thread, joins of many-many targets by either type, signals to a many-many thread that may block them, fair | joins return, thread_kill returns, signals left to a many-many thread are delivered |

Runs that end in a violation. Each states what `src/README.md` says and TLC finds
a behaviour of the code that does otherwise; `findings` in `PROJECT.json` quotes
both.

| Run | What happens |
|---|---|
| `one_one_join_eintr` | a handled signal ends the futex wait of join, which goes on and frees a running thread |
| `hybrid_lost_joiner` | a one-one thread looks for a joiner, a many-many thread registers and parks, the kernel clears the wait word: nobody makes the joiner ready |

Further configurations, close to those, each of which TLC also refutes. They mark
where the properties above stop to hold, and so which client behaviour the passing
runs leave out:

| Configuration | Property | What happens |
|---|---|---|
| `OneOneJoinKtid.cfg` | `JoinReturns` | with `EarlyHandles`, join compares the wait word with a `ktid` not yet stored and sleeps for ever |
| `OneOneMainFreed.cfg` | `FreedOnce` | a joiner of thread_main and main() both free it |
| `OneOneMutualJoin.cfg` | `NoMutualJoin` | as `MMMutualJoin.cfg` |
| `OneOneKillSelf.cfg` | `KillReaches` | a new thread that signals itself may get success and no signal: its `ktid` is not stored |
| `OnceEarly.cfg` | `ReadyOnReturn` | a thread that loses the race in thread_once is back, with EINVAL, before the routine is done |
| `MMKillStuck.cfg` | `KillReturns` | thread_kill of the many-many library disables the interrupts of its target, not its own; preempted with the lock held, it is never resumed. The hybrid library disables those of the caller, and `hybrid_live` shows that it returns |
| `MMKillLock.cfg` | `NoLostThread` | the same call enables the interrupts of a target that is about to enter the wait list of a mutex: preempted there, the target is parked and in no list |
| `MMMutualJoin.cfg` | `NoMutualJoin` | two threads that join each other at once both pass the EDEADLK check and park for ever |
| `MMSignalStray.cfg` | `SignalToTarget` | a blocked signal pending on a kernel thread when its target parks or exits reaches the next thread dispatched there |
| `MMJoinRefused.cfg` | `RefusedJoinReturns` | the EINVAL path enables interrupts before it releases the lock; preempted there it is never resumed |
| `MMYield.cfg` | `YieldLetsOthersRun` | yield with a blocked signal pending resumes the caller for ever |
| `MMMainFreed.cfg` | `MainNotUsed` | main() frees the thread_main descriptor while a dispatcher uses it |
| `MMLateJoiner.cfg` | `JoinedNotUsed` | the second of two joiners uses a descriptor the first has freed |
| `HybridExitLocked.cfg` | `RefusedJoinReturns` | a one-one thread that exits with a one-one joiner keeps its member lock: a second joiner spins for ever, a many-many one with its kernel thread |
| `HybridJoinEintr.cfg` | `JoinSound` | as `one_one_join_eintr`, for a one-one joiner of a many-many thread |

So `mm_join` has one joiner per target, and the race of two is in `mm_mutex`, where
the properties are about the queues: the accepted joiner is woken, the refused one
is not parked, the late one is the one to worry about. `mm_signals` leaves out exit
because `MMSignalStray.cfg` shows what exit adds. `hybrid_join` signals a thread that does
not join, and `hybrid_live` has no many-many joiner of a one-one thread.

**Bounds.** Three threads are a target and two rivals, or a chain of two joins;
races between more repeat a pair. Four in the lock runs give a holder, a newcomer
and two sleepers, of which one is woken. Two kernel threads give true parallelism
on top of interleaving by preemption; one is enough where a run is about a thread
that is not resumed. One mutex and one signal suffice because no operation
touches two. Two lists and four threads let a list have a first, a middle and a last
element while the other is not empty, and let a thread go from one list to the other; a
list of one and an empty list are the cases in which head and tail change together.
In `hybrid_join` the first two threads create the others; in `hybrid_live` every thread may. No counter is bounded: thread handles are finite and used once, and
`freed` cannot pass 2 as at most two callers reach td_free for one thread.
The state a run keeps of a signal is whether it has been delivered, not how often.
Kernel threads are symmetric (no guard names one); symmetry is used in
safety runs only.

**Fairness.** Kernel threads are scheduled by Linux, so a library step that stays
enabled is taken (WF: one-one mutex, main()). A spinner tests a lock that others
take and release, so its step is enabled infinitely often without being enabled
always; assuming SF says that the bounded time others hold it does not fall on
each of its tests. The same is assumed of the dispatcher, of steps of a
many-many user thread (enabled only while it is dispatched; a time slice is
long against the steps between two preemptions) and of the timer, which the
handler restarts as often as it finds interrupts off. In `Hybrid` and `ManyMany` a further SF says that
SIGALRM does not fall, round after round, in the few instructions before the dispatcher
stops the timer. The routine of thread_once returns (WF). No fairness is assumed of
clients: they need not call, unlock or exit. Each liveness property is conditional
on what the client must do (`td[u].state = "EXITED" ~> ...`).

## 4. Proofs

`tlapm` checks all of the following with no assumption beyond the named ASSUMEs on
the constants (`Main \in Thread`, the null pointer is no handle, a handle is no kernel
thread, no mutex and not the string that stands for main(), pairs are pairs) and the
client disciplines that a theorem names in its own ASSUME.

**`OneOneMutexProofs`** (any set of threads). `Invariance`: the inductive
invariant; from it `TypeCorrect`, `Exclusion`, `OwnerCorrect`, `WakeupKept`, and
`Refinement`, `Spec => Abstract!Spec`, where the abstract holder is the thread
that has won the compare-and-swap and not yet undone it. None of the properties is inductive as it
stands: exclusion needs that the word is taken exactly while somebody is inside,
the owner property needs exclusion, and the wake-up property needs that a thread
that may sleep has seen the word taken. `DeadIsUnused` says that a destroyed mutex is met by
late wakers only, which is why `thread_mutex_destroy` after one's own unlock is safe.

**`SpinLockProofs`** (any set of threads). The same argument without sleeping:
`OwnerCorrect`, `Refinement`.

**`OnceProofs`** (any set of threads). `OnceSafe`, `OnceSpec => UsesSpinLock`: every step of
a program that races in thread_once is a step of `SpinLock` or leaves its variables alone.
The step that could fail is the routine, which initializes the object and so must find
none; the invariant says that nobody is past thread_once while the control variable is
unset (`NotYet`), that one thread at most is in the routine and no object exists while it
is (`OneRoutine`), and that threads use the object after their call (`UseLater`).
`OnceMutex` then carries the theorems of `SpinLockProofs` over.

**`OneOneCntlProofs`** (any set of threads, joins and kills). The theorems come in two
layers. For every client, with no assumption on who joins or signals whom (mutual joins, joins of
thread_main, signalled joiners and early handles included): `JoinerUnmaps`, that a thread
that registers with a target has unmapped its stack exactly once when it leaves
thread_join, which the run `one_one_join` checks for the clients of its instance; and
`FreeOnce`, which assumes only `MainUnjoined`, that thread_main is left to main(). Their
inductive invariant `IInv` ties together what three actors write: `WordIsLife` (the wait word is set
exactly while the thread lives), `OneCreator` (one creator starts one thread), `CallKnown`
(a join or a signal is for a thread that was started), `JoinRegistered` (who is past the
lock is the one its target names in `join_td`: so two joiners cannot both go on) and
`StacksCounted`, which counts what has been unmapped: by the registered thread once it has
left thread_join (`JoinPast`), and for thread_main by main() as well. `JoinerFrees` alone
is not inductive: without `JoinRegistered` a second thread could be in the same join.

For `Disciplined` clients (a thread that is signalled is not one that joins, and handles
are used once thread_create has returned them): `JoinWaits`, `StackSafe` and
`SleeperWoken`, from `IInv` and `DInv`, which adds `JoinKnown` (the target of a join has
its `ktid` stored), `SleepWhileAlive` (a sleeper's target has not cleared its word) and the
properties themselves. Each assumption is needed: `OneOneJoinEintr.cfg`,
`OneOneJoinKtid.cfg` and `OneOneMainFreed.cfg` violate a property without it, and the
clients of the run `one_one_join` keep to all of them. `JoinerFrees` says how often a stack
is unmapped and not when: without the discipline a joiner may unmap it under a running
thread, which is what `StackInUse` is about. Nothing is claimed of the delivery of one-one
signals: the kernel delivers what `tgkill` accepts, and what the library adds, the choice of
`ktid`, goes wrong in `OneOneKillSelf.cfg`. The record updates of `td` are proved field by
field in lemmas (`CloneTd`, `StoreTd`, `LockTd`, `CheckTd`, `MarkTd` and so on), which the
action steps cite, and `CountKept` and `JoinsStay` serve the many steps that leave the joins
alone.

**`LinkedListProofs`** (any set of actors, threads and lists). `ListsRepresent`, and
`ListsAreQueues`, the refinement of `QueueSpec`: `list_enqueue` takes effect with the store
that links the new thread, `list_dequeue` with the store to the head, and no other store
changes a queue. `Represents` speaks of lists that nobody is working on, so the invariant
has to say what is true between two stores. The forward half (`Forward`: head and `next`)
is right after every store, the backward half (`Backward`: tail and `prev`) only when no
operation is half done; `Enqueuing` and `Dequeuing` say for each place inside an operation
how far the backward half lags behind. `LockHeld` gives that only the holder of the lock
is in such a place. `OneQueue` and `NotHeld` say that a thread is at one place of one list
and then in nobody's hand; without them the store to the links of one list could change
another list.

**`ManyManyInduction`, `ManyManyProofs`** (any set of threads, kernel threads and mutexes,
any set of operations and of joins). All theorems but the last assume `NoKill`: the client
does not call thread_kill, which disables and enables the interrupts of its target
(`MMKillLock.cfg` loses a thread with it, `MMKillStuck.cfg` shows a call that does not
return). Under `NoKill`: `TypeCorrect`, `ThreadsInOnePlace`, `NoThreadIsLost`,
`MutualExclusion`, `DestroyIsSafe`, `JoinIsSound`, and `MutexesImplementSpec`, which
says of every mutex that it implements `MutexSpec`.

None of these is inductive, and they do not come one at a time: that a thread is not lost
rests on who holds which lock, which rests on which steps are preempted, which rests on
where threads are. So there is one invariant, `IInv`, whose parts each say how two pieces
of state agree:

- `Places`: a thread is in one place; one that is in a wait list is at most on a kernel
  thread that is about to leave it.
- `Descriptors`: state, wait target and interrupt flag of a descriptor are those of the
  place its thread is at. This is what lets the dispatcher, which looks at the descriptor
  only, do the right thing for the thread.
- `Dispatchers`: the place of a dispatcher agrees with the place of its thread, and a
  thread at a place with interrupts off and a lock held is on a kernel thread.
- `MemberLocks`: the member lock of a mutex belongs to the thread that is between
  `mut_lock` and `mut_unlock`, or to a waiter whose dispatcher has not yet released it
  for it. So a release cannot find a waiter that is still running.
- `Waiters`, `Owners`, `MutexExclusion`: who is in the wait list is parked and the mutex
  has an owner; who is parked and not in the list is the owner.
- `Handing`: an owner that is in no place at all is in the hands of exactly the release
  that chose it. This is the part that `NoLostThread` needs of a hand-over.
- `Joins`, `Exits`: the same for joins. The joiner that is registered is in thread_join of
  that target; the end of a thread sets its wait word under its lock and finds its joiner
  parked; a joiner that is parked although the word is clear is in the hands of the
  dispatcher that cleared it; and who goes on has a target that no dispatcher has.
- `Unborn`, `Creation`: a handle that is not given out is nowhere, and a new thread is in
  the hands of one creator until it is in the ready list.
- `SpinLocks`: who holds the lock of the ready list or of a descriptor, and where.

`MutexSpec` is refined with the owner field as the holder; a thread asks while it is in
thread_mutex_lock and, once parked, as long as it is in the wait list. The abstract pass is
the step that takes the first waiter off the list and makes it the owner, under the member
lock, before that waiter is ready to run.

`HoldersOnCpu` and `JoinedIsNotUsed` assume `OneJoiner` besides: no two threads join the
same thread. The path that refuses a second joiner enables interrupts with the lock still
held (`MMJoinRefused.cfg`), and a second joiner that is late meets a freed descriptor
(`MMLateJoiner.cfg`). The invariant `JoinedOnce` is added to `IInv`: nobody is refused, who
waits for the lock of its target finds no joiner registered, and a freed descriptor is
joined.

`SignalsReachTargets` is about thread_kill itself and allows any use of it, for clients
that neither park nor exit (`NeverParks`; `MMSignalStray.cfg` shows what happens if they
do). Its invariant `SigInv` is separate, since `IInv` is false with thread_kill: the
signals that are pending on a kernel thread were sent to the thread that runs there, and
none is pending when a dispatcher lets its thread go (`OnKernel`).

**`HybridProofs`** (any set of threads of the two types, any set of kernel threads, any set
of creators, joins, signals and masks). `Invariance`, `TypeCorrect`, `ThreadsInOnePlace`,
`NoLostFutexWake` and `HoldersRun` assume nothing of the client: second joiners, joins of
thread_main, signals to threads that wait and threads that never exit are all allowed. The
invariant is not that of `ManyMany`: a one-one thread runs without a dispatcher, is ended by
the kernel, and may be woken by a signal before its target has ended. Its parts:

- `Places`, `Dispatchers`: as in `ManyMany`; further, a dispatcher is past `td_set_over`
  exactly when the wait word of its thread is clear.
- `Descriptors` (`Agrees`): what a place says of the descriptor of its thread. It is weaker
  than in `ManyMany`: a joiner that a signal has woken sets its target JOINED wherever the
  target is, so a place does not determine the state. What remains is what the dispatcher
  needs: EXITED and WAIT_JOIN are never found on a thread that is elsewhere, and who has
  parked is not found RUNNING, so it is not put back in the ready list by the dispatcher
  that it came back to.
- `Births`: a handle is unborn until one creator has started its thread; nobody else refers
  to it, it has no joiner, and it is nowhere.
- `Locks`: who has taken the lock of a descriptor and not released it. For a many-many
  thread the converse holds as well, a lock with its name in it is one it is about to release.
  For a one-one thread it does not: one that exits with a one-one joiner never releases
  its lock (`HybridExitLocked.cfg`).
- `Joiners`: the core. A registered joiner is the one its target names. A many-many joiner is
  parked, or about to be, as long as the end of its target has not looked for it (`Unwoken`,
  `Parks`), and whoever has found it and not yet made it ready (`Waking`: the dispatcher of a
  many-many target, or the one-one target itself) finds it parked, in no list and on no
  kernel thread. This gives `OnePlace` for the two enqueues that one thread makes for another.
  It does not say that a joiner that comes after the look is woken: it is not
  (`HybridLostJoiner.cfg`). The last part is `NoSleepOnOver`.
- `Frees`: a stack is freed by its one joiner and, that of thread_main, by main().

`JoinIsSound` assumes `NoSignalledJoiner` (a one-one thread that is signalled does not join;
`HybridJoinEintr.cfg` violates the property without it), and `StacksFreedOnce` also
`MainUnjoined`, since main() frees the stack of thread_main without a look at who is about
to free it. The clients of the run `hybrid_join` keep to both. They are a second induction,
`JInv`: a wait word once cleared stays clear, since it is set only while the handle is unborn;
a wait ends when the word is seen clear, cleared in the same step, or, for a many-many joiner of
a many-many thread, when the joiner runs again, which by `Joiners` it does only after the end
of its target has looked for it (`ResumedOver`); and a clear word means that the thread has
left its stack (`OverEnded`). `StepSound` says of one step what this needs, so that
most actions are dealt with in groups.

TLC, too, finds `IInv`, `Stops` and `Unmaps` invariant on the instance of `hybrid_join`, and
`IInv` on those of the refuted configurations and on two in which three threads join and
signal each other, thread_main included.

Record updates are the hard part for the provers. Each action lemma therefore first states
what the step does field by field (`UtSet`, `KtSet`, `MutSet`, `DescrSet`, `KeepLock` and
so on) and proves each part of the invariant from those facts alone. A few leaves give the
prover more time than its default.

Only model-checked: all liveness (fairness and ENABLED are beyond the prover). Every
invariant and every refinement that a passing run checks is stated by a theorem, under the
discipline that the theorem names. `MainNotUsed`, `NoMutualJoin`, `RefusedJoinReturns` and the
others of the table of refuted configurations are false of the code. No module declares a
RECURSIVE operator, so that any of them can be proved about.

## 5. Not modelled

- stacks, timers, signal helpers, utilities, errno: wrappers of system calls; what
  they do to shared state is in the actions that call them.
- the context switch itself: `swapcontext` installs the mask and the registers in two
  steps, and a SIGALRM in between (`mmsched.c:220`) depends on what glibc does there.
- failing allocations and an empty set of dispatchers: `PROJECT.json` lists both as
  hazards; a model would repeat the line.
- the signal mask of the one-one library; getters and `thread_equal`: no state of the
  library.

## 6. Plan

1. *(done)* one-one mutex, thread control and kill; spin lock; many-many dispatcher,
   control, mutex and signals; hybrid dispatcher, control and signals; once; the linked
   list; proofs for the one-one library, the spin lock and once.
2. *(done)* Proofs about `LinkedList`: `Represents` and the refinement of `QueueSpec`.
3. *(done)* Proofs about `ManyMany`: its safety invariants and the refinement of
   `MutexSpec`.
4. *(done)* Proofs about `Hybrid`: all of its safety invariants; `JoinerFrees` of
   `OneOneCntl` for every client.
