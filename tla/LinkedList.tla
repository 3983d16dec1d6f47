----------------------------- MODULE LinkedList -----------------------------
(***************************************************************************)
(* The doubly linked lists of mods/list.c and mods/list.h, and the lock    *)
(* that guards each of them (mmrll.c for the ready list, the member lock   *)
(* of a mutex for its wait list).  A thread has one pair of links, ll_mem, *)
(* that whatever list it is in uses: the lock of one list does not guard   *)
(* it against the other lists, so a step is one store.  The callers are    *)
(* reduced to what they do with lists: an actor enqueues a thread that it  *)
(* has in its hand, and takes the first thread of a list in its hand.      *)
(***************************************************************************)
EXTENDS Naturals, Sequences

CONSTANTS Actor,    \* dispatchers and running threads
          Node,     \* the threads, each with its ll_mem
          List,     \* the ready list and the wait lists
          NULL,     \* the null pointer, and the value of a free lock
          JUNK      \* what malloc leaves in the links of a new thread

ASSUME ListAssumption ==
  /\ NULL \notin Actor \cup Node
  /\ JUNK \notin Node \cup {NULL}

VARIABLES head, tail,   \* head[l], tail[l]: the fields of the list l
          next, prev,   \* next[n], prev[n]: the fields of the ll_mem of n
          lk,           \* lk[l]: who has acquired the lock of l
          at,           \* at[a]: the place of a, its list and its node
          held,         \* held[n]: the actor that has n in its hand, or NULL
          queue         \* queue[l]: the threads l should hold: a history
                        \* variable that no guard looks at

vars == <<head, tail, next, prev, lk, at, held, queue>>

\* list_init and lock_init; the links of a thread are not initialized.
Init == /\ head = [l \in List |-> NULL]
        /\ tail = [l \in List |-> NULL]
        /\ next = [n \in Node |-> JUNK]
        /\ prev = [n \in Node |-> JUNK]
        /\ lk = [l \in List |-> NULL]
        /\ at = [a \in Actor |-> [pc |-> "client", list |-> NULL, node |-> NULL]]
        /\ held \in [Node -> Actor]
        /\ queue = [l \in List |-> <<>>]

Goto(a, l, m) == at[a].pc = l /\ at' = [at EXCEPT ![a].pc = m]

-----------------------------------------------------------------------------
(* The lock around every operation                                         *)

\* Mutant of Acquire: the lock is not looked at.
AcquireAlways(a, l, n, m) ==
  /\ at[a].pc = "client"
  /\ lk' = [lk EXCEPT ![l] = a]
  /\ at' = [at EXCEPT ![a] = [pc |-> m, list |-> l, node |-> n]]
  /\ UNCHANGED <<head, tail, next, prev, held, queue>>

Acquire(a, l, n, m) ==
  /\ at[a].pc = "client"
  /\ lk[l] = NULL
  /\ lk' = [lk EXCEPT ![l] = a]
  /\ at' = [at EXCEPT ![a] = [pc |-> m, list |-> l, node |-> n]]
  /\ UNCHANGED <<head, tail, next, prev, held, queue>>

Release(a) ==
  /\ at[a].pc = "unlock"
  /\ lk' = [lk EXCEPT ![at[a].list] = NULL]
  /\ at' = [at EXCEPT ![a] = [pc |-> "client", list |-> NULL, node |-> NULL]]
  /\ UNCHANGED <<head, tail, next, prev, held, queue>>

-----------------------------------------------------------------------------
(* list_enqueue                                                            *)

EnqueueCall(a, l, n) == held[n] = a /\ Acquire(a, l, n, "enq_next")

EnqNext(a) ==
  /\ Goto(a, "enq_next", "enq_link")
  /\ next' = [next EXCEPT ![at[a].node] = NULL]
  /\ UNCHANGED <<head, tail, prev, lk, held, queue>>

\* if (!list->tail): the new node becomes the head, or the next of the tail.
EnqLink(a) ==
  LET l == at[a].list
      n == at[a].node
  IN
  /\ Goto(a, "enq_link", "enq_prev")
  /\ \/ /\ tail[l] = NULL
        /\ head' = [head EXCEPT ![l] = n]
        /\ UNCHANGED next
     \/ /\ tail[l] # NULL
        /\ next' = [next EXCEPT ![tail[l]] = n]
        /\ UNCHANGED head
  /\ queue' = [queue EXCEPT ![l] = Append(@, n)]
  /\ held' = [held EXCEPT ![n] = NULL]
  /\ UNCHANGED <<tail, prev, lk>>

EnqPrev(a) ==
  /\ Goto(a, "enq_prev", "enq_tail")
  /\ prev' = [prev EXCEPT ![at[a].node] = tail[at[a].list]]
  /\ UNCHANGED <<head, tail, next, lk, held, queue>>

EnqTail(a) ==
  /\ Goto(a, "enq_tail", "unlock")
  /\ tail' = [tail EXCEPT ![at[a].list] = at[a].node]
  /\ UNCHANGED <<head, next, prev, lk, held, queue>>

-----------------------------------------------------------------------------
(* list_is_empty and list_dequeue                                          *)

DequeueCall(a, l) == Acquire(a, l, NULL, "deq_test")

\* list_is_empty looks at both pointers.
DeqTest(a) ==
  LET l == at[a].list IN
  /\ at[a].pc = "deq_test"
  /\ at' = [at EXCEPT ![a].pc = IF head[l] = NULL /\ tail[l] = NULL
                                THEN "unlock" ELSE "deq_head"]
  /\ UNCHANGED <<head, tail, next, prev, lk, held, queue>>

\* assert(list->head); the head is taken and its successor made the head.
DeqHead(a) ==
  LET l == at[a].list
      n == head[l]
  IN
  /\ at[a].pc = "deq_head"
  /\ n # NULL
  /\ at' = [at EXCEPT ![a].pc = "deq_tail", ![a].node = n]
  /\ head' = [head EXCEPT ![l] = next[n]]
  /\ queue' = [queue EXCEPT ![l] = Tail(@)]
  /\ held' = [held EXCEPT ![n] = a]
  /\ UNCHANGED <<tail, next, prev, lk>>

\* Mutant of DeqTail: the tail keeps pointing to the last node.
DeqTailKept(a) ==
  LET l == at[a].list IN
  /\ Goto(a, "deq_tail", "deq_next")
  /\ \/ head[l] = NULL /\ UNCHANGED prev
     \/ head[l] # NULL /\ prev' = [prev EXCEPT ![head[l]] = NULL]
  /\ UNCHANGED <<head, tail, next, lk, held, queue>>

\* if (!list->head): the tail is reset, or the new head has no predecessor.
DeqTail(a) ==
  LET l == at[a].list IN
  /\ Goto(a, "deq_tail", "deq_next")
  /\ \/ /\ head[l] = NULL
        /\ tail' = [tail EXCEPT ![l] = NULL]
        /\ UNCHANGED prev
     \/ /\ head[l] # NULL
        /\ prev' = [prev EXCEPT ![head[l]] = NULL]
        /\ UNCHANGED tail
  /\ UNCHANGED <<head, next, lk, held, queue>>

DeqNext(a) ==
  /\ Goto(a, "deq_next", "unlock")
  /\ next' = [next EXCEPT ![at[a].node] = NULL]
  /\ UNCHANGED <<head, tail, prev, lk, held, queue>>

-----------------------------------------------------------------------------
Client(a) == \E l \in List :
               DequeueCall(a, l) \/ \E n \in Node : EnqueueCall(a, l, n)

Library(a) == \/ EnqNext(a) \/ EnqLink(a) \/ EnqPrev(a) \/ EnqTail(a)
              \/ DeqTest(a) \/ DeqHead(a) \/ DeqTail(a) \/ DeqNext(a)
              \/ Release(a)

Next == \E a \in Actor : Client(a) \/ Library(a)

Spec == Init /\ [][Next]_vars

-----------------------------------------------------------------------------
(* Properties                                                              *)

\* No operation is between its first and its last store to the list.
Settled(l) ==
  \A a \in Actor : at[a].list = l => at[a].pc \notin
    {"enq_prev", "enq_tail", "deq_tail", "deq_next"}

\* Whenever no operation is in the middle of a list, its two ends and the links
\* of its threads are those of the queue it stands for, in both directions: in
\* particular head and tail are null together, as list_is_empty, the test of the
\* tail in do_list_enqueue and the assertion of list_dequeue take for granted.
\* The same links have been in other lists before.
Represents ==
  \A l \in List : Settled(l) =>
    LET q == queue[l]
        Q == Len(q)
    IN
    /\ head[l] = IF Q = 0 THEN NULL ELSE q[1]
    /\ tail[l] = IF Q = 0 THEN NULL ELSE q[Q]
    /\ \A i \in 1..Q : /\ next[q[i]] = IF i = Q THEN NULL ELSE q[i + 1]
                       /\ prev[q[i]] = IF i = 1 THEN NULL ELSE q[i - 1]

Abstract == INSTANCE QueueSpec

\* The lists are first-in first-out queues: what list_dequeue returns, found by
\* following pointers, is the thread that has been in the queue longest.
ImplementsQueue == Abstract!Spec
=============================================================================
