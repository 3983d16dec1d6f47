----------------------------- MODULE QueueSpec -----------------------------
(***************************************************************************)
(* What the linked lists of the library promise: first-in first-out queues *)
(* of threads.  A thread is in the hand of one actor or in one queue.      *)
(***************************************************************************)
EXTENDS Sequences

CONSTANTS Actor,    \* whoever moves threads: dispatchers and running threads
          Node,     \* the threads that are moved
          List,     \* the queues
          NULL      \* the holder of a thread that is in a queue

VARIABLES queue,    \* queue[l]: the threads of l, the oldest first
          held      \* held[n]: the actor that has n in its hand, or NULL

vars == <<queue, held>>

Init == /\ queue = [l \in List |-> <<>>]
        /\ held \in [Node -> Actor]

Enqueue(a, l, n) == /\ held[n] = a
                    /\ queue' = [queue EXCEPT ![l] = Append(@, n)]
                    /\ held' = [held EXCEPT ![n] = NULL]

Dequeue(a, l) == /\ queue[l] # <<>>
                 /\ held' = [held EXCEPT ![Head(queue[l])] = a]
                 /\ queue' = [queue EXCEPT ![l] = Tail(@)]

Next == \E a \in Actor, l \in List :
          Dequeue(a, l) \/ \E n \in Node : Enqueue(a, l, n)

Spec == Init /\ [][Next]_vars
=============================================================================
