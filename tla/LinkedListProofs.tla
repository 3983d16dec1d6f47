-------------------------- MODULE LinkedListProofs --------------------------
(***************************************************************************)
(* Proofs, for every set of actors, threads and lists, that the pointers   *)
(* of mods/list.c represent the queues they stand for and that the lists   *)
(* refine QueueSpec.                                                       *)
(***************************************************************************)
EXTENDS LinkedList, TLAPS

Label == {"client", "unlock", "enq_next", "enq_link", "enq_prev", "enq_tail",
          "deq_test", "deq_head", "deq_tail", "deq_next"}

\* Every field of a list, a thread and an actor is in its range.  A pointer of
\* a list is never JUNK: uninitialized links are not reachable.
Types ==
  /\ head \in [List -> Node \cup {NULL}]
  /\ tail \in [List -> Node \cup {NULL}]
  /\ next \in [Node -> Node \cup {NULL, JUNK}]
  /\ prev \in [Node -> Node \cup {NULL, JUNK}]
  /\ lk \in [List -> Actor \cup {NULL}]
  /\ at \in [Actor -> [pc : Label, list : List \cup {NULL}, node : Node \cup {NULL}]]
  /\ held \in [Node -> Actor \cup {NULL}]
  /\ queue \in [List -> Seq(Node)]

\* An actor inside an operation has the lock of its list.
LockHeld ==
  \A a \in Actor : at[a].pc # "client" => /\ at[a].list \in List
                                          /\ lk[at[a].list] = a

\* A thread is in the queue of at most one list, at one place of it, and is
\* then in nobody's hand: what makes one pair of links enough for all lists.
OneQueue ==
  \A l, m \in List : \A i \in 1..Len(queue[l]), j \in 1..Len(queue[m]) :
    queue[l][i] = queue[m][j] => l = m /\ i = j

NotHeld ==
  \A l \in List : \A i \in 1..Len(queue[l]) : held[queue[l][i]] = NULL

\* The head pointer and the forward links are right between any two stores.
Heads(l) ==
  /\ head[l] = IF Len(queue[l]) = 0 THEN NULL ELSE queue[l][1]
  /\ \A i \in 1..Len(queue[l]) :
       next[queue[l][i]] = IF i = Len(queue[l]) THEN NULL ELSE queue[l][i + 1]

Forward == \A l \in List : Heads(l)

\* The tail pointer and the backward links, when no operation is half done.
Tails(l) == tail[l] = IF Len(queue[l]) = 0 THEN NULL ELSE queue[l][Len(queue[l])]

Prevs(l, I) ==
  \A i \in I : prev[queue[l][i]] = IF i = 1 THEN NULL ELSE queue[l][i - 1]

Backward == \A l \in List : Settled(l) => Tails(l) /\ Prevs(l, 1..Len(queue[l]))

\* What an actor in the middle of list_enqueue has done so far: the thread is
\* already the last of the queue, tail is still the one before it.
Enqueuing(a) ==
  LET l == at[a].list
      n == at[a].node
      Q == Len(queue[l])
  IN
  /\ at[a].pc \in {"enq_next", "enq_link"} => n \in Node /\ held[n] = a
  /\ at[a].pc = "enq_link" => next[n] = NULL
  /\ at[a].pc \in {"enq_prev", "enq_tail"} =>
       /\ n \in Node
       /\ Q > 0
       /\ queue[l][Q] = n
       /\ tail[l] = IF Q = 1 THEN NULL ELSE queue[l][Q - 1]
       /\ Prevs(l, 1..(Q - 1))
  /\ at[a].pc = "enq_tail" => prev[n] = tail[l]

\* What an actor in the middle of list_dequeue has done so far: the thread is
\* out of the queue, the tail or the first backward link may still name it.
Dequeuing(a) ==
  LET l == at[a].list
      n == at[a].node
      Q == Len(queue[l])
  IN
  /\ at[a].pc = "deq_head" => Q > 0
  /\ at[a].pc \in {"deq_tail", "deq_next"} => n \in Node /\ held[n] = a
  /\ at[a].pc = "deq_tail" => /\ Q > 0 => Tails(l)
                              /\ Prevs(l, 2..Q)
  /\ at[a].pc = "deq_next" => Tails(l) /\ Prevs(l, 1..Q)

\* The inductive invariant.
IInv == /\ Types
        /\ LockHeld
        /\ OneQueue
        /\ NotHeld
        /\ Forward
        /\ Backward
        /\ \A a \in Actor : Enqueuing(a) /\ Dequeuing(a)

-----------------------------------------------------------------------------
(* The inductive invariant is inductive                                    *)

\* Append adds its element behind the others.
LEMMA AppendFacts ==
  ASSUME NEW s \in Seq(Node), NEW n \in Node
  PROVE /\ Append(s, n) \in Seq(Node)
        /\ Len(s) \in Nat
        /\ Len(Append(s, n)) = Len(s) + 1
        /\ \A i \in 1..Len(s) : Append(s, n)[i] = s[i]
        /\ Append(s, n)[Len(s) + 1] = n
        /\ \A i \in 1..Len(s) : s[i] \in Node
  OBVIOUS

\* Tail removes the first element and moves the others one place down.
LEMMA TailFacts ==
  ASSUME NEW s \in Seq(Node), Len(s) > 0
  PROVE /\ Tail(s) \in Seq(Node)
        /\ Len(s) \in Nat \ {0}
        /\ Len(Tail(s)) = Len(s) - 1
        /\ \A i \in 1..(Len(s) - 1) : Tail(s)[i] = s[i + 1]
        /\ s # <<>>
        /\ Head(s) = s[1]
        /\ \A i \in 1..Len(s) : s[i] \in Node
  OBVIOUS

\* The places of a queue that is not empty.
LEMMA SmallBounds ==
  \A x \in Nat \ {0} : /\ x = 1 \/ 2 \in 1..x
                       /\ x - 1 = 0 \/ 1 \in 1..(x - 1)
  OBVIOUS

\* The lists of list_init, empty, satisfy the invariant.
LEMMA InitIInv == Init => IInv
  BY ListAssumption DEF Init, IInv, Types, Label, LockHeld, OneQueue, NotHeld,
     Forward, Heads, Backward, Tails, Prevs, Enqueuing, Dequeuing, Settled

\* The lock of a list admits one actor at a time.
LEMMA OneInside ==
  ASSUME IInv, NEW a \in Actor, NEW b \in Actor, at[a].pc # "client",
         at[b].pc # "client", at[a].list = at[b].list
  PROVE a = b
  BY DEF IInv, LockHeld

\* list_is_empty or the lock in front of an operation.
LEMMA AcquireKeeps ==
  ASSUME IInv, NEW a \in Actor, NEW l \in List,
         \/ DequeueCall(a, l)
         \/ \E n \in Node : EnqueueCall(a, l, n)
  PROVE IInv'
<1>1. PICK n \in Node \cup {NULL}, m \in {"enq_next", "deq_test"} :
        /\ Acquire(a, l, n, m)
        /\ m = "enq_next" => n \in Node /\ held[n] = a
      BY DEF DequeueCall, EnqueueCall
<1>2. at' = [at EXCEPT ![a] = [pc |-> m, list |-> l, node |-> n]]
      BY <1>1 DEF Acquire
<1> USE DEF IInv
<1>3. Types'
      BY <1>1, <1>2 DEF Types, Acquire, Label
<1>4. LockHeld'
      BY <1>1, <1>2, ListAssumption DEF LockHeld, Types, Acquire
<1>5. (OneQueue /\ NotHeld /\ Forward)'
      BY SMTT(30), <1>1 DEF OneQueue, NotHeld, Forward, Heads, Acquire
<1>6. Backward'
  <2>1. \A k : Settled(k)' => Settled(k)
        BY <1>1, <1>2 DEF Settled, Acquire, Types
  <2>2. QED
        BY <1>1, <2>1 DEF Backward, Tails, Prevs, Acquire
<1>7. ASSUME NEW b \in Actor PROVE (Enqueuing(b) /\ Dequeuing(b))'
      BY <1>1, <1>2 DEF Enqueuing, Dequeuing, Tails, Prevs, Acquire, Types
<1>8. QED
      BY <1>3, <1>4, <1>5, <1>6, <1>7

\* The unlock behind an operation.
LEMMA ReleaseKeeps ==
  ASSUME IInv, NEW a \in Actor, Release(a)
  PROVE IInv'
<1> USE DEF IInv, Release
<1>2. at' = [at EXCEPT ![a] = [pc |-> "client", list |-> NULL, node |-> NULL]]
      OBVIOUS
<1>3. Types'
  <2>1. at' \in [Actor -> [pc : Label, list : List \cup {NULL},
                           node : Node \cup {NULL}]]
        BY <1>2 DEF Types, Label
  <2>2. lk' \in [List -> Actor \cup {NULL}]
        BY DEF Types
  <2>3. QED
        BY <2>1, <2>2 DEF Types
<1>4. LockHeld'
      BY <1>2, ListAssumption, OneInside DEF LockHeld, Types
<1>5. (OneQueue /\ NotHeld /\ Forward)'
      BY DEF OneQueue, NotHeld, Forward, Heads
<1>6. Backward'
      BY ZenonT(60), <1>2 DEF Backward, Settled, Tails, Prevs, Types
<1>7. ASSUME NEW b \in Actor PROVE (Enqueuing(b) /\ Dequeuing(b))'
      BY <1>2 DEF Enqueuing, Dequeuing, Tails, Prevs, Types
<1>8. QED
      BY <1>3, <1>4, <1>5, <1>6, <1>7
\* An actor that has not started to store, or has finished, leaves its list
\* settled: nobody else is inside.
LEMMA InsideSettled ==
  ASSUME IInv, NEW a \in Actor,
         at[a].pc \in {"enq_next", "enq_link", "deq_test", "deq_head", "unlock"}
  PROVE Settled(at[a].list)
  BY OneInside DEF Settled

\* The fields of the lists and of the threads, without the places of the actors.
FieldTypes ==
  /\ head \in [List -> Node \cup {NULL}]
  /\ tail \in [List -> Node \cup {NULL}]
  /\ next \in [Node -> Node \cup {NULL, JUNK}]
  /\ prev \in [Node -> Node \cup {NULL, JUNK}]
  /\ held \in [Node -> Actor \cup {NULL}]
  /\ queue \in [List -> Seq(Node)]

\* An actor takes one step of an operation on l: it goes to m with n as its
\* thread, stores nothing that belongs to another list, and leaves the threads
\* in the hands of the other actors alone.
StepOn(a, l, n, m) ==
  /\ at[a].pc # "client"
  /\ l = at[a].list
  /\ at' = [at EXCEPT ![a] = [pc |-> m, list |-> l, node |-> n]]
  /\ lk' = lk
  /\ \A k \in List : k # l =>
       /\ head'[k] = head[k] /\ tail'[k] = tail[k] /\ queue'[k] = queue[k]
       /\ \A i \in 1..Len(queue[k]) : /\ next'[queue[k][i]] = next[queue[k][i]]
                                      /\ prev'[queue[k][i]] = prev[queue[k][i]]
  /\ \A b \in Actor \ {a} : \A x \in Node :
       held[x] = b => held'[x] = b /\ next'[x] = next[x]

\* Such a step keeps the invariant if it does so for its own list and actor:
\* the argument for all the others, made once.
LEMMA StepKeeps ==
  ASSUME IInv, NEW a \in Actor, NEW l \in List, NEW n \in Node \cup {NULL},
         NEW m \in Label \ {"client"}, StepOn(a, l, n, m),
         FieldTypes', OneQueue', NotHeld', Heads(l)',
         Settled(l)' => (Tails(l) /\ Prevs(l, 1..Len(queue[l])))',
         Enqueuing(a)', Dequeuing(a)'
  PROVE IInv'
<1>1. /\ at'[a].pc = m /\ at'[a].list = l
      /\ \A b \in Actor \ {a} : at'[b] = at[b]
      BY DEF IInv, Types, StepOn
<1>2. Types'
      BY DEF IInv, Types, FieldTypes, StepOn
<1>3. \A b \in Actor \ {a} : at[b].pc # "client" => at[b].list # l
      BY OneInside DEF StepOn
<1>4. LockHeld'
  <2> SUFFICES ASSUME NEW b \in Actor, at'[b].pc # "client"
               PROVE at'[b].list \in List /\ lk[at'[b].list] = b
      BY DEF LockHeld, StepOn
  <2>1. CASE b = a
        BY <1>1, <2>1 DEF IInv, LockHeld, StepOn
  <2>2. CASE b # a
        BY <1>1, <2>2 DEF IInv, LockHeld
  <2>3. QED
        BY <2>1, <2>2
<1>5. Forward'
      BY DEF IInv, Forward, Heads, StepOn
<1>6. Backward'
  <2> SUFFICES ASSUME NEW k \in List, Settled(k)'
               PROVE (Tails(k) /\ Prevs(k, 1..Len(queue[k])))'
      BY DEF Backward
  <2>1. CASE k = l
        BY <2>1
  <2>2. CASE k # l
    <3>1. Settled(k)
          BY <1>1, <2>2 DEF Settled, StepOn
    <3>2. QED
          BY <2>2, <3>1 DEF IInv, Backward, Tails, Prevs, StepOn
  <2>3. QED
        BY <2>1, <2>2
<1>7. ASSUME NEW b \in Actor PROVE (Enqueuing(b) /\ Dequeuing(b))'
  <2>1. CASE b = a
        BY <2>1
  <2>2. CASE b # a /\ at[b].pc = "client"
        BY <1>1, <2>2 DEF Enqueuing, Dequeuing
  <2>3. CASE b # a /\ at[b].pc # "client"
    <3>1. PICK k \in List : k = at[b].list /\ k # l
          BY <1>3, <2>3 DEF IInv, LockHeld
    <3>2. PICK x : x = at[b].node
          OBVIOUS
    <3>3. at'[b] = at[b]
          BY <1>1, <2>3
    <3>4. /\ tail'[k] = tail[k] /\ queue'[k] = queue[k]
          /\ \A i \in 1..Len(queue[k]) : prev'[queue[k][i]] = prev[queue[k][i]]
          /\ x \in Node /\ held[x] = b => held'[x] = b /\ next'[x] = next[x]
          BY <2>3, <3>1 DEF StepOn
    <3>5. Enqueuing(b) /\ Dequeuing(b) /\ queue[k] \in Seq(Node)
          BY DEF IInv, Types
    <3>6. Enqueuing(b)'
          BY <3>1, <3>2, <3>3, <3>4, <3>5 DEF Enqueuing, Prevs
    <3>7. Dequeuing(b)'
      <4>1. Len(queue[k]) \in Nat /\ Len(queue'[k]) = Len(queue[k])
            BY <3>4, <3>5
      <4>2. Tails(k) => Tails(k)'
            BY <3>4 DEF Tails
      <4>3. Prevs(k, 1..Len(queue[k])) => Prevs(k, 1..Len(queue[k]))'
            BY <3>4, <4>1 DEF Prevs
      <4>4. Prevs(k, 2..Len(queue[k])) => Prevs(k, 2..Len(queue[k]))'
        <5>1. \A i \in 2..Len(queue[k]) : i \in 1..Len(queue[k])
              BY <4>1
        <5>2. QED
              BY <3>4, <4>1, <5>1 DEF Prevs
      <4>5. QED
            BY <3>1, <3>2, <3>3, <3>4, <3>5, <4>2, <4>3, <4>4 DEF Dequeuing
    <3>8. QED
          BY <3>6, <3>7
  <2>4. QED
        BY <2>1, <2>2, <2>3
<1>8. QED
      BY <1>2, <1>4, <1>5, <1>6, <1>7 DEF IInv

\* A step that only moves the place of an actor.
LEMMA GotoStep ==
  ASSUME IInv, NEW a \in Actor, NEW f, NEW m \in Label, Goto(a, f, m)
  PROVE /\ at[a].pc = f
        /\ at' = [at EXCEPT ![a] = [pc |-> m, list |-> at[a].list,
                                              node |-> at[a].node]]
<1>1. at[a] \in [pc : Label, list : List \cup {NULL}, node : Node \cup {NULL}]
      BY DEF IInv, Types
<1>2. [at[a] EXCEPT !.pc = m] =
        [pc |-> m, list |-> at[a].list, node |-> at[a].node]
      BY <1>1
<1>3. at' = [at EXCEPT ![a] = [at[a] EXCEPT !.pc = m]]
      BY DEF Goto
<1>4. QED
      BY <1>1, <1>2, <1>3 DEF Goto

\* A thread in somebody's hand is in no queue.
LEMMA HeldApart ==
  ASSUME IInv, NEW a \in Actor, NEW n \in Node, held[n] = a
  PROVE \A l \in List : \A i \in 1..Len(queue[l]) :
          queue[l][i] # n /\ queue[l][i] \in Node
  BY ListAssumption DEF IInv, NotHeld, Types

\* The threads of a queue are different, and different from those of the others.
LEMMA QueueApart ==
  ASSUME IInv, NEW l \in List, NEW q \in Seq(Node), q = queue[l]
  PROVE /\ Len(q) \in Nat
        /\ \A i \in 1..Len(q) : q[i] \in Node /\ held[q[i]] = NULL
        /\ \A i, j \in 1..Len(q) : q[i] = q[j] => i = j
        /\ \A k \in List \ {l} : \A i \in 1..Len(queue[k]), j \in 1..Len(q) :
             queue[k][i] # q[j]
  BY DEF IInv, OneQueue, NotHeld

\* new_mem->next = NULL in do_list_enqueue.
LEMMA EnqNextKeeps ==
  ASSUME IInv, NEW a \in Actor, EnqNext(a)
  PROVE IInv'
<1>1. at[a].pc = "enq_next"
      BY DEF EnqNext, Goto
<1>2. PICK l \in List, n \in Node :
        l = at[a].list /\ n = at[a].node /\ held[n] = a
      BY <1>1 DEF IInv, LockHeld, Enqueuing
<1>3. at' = [at EXCEPT ![a] = [pc |-> "enq_link", list |-> l, node |-> n]]
      BY <1>2, GotoStep DEF EnqNext, Label
<1>4. /\ next' = [next EXCEPT ![n] = NULL]
      /\ UNCHANGED <<head, tail, prev, lk, held, queue>>
      BY <1>2 DEF EnqNext
<1>5. StepOn(a, l, n, "enq_link")
      BY <1>1, <1>2, <1>3, <1>4, HeldApart DEF StepOn, IInv, Types
<1>6. (FieldTypes /\ OneQueue /\ NotHeld)'
      BY <1>4 DEF IInv, Types, FieldTypes, OneQueue, NotHeld
<1>7. Heads(l)'
      BY <1>2, <1>4, HeldApart DEF IInv, Types, Forward, Heads
<1>8. (Tails(l) /\ Prevs(l, 1..Len(queue[l])))'
      BY <1>1, <1>2, <1>4, InsideSettled DEF IInv, Backward, Tails, Prevs
<1>9. (Enqueuing(a) /\ Dequeuing(a))'
      BY <1>2, <1>3, <1>4 DEF IInv, Types, Enqueuing, Dequeuing
<1>10. "enq_link" \in Label \ {"client"}
      BY DEF Label
<1>11. QED
      BY <1>5, <1>6, <1>7, <1>8, <1>9, <1>10, StepKeeps
\* The store to head or to the next of the tail in do_list_enqueue, which puts
\* the thread into the queue.
LEMMA EnqLinkKeeps ==
  ASSUME IInv, NEW a \in Actor, EnqLink(a)
  PROVE IInv'
<1>1. at[a].pc = "enq_link"
      BY DEF EnqLink, Goto
<1>2. PICK l \in List, n \in Node :
        l = at[a].list /\ n = at[a].node /\ held[n] = a /\ next[n] = NULL
      BY <1>1 DEF IInv, LockHeld, Enqueuing
<1>3. PICK q \in Seq(Node) : q = queue[l]
      BY DEF IInv, Types
<1> DEFINE Q == Len(q)
<1>4. at' = [at EXCEPT ![a] = [pc |-> "enq_prev", list |-> l, node |-> n]]
      BY <1>2, GotoStep DEF EnqLink, Label
<1>5. /\ queue' = [queue EXCEPT ![l] = Append(q, n)]
      /\ held' = [held EXCEPT ![n] = NULL]
      /\ UNCHANGED <<tail, prev, lk>>
      /\ \/ tail[l] = NULL /\ head' = [head EXCEPT ![l] = n] /\ next' = next
         \/ tail[l] # NULL /\ next' = [next EXCEPT ![tail[l]] = n] /\ head' = head
      BY <1>2, <1>3 DEF EnqLink
<1>6. /\ Q \in Nat
      /\ queue'[l] \in Seq(Node)
      /\ Len(queue'[l]) = Q + 1
      /\ \A i \in 1..Q : queue'[l][i] = q[i] /\ q[i] \in Node
      /\ queue'[l][Q + 1] = n
      /\ \A k \in List : k # l => queue'[k] = queue[k]
      BY <1>2, <1>3, <1>5, AppendFacts DEF IInv, Types
<1>7. \A k \in List : \A i \in 1..Len(queue[k]) :
        queue[k][i] # n /\ queue[k][i] \in Node
      BY <1>2, HeldApart
<1>8. /\ \A i, j \in 1..Q : q[i] = q[j] => i = j
      /\ \A k \in List \ {l} : \A i \in 1..Len(queue[k]), j \in 1..Q :
           queue[k][i] # q[j]
      BY <1>3, QueueApart
<1>9. Tails(l) /\ \A i \in 1..Q : prev[q[i]] = IF i = 1 THEN NULL ELSE q[i - 1]
      BY <1>1, <1>2, <1>3, InsideSettled DEF IInv, Backward, Prevs
<1>10. /\ tail[l] = NULL => Q = 0
       /\ tail[l] # NULL => Q > 0 /\ tail[l] = q[Q]
      BY <1>3, <1>6, <1>9, ListAssumption DEF Tails
<1>11. StepOn(a, l, n, "enq_prev")
  <2>1. ASSUME NEW k \in List, k # l
        PROVE /\ head'[k] = head[k] /\ tail'[k] = tail[k] /\ queue'[k] = queue[k]
              /\ \A i \in 1..Len(queue[k]) : /\ next'[queue[k][i]] = next[queue[k][i]]
                                             /\ prev'[queue[k][i]] = prev[queue[k][i]]
    <3>1. \A i \in 1..Len(queue[k]) : tail[l] # NULL => queue[k][i] # tail[l]
          BY <1>6, <1>8, <1>10, <2>1
    <3>2. \A i \in 1..Len(queue[k]) : next'[queue[k][i]] = next[queue[k][i]]
          BY <1>5, <1>7, <3>1 DEF IInv, Types
    <3>3. QED
          BY <1>5, <2>1, <3>2 DEF IInv, Types
  <2>2. ASSUME NEW b \in Actor \ {a}, NEW x \in Node, held[x] = b
        PROVE held'[x] = b /\ next'[x] = next[x]
    <3>1. x # n
          BY <1>2, <2>2
    <3>2. tail[l] # NULL => x # tail[l]
          BY <1>3, <1>6, <1>10, <2>2, HeldApart
    <3>3. QED
          BY <1>5, <2>2, <3>1, <3>2 DEF IInv, Types
  <2>3. QED
        BY <1>1, <1>2, <1>4, <1>5, <2>1, <2>2 DEF StepOn
<1>12. FieldTypes'
  <2>1. head' \in [List -> Node \cup {NULL}] /\ next' \in [Node -> Node \cup {NULL, JUNK}]
        BY <1>5 DEF IInv, Types
  <2>2. queue' \in [List -> Seq(Node)]
        BY <1>5, <1>6 DEF IInv, Types
  <2>3. held' \in [Node -> Actor \cup {NULL}]
        BY <1>5 DEF IInv, Types
  <2>4. QED
        BY <1>5, <2>1, <2>2, <2>3 DEF IInv, Types, FieldTypes
<1>13. OneQueue'
  <2> SUFFICES ASSUME NEW k \in List, NEW m \in List,
                      NEW i \in 1..Len(queue'[k]), NEW j \in 1..Len(queue'[m]),
                      queue'[k][i] = queue'[m][j]
               PROVE k = m /\ i = j
      BY DEF OneQueue
  <2>1. CASE k # l /\ m # l
        BY <1>6, <2>1 DEF IInv, OneQueue
  <2>2. CASE k = l /\ m # l
        BY <1>6, <1>7, <1>8, <2>2
  <2>3. CASE k # l /\ m = l
        BY <1>6, <1>7, <1>8, <2>3
  <2>4. CASE k = l /\ m = l
    <3>1. i \in 1..(Q + 1) /\ j \in 1..(Q + 1) /\ queue'[l][i] = queue'[l][j]
          BY <1>6, <2>4
    <3>2. CASE i = Q + 1 \/ j = Q + 1
      <4>1. \A h \in 1..Q : queue'[l][h] # n
            BY <1>3, <1>6, <1>7
      <4>2. QED
            BY <1>6, <2>4, <3>1, <3>2, <4>1
    <3>3. CASE i # Q + 1 /\ j # Q + 1
          BY <1>6, <1>8, <2>4, <3>1, <3>3
    <3>4. QED
          BY <3>2, <3>3
  <2>5. QED
        BY <2>1, <2>2, <2>3, <2>4
<1>14. NotHeld'
  <2> SUFFICES ASSUME NEW k \in List, NEW i \in 1..Len(queue'[k])
               PROVE held'[queue'[k][i]] = NULL
      BY DEF NotHeld
  <2>1. CASE k # l
        BY <1>5, <1>6, <1>7, <2>1 DEF IInv, NotHeld, Types
  <2>2. CASE k = l
        BY <1>3, <1>5, <1>6, <1>7, <2>2 DEF IInv, NotHeld, Types
  <2>3. QED
        BY <2>1, <2>2
<1>15. Heads(l)'
  <2>1. head'[l] = queue'[l][1]
    <3>1. CASE tail[l] = NULL
          BY <1>5, <1>6, <1>10, <3>1 DEF IInv, Types
    <3>2. CASE tail[l] # NULL
          BY <1>3, <1>5, <1>6, <1>10, <3>2 DEF IInv, Forward, Heads
    <3>3. QED
          BY <3>1, <3>2
  <2>2. next'[n] = NULL
    <3>1. tail[l] # NULL => tail[l] # n
          BY <1>3, <1>6, <1>7, <1>10
    <3>2. QED
          BY <1>2, <1>5, <3>1 DEF IInv, Types
  <2>3. ASSUME NEW i \in 1..Q
        PROVE next'[q[i]] = queue'[l][i + 1]
    <3>1. Q > 0 /\ tail[l] = q[Q] /\ q[Q] \in Node
          BY <1>6, <1>10
    <3>2. next' = [next EXCEPT ![q[Q]] = n]
          BY <1>5, <1>10, <3>1
    <3>3. CASE i = Q
          BY <1>6, <3>1, <3>2, <3>3 DEF IInv, Types
    <3>4. CASE i # Q
      <4>1. q[i] # q[Q]
            BY <1>6, <1>8, <3>4
      <4>2. next[q[i]] = q[i + 1]
            BY <1>3, <1>6, <3>4 DEF IInv, Forward, Heads
      <4>3. QED
            BY <1>6, <3>2, <3>4, <4>1, <4>2 DEF IInv, Types
    <3>5. QED
          BY <3>3, <3>4
  <2>4. ASSUME NEW i \in 1..(Q + 1)
        PROVE next'[queue'[l][i]] = IF i = Q + 1 THEN NULL ELSE queue'[l][i + 1]
    <3>1. CASE i = Q + 1
          BY <1>6, <2>2, <3>1
    <3>2. CASE i # Q + 1
          BY <1>6, <2>3, <3>2
    <3>3. QED
          BY <3>1, <3>2
  <2>5. QED
        BY <1>6, <2>1, <2>4 DEF Heads
<1>16. ~Settled(l)'
      BY <1>4 DEF IInv, Types, Settled
<1>17. Enqueuing(a)'
  <2>1. at'[a].pc = "enq_prev" /\ at'[a].list = l /\ at'[a].node = n
        BY <1>4 DEF IInv, Types
  <2>2. tail'[l] = IF Q + 1 = 1 THEN NULL ELSE queue'[l][Q]
        BY <1>3, <1>5, <1>6, <1>9 DEF Tails
  <2>3. \A i \in 1..Q : i # 1 => i - 1 \in 1..Q
        OBVIOUS
  <2>4. \A i \in 1..Q :
          prev'[queue'[l][i]] = IF i = 1 THEN NULL ELSE queue'[l][i - 1]
        BY <1>5, <1>6, <1>9, <2>3
  <2>5. Len(queue'[l]) - 1 = Q /\ Len(queue'[l]) > 0
        BY <1>6
  <2>6. Prevs(l, 1..(Len(queue[l]) - 1))'
        BY <2>4, <2>5 DEF Prevs
  <2>7. QED
        BY <1>6, <2>1, <2>2, <2>5, <2>6 DEF Enqueuing
<1>18. Dequeuing(a)'
      BY <1>4 DEF IInv, Types, Dequeuing
<1>19. "enq_prev" \in Label \ {"client"}
      BY DEF Label
<1>20. QED
      BY <1>11, <1>12, <1>13, <1>14, <1>15, <1>16, <1>17, <1>18, <1>19, StepKeeps

\* new_mem->prev = list->tail in do_list_enqueue.
LEMMA EnqPrevKeeps ==
  ASSUME IInv, NEW a \in Actor, EnqPrev(a)
  PROVE IInv'
<1>1. at[a].pc = "enq_prev"
      BY DEF EnqPrev, Goto
<1>2. PICK l \in List, n \in Node : l = at[a].list /\ n = at[a].node
      BY <1>1 DEF IInv, LockHeld, Enqueuing
<1>3. PICK q \in Seq(Node) : q = queue[l]
      BY DEF IInv, Types
<1> DEFINE Q == Len(q)
<1>4. /\ Q > 0 /\ q[Q] = n
      /\ tail[l] = IF Q = 1 THEN NULL ELSE q[Q - 1]
      /\ Prevs(l, 1..(Q - 1))
      BY <1>1, <1>2, <1>3 DEF IInv, Enqueuing
<1>5. at' = [at EXCEPT ![a] = [pc |-> "enq_tail", list |-> l, node |-> n]]
      BY <1>2, GotoStep DEF EnqPrev, Label
<1>6. /\ prev' = [prev EXCEPT ![n] = tail[l]]
      /\ UNCHANGED <<head, tail, next, lk, held, queue>>
      BY <1>2 DEF EnqPrev
<1>7. /\ Q \in Nat
      /\ \A i \in 1..Q : q[i] \in Node
      /\ \A i, j \in 1..Q : q[i] = q[j] => i = j
      /\ \A k \in List \ {l} : \A i \in 1..Len(queue[k]) : queue[k][i] # n
      BY <1>3, <1>4, QueueApart
<1>8. StepOn(a, l, n, "enq_tail")
      BY <1>1, <1>2, <1>5, <1>6, <1>7 DEF StepOn, IInv, Types
<1>9. (FieldTypes /\ OneQueue /\ NotHeld /\ Heads(l))'
      BY <1>6 DEF IInv, Types, FieldTypes, OneQueue, NotHeld, Forward, Heads
<1>10. at'[a].pc = "enq_tail" /\ at'[a].list = l /\ at'[a].node = n
      BY <1>5 DEF IInv, Types
<1>11. ~Settled(l)'
      BY <1>10 DEF Settled
<1>12. prev'[n] = tail[l]
      BY <1>6 DEF IInv, Types
<1>13. \A i \in 1..(Q - 1) : prev'[q[i]] = prev[q[i]]
  <2>1. \A i \in 1..(Q - 1) : q[i] # n /\ q[i] \in Node
        BY <1>4, <1>7
  <2>2. QED
        BY <1>6, <2>1 DEF IInv, Types
<1>14. (Enqueuing(a) /\ Dequeuing(a))'
      BY <1>3, <1>4, <1>6, <1>10, <1>12, <1>13 DEF Enqueuing, Dequeuing, Prevs
<1>15. "enq_tail" \in Label \ {"client"}
      BY DEF Label
<1>16. QED
      BY <1>8, <1>9, <1>11, <1>14, <1>15, StepKeeps

\* list->tail = new_mem in do_list_enqueue: the list is settled again.
LEMMA EnqTailKeeps ==
  ASSUME IInv, NEW a \in Actor, EnqTail(a)
  PROVE IInv'
<1>1. at[a].pc = "enq_tail"
      BY DEF EnqTail, Goto
<1>2. PICK l \in List, n \in Node : l = at[a].list /\ n = at[a].node
      BY <1>1 DEF IInv, LockHeld, Enqueuing
<1>3. PICK q \in Seq(Node) : q = queue[l]
      BY DEF IInv, Types
<1> DEFINE Q == Len(q)
<1>4. /\ Q > 0 /\ q[Q] = n
      /\ prev[n] = IF Q = 1 THEN NULL ELSE q[Q - 1]
      /\ Prevs(l, 1..(Q - 1))
      BY <1>1, <1>2, <1>3 DEF IInv, Enqueuing
<1>5. at' = [at EXCEPT ![a] = [pc |-> "unlock", list |-> l, node |-> n]]
      BY <1>2, GotoStep DEF EnqTail, Label
<1>6. /\ tail' = [tail EXCEPT ![l] = n]
      /\ UNCHANGED <<head, next, prev, lk, held, queue>>
      BY <1>2 DEF EnqTail
<1>7. StepOn(a, l, n, "unlock")
      BY <1>1, <1>2, <1>5, <1>6 DEF StepOn, IInv, Types
<1>8. (FieldTypes /\ OneQueue /\ NotHeld /\ Heads(l))'
      BY <1>6 DEF IInv, Types, FieldTypes, OneQueue, NotHeld, Forward, Heads
<1>9. Tails(l)'
      BY <1>3, <1>4, <1>6 DEF Tails, IInv, Types
<1>10. Prevs(l, 1..Len(queue[l]))'
  <2>1. \A i \in 1..Q : i = Q \/ i \in 1..(Q - 1)
        BY <1>4
  <2>2. \A i \in 1..Q : prev[q[i]] = IF i = 1 THEN NULL ELSE q[i - 1]
        BY <1>3, <1>4, <2>1 DEF Prevs
  <2>3. QED
        BY <1>3, <1>6, <2>2 DEF Prevs
<1>11. (Enqueuing(a) /\ Dequeuing(a))'
      BY <1>5 DEF IInv, Types, Enqueuing, Dequeuing
<1>12. "unlock" \in Label \ {"client"}
      BY DEF Label
<1>13. QED
      BY <1>7, <1>8, <1>9, <1>10, <1>11, <1>12, StepKeeps
\* list_is_empty in front of list_dequeue: its assertion will hold.
LEMMA DeqTestKeeps ==
  ASSUME IInv, NEW a \in Actor, DeqTest(a)
  PROVE IInv'
<1>1. at[a].pc = "deq_test"
      BY DEF DeqTest
<1>2. PICK l \in List, n \in Node \cup {NULL} : l = at[a].list /\ n = at[a].node
      BY <1>1 DEF IInv, LockHeld, Types
<1>3. PICK q \in Seq(Node) : q = queue[l]
      BY DEF IInv, Types
<1>4. PICK m \in {"unlock", "deq_head"} :
        /\ m = IF head[l] = NULL /\ tail[l] = NULL THEN "unlock" ELSE "deq_head"
        /\ Goto(a, "deq_test", m)
      BY <1>2 DEF DeqTest, Goto
<1>5. m \in Label \ {"client"}
      BY DEF Label
<1>6. at' = [at EXCEPT ![a] = [pc |-> m, list |-> l, node |-> n]]
      BY <1>2, <1>4, <1>5, GotoStep
<1>7. UNCHANGED <<head, tail, next, prev, lk, held, queue>>
      BY DEF DeqTest
<1>8. StepOn(a, l, n, m)
      BY <1>1, <1>2, <1>6, <1>7 DEF StepOn
<1>9. (FieldTypes /\ OneQueue /\ NotHeld /\ Heads(l))'
      BY <1>7 DEF IInv, Types, FieldTypes, OneQueue, NotHeld, Forward, Heads
<1>10. Tails(l) /\ Prevs(l, 1..Len(queue[l]))
      BY <1>1, <1>2, InsideSettled DEF IInv, Backward
<1>11. (Tails(l) /\ Prevs(l, 1..Len(queue[l])))'
      BY <1>7, <1>10 DEF Tails, Prevs
<1>12. m = "deq_head" => Len(queue[l]) > 0
      BY <1>3, <1>4, <1>10 DEF IInv, Forward, Heads, Tails
<1>13. (Enqueuing(a) /\ Dequeuing(a))'
      BY <1>6, <1>7, <1>12 DEF IInv, Types, Enqueuing, Dequeuing
<1>14. QED
      BY <1>5, <1>8, <1>9, <1>11, <1>13, StepKeeps

\* list->head = list->head->next in list_dequeue, which takes the first thread
\* of the queue.
LEMMA DeqHeadKeeps ==
  ASSUME IInv, NEW a \in Actor, DeqHead(a)
  PROVE IInv'
<1>1. at[a].pc = "deq_head"
      BY DEF DeqHead
<1>2. PICK l \in List : l = at[a].list
      BY <1>1 DEF IInv, LockHeld
<1>3. PICK q \in Seq(Node) : q = queue[l] /\ Len(q) > 0
      BY <1>1, <1>2 DEF IInv, Types, Dequeuing
<1> DEFINE Q == Len(q)
<1>4. PICK n \in Node : n = q[1] /\ head[l] = n
      BY <1>3 DEF IInv, Forward, Heads
<1>5. /\ queue' = [queue EXCEPT ![l] = Tail(q)]
      /\ held' = [held EXCEPT ![n] = a]
      /\ head' = [head EXCEPT ![l] = next[n]]
      /\ UNCHANGED <<tail, next, prev, lk>>
      BY <1>2, <1>3, <1>4 DEF DeqHead
<1>6. at' = [at EXCEPT ![a] = [pc |-> "deq_tail", list |-> l, node |-> n]]
  <2>1. at[a] \in [pc : Label, list : List \cup {NULL}, node : Node \cup {NULL}]
        BY DEF IInv, Types
  <2>2. [at[a] EXCEPT !.pc = "deq_tail", !.node = n] =
          [pc |-> "deq_tail", list |-> at[a].list, node |-> n]
    <3> DEFINE r == at[a]
    <3>1. [r EXCEPT !.pc = "deq_tail", !.node = n] =
            [[r EXCEPT !.pc = "deq_tail"] EXCEPT !.node = n]
          BY <2>1
    <3>2. [r EXCEPT !.pc = "deq_tail"] =
            [pc |-> "deq_tail", list |-> r.list, node |-> r.node]
          BY <2>1
    <3>3. [[pc |-> "deq_tail", list |-> r.list, node |-> r.node] EXCEPT !.node = n] =
            [pc |-> "deq_tail", list |-> r.list, node |-> n]
          OBVIOUS
    <3>4. QED
          BY <3>1, <3>2, <3>3
  <2>3. at' = [at EXCEPT ![a] = [at[a] EXCEPT !.pc = "deq_tail", !.node = n]]
        BY <1>2, <1>4 DEF DeqHead, IInv, Types
  <2>4. QED
        BY <1>2, <2>2, <2>3
<1>7. /\ Q \in Nat \ {0}
      /\ queue'[l] \in Seq(Node)
      /\ Len(queue'[l]) = Q - 1
      /\ \A i \in 1..(Q - 1) : queue'[l][i] = q[i + 1] /\ q[i + 1] \in Node
      /\ \A k \in List : k # l => queue'[k] = queue[k]
      BY <1>3, <1>5, TailFacts DEF IInv, Types
<1>8. /\ \A i \in 1..Q : q[i] \in Node /\ held[q[i]] = NULL
      /\ \A i, j \in 1..Q : q[i] = q[j] => i = j
      /\ \A k \in List \ {l} : \A i \in 1..Len(queue[k]), j \in 1..Q :
           queue[k][i] # q[j]
      BY <1>3, QueueApart
<1>9. Tails(l) /\ \A i \in 1..Q : prev[q[i]] = IF i = 1 THEN NULL ELSE q[i - 1]
      BY <1>1, <1>2, <1>3, InsideSettled DEF IInv, Backward, Prevs
<1>10. StepOn(a, l, n, "deq_tail")
  <2>1. \A k \in List : k # l => head'[k] = head[k] /\ queue'[k] = queue[k]
        BY <1>5 DEF IInv, Types
  <2>2. \A b \in Actor \ {a} : \A x \in Node : held[x] = b => held'[x] = b
        BY SMTT(30), <1>4, <1>5, <1>7, <1>8, ListAssumption DEF IInv, Types
  <2>3. QED
        BY <1>1, <1>2, <1>5, <1>6, <2>1, <2>2 DEF StepOn
<1>11. next[n] = IF Q = 1 THEN NULL ELSE q[2]
  <2>1. 1 \in 1..Q /\ 1 + 1 = 2
        BY <1>7
  <2>2. QED
        BY <1>3, <1>4, <2>1 DEF IInv, Forward, Heads
<1>12. FieldTypes'
  <2>1. next[n] \in Node \cup {NULL}
    <3>1. Q = 1 \/ 2 \in 1..Q
          BY <1>7, SmallBounds
    <3>2. QED
          BY <1>8, <1>11, <3>1
  <2>2. head' \in [List -> Node \cup {NULL}] /\ held' \in [Node -> Actor \cup {NULL}]
        BY <1>5, <2>1 DEF IInv, Types
  <2>3. queue' \in [List -> Seq(Node)]
        BY <1>5, <1>7 DEF IInv, Types
  <2>4. QED
        BY <1>5, <2>2, <2>3 DEF IInv, Types, FieldTypes
<1>13. OneQueue'
  <2> SUFFICES ASSUME NEW k \in List, NEW m \in List,
                      NEW i \in 1..Len(queue'[k]), NEW j \in 1..Len(queue'[m]),
                      queue'[k][i] = queue'[m][j]
               PROVE k = m /\ i = j
      BY DEF OneQueue
  <2>1. CASE k # l /\ m # l
        BY <1>7, <2>1 DEF IInv, OneQueue
  <2>2. CASE k = l /\ m # l
    <3>1. queue'[k][i] = q[i + 1] /\ i + 1 \in 1..Q
          BY <1>7, <2>2
    <3>2. QED
          BY SMTT(30), <1>7, <1>8, <2>2, <3>1
  <2>3. CASE k # l /\ m = l
    <3>1. queue'[m][j] = q[j + 1] /\ j + 1 \in 1..Q
          BY <1>7, <2>3
    <3>2. QED
          BY SMTT(30), <1>7, <1>8, <2>3, <3>1
  <2>4. CASE k = l /\ m = l
        BY <1>7, <1>8, <2>4
  <2>5. QED
        BY <2>1, <2>2, <2>3, <2>4
<1>14. NotHeld'
  <2> SUFFICES ASSUME NEW k \in List, NEW i \in 1..Len(queue'[k])
               PROVE held'[queue'[k][i]] = NULL
      BY DEF NotHeld
  <2>1. CASE k # l
        BY <1>4, <1>5, <1>7, <1>8, <2>1 DEF IInv, NotHeld, Types
  <2>2. CASE k = l
    <3>1. i \in 1..(Q - 1) /\ queue'[k][i] = q[i + 1] /\ i + 1 \in 1..Q
          BY <1>7, <2>2
    <3>2. q[i + 1] # n
          BY <1>4, <1>7, <1>8, <3>1
    <3>3. QED
          BY <1>5, <1>8, <3>1, <3>2 DEF IInv, Types
  <2>3. QED
        BY <2>1, <2>2
<1>15. Heads(l)'
  <2>1. head'[l] = IF Len(queue'[l]) = 0 THEN NULL ELSE queue'[l][1]
    <3>1. Q - 1 # 0 => queue'[l][1] = q[2]
      <4>1. Q - 1 = 0 \/ 1 \in 1..(Q - 1)
            BY <1>7, SmallBounds
      <4>2. QED
            BY <1>7, <4>1
    <3>2. head'[l] = next[n]
          BY <1>5 DEF IInv, Types
    <3>3. QED
          BY <1>7, <1>11, <3>1, <3>2
  <2>2. \A i \in 1..Q : next[q[i]] = IF i = Q THEN NULL ELSE q[i + 1]
        BY <1>3 DEF IInv, Forward, Heads
  <2>3. ASSUME NEW i \in 1..(Q - 1)
        PROVE next'[queue'[l][i]] = IF i = Q - 1 THEN NULL ELSE queue'[l][i + 1]
    <3>1. i + 1 \in 1..Q /\ (i # Q - 1 => i + 1 \in 1..(Q - 1))
          BY <1>7
    <3>2. QED
          BY <1>5, <1>7, <2>2, <3>1
  <2>4. QED
        BY <1>7, <2>1, <2>3 DEF Heads
<1>16. ~Settled(l)'
      BY <1>6 DEF IInv, Types, Settled
<1>17. at'[a].pc = "deq_tail" /\ at'[a].list = l /\ at'[a].node = n
      BY <1>6 DEF IInv, Types
<1>18. Dequeuing(a)'
  <2>1. held'[n] = a
        BY <1>4, <1>5 DEF IInv, Types
  <2>2. Q - 1 > 0 => tail'[l] = queue'[l][Q - 1]
        BY <1>3, <1>5, <1>7, <1>9 DEF Tails
  <2>3. ASSUME NEW i \in 2..(Q - 1)
        PROVE prev'[queue'[l][i]] = queue'[l][i - 1]
    <3>1. i \in 1..(Q - 1) /\ i - 1 \in 1..(Q - 1) /\ i + 1 \in 1..Q /\ i + 1 # 1
          BY <1>7
    <3>2. queue'[l][i] = q[i + 1] /\ queue'[l][i - 1] = q[i]
          BY SMTT(30), <1>7, <3>1
    <3>3. QED
          BY <1>5, <1>9, <3>1, <3>2
  <2>4. (Len(queue[l]) > 0 => Tails(l))'
        BY <1>7, <2>2 DEF Tails
  <2>5. Prevs(l, 2..Len(queue[l]))'
        BY <1>7, <2>3 DEF Prevs
  <2>6. QED
        BY <1>4, <1>17, <2>1, <2>4, <2>5 DEF Dequeuing
<1>19. Enqueuing(a)'
      BY <1>17 DEF Enqueuing
<1>20. "deq_tail" \in Label \ {"client"} /\ n \in Node \cup {NULL}
      BY <1>4 DEF Label
<1>21. QED
      BY <1>10, <1>12, <1>13, <1>14, <1>15, <1>16, <1>18, <1>19, <1>20, StepKeeps

\* The reset of the tail, or of the first backward link, in list_dequeue.
LEMMA DeqTailKeeps ==
  ASSUME IInv, NEW a \in Actor, DeqTail(a)
  PROVE IInv'
<1>1. at[a].pc = "deq_tail"
      BY DEF DeqTail, Goto
<1>2. PICK l \in List, n \in Node : l = at[a].list /\ n = at[a].node /\ held[n] = a
      BY <1>1 DEF IInv, LockHeld, Dequeuing
<1>3. PICK q \in Seq(Node) : q = queue[l]
      BY DEF IInv, Types
<1> DEFINE Q == Len(q)
<1>4. /\ Q > 0 => Tails(l)
      /\ \A i \in 2..Q : prev[q[i]] = IF i = 1 THEN NULL ELSE q[i - 1]
      BY <1>1, <1>2, <1>3 DEF IInv, Dequeuing, Prevs
<1>5. at' = [at EXCEPT ![a] = [pc |-> "deq_next", list |-> l, node |-> n]]
      BY <1>2, GotoStep DEF DeqTail, Label
<1>6. /\ \/ head[l] = NULL /\ tail' = [tail EXCEPT ![l] = NULL] /\ prev' = prev
         \/ head[l] # NULL /\ prev' = [prev EXCEPT ![head[l]] = NULL] /\ tail' = tail
      /\ UNCHANGED <<head, next, lk, held, queue>>
      BY <1>2 DEF DeqTail
<1>7. /\ Q \in Nat
      /\ \A i \in 1..Q : q[i] \in Node
      /\ \A i, j \in 1..Q : q[i] = q[j] => i = j
      /\ \A k \in List \ {l} : \A i \in 1..Len(queue[k]), j \in 1..Q :
           queue[k][i] # q[j]
      BY <1>3, QueueApart
<1>8. /\ head[l] = NULL => Q = 0
      /\ head[l] # NULL => Q > 0 /\ head[l] = q[1]
      BY <1>3, <1>7, ListAssumption DEF IInv, Forward, Heads
<1>9. \A k \in List : \A i \in 1..Len(queue[k]) : queue[k][i] \in Node
      BY DEF IInv, Types
<1>10. StepOn(a, l, n, "deq_next")
  <2>1. \A k \in List : k # l =>
          /\ tail'[k] = tail[k]
          /\ \A i \in 1..Len(queue[k]) : prev'[queue[k][i]] = prev[queue[k][i]]
        BY <1>6, <1>7, <1>8, <1>9 DEF IInv, Types
  <2>2. QED
        BY <1>1, <1>2, <1>5, <1>6, <2>1 DEF StepOn
<1>11. (FieldTypes /\ OneQueue /\ NotHeld /\ Heads(l))'
  <2>1. /\ tail' \in [List -> Node \cup {NULL}]
        /\ prev' \in [Node -> Node \cup {NULL, JUNK}]
        BY <1>6 DEF IInv, Types
  <2>2. QED
        BY <1>6, <2>1 DEF IInv, Types, FieldTypes, OneQueue, NotHeld, Forward, Heads
<1>12. Tails(l)'
  <2>1. CASE head[l] = NULL
        BY <1>3, <1>6, <1>8, <2>1 DEF Tails, IInv, Types
  <2>2. CASE head[l] # NULL
        BY <1>3, <1>4, <1>6, <1>8, <2>2 DEF Tails
  <2>3. QED
        BY <2>1, <2>2
<1>13. Prevs(l, 1..Len(queue[l]))'
  <2>1. ASSUME NEW i \in 1..Q
        PROVE prev'[q[i]] = IF i = 1 THEN NULL ELSE q[i - 1]
    <3>1. /\ prev' = [prev EXCEPT ![q[1]] = NULL]
          /\ 1 \in 1..Q
          BY <1>6, <1>7, <1>8
    <3>2. CASE i = 1
          BY <1>7, <3>1, <3>2 DEF IInv, Types
    <3>3. CASE i # 1
      <4>1. q[i] # q[1] /\ i \in 2..Q
            BY <1>7, <3>1, <3>3
      <4>2. QED
            BY <1>4, <1>7, <3>1, <3>3, <4>1 DEF IInv, Types
    <3>4. QED
          BY <3>2, <3>3
  <2>2. QED
        BY <1>3, <1>6, <2>1 DEF Prevs
<1>14. (Enqueuing(a) /\ Dequeuing(a))'
  <2>1. at'[a].pc = "deq_next" /\ at'[a].list = l /\ at'[a].node = n
        BY <1>5 DEF IInv, Types
  <2>2. QED
        BY <1>2, <1>6, <1>12, <1>13, <2>1 DEF Enqueuing, Dequeuing
<1>15. "deq_next" \in Label \ {"client"}
      BY DEF Label
<1>16. QED
      BY <1>10, <1>11, <1>12, <1>13, <1>14, <1>15, StepKeeps

\* node->next = NULL in list_dequeue.
LEMMA DeqNextKeeps ==
  ASSUME IInv, NEW a \in Actor, DeqNext(a)
  PROVE IInv'
<1>1. at[a].pc = "deq_next"
      BY DEF DeqNext, Goto
<1>2. PICK l \in List, n \in Node : l = at[a].list /\ n = at[a].node /\ held[n] = a
      BY <1>1 DEF IInv, LockHeld, Dequeuing
<1>3. at' = [at EXCEPT ![a] = [pc |-> "unlock", list |-> l, node |-> n]]
      BY <1>2, GotoStep DEF DeqNext, Label
<1>4. /\ next' = [next EXCEPT ![n] = NULL]
      /\ UNCHANGED <<head, tail, prev, lk, held, queue>>
      BY <1>2 DEF DeqNext
<1>5. StepOn(a, l, n, "unlock")
      BY <1>1, <1>2, <1>3, <1>4, HeldApart DEF StepOn, IInv, Types
<1>6. (FieldTypes /\ OneQueue /\ NotHeld)'
      BY <1>4 DEF IInv, Types, FieldTypes, OneQueue, NotHeld
<1>7. Heads(l)'
      BY <1>2, <1>4, HeldApart DEF IInv, Types, Forward, Heads
<1>8. (Tails(l) /\ Prevs(l, 1..Len(queue[l])))'
      BY <1>1, <1>2, <1>4 DEF IInv, Dequeuing, Tails, Prevs
<1>9. (Enqueuing(a) /\ Dequeuing(a))'
      BY <1>3 DEF IInv, Types, Enqueuing, Dequeuing
<1>10. "unlock" \in Label \ {"client"}
      BY DEF Label
<1>11. QED
      BY <1>5, <1>6, <1>7, <1>8, <1>9, <1>10, StepKeeps

\* Every store of every operation keeps the invariant: one case per action.
LEMMA NextIInv == IInv /\ [Next]_vars => IInv'
<1> SUFFICES ASSUME IInv, [Next]_vars PROVE IInv'
    OBVIOUS
<1>1. CASE UNCHANGED vars
      BY <1>1 DEF vars, IInv, Types, LockHeld, OneQueue, NotHeld, Forward, Heads,
         Backward, Settled, Tails, Prevs, Enqueuing, Dequeuing
<1>2. ASSUME NEW a \in Actor, Client(a) PROVE IInv'
      BY <1>2, AcquireKeeps DEF Client
<1>3. ASSUME NEW a \in Actor, Library(a) PROVE IInv'
      BY <1>3, EnqNextKeeps, EnqLinkKeeps, EnqPrevKeeps, EnqTailKeeps, DeqTestKeeps,
         DeqHeadKeeps, DeqTailKeeps, DeqNextKeeps, ReleaseKeeps DEF Library
<1>4. QED
      BY <1>1, <1>2, <1>3 DEF Next

-----------------------------------------------------------------------------
(* The theorems                                                            *)

\* Locks, hands, queues and pointers stay consistent in every behaviour.
THEOREM Invariance == Spec => []IInv
<1>1. Init => IInv
      BY InitIInv
<1>2. IInv /\ [Next]_vars => IInv'
      BY NextIInv
<1>3. QED
      BY <1>1, <1>2, PTL DEF Spec

\* Whenever no operation is in the middle of a list, its two ends and the links
\* of its threads are those of the queue that it stands for.
THEOREM ListsRepresent == Spec => []Represents
<1>1. IInv => Represents
      BY DEF IInv, Represents, Forward, Heads, Backward, Tails, Prevs
<1>2. QED
      BY <1>1, Invariance, PTL

\* The lists are first-in first-out queues: list_enqueue appends when it links
\* the new thread, list_dequeue removes the oldest when it moves the head, and
\* every other store changes no queue.
THEOREM ListsAreQueues == Spec => ImplementsQueue
<1>1. Init => Abstract!Init
      BY DEF Init, Abstract!Init
<1>2. ASSUME IInv, [Next]_vars PROVE [Abstract!Next]_(Abstract!vars)
  <2>1. ASSUME NEW a \in Actor, EnqLink(a) PROVE Abstract!Next
    <3>1. at[a].pc = "enq_link" /\ at[a].list \in List /\ at[a].node \in Node
          BY <1>2, <2>1 DEF EnqLink, Goto, IInv, LockHeld, Enqueuing
    <3>2. held[at[a].node] = a
          BY <1>2, <3>1 DEF IInv, Enqueuing
    <3>3. Abstract!Enqueue(a, at[a].list, at[a].node)
          BY <2>1, <3>2 DEF EnqLink, Abstract!Enqueue
    <3>4. QED
          BY <3>1, <3>3 DEF Abstract!Next
  <2>2. ASSUME NEW a \in Actor, DeqHead(a) PROVE Abstract!Next
    <3>1. at[a].pc = "deq_head" /\ at[a].list \in List
          BY <1>2, <2>2 DEF DeqHead, IInv, LockHeld
    <3>2. PICK q \in Seq(Node) : q = queue[at[a].list] /\ Len(q) > 0
          BY <1>2, <3>1 DEF IInv, Types, Dequeuing
    <3>3. q # <<>> /\ Head(q) = head[at[a].list]
          BY <1>2, <3>1, <3>2, TailFacts DEF IInv, Forward, Heads
    <3>4. Abstract!Dequeue(a, at[a].list)
          BY <2>2, <3>2, <3>3 DEF DeqHead, Abstract!Dequeue
    <3>5. QED
          BY <3>1, <3>4 DEF Abstract!Next
  <2>3. ASSUME NEW a \in Actor, Client(a) PROVE UNCHANGED <<queue, held>>
        BY <2>3 DEF Client, DequeueCall, EnqueueCall, Acquire
  <2>4. ASSUME NEW a \in Actor,
               \/ EnqNext(a) \/ EnqPrev(a) \/ EnqTail(a)
               \/ DeqTest(a) \/ DeqTail(a) \/ DeqNext(a) \/ Release(a)
        PROVE UNCHANGED <<queue, held>>
        BY <2>4 DEF EnqNext, EnqPrev, EnqTail, DeqTest, DeqTail, DeqNext, Release
  <2>5. CASE UNCHANGED vars
        BY <2>5 DEF vars, Abstract!vars
  <2>6. QED
        BY <1>2, <2>1, <2>2, <2>3, <2>4, <2>5 DEF Next, Library, Abstract!vars
<1>3. QED
      BY <1>1, <1>2, Invariance, PTL DEF Spec, ImplementsQueue, Abstract!Spec
=============================================================================
