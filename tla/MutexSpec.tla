----------------------------- MODULE MutexSpec -----------------------------
(***************************************************************************)
(* What a mutex promises its callers, whatever the library that implements *)
(* it: a thread asks for the mutex, is granted it when nobody holds it,    *)
(* and gives it back.  Nothing is said of the order of the grants.         *)
(***************************************************************************)
CONSTANTS Thread,   \* the threads that use the mutex
          NoOne     \* the value of holder when the mutex is free

VARIABLES holder,   \* the thread that holds the mutex, or NoOne
          asking    \* the threads inside a blocking acquire

vars == <<holder, asking>>

TypeOK == /\ holder \in Thread \cup {NoOne}
          /\ asking \subseteq Thread

Init == holder = NoOne /\ asking = {}

\* A thread starts a blocking acquire.
Ask(t) == /\ t \notin asking
          /\ asking' = asking \cup {t}
          /\ UNCHANGED holder

\* The free mutex is given to a thread that asks for it.
Grant(t) == /\ holder = NoOne
            /\ t \in asking
            /\ holder' = t
            /\ asking' = asking \ {t}

\* The free mutex is taken by a thread that does not want to wait for it.
Take(t) == /\ holder = NoOne
           /\ t \notin asking
           /\ holder' = t
           /\ UNCHANGED asking

\* The holder, and nobody else, gives the mutex back.
Release(t) == /\ holder = t
              /\ holder' = NoOne
              /\ UNCHANGED asking

\* The holder passes the mutex straight to a thread that asks for it.
HandOver(t, u) == /\ holder = t
                  /\ u \in asking
                  /\ holder' = u
                  /\ asking' = asking \ {u}

Next == \E t \in Thread : \/ Ask(t) \/ Grant(t) \/ Take(t) \/ Release(t)
                          \/ \E u \in Thread : HandOver(t, u)

Spec == Init /\ [][Next]_vars
=============================================================================
