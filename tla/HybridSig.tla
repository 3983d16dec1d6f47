----------------------------- MODULE HybridSig -----------------------------
(***************************************************************************)
(* Signals of hybrid threads (hybrid/src/thread_sig.c).  A one-one thread  *)
(* is signalled by the kernel: td[t].pend_sig is then what the kernel      *)
(* keeps pending for it.  A many-many thread is signalled by a mark in its *)
(* descriptor, which the dispatcher that takes it next acts upon.          *)
(***************************************************************************)
EXTENDS HybridSched

(* thread_kill                                                             *)

\* sig_send to the kernel id of a one-one target, whose result is not looked at.
\* An unblocked signal is handled at once, without SA_RESTART: a futex sleep ends
\* (EINTR).
KillOneOne(t, u, s) ==
  /\ <<t, u>> \in KillPairs
  /\ At(t, "client")
  /\ u \in OneOne
  /\ td[u].given
  /\ \/ /\ ut[u].pc # "gone" /\ s \notin td[u].blocked
        /\ got' = [got EXCEPT ![u] = @ \cup {s}]
        /\ ut' = IF ut[u].pc = "join_sleep" THEN [ut EXCEPT ![u].pc = "join_done"]
                 ELSE ut
        /\ UNCHANGED td
     \/ /\ ut[u].pc # "gone" /\ s \in td[u].blocked
        /\ td' = [td EXCEPT ![u].pend_sig = @ \cup {s}]
        /\ UNCHANGED <<got, ut>>
     \/ ut[u].pc = "gone" /\ UNCHANGED <<td, got, ut>>
  /\ UNCHANGED <<mmrll, mmrll_lk, kt, enabled, mpc, freed>>

\* Mutant of KillCall: the interrupts that are disabled are those of the target.
KillCallTarget(t, u, s) ==
  /\ <<t, u>> \in KillPairs
  /\ u \in MMThread
  /\ td[u].given
  /\ Calls(t, <<u, s>>, "kill_lock")
  /\ td' = [td EXCEPT ![u].intr_off = TRUE]
  /\ UNCHANGED <<mmrll, mmrll_lk, kt, enabled, mpc, freed, got>>

\* The interrupts of a many-many caller are disabled.
KillCall(t, u, s) ==
  /\ <<t, u>> \in KillPairs
  /\ u \in MMThread
  /\ td[u].given
  /\ Calls(t, <<u, s>>, "kill_lock")
  /\ td' = [td EXCEPT ![t].intr_off = intr(t, TRUE)]
  /\ UNCHANGED <<mmrll, mmrll_lk, kt, enabled, mpc, freed, got>>

KillLock(t) ==
  LET u == ut[t].arg[1] IN
  /\ At(t, "kill_lock")
  /\ td[u].mem_lock = NULL
  /\ td' = [td EXCEPT ![u].mem_lock = t]
  /\ Goto(t, "kill_set")
  /\ UNCHANGED <<mmrll, mmrll_lk, kt, enabled, mpc, freed, got>>

\* td_mm_set_sig_pending, td_unlock, and the interrupts of the caller enabled.
KillSet(t) ==
  LET u == ut[t].arg[1]
      s == ut[t].arg[2]
  IN
  /\ At(t, "kill_set")
  /\ td' = [td EXCEPT ![u].pend_sig = @ \cup {s}, ![u].mem_lock = NULL,
                      ![t].intr_off = FALSE]
  /\ Return(t)
  /\ UNCHANGED <<mmrll, mmrll_lk, kt, enabled, mpc, freed, got>>

-----------------------------------------------------------------------------
(* thread_sigmask: the caller's mask becomes S (SIG_SETMASK; SIG_BLOCK and *)
(* SIG_UNBLOCK reach the same masks); the kernel delivers what S lets      *)
(* through.  SIGALRM stays unblocked and is not in Signal.                 *)

ThreadSigmask(t, S) ==
  /\ t \in Masker
  /\ At(t, "client")
  /\ \/ /\ t \in OneOne
        /\ td' = [td EXCEPT ![t].blocked = S, ![t].pend_sig = @ \cap S]
        /\ got' = [got EXCEPT ![t] = @ \cup (td[t].pend_sig \ S)]
        /\ UNCHANGED kt
     \/ \E k \in KThread :
          /\ kt[k].cur = t
          /\ td' = [td EXCEPT ![t].blocked = S, ![t].intr_off = FALSE]
          /\ kt' = [kt EXCEPT ![k].pend = @ \cap S]
          /\ got' = [got EXCEPT ![t] = @ \cup (kt[k].pend \ S)]
  /\ UNCHANGED <<mmrll, mmrll_lk, ut, enabled, mpc, freed>>

-----------------------------------------------------------------------------
SigCall(t) == \/ \E u \in Thread, s \in Signal : KillOneOne(t, u, s) \/ KillCall(t, u, s)
              \/ \E S \in SUBSET Signal : ThreadSigmask(t, S)

SigStep(t) == KillLock(t) \/ KillSet(t)
=============================================================================
