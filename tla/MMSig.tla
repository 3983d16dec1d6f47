------------------------------- MODULE MMSig -------------------------------
(***************************************************************************)
(* Signals of many-many threads (many-many/src/thread_sig.c).              *)
(***************************************************************************)
EXTENDS MMDescr

(* thread_kill.  The interrupts it disables and enables are those of the   *)
(* target, not of the caller.                                              *)

KillCall(k, t, u, s) ==
  /\ Calls(k, t, "kill")
  /\ <<t, u>> \in KillPairs
  /\ td[u].mem = "live"
  /\ td' = [td EXCEPT ![u].intr_off = TRUE]
  /\ ut' = [ut EXCEPT ![t] = [pc |-> "kill_lock", arg |-> <<u, s>>]]
  /\ UNCHANGED <<mut, mmrll, mmrll_lk, kt, enabled, mpc, inCS, sent, got>>

KillLock(k, t) ==
  LET u == ut[t].arg[1] IN
  /\ At(k, t, "kill_lock")
  /\ td[u].mem_lock = NULL
  /\ td' = [td EXCEPT ![u].mem_lock = t]
  /\ Goto(t, "kill_set")
  /\ UNCHANGED <<mut, mmrll, mmrll_lk, kt, enabled, mpc, inCS, sent, got>>

\* td_set_sig_pending and td_unlock.
KillSet(k, t) ==
  LET u == ut[t].arg[1]
      s == ut[t].arg[2]
  IN
  /\ At(k, t, "kill_set")
  /\ td' = [td EXCEPT ![u].pend_sig = @ \cup {s}, ![u].mem_lock = NULL]
  /\ sent' = [sent EXCEPT ![u] = @ \cup {s}]
  /\ Goto(t, "kill_intr")
  /\ UNCHANGED <<mut, mmrll, mmrll_lk, kt, enabled, mpc, inCS, got>>

KillIntr(k, t) ==
  /\ At(k, t, "kill_intr")
  /\ td' = [td EXCEPT ![ut[t].arg[1]].intr_off = FALSE]
  /\ Return(t)
  /\ UNCHANGED <<mut, mmrll, mmrll_lk, kt, enabled, mpc, inCS, sent, got>>

-----------------------------------------------------------------------------
(* thread_sigmask: the caller's mask becomes S (SIG_SETMASK; SIG_BLOCK and *)
(* SIG_UNBLOCK reach the same masks); the kernel delivers what S lets      *)
(* through.  SIGALRM stays unblocked and is not in Signal.                 *)

ThreadSigmask(k, t, S) ==
  /\ Calls(k, t, "sigmask")
  /\ td' = [td EXCEPT ![t].blocked = S, ![t].intr_off = FALSE]
  /\ kt' = [kt EXCEPT ![k].pend = @ \cap S]
  /\ got' = [got EXCEPT ![t] = @ \cup (kt[k].pend \ S)]
  /\ UNCHANGED <<mut, mmrll, mmrll_lk, ut, enabled, mpc, inCS, sent>>

-----------------------------------------------------------------------------
SigCall(k, t) == \/ \E u \in Thread, s \in Signal : KillCall(k, t, u, s)
                 \/ \E S \in SUBSET Signal : ThreadSigmask(k, t, S)

SigStep(k, t) == KillLock(k, t) \/ KillSet(k, t) \/ KillIntr(k, t)
=============================================================================
