------------------------------- MODULE MCOnce -------------------------------
(* Small instances of thread_once and the spinlock for TLC.                *)
EXTENDS Once, TLC
=============================================================================
