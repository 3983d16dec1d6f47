---------------------------- MODULE MCLinkedList ----------------------------
(* Small instances of the linked lists for TLC.                            *)
EXTENDS LinkedList, TLC
=============================================================================
