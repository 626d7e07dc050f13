------------------------------ MODULE MCProcess ------------------------------
(* The instance of Process for TLC. *)
EXTENDS Process

NoSemaphores == [s \in {} |-> 0]
CleanOwner == {NULL}
(* What malloc leaves where Thread::pid is.                                *)
Garbage == {0, -1}
==============================================================================
