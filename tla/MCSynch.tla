------------------------------- MODULE MCSynch -------------------------------
(* Instances of Synch for TLC. *)
EXTENDS Synch, TLC

ZeroValue == [s \in Sem |-> 0]

(* What malloc leaves in Lock::owner: nothing, on a fresh page.            *)
CleanOwner == {NULL}

(* Main is named in Init, the other threads are interchangeable.           *)
OtherThreads == Permutations(Thread \ {Main})
==============================================================================
