----------------------------- MODULE MCSyscalls ------------------------------
(* Instances of Syscalls for TLC. *)
EXTENDS Syscalls, TLC

NoSemaphores == [s \in {} |-> 0]
CleanOwner == {NULL}
AllLocks == {LockTableLock, CVTableLock} \cup 0 .. MaxLocks - 1
AllCVs == 0 .. MaxCVs - 1
OtherThreads == Permutations(Thread \ {Main})
LockCalls == {"Acquire", "Release", "CreateLock", "DestroyLock"}
CVCalls == {"Wait", "Signal", "Broadcast", "CreateCV", "DestroyCV"}
AllCalls == LockCalls \cup CVCalls
LockNumbers == -1 .. MaxLocks
CVNumbers == -1 .. MaxCVs

(* A program that creates one lock, acquires and releases it.              *)
SimpleCalls == {"CreateLock", "Acquire", "Release"}

OnlyZero == {0}
==============================================================================
