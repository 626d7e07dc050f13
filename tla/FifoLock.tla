------------------------------ MODULE FifoLock ------------------------------
(***************************************************************************)
(* What class Lock promises (threads/synch.h), with the order of service   *)
(* synch.cc adds: a lock is FREE or BUSY; Acquire waits until it is FREE   *)
(* and makes it BUSY; only the thread that acquired it releases it, and it *)
(* then goes to the thread that has waited longest.                        *)
(***************************************************************************)
EXTENDS Sequences, Functions

CONSTANTS Thread, Lock, NULL

VARIABLES
    caller,     \* the thread that owns the CPU
    holder,     \* per lock, the thread that made it BUSY, or NULL: it is FREE
    line        \* per lock, the threads waiting in Acquire, longest first

lockState == <<caller, holder, line>>

Init ==
    /\ caller \in Thread
    /\ holder = [l \in Lock |-> NULL]
    /\ line = [l \in Lock |-> <<>>]

(* Acquire finds the lock FREE.                                            *)
Grab(l) ==
    /\ holder[l] = NULL
    /\ holder' = [holder EXCEPT ![l] = caller]
    /\ UNCHANGED <<caller, line>>

(* Acquire finds it BUSY in another thread's hands.                        *)
Queue(l) ==
    /\ holder[l] \notin {NULL, caller}
    /\ caller \notin Range(line[l])
    /\ line' = [line EXCEPT ![l] = Append(@, caller)]
    /\ UNCHANGED <<caller, holder>>

(* Release, by the thread that acquired the lock.                          *)
Pass(l) ==
    /\ holder[l] = caller
    /\ IF line[l] = <<>>
       THEN /\ holder' = [holder EXCEPT ![l] = NULL]
            /\ UNCHANGED line
       ELSE /\ holder' = [holder EXCEPT ![l] = Head(line[l])]
            /\ line' = [line EXCEPT ![l] = Tail(@)]
    /\ UNCHANGED caller

(* A context switch.                                                       *)
Switch ==
    /\ caller' \in Thread
    /\ UNCHANGED <<holder, line>>

Next == Switch \/ \E l \in Lock : Grab(l) \/ Queue(l) \/ Pass(l)

Spec == Init /\ [][Next]_lockState
==============================================================================
