------------------------------ MODULE SynchList ------------------------------
(***************************************************************************)
(* The synchronized list (threads/synchlist.cc): a List under a Lock, with *)
(* a Condition for those who want an item from an empty one.  Threads call *)
(* Append, Remove and Mapcar in any order; each call of a Lock or Condition*)
(* operation is a step of module Synch.                                    *)
(***************************************************************************)
EXTENDS Synch

CONSTANTS
    lock, listEmpty,    \* the list's lock and condition
    MaxItems            \* bound: items appended in a behaviour

VARIABLES
    list,               \* SynchList::list
    at,                 \* how far each thread is in the operation it called
    appended            \* the number of items appended so far

listVars == <<list, at, appended>>

Goto(step) == at' = [at EXCEPT ![currentThread] = step]

At(step) == InCaller /\ at[currentThread] = step

----------------------------------------------------------------------------
(* Signal, which does nothing when nobody waits.                           *)
SignalAny ==
    IF waitingCV[listEmpty] = <<>> THEN UNCHANGED vars ELSE Signal(listEmpty, lock)

Call(step) ==
    /\ At("idle")
    /\ Acquire(lock)
    /\ Goto(step)
    /\ UNCHANGED <<list, appended>>

(* Mutant of AppendItem: wake a waiter only when the list was empty.       *)
AppendItemFirst ==
    /\ At("append")
    /\ appended' = appended + 1
    /\ list' = Append(list, appended')
    /\ IF list = <<>> THEN SignalAny ELSE UNCHANGED vars
    /\ Goto("unlock")

(* SynchList::Append with the lock held; items are numbered.               *)
AppendItem ==
    /\ At("append")
    /\ appended' = appended + 1
    /\ list' = Append(list, appended')
    /\ SignalAny
    /\ Goto("unlock")

Unlock ==
    /\ At("unlock")
    /\ Release(lock)
    /\ Goto("idle")
    /\ UNCHANGED <<list, appended>>

(* The test of the while loop in SynchList::Remove.                        *)
Available == list # <<>>

(* SynchList::Remove with the lock held: wait, or take the first item,     *)
(* which is asserted not to be NULL.                                       *)
AwaitItem ==
    /\ At("remove")
    /\ ~Available
    /\ Wait(listEmpty, lock)
    /\ UNCHANGED listVars

RemoveItem ==
    /\ At("remove")
    /\ Available
    /\ list' = Rest(list)
    /\ Release(lock)
    /\ Goto("idle")
    /\ UNCHANGED appended

(* new Thread and Fork of one more caller.                                 *)
Spawn(t) ==
    /\ At("idle")
    /\ status[t] = "FREE"
    /\ status' = [status EXCEPT ![t] = "READY"]
    /\ readyList' = Append(readyList, t)
    /\ UNCHANGED <<cpuVars, frame, saved, level, synchVars, listVars>>

ListStep ==
    \/ appended < MaxItems /\ Call("append")
    \/ Call("remove")
    \/ Call("unlock")               \* Mapcar: the list is only looked at
    \/ AppendItem \/ Unlock \/ AwaitItem \/ RemoveItem
    \/ \E t \in Thread : Spawn(t)

ListResume == (AcquireWoken \/ WaitWoken) /\ UNCHANGED listVars

ListSwitch ==
    (TimeSlice \/ Dispatch \/ UserInstruction) /\ UNCHANGED <<synchVars, listVars>>

ListHalt == (IdleHalt \/ Halted) /\ UNCHANGED listVars

Init_SynchList ==
    /\ Init
    /\ list = <<>>
    /\ at = [t \in Thread |-> "idle"]
    /\ appended = 0

Next_SynchList == ListStep \/ ListResume \/ ListSwitch \/ ListHalt

Spec_SynchList == Init_SynchList /\ [][Next_SynchList]_<<vars, listVars>>

----------------------------------------------------------------------------
(* The threads that are past Acquire in Remove, or will be without anybody *)
(* else's help.                                                            *)
OnTheirWay ==
    {t \in Thread : at[t] = "remove" /\ t \notin Range(waitingCV[listEmpty])}

(* While a thread waits in Remove, every item on the list has a thread on  *)
(* its way to take it: Append's one Signal is never lost, whoever gets the *)
(* lock between it and the waiter's return from Wait.  Otherwise mail would*)
(* lie in a box whose reader sleeps.                                       *)
NoStrandedItem ==
    waitingCV[listEmpty] # <<>> => Len(list) <= Cardinality(OnTheirWay)
=============================================================================
