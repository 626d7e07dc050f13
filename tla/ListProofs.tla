----------------------------- MODULE ListProofs -----------------------------
(***************************************************************************)
(* SynchList on the proved locks and conditions: for any number of threads *)
(* and items, no item lies on the list while everybody who wants one       *)
(* sleeps.                                                                 *)
(***************************************************************************)
EXTENDS SynchList, SynchProofs

USE Zenon
USE SchedulerAssumption, SynchAssumption DEF SchedulerAssumption, SynchAssumption

(* SynchList::SynchList makes a lock and a condition.                      *)
ListMade == lock \in Lock /\ listEmpty \in CV

ListTypes ==
    /\ list \in Seq(Nat)
    /\ appended \in Nat
    /\ at \in [Thread -> {"idle", "append", "remove", "unlock"}]

(* Only SynchList::Remove waits.                                           *)
Removers == \A t \in Thread : frame[t].op = "Wait" => at[t] = "remove"

Kept == TypeOK /\ Places

ListInv == ListTypes /\ Removers /\ NoStrandedItem

----------------------------------------------------------------------------
(* Synch's invariants hold under SynchList: its steps are Synch's, but for *)
(* Spawn, which does new Thread and Fork in one.                           *)
LEMMA StepKept ==
    ASSUME ListMade, Kept, [Next_SynchList]_<<vars, listVars>> PROVE Kept'
<1> USE DEF ListMade
<1>1. ASSUME NEW t \in Thread, Spawn(t) PROVE Kept'
  <2>1. /\ status[t] = "FREE"
        /\ status' = [status EXCEPT ![t] = "READY"]
        /\ readyList' = Append(readyList, t)
        /\ UNCHANGED <<currentThread, machineStatus, threadToBeDestroyed, halted, saved, level, frame>>
        /\ UNCHANGED <<value, queue, available, owner, waitingThreads, waitingLock, waitingCV,
                       pending, held>>
    BY <1>1 DEF Spawn, cpuVars, synchVars, semVars, lockVars, cvVars
  <2>2. TypeOK'
    <3>1. readyList' \in Seq(Thread)
      BY <1>1, <2>1, SMT DEF Kept, TypeOK, SchedTypeOK
    <3> QED
      BY <1>1, <2>1, <3>1 DEF Kept, TypeOK, SchedTypeOK, SynchTypeOK, FrameOK, ThreadStatus
  <2>3. Places'
    BY <1>1, <2>1, ReadiedPlaces DEF Kept
  <2> QED BY <2>2, <2>3 DEF Kept
<1>2. CASE ListSwitch
  <2>1. SchedNext /\ UNCHANGED synchVars
    BY <1>2 DEF ListSwitch, SchedNext
  <2>2. SynchTypeOK'
    BY <2>1 DEF Kept, TypeOK, SynchTypeOK, synchVars, semVars, lockVars, cvVars
  <2>3. UNCHANGED <<queue, waitingThreads, waitingCV>>
    BY <2>1 DEF synchVars, semVars, lockVars, cvVars
  <2> QED
    BY <2>1, <2>2, <2>3, SchedType, SchedPlaces DEF Kept
<1>3. ASSUME [Next]_vars PROVE Kept'
  BY <1>3, NextType, NextPlaces DEF Kept
<1>4. CASE \E step : Call(step)
  <2>1. Acquire(lock)
    BY <1>4 DEF Call
  <2> QED BY <1>3, <2>1 DEF Next, LockStep
<1>5. CASE AppendItem
  <2>1. Signal(listEmpty, lock) \/ UNCHANGED vars
    BY <1>5 DEF AppendItem, SignalAny
  <2> QED BY <1>3, <2>1 DEF Next, CVStep
<1>6. CASE Unlock \/ RemoveItem
  <2>1. Release(lock)
    BY <1>6 DEF Unlock, RemoveItem
  <2> QED BY <1>3, <2>1 DEF Next, LockStep
<1>7. CASE AwaitItem
  <2>1. Wait(listEmpty, lock)
    BY <1>7 DEF AwaitItem
  <2> QED BY <1>3, <2>1 DEF Next, CVStep
<1>8. CASE ListResume
  <2>1. AcquireWoken \/ WaitWoken
    BY <1>8 DEF ListResume
  <2> QED BY <1>3, <2>1 DEF Next, LockStep, CVStep
<1>9. CASE ListHalt
  <2>1. IdleHalt \/ Halted
    BY <1>9 DEF ListHalt
  <2> QED BY <1>3, <2>1 DEF Next
<1>10. CASE UNCHANGED <<vars, listVars>>
  BY <1>3, <1>10
<1> QED
  BY <1>1, <1>2, <1>4, <1>5, <1>6, <1>7, <1>8, <1>9, <1>10 DEF Next_SynchList, ListStep

----------------------------------------------------------------------------
LEMMA WayFinite ==
    /\ OnTheirWay \subseteq Thread /\ IsFiniteSet(OnTheirWay) /\ Cardinality(OnTheirWay) \in Nat
    /\ IsFiniteSet(OnTheirWay') /\ Cardinality(OnTheirWay') \in Nat
<1>1. OnTheirWay \subseteq Thread /\ OnTheirWay' \subseteq Thread
  BY DEF OnTheirWay
<1> QED
  BY <1>1, FS_Subset, FS_CardinalityType

(* Nobody is taken off the way and the list does not grow.                 *)
LEMMA WayStays ==
    ASSUME ListTypes, NoStrandedItem, waitingCV' = waitingCV, list' = list,
           \A t \in Thread : at[t] = "remove" => at'[t] = "remove"
    PROVE  NoStrandedItem'
<1>1. OnTheirWay \subseteq OnTheirWay'
  BY DEF OnTheirWay
<1>2. Cardinality(OnTheirWay) <= Cardinality(OnTheirWay')
  BY <1>1, WayFinite, FS_Subset
<1>3. Len(list) \in Nat
  BY SMT DEF ListTypes
<1>4. Len(list) <= Cardinality(OnTheirWay) => Len(list) <= Cardinality(OnTheirWay')
  BY <1>2, <1>3, WayFinite, SMT
<1> QED
  BY <1>4 DEF NoStrandedItem

(* What a step does to the threads: those that are not current keep their  *)
(* place in the operation, and none of them begins to wait.                *)
LEMMA RemoversStay ==
    ASSUME Removers, NEW c \in Thread, frame'[c].op = "Wait" => at'[c] = "remove",
           \A t \in Thread \ {c} : /\ at'[t] = at[t]
                                   /\ frame'[t] = frame[t] \/ frame'[t].op = "run"
    PROVE  Removers'
BY DEF Removers

(* SynchList::Append, whose Signal sends one more thread on its way.       *)
LEMMA AppendKeeps ==
    ASSUME ListMade, Kept, ListInv, AppendItem PROVE ListInv'
<1>1. PICK c \in Thread : c = currentThread
  BY DEF Kept, TypeOK, SchedTypeOK
<1>2. /\ at[c] = "append" /\ frame[c].op = "run"
      /\ at' = [at EXCEPT ![c] = "unlock"]
      /\ appended' = appended + 1 /\ list' = Append(list, appended')
      /\ SignalAny
  BY <1>1 DEF AppendItem, At, InCaller, Goto
<1>3. frame' = frame
  BY <1>2 DEF SignalAny, Signal, vars, schedVars
<1>4. at'[c] = "unlock" /\ \A t \in Thread \ {c} : at'[t] = at[t]
  BY <1>2 DEF ListInv, ListTypes
<1>5. ListTypes'
  <2>1. appended' \in Nat
    BY <1>2, SMT DEF ListInv, ListTypes
  <2>2. list' \in Seq(Nat)
    BY <1>2, <2>1, SMT DEF ListInv, ListTypes
  <2> QED BY <1>2, <2>1, <2>2 DEF ListInv, ListTypes
<1>6. Removers'
  BY <1>2, <1>3, <1>4, RemoversStay DEF ListInv
<1>7. CASE waitingCV[listEmpty] = <<>>
  <2>1. waitingCV' = waitingCV
    BY <1>2, <1>7 DEF SignalAny, vars, synchVars, cvVars
  <2> QED BY <1>5, <1>6, <1>7, <2>1 DEF ListInv, NoStrandedItem
<1>8. CASE waitingCV[listEmpty] # <<>>
  <2> DEFINE q == waitingCV[listEmpty]
             h == Head(q)
  <2>1. waitingCV' = [waitingCV EXCEPT ![listEmpty] = Tail(@)]
    BY <1>2, <1>8 DEF SignalAny, Signal, DoSignal
  <2>2. q \in Seq(Thread) /\ Lists(q, AsleepInWait(listEmpty)) /\ waitingCV'[listEmpty] = Tail(q)
    BY <2>1 DEF ListMade, Kept, TypeOK, SynchTypeOK, Places, OnePlace, CVQueuesOK
  <2>3. h \in AsleepInWait(listEmpty) /\ Lists(Tail(q), AsleepInWait(listEmpty) \ {h})
    BY <1>8, <2>2, ListsTail
  <2>4. h \in Thread /\ at[h] = "remove" /\ at'[h] = "remove" /\ h # c
    BY <1>2, <1>4, <2>3 DEF AsleepInWait, ListInv, Removers
  <2>5. /\ Range(waitingCV[listEmpty]) = AsleepInWait(listEmpty)
        /\ Range(waitingCV'[listEmpty]) = AsleepInWait(listEmpty) \ {h}
    BY <2>2, <2>3 DEF Lists
  <2> HIDE DEF q, h
  <2>6. h \notin OnTheirWay /\ OnTheirWay' = OnTheirWay \cup {h}
    <3>1. h \notin OnTheirWay
      BY <2>3, <2>5 DEF OnTheirWay
    <3>2. \A t \in Thread : t \in OnTheirWay' <=> t \in OnTheirWay \/ t = h
      BY <1>2, <1>4, <2>3, <2>4, <2>5 DEF OnTheirWay
    <3>3. OnTheirWay' \subseteq Thread /\ OnTheirWay \subseteq Thread
      BY DEF OnTheirWay
    <3> QED BY <2>4, <3>1, <3>2, <3>3
  <2>7. Cardinality(OnTheirWay') = Cardinality(OnTheirWay) + 1
    BY <2>6, WayFinite, FS_AddElement
  <2>8. Len(list) \in Nat /\ Len(list') = Len(list) + 1
    BY <1>2, SMT DEF ListInv, ListTypes
  <2>9. Len(list) <= Cardinality(OnTheirWay)
    BY <1>8 DEF ListInv, NoStrandedItem
  <2>10. Len(list') <= Cardinality(OnTheirWay')
    BY <2>7, <2>8, <2>9, WayFinite, SMT
  <2> QED BY <1>5, <1>6, <2>10 DEF ListInv, NoStrandedItem
<1> QED BY <1>7, <1>8

(* SynchList::Remove takes an item: one thread less is on its way.         *)
LEMMA RemoveKeeps ==
    ASSUME ListMade, Kept, ListInv, RemoveItem PROVE ListInv'
<1>1. PICK c \in Thread : c = currentThread
  BY DEF Kept, TypeOK, SchedTypeOK
<1>2. /\ at[c] = "remove" /\ frame[c].op = "run" /\ status[c] = "RUNNING"
      /\ at' = [at EXCEPT ![c] = "idle"]
      /\ list # <<>> /\ list' = Tail(list)
      /\ UNCHANGED <<appended, frame, waitingCV>>
  BY <1>1 DEF RemoveItem, At, InCaller, CpuBusy, Goto, Available, Rest, Release, cvVars
<1>3. at'[c] = "idle" /\ \A t \in Thread \ {c} : at'[t] = at[t]
  BY <1>2 DEF ListInv, ListTypes
<1>4. Len(list) \in Nat /\ Len(list') = Len(list) - 1 /\ list' \in Seq(Nat)
  BY <1>2, SMT DEF ListInv, ListTypes
<1>5. ListTypes' /\ Removers'
  <2>1. ListTypes'
    BY <1>2, <1>4 DEF ListInv, ListTypes
  <2>2. Removers'
    BY <1>2, <1>3, RemoversStay DEF ListInv
  <2> QED BY <2>1, <2>2
<1>6. c \in OnTheirWay
  <2>1. Range(waitingCV[listEmpty]) = AsleepInWait(listEmpty)
    BY DEF ListMade, Kept, Places, OnePlace, CVQueuesOK, Lists
  <2> QED BY <1>2, <2>1 DEF OnTheirWay, AsleepInWait
<1>7. OnTheirWay' = OnTheirWay \ {c}
  <2>1. \A t \in Thread : t \in OnTheirWay' <=> t \in OnTheirWay /\ t # c
    BY <1>2, <1>3 DEF OnTheirWay
  <2>2. OnTheirWay' \subseteq Thread /\ OnTheirWay \subseteq Thread
    BY DEF OnTheirWay
  <2> QED BY <2>1, <2>2
<1>8. Cardinality(OnTheirWay') = Cardinality(OnTheirWay) - 1
  BY <1>6, <1>7, WayFinite, FS_RemoveElement
<1>9. Len(list) <= Cardinality(OnTheirWay) => Len(list') <= Cardinality(OnTheirWay')
  BY <1>4, <1>8, WayFinite, SMT
<1>10. NoStrandedItem'
  BY <1>2, <1>9 DEF ListInv, NoStrandedItem
<1> QED BY <1>5, <1>10 DEF ListInv

(* SynchList::Remove waits only when there is no item.                     *)
LEMMA AwaitKeeps ==
    ASSUME ListMade, Kept, ListInv, AwaitItem PROVE ListInv'
<1>1. PICK c \in Thread : c = currentThread
  BY DEF Kept, TypeOK, SchedTypeOK
<1>2. /\ at[c] = "remove" /\ list = <<>> /\ UNCHANGED <<list, at, appended>>
      /\ frame' = [frame EXCEPT ![c] = Frame("Wait", lock, listEmpty)]
  BY <1>1 DEF AwaitItem, At, Available, listVars, Wait, SleepIn
<1>3. \A t \in Thread \ {c} : frame'[t] = frame[t]
  BY <1>2 DEF Kept, TypeOK, SchedTypeOK
<1>4. Removers'
  BY <1>2, <1>3, RemoversStay DEF ListInv
<1>5. NoStrandedItem'
  <2>1. Len(list') = 0
    BY <1>2, SMT
  <2>2. Len(list') <= Cardinality(OnTheirWay')
    BY <2>1, WayFinite, SMT
  <2> QED BY <2>2 DEF NoStrandedItem
<1>6. ListTypes'
  BY <1>2 DEF ListInv, ListTypes
<1> QED BY <1>4, <1>5, <1>6 DEF ListInv

(* A call that begins, or ends without taking an item.                     *)
LEMMA CallKeeps ==
    ASSUME ListMade, Kept, ListInv,
           Unlock \/ \E step \in {"append", "remove", "unlock"} : Call(step)
    PROVE  ListInv'
<1>1. PICK c \in Thread : c = currentThread
  BY DEF Kept, TypeOK, SchedTypeOK
<1>2. PICK step \in {"idle", "append", "remove", "unlock"} : at' = [at EXCEPT ![c] = step]
  BY <1>1 DEF Unlock, Call, Goto
<1>3. /\ at[c] \in {"idle", "unlock"} /\ frame[c].op = "run"
      /\ UNCHANGED <<list, appended, waitingCV>>
  BY <1>1 DEF Unlock, Call, At, InCaller, Acquire, Release, cvVars
<1>4. at'[c] = step /\ \A t \in Thread \ {c} : at'[t] = at[t]
  BY <1>2 DEF ListInv, ListTypes
<1>5. frame'[c].op # "Wait" /\ \A t \in Thread \ {c} : frame'[t] = frame[t]
  <2>1. frame' = frame \/ frame' = [frame EXCEPT ![c] = Frame("Acquire", lock, NULL)]
    BY <1>1 DEF Unlock, Call, Acquire, Release, SleepIn
  <2>2. Frame("Acquire", lock, NULL).op # "Wait"
    BY DEF Frame
  <2> QED BY <1>3, <2>1, <2>2 DEF Kept, TypeOK, SchedTypeOK
<1>6. ListTypes' /\ Removers'
  <2>1. ListTypes'
    BY <1>2, <1>3 DEF ListInv, ListTypes
  <2>2. Removers'
    BY <1>4, <1>5, RemoversStay DEF ListInv
  <2> QED BY <2>1, <2>2
<1>7. NoStrandedItem'
  BY <1>3, <1>4, WayStays DEF ListInv
<1> QED BY <1>6, <1>7 DEF ListInv

(* Every other step leaves the operations and the condition alone.         *)
LEMMA OtherKeeps ==
    ASSUME Kept, ListInv,
           ListResume \/ ListSwitch \/ ListHalt \/ (\E t \in Thread : Spawn(t))
           \/ UNCHANGED <<vars, listVars>>
    PROVE  ListInv'
<1>1. UNCHANGED <<list, at, appended, waitingCV>>
  <2>1. CASE ListResume
    BY <2>1 DEF ListResume, listVars, AcquireWoken, WaitWoken, cvVars
  <2>2. CASE ListSwitch \/ \E t \in Thread : Spawn(t)
    BY <2>2 DEF ListSwitch, Spawn, listVars, synchVars, cvVars
  <2>3. CASE ListHalt \/ UNCHANGED <<vars, listVars>>
    BY <2>3 DEF ListHalt, IdleHalt, Halted, vars, listVars, synchVars, cvVars
  <2> QED BY <2>1, <2>2, <2>3
<1>2. frame \in [Thread -> FrameType] /\ currentThread \in Thread
  BY DEF Kept, TypeOK, SchedTypeOK
<1>3. \A t \in Thread : frame'[t] = frame[t] \/ frame'[t].op # "Wait"
  <2>1. CASE ListResume
    <3>1. PICK f : f.op # "Wait" /\ frame' = [frame EXCEPT ![currentThread] = f]
      <4>1. /\ Plain("run").op # "Wait"
            /\ \A l : Frame("Acquire", l, NULL).op # "Wait"
        BY DEF Plain, Frame
      <4> QED BY <2>1, <4>1 DEF ListResume, AcquireWoken, WaitWoken, ReturnToCaller
    <3> QED BY <1>2, <3>1
  <2>2. CASE ListSwitch
    <3>1. ASSUME NEW next, NEW st, Run(next, st)
          PROVE  \A t \in Thread : frame'[t] = frame[t] \/ frame'[t].op # "Wait"
      BY <1>2, <3>1, PlainFrame DEF Run
    <3> QED
      BY <2>2, <3>1 DEF ListSwitch, TimeSlice, SwitchAway, Dispatch, UserInstruction
  <2>3. CASE \E t \in Thread : Spawn(t)
    BY <2>3 DEF Spawn
  <2>4. CASE ListHalt \/ UNCHANGED <<vars, listVars>>
    BY <2>4 DEF ListHalt, IdleHalt, Halted, vars, schedVars
  <2> QED BY <2>1, <2>2, <2>3, <2>4
<1>4. Removers'
  BY <1>1, <1>3 DEF ListInv, Removers
<1>5. ListTypes' /\ NoStrandedItem'
  BY <1>1, WayStays DEF ListInv, ListTypes
<1> QED BY <1>4, <1>5 DEF ListInv

(* Append, Remove and Mapcar in any order and by any threads: while a      *)
(* thread sleeps in Remove, every item on the list has a thread on its way *)
(* to take it, although Append signals once and anybody may get the lock   *)
(* before the thread it woke.                                              *)
THEOREM NoItemIsStranded ==
    ASSUME ListMade PROVE Spec_SynchList => []NoStrandedItem
<1>1. Init_SynchList => Kept /\ ListInv
  <2> SUFFICES ASSUME Init_SynchList PROVE Kept /\ ListInv
    OBVIOUS
  <2>1. Kept
    BY InitType, InitPlaces DEF Init_SynchList, Kept
  <2>2. \A t \in Thread : frame[t].op # "Wait"
    BY DEF Init_SynchList, Init, SchedInit, Plain, Frame
  <2>3. waitingCV[listEmpty] = <<>>
    BY DEF Init_SynchList, Init, ListMade
  <2>4. ListTypes
    <3>1. list \in Seq(Nat) /\ appended \in Nat
      BY SMT DEF Init_SynchList
    <3> QED BY <3>1 DEF Init_SynchList, ListTypes
  <2> QED
    BY <2>1, <2>2, <2>3, <2>4 DEF ListInv, Removers, NoStrandedItem
<1>2. Kept /\ ListInv /\ [Next_SynchList]_<<vars, listVars>> => (Kept /\ ListInv)'
  BY StepKept, AppendKeeps, RemoveKeeps, AwaitKeeps, CallKeeps, OtherKeeps
  DEF Next_SynchList, ListStep
<1> QED
  BY <1>1, <1>2, PTL DEF Spec_SynchList, ListInv
=============================================================================
