---------------------------- MODULE SynchProofs ----------------------------
(***************************************************************************)
(* Proofs about module Synch, for any number of threads, semaphores, locks *)
(* and condition variables: types; that every thread is in one place; that *)
(* locks exclude and implement FifoLock; that a condition and its waiters  *)
(* agree on the lock; that no wake-up of a semaphore is lost.              *)
(***************************************************************************)
EXTENDS Synch, FiniteSetTheorems, TLAPS

USE Zenon
USE SchedulerAssumption, SynchAssumption DEF SchedulerAssumption, SynchAssumption

----------------------------------------------------------------------------
(* Lists as duplicate-free enumerations: List::Append and List::Remove.    *)
LEMMA ListsEmpty == ASSUME NEW S PROVE Lists(<<>>, S) <=> S = {}
BY SMT DEF Lists, IsInjective, Range

LEMMA ListsAppend ==
    ASSUME NEW q \in Seq(Thread), NEW S, NEW t \in Thread, t \notin S, Lists(q, S)
    PROVE  Lists(Append(q, t), S \cup {t})
<1> DEFINE r == Append(q, t)
<1>1. /\ DOMAIN r = 1 .. Len(q) + 1
      /\ \A i \in 1 .. Len(q) : r[i] = q[i]
      /\ r[Len(q) + 1] = t
  BY SMT
<1>2. DOMAIN q = 1 .. Len(q) /\ Len(q) \in Nat
  BY SMT
<1>3. /\ \A i \in 1 .. Len(q) : q[i] \in S
      /\ \A x \in S : \E i \in 1 .. Len(q) : q[i] = x
      /\ \A i, j \in 1 .. Len(q) : q[i] = q[j] => i = j
  BY <1>2 DEF Lists, IsInjective, Range
<1> HIDE DEF r
<1>4. IsInjective(r)
  BY <1>1, <1>2, <1>3, SMT DEF IsInjective
<1>5. Range(r) = S \cup {t}
  BY <1>1, <1>2, <1>3, SMT DEF Range
<1> QED
  BY <1>4, <1>5 DEF Lists, r

LEMMA ListsTail ==
    ASSUME NEW q \in Seq(Thread), NEW S, q # <<>>, Lists(q, S)
    PROVE  Head(q) \in S /\ Lists(Tail(q), S \ {Head(q)})
<1> DEFINE r == Tail(q)
           h == Head(q)
<1>1. /\ Len(q) \in Nat /\ Len(q) >= 1
      /\ DOMAIN q = 1 .. Len(q)
      /\ DOMAIN r = 1 .. Len(q) - 1
      /\ \A i \in 1 .. Len(q) - 1 : r[i] = q[i + 1]
      /\ h = q[1]
  BY SMT
<1>2. /\ \A i \in 1 .. Len(q) : q[i] \in S
      /\ \A x \in S : \E i \in 1 .. Len(q) : q[i] = x
      /\ \A i, j \in 1 .. Len(q) : q[i] = q[j] => i = j
  BY <1>1, SMT DEF Lists, IsInjective, Range
<1> HIDE DEF r, h
<1>3. h \in S
  BY <1>1, <1>2, SMT
<1>4. IsInjective(r)
  BY <1>1, <1>2, SMT DEF IsInjective
<1>5. Range(r) = S \ {h}
  <2>1. ASSUME NEW x \in Range(r) PROVE x \in S \ {h}
    BY <1>1, <1>2, <2>1, SMT DEF Range
  <2>2. ASSUME NEW x \in S \ {h} PROVE x \in Range(r)
    <3>1. PICK i \in 1 .. Len(q) : q[i] = x
      BY <1>2
    <3>2. i # 1 /\ i - 1 \in 1 .. Len(q) - 1 /\ (i - 1) + 1 = i
      BY <1>1, <3>1, SMT
    <3>3. r[i - 1] = x
      BY <1>1, <3>1, <3>2
    <3> QED
      BY <1>1, <3>2, <3>3 DEF Range
  <2> QED
    BY <2>1, <2>2
<1> QED
  BY <1>3, <1>4, <1>5 DEF Lists, r, h

(* List::Remove on a list that may be empty.                               *)
LEMMA ListsRest ==
    ASSUME NEW q \in Seq(Thread), NEW S, Lists(q, S)
    PROVE  Lists(Rest(q), S \ {First(q)})
<1>1. CASE q = <<>>
  BY <1>1, ListsEmpty DEF Rest, First
<1>2. CASE q # <<>>
  BY <1>2, ListsTail DEF Rest, First
<1> QED BY <1>1, <1>2

LEMMA EmptyList == ASSUME NEW q \in Seq(Thread) PROVE q = <<>> <=> Len(q) = 0
BY SMT

----------------------------------------------------------------------------
(* Waking the first thread of a list of threads keeps the types, and so    *)
(* does switching to a thread.                                             *)
LEMMA WakeType ==
    ASSUME NEW q \in Seq(Thread), NEW st \in [Thread -> ThreadStatus \cup {"FREE"}],
           readyList \in Seq(Thread)
    PROVE  /\ Woken(q, st) \in [Thread -> ThreadStatus \cup {"FREE"}]
           /\ ReadyWith(q) \in Seq(Thread)
           /\ Rest(q) \in Seq(Thread)
           /\ First(q) \in Thread \cup {NULL}
BY SMT DEF Woken, ReadyWith, Rest, First, ThreadStatus

(* A semaphore's value and its outstanding requests stay natural numbers.  *)
LEMMA OneMore ==
    ASSUME NEW f \in [Sem -> Nat], NEW s \in Sem
    PROVE  [f EXCEPT ![s] = @ + 1] \in [Sem -> Nat]
BY SMT

LEMMA OneLess ==
    ASSUME NEW f \in [Sem -> Nat], NEW s \in Sem, f[s] > 0
    PROVE  [f EXCEPT ![s] = @ - 1] \in [Sem -> Nat]
BY SMT

(* Queueing a thread in one of several lists keeps their types.            *)
LEMMA AppendType ==
    ASSUME NEW S, NEW f \in [S -> Seq(Thread)], NEW x \in S, NEW t \in Thread
    PROVE  [f EXCEPT ![x] = Append(@, t)] \in [S -> Seq(Thread)]
<1>1. Append(f[x], t) \in Seq(Thread)
  BY SMT
<1> QED BY <1>1

LEMMA RunType ==
    ASSUME TypeOK, NEW next \in Thread,
           NEW st \in [Thread -> ThreadStatus \cup {"FREE"}], Run(next, st)
    PROVE  /\ currentThread' \in Thread
           /\ status' \in [Thread -> ThreadStatus \cup {"FREE"}]
           /\ frame' \in [Thread -> FrameType]
           /\ level' \in Level
           /\ machineStatus' \in {"SystemMode", "IdleMode"}
           /\ threadToBeDestroyed' \in Thread \cup {NULL}
           /\ halted' \in BOOLEAN
           /\ \A t \in Thread : frame'[t] = frame[t] \/ frame'[t].op = "run"
BY DEF Run, TypeOK, SchedTypeOK, ThreadStatus, Level, FrameType, Ops, Plain, Frame

LEMMA InitType == Init => TypeOK
<1> SUFFICES ASSUME Init PROVE TypeOK
  OBVIOUS
<1> USE DEF Init, SchedInit, ThreadStatus, Level, FrameType, Ops, Plain, Frame
<1>1. readyList \in Seq(Thread) /\ queue \in [Sem -> Seq(Thread)]
  BY SMT
<1>2. waitingThreads \in [Lock -> Seq(Thread)] /\ waitingCV \in [CV -> Seq(Thread)]
  BY SMT
<1>3. frame \in [Thread -> FrameType] /\ \A t \in Thread : frame[t].op \in {"run", "ThreadRoot"}
  OBVIOUS
<1>4. /\ currentThread \in Thread
      /\ status \in [Thread -> ThreadStatus \cup {"FREE"}]
      /\ saved \in [Thread -> Level]
      /\ level \in Level
      /\ machineStatus \in {"SystemMode", "IdleMode"}
      /\ threadToBeDestroyed \in Thread \cup {NULL}
      /\ halted \in BOOLEAN
  OBVIOUS
<1>5. /\ value \in [Sem -> Nat]
      /\ available \in [Lock -> BOOLEAN]
      /\ owner \in [Lock -> Thread \cup StaleOwner \cup {NULL}]
      /\ waitingLock \in [CV -> Lock \cup {NULL}]
      /\ pending \in [Sem -> Nat]
      /\ held \in [Thread -> SUBSET Lock]
  OBVIOUS
<1> QED
  BY <1>1, <1>2, <1>3, <1>4, <1>5 DEF TypeOK, SchedTypeOK, FrameOK, SynchTypeOK

(* The frames the actions build, so that records need not be expanded.     *)
LEMMA PlainFrame ==
    ASSUME NEW op \in {"run", "ThreadRoot", "Finish"}
    PROVE  Plain(op) \in FrameType /\ Plain(op).op = op
BY DEF Plain, Frame, FrameType, Ops

LEMMA RoutineFrame ==
    ASSUME NEW op \in {"P", "Acquire", "Wait", "Broadcast"},
           NEW obj \in Sem \cup Lock, NEW cv \in CV \cup {NULL}
    PROVE  /\ Frame(op, obj, cv) \in FrameType
           /\ Frame(op, obj, cv).op = op
           /\ Frame(op, obj, cv).obj = obj
           /\ Frame(op, obj, cv).cv = cv
BY DEF Frame, FrameType, Ops

(* FrameOK survives when one thread's frame is replaced by a proper one.   *)
ProperFrame(f) ==
    /\ f \in FrameType
    /\ f.op = "P" => f.obj \in Sem
    /\ f.op \in {"Acquire", "Wait", "Broadcast"} => f.obj \in Lock
    /\ f.op \in {"Wait", "Broadcast"} => f.cv \in CV

LEMMA ProperFrames ==
    /\ \A op \in {"run", "ThreadRoot", "Finish"} : ProperFrame(Plain(op))
    /\ \A s \in Sem : ProperFrame(Frame("P", s, NULL))
    /\ \A l \in Lock : ProperFrame(Frame("Acquire", l, NULL))
    /\ \A l \in Lock, c \in CV : /\ ProperFrame(Frame("Wait", l, c))
                                 /\ ProperFrame(Frame("Broadcast", l, c))
BY DEF ProperFrame, Plain, Frame, FrameType, Ops

LEMMA SetFrame ==
    ASSUME frame \in [Thread -> FrameType], FrameOK, NEW t \in Thread, NEW f, ProperFrame(f),
           frame' = [frame EXCEPT ![t] = f]
    PROVE  frame' \in [Thread -> FrameType] /\ FrameOK'
BY DEF ProperFrame, FrameOK

(* P and Acquire change the scheduler's state only through the caller's own*)
(* sleep, or by restoring the level it came with.                          *)
OwnStep ==
    /\ status' \in {status, Sleeping}
    /\ saved' \in {saved, [saved EXCEPT ![currentThread] = level]}
    /\ level' \in {level, "IntOff", saved[currentThread]}
    /\ UNCHANGED <<cpuVars, readyList>>

LEMMA OwnSteps ==
    ASSUME \/ \E s \in Sem : P(s)
           \/ \E l \in Lock : Acquire(l)
           \/ PWoken \/ AcquireWoken \/ WaitWoken
    PROVE  OwnStep
<1>1. ASSUME NEW s \in Sem, P(s) PROVE OwnStep
  <2>1. CASE value[s] = 0 BY <1>1, <2>1 DEF OwnStep, P, SleepIn
  <2>2. CASE value[s] # 0 BY <1>1, <2>2 DEF OwnStep, P
  <2> QED BY <2>1, <2>2
<1>2. ASSUME NEW l \in Lock, Acquire(l) PROVE OwnStep
  <2>1. CASE CanTake(l) BY <1>2, <2>1 DEF OwnStep, Acquire
  <2>2. CASE ~CanTake(l) BY <1>2, <2>2 DEF OwnStep, Acquire, SleepIn
  <2> QED BY <2>1, <2>2
<1>3. CASE PWoken
  <2>1. CASE value[frame[currentThread].obj] = 0 BY <1>3, <2>1 DEF OwnStep, PWoken
  <2>2. CASE value[frame[currentThread].obj] # 0 BY <1>3, <2>2 DEF OwnStep, PWoken, ReturnToCaller
  <2> QED BY <2>1, <2>2
<1>4. CASE AcquireWoken
  BY <1>4 DEF OwnStep, AcquireWoken, ReturnToCaller
<1>5. CASE WaitWoken
  <2>1. CASE CanTake(frame[currentThread].obj) BY <1>5, <2>1 DEF OwnStep, WaitWoken, ReturnToCaller
  <2>2. CASE ~CanTake(frame[currentThread].obj) BY <1>5, <2>2 DEF OwnStep, WaitWoken
  <2> QED BY <2>1, <2>2
<1> QED
  BY <1>1, <1>2, <1>3, <1>4, <1>5

(* One step per action; the actions that only differ in their callers share*)
(* one.                                                                    *)
(* The scheduler's own steps.                                              *)
LEMMA SchedType == ASSUME TypeOK, SynchTypeOK', SchedNext PROVE TypeOK'
<1> DEFINE FramesOK == frame \in [Thread -> FrameType] /\ FrameOK
           Statuses == ThreadStatus \cup {"FREE"}
<1> USE DEF TypeOK, SchedTypeOK, SynchTypeOK
<1>b. FramesOK /\ (frame' = frame => FramesOK')
  BY DEF FrameOK
<1>1. ASSUME NEW t \in Thread, NewThread(t) \/ Fork(t) PROVE TypeOK'
  <2>1. FramesOK'
    BY <1>1, <1>b, SetFrame, ProperFrames DEF NewThread, Fork
  <2>2. status' \in [Thread -> Statuses] /\ readyList' \in Seq(Thread)
    <3>1. CASE NewThread(t) BY <3>1 DEF NewThread, ThreadStatus
    <3>2. CASE Fork(t) BY <3>2, SMT DEF Fork, ThreadStatus
    <3> QED BY <1>1, <3>1, <3>2
  <2> QED
    BY <1>1, <2>1, <2>2 DEF NewThread, Fork
<1>2. ASSUME SwitchAway PROVE TypeOK'
  <2>1. /\ Head(readyList) \in Thread
        /\ [status EXCEPT ![currentThread] = "READY"] \in [Thread -> Statuses]
        /\ Run(Head(readyList), [status EXCEPT ![currentThread] = "READY"])
    BY <1>2, SMT DEF SwitchAway, ThreadStatus
  <2>2. readyList' \in Seq(Thread) /\ saved' \in [Thread -> Level]
    BY <1>2, SMT DEF SwitchAway
  <2> QED
    BY <1>2, <2>1, <2>2, RunType DEF FrameOK
<1>3. ASSUME Finish PROVE TypeOK'
  <2>1. FramesOK'
    BY <1>3, <1>b, SetFrame, ProperFrames DEF Finish, SleepIn
  <2> QED
    BY <1>3, <2>1 DEF Finish, SleepIn, ThreadStatus, Level
<1>4. ASSUME Dispatch PROVE TypeOK'
  <2>1. Head(readyList) \in Thread /\ readyList' \in Seq(Thread)
    BY <1>4, SMT DEF Dispatch
  <2> QED
    BY <1>4, <2>1, RunType DEF Dispatch, FrameOK
<1>5. ASSUME UserInstruction PROVE TypeOK'
  BY <1>5, <1>b DEF UserInstruction, Level
<1> HIDE DEF TypeOK
<1> QED
  BY <1>1, <1>2, <1>3, <1>4, <1>5 DEF SchedNext, Yield, TimeSlice

LEMMA NextType == TypeOK /\ [Next]_vars => TypeOK'
<1> SUFFICES ASSUME TypeOK, [Next]_vars PROVE TypeOK'
  OBVIOUS
<1> DEFINE FramesOK == frame \in [Thread -> FrameType] /\ FrameOK
           Statuses == ThreadStatus \cup {"FREE"}
<1> USE DEF TypeOK, SchedTypeOK, SynchTypeOK
<1>a. Sleeping \in [Thread -> Statuses]
  BY DEF Sleeping, ThreadStatus
<1>b. FramesOK /\ (frame' = frame => FramesOK')
  BY DEF FrameOK
<1>c. ASSUME FramesOK', SynchTypeOK', OwnStep PROVE TypeOK'
  <2>1. status' \in [Thread -> Statuses]
    BY <1>a, <1>c DEF OwnStep
  <2>2. saved' \in [Thread -> Level] /\ level' \in Level
    <3>1. saved' = saved \/ saved' = [saved EXCEPT ![currentThread] = level]
      BY <1>c DEF OwnStep
    <3>2. level' \in {level, "IntOff", saved[currentThread]}
      BY <1>c DEF OwnStep
    <3>3. /\ level \in Level /\ saved[currentThread] \in Level /\ "IntOff" \in Level
          /\ saved \in [Thread -> Level]
      BY DEF Level
    <3>4. saved' \in [Thread -> Level]
      BY <3>1, <3>3
    <3>5. level' \in Level
      BY <3>2, <3>3
    <3> QED BY <3>4, <3>5
  <2>3. UNCHANGED <<currentThread, readyList, machineStatus, threadToBeDestroyed, halted>>
    BY <1>c DEF OwnStep, cpuVars
  <2> QED
    BY <1>c, <2>1, <2>2, <2>3
<1>0. CASE SchedStep
  <2>1. SynchTypeOK' /\ SchedNext
    BY <1>0 DEF SchedStep, semVars, lockVars, cvVars
  <2> QED BY <2>1, SchedType
<1>1. ASSUME NEW s \in Sem, P(s) PROVE TypeOK'
  <2>1. FramesOK'
    BY <1>1, <1>b, SetFrame, ProperFrames DEF P, SleepIn
  <2>2. SynchTypeOK'
    <3>0. UNCHANGED <<lockVars, cvVars, pending, held>>
      BY <1>1 DEF P
    <3>1. CASE value[s] = 0
      <4>1. queue' = [queue EXCEPT ![s] = Append(@, currentThread)] /\ value' = value
        BY <1>1, <3>1 DEF P
      <4>2. queue' \in [Sem -> Seq(Thread)]
        BY <1>1, <4>1, AppendType
      <4> QED
        BY <3>0, <4>1, <4>2 DEF lockVars, cvVars
    <3>2. CASE value[s] # 0
      <4>1. value' = [value EXCEPT ![s] = @ - 1] /\ queue' = queue
        BY <1>1, <3>2 DEF P
      <4>2. value' \in [Sem -> Nat]
        BY <1>1, <3>2, <4>1, SMT
      <4> QED
        BY <3>0, <4>1, <4>2 DEF lockVars, cvVars
    <3> QED BY <3>1, <3>2
  <2> QED
    BY <1>1, <1>c, <2>1, <2>2, OwnSteps
<1>2. CASE PWoken
  <2>1. frame[currentThread].obj \in Sem
    BY <1>2 DEF PWoken, FrameOK
  <2>2. FramesOK'
    BY <1>2, <1>b, SetFrame, ProperFrames, ZenonT(30) DEF PWoken, ReturnToCaller
  <2>3. SynchTypeOK'
    <3>0. UNCHANGED <<lockVars, cvVars, pending, held>>
      BY <1>2, <2>1 DEF PWoken
    <3>1. CASE value[frame[currentThread].obj] = 0
      <4>1. queue' = [queue EXCEPT ![frame[currentThread].obj] = Append(@, currentThread)] /\ value' = value
        BY <1>2, <2>1, <3>1 DEF PWoken
      <4>2. queue' \in [Sem -> Seq(Thread)]
        BY <1>2, <2>1, <4>1, AppendType, SMT
      <4> QED
        BY <3>0, <4>1, <4>2 DEF lockVars, cvVars
    <3>2. CASE value[frame[currentThread].obj] # 0
      <4>1. value' = [value EXCEPT ![frame[currentThread].obj] = @ - 1] /\ queue' = queue
        BY <1>2, <2>1, <3>2 DEF PWoken
      <4>2. value' \in [Sem -> Nat]
        BY <1>2, <2>1, <3>2, <4>1, SMT
      <4> QED
        BY <3>0, <4>1, <4>2 DEF lockVars, cvVars
    <3> QED BY <3>1, <3>2
  <2> QED
    BY <1>2, <1>c, <2>2, <2>3, OwnSteps
<1>3. ASSUME NEW s \in Sem, V(s) \/ DeviceInterrupt(s) PROVE TypeOK'
  <2>1. DoV(s) /\ frame' = frame
    BY <1>3 DEF V, DeviceInterrupt
  <2>2. /\ status' \in [Thread -> Statuses]
        /\ readyList' \in Seq(Thread)
        /\ queue' \in [Sem -> Seq(Thread)]
        /\ value' \in [Sem -> Nat]
    <3>0. /\ value[s] + 1 \in Nat /\ queue[s] \in Seq(Thread)
          /\ status \in [Thread -> Statuses] /\ readyList \in Seq(Thread)
      BY SMT
    <3>1. /\ Woken(queue[s], status) \in [Thread -> Statuses]
          /\ ReadyWith(queue[s]) \in Seq(Thread) /\ Rest(queue[s]) \in Seq(Thread)
      BY <3>0, WakeType
    <3> QED BY <2>1, <3>0, <3>1 DEF DoV
  <2>3. SynchTypeOK'
    <3>1. pending' = pending \/ (pending[s] > 0 /\ pending' = [pending EXCEPT ![s] = @ - 1])
      BY <1>3 DEF V, DeviceInterrupt
    <3>2. pending' \in [Sem -> Nat]
      <4>1. pending \in [Sem -> Nat]
        OBVIOUS
      <4> HIDE DEF TypeOK
      <4> QED BY <3>1, <4>1, OneLess, SMT
    <3>3. UNCHANGED <<lockVars, cvVars, held>>
      BY <1>3 DEF V, DeviceInterrupt
    <3> QED BY <2>2, <3>2, <3>3 DEF lockVars, cvVars
  <2> QED
    BY <1>3, <1>b, <2>1, <2>2, <2>3 DEF V, DeviceInterrupt, cpuVars
<1>4. ASSUME NEW s \in Sem, DeviceRequest(s) PROVE TypeOK'
  <2>1. pending' \in [Sem -> Nat]
    BY <1>4, OneMore DEF DeviceRequest
  <2> QED
    BY <1>4, <1>b, <2>1 DEF DeviceRequest, schedVars, semVars, lockVars, cvVars
<1>5. ASSUME NEW l \in Lock, Acquire(l) PROVE TypeOK'
  <2>1. FramesOK'
    BY <1>5, <1>b, SetFrame, ProperFrames DEF Acquire, SleepIn
  <2>2. SynchTypeOK'
    <3>0. UNCHANGED <<semVars, cvVars, pending>>
      BY <1>5 DEF Acquire
    <3>1. CASE CanTake(l)
      <4>1. TakeNow(l)
        BY <1>5, <3>1 DEF Acquire
      <4> QED
        BY <1>5, <3>0, <4>1 DEF TakeNow, Give, semVars, cvVars
    <3>2. CASE ~CanTake(l)
      <4>1. /\ waitingThreads' = [waitingThreads EXCEPT ![l] = Append(@, currentThread)]
            /\ UNCHANGED <<available, owner, held>>
        BY <1>5, <3>2 DEF Acquire
      <4>2. waitingThreads' \in [Lock -> Seq(Thread)]
        BY <1>5, <4>1, AppendType
      <4> QED
        BY <3>0, <4>1, <4>2 DEF semVars, cvVars
    <3> QED BY <3>1, <3>2
  <2> QED
    BY <1>5, <1>c, <2>1, <2>2, OwnSteps
<1>6. CASE AcquireWoken
  <2>1. frame[currentThread].obj \in Lock
    BY <1>6 DEF AcquireWoken, FrameOK
  <2>2. FramesOK'
    BY <1>6, <1>b, SetFrame, ProperFrames DEF AcquireWoken, ReturnToCaller
  <2>3. SynchTypeOK'
    BY <1>6, <2>1 DEF AcquireWoken, Give, semVars, lockVars, cvVars
  <2> QED
    BY <1>6, <1>c, <2>2, <2>3, OwnSteps
<1>7. ASSUME NEW l \in Lock, Release(l) PROVE TypeOK'
  <2>1. SynchTypeOK'
    BY <1>7, WakeType DEF Release, PassOn, Take, semVars, cvVars
  <2> QED
    BY <1>7, <1>b, <2>1, WakeType DEF Release, Level, cpuVars
<1>8. ASSUME NEW c \in CV, NEW l \in Lock, Wait(c, l) PROVE TypeOK'
  <2>1. FramesOK'
    BY <1>8, <1>b, SetFrame, ProperFrames DEF Wait, SleepIn
  <2>2. /\ status' \in [Thread -> Statuses]
        /\ readyList' \in Seq(Thread)
    BY <1>8, <1>a, WakeType, SMT DEF Wait
  <2>3. SynchTypeOK'
    <3>1. waitingCV' \in [CV -> Seq(Thread)] /\ waitingLock' \in [CV -> Lock \cup {NULL}]
      <4>1. /\ waitingCV' = [waitingCV EXCEPT ![c] = Append(@, currentThread)]
            /\ waitingLock' = [waitingLock EXCEPT ![c] = l]
        BY <1>8 DEF Wait
      <4> QED BY <4>1, AppendType
    <3>2. /\ available' \in [Lock -> BOOLEAN]
          /\ owner' \in [Lock -> Thread \cup StaleOwner \cup {NULL}]
          /\ waitingThreads' \in [Lock -> Seq(Thread)]
          /\ held' \in [Thread -> SUBSET Lock]
      <4>1. \/ PassOn(l) /\ Take(currentThread, l)
            \/ UNCHANGED <<lockVars, held>>
        BY <1>8 DEF Wait
      <4>2. CASE UNCHANGED <<lockVars, held>>
        BY <4>2 DEF lockVars
      <4>3. CASE PassOn(l) /\ Take(currentThread, l)
        <5>1. Rest(waitingThreads[l]) \in Seq(Thread) /\ First(waitingThreads[l]) \in Thread \cup {NULL}
          BY WakeType
        <5> QED BY <4>3, <5>1 DEF PassOn, Take
      <4> QED BY <4>1, <4>2, <4>3
    <3> QED
      BY <1>8, <3>1, <3>2 DEF Wait, semVars
  <2> QED
    BY <1>8, <2>1, <2>2, <2>3 DEF Wait, SleepIn, Level, cpuVars
<1>9. CASE WaitWoken
  <2>1. frame[currentThread].obj \in Lock
    BY <1>9 DEF WaitWoken, FrameOK
  <2>2. FramesOK'
    BY <1>9, <1>b, <2>1, SetFrame, ProperFrames DEF WaitWoken, ReturnToCaller
  <2>3. SynchTypeOK'
    <3>0. UNCHANGED <<semVars, cvVars, pending>>
      BY <1>9, <2>1 DEF WaitWoken
    <3>1. CASE CanTake(frame[currentThread].obj)
      <4>1. TakeNow(frame[currentThread].obj)
        BY <1>9, <2>1, <3>1 DEF WaitWoken
      <4> QED
        BY <1>9, <2>1, <3>0, <4>1 DEF TakeNow, Give, semVars, cvVars
    <3>2. CASE ~CanTake(frame[currentThread].obj)
      <4>1. /\ waitingThreads' = [waitingThreads EXCEPT ![frame[currentThread].obj] = Append(@, currentThread)]
            /\ UNCHANGED <<available, owner, held>>
        BY <1>9, <2>1, <3>2 DEF WaitWoken
      <4>2. waitingThreads' \in [Lock -> Seq(Thread)]
        BY <1>9, <2>1, <4>1, AppendType, SMT
      <4> QED
        BY <3>0, <4>1, <4>2 DEF semVars, cvVars
    <3> QED BY <3>1, <3>2
  <2> QED
    BY <1>9, <1>c, <2>2, <2>3, OwnSteps
<1>10. CASE BroadcastSignal \/ \E c \in CV, l \in Lock : Signal(c, l)
  <2>1. PICK c \in CV, l \in Lock : DoSignal(c, l)
    BY <1>10 DEF BroadcastSignal, Signal, InBroadcast, FrameOK
  <2>2. /\ status' \in [Thread -> Statuses]
        /\ readyList' \in Seq(Thread)
        /\ waitingCV' \in [CV -> Seq(Thread)]
        /\ waitingLock' \in [CV -> Lock \cup {NULL}]
    BY <2>1, WakeType, SMT DEF DoSignal
  <2>3. SynchTypeOK'
    BY <1>10, <2>2 DEF BroadcastSignal, Signal, semVars, lockVars
  <2> QED
    BY <1>10, <1>b, <2>2, <2>3 DEF BroadcastSignal, Signal, cpuVars
<1>11. CASE BroadcastDone \/ \E c \in CV, l \in Lock : Broadcast(c, l)
  <2>1. FramesOK'
    BY <1>11, <1>b, SetFrame, ProperFrames DEF BroadcastDone, Broadcast
  <2> QED
    BY <1>11, <2>1 DEF BroadcastDone, Broadcast, cpuVars, synchVars, semVars, lockVars, cvVars
<1>12. CASE IdleHalt
  BY <1>12, <1>b DEF IdleHalt, synchVars, semVars, lockVars, cvVars
<1>13. CASE UNCHANGED vars
  BY <1>13, <1>b DEF vars, schedVars, synchVars, semVars, lockVars, cvVars
<1> HIDE DEF TypeOK
<1> QED
  BY <1>0, <1>1, <1>2, <1>3, <1>4, <1>5, <1>6, <1>7, <1>8, <1>9, <1>10, <1>11, <1>12, <1>13
  DEF Next, SemStep, LockStep, CVStep, BroadcastSpin, Halted

(* Every variable keeps its type, for any instance: in particular a        *)
(* semaphore's value is never negative (synch.h: "always >= 0"), because P *)
(* tests it again after every wake-up.                                     *)
THEOREM TypeCorrect == Spec => []TypeOK
BY InitType, NextType, PTL DEF Spec

----------------------------------------------------------------------------
(* How the sets of ready and sleeping threads change.                      *)
(* Nobody moves.                                                           *)
LEMMA StaySets ==
    ASSUME \A t \in Thread : /\ status'[t] = "READY" <=> status[t] = "READY"
                             /\ status'[t] = "BLOCKED" <=> status[t] = "BLOCKED"
                             /\ status[t] = "BLOCKED" => frame'[t] = frame[t]
    PROVE  /\ ReadySet' = ReadySet
           /\ \A x : /\ AsleepInP(x)' = AsleepInP(x)
                     /\ AsleepInAcquire(x)' = AsleepInAcquire(x)
                     /\ AsleepInWait(x)' = AsleepInWait(x)
BY DEF ReadySet, AsleepInP, AsleepInAcquire, AsleepInWait

(* The first thread of q, if any, is woken, after statuses became st.      *)
LEMMA WakeSets ==
    ASSUME NEW q \in Seq(Thread), status \in [Thread -> ThreadStatus \cup {"FREE"}],
           q # <<>> => status[Head(q)] = "BLOCKED",
           status' = Woken(q, status), frame' = frame
    PROVE  /\ ReadySet' = ReadySet \cup (IF q = <<>> THEN {} ELSE {Head(q)})
           /\ \A x : /\ AsleepInP(x)' = AsleepInP(x) \ {First(q)}
                     /\ AsleepInAcquire(x)' = AsleepInAcquire(x) \ {First(q)}
                     /\ AsleepInWait(x)' = AsleepInWait(x) \ {First(q)}
<1>1. CASE q = <<>>
  BY <1>1 DEF Woken, First, ReadySet, AsleepInP, AsleepInAcquire, AsleepInWait
<1>2. CASE q # <<>>
  <2>1. Head(q) \in Thread /\ First(q) = Head(q) /\ status' = [status EXCEPT ![Head(q)] = "READY"]
    BY <1>2, SMT DEF First, Woken
  <2> QED
    BY <1>2, <2>1 DEF ReadySet, AsleepInP, AsleepInAcquire, AsleepInWait
<1> QED BY <1>1, <1>2

(* currentThread falls asleep in the routine of its new frame.             *)
LEMMA SleepSets ==
    ASSUME TypeOK, status[currentThread] = "RUNNING", status' = Sleeping,
           \A t \in Thread \ {currentThread} : frame'[t] = frame[t]
    PROVE  /\ ReadySet' = ReadySet
           /\ \A x :
               LET f == frame'[currentThread]
               IN  /\ AsleepInP(x)' = IF f.op = "P" /\ f.obj = x
                                        THEN AsleepInP(x) \cup {currentThread} ELSE AsleepInP(x)
                   /\ AsleepInAcquire(x)' = IF f.op = "Acquire" /\ f.obj = x
                                        THEN AsleepInAcquire(x) \cup {currentThread} ELSE AsleepInAcquire(x)
                   /\ AsleepInWait(x)' = IF f.op = "Wait" /\ f.cv = x
                                        THEN AsleepInWait(x) \cup {currentThread} ELSE AsleepInWait(x)
<1>1. /\ status \in [Thread -> ThreadStatus \cup {"FREE"}]
      /\ currentThread \in Thread
  BY DEF TypeOK, SchedTypeOK
<1>2. \A t \in Thread : status'[t] = IF t = currentThread THEN "BLOCKED" ELSE status[t]
  BY <1>1 DEF Sleeping
<1>3. ReadySet' = ReadySet
  BY <1>1, <1>2 DEF ReadySet
<1>4. \A x : AsleepInP(x)' = IF frame'[currentThread].op = "P" /\ frame'[currentThread].obj = x
                             THEN AsleepInP(x) \cup {currentThread} ELSE AsleepInP(x)
  BY <1>1, <1>2, SMT DEF AsleepInP
<1>5. \A x : AsleepInAcquire(x)' =
                 IF frame'[currentThread].op = "Acquire" /\ frame'[currentThread].obj = x
                   THEN AsleepInAcquire(x) \cup {currentThread} ELSE AsleepInAcquire(x)
  BY <1>1, <1>2, SMT DEF AsleepInAcquire
<1>6. \A x : AsleepInWait(x)' = IF frame'[currentThread].op = "Wait" /\ frame'[currentThread].cv = x
                                THEN AsleepInWait(x) \cup {currentThread} ELSE AsleepInWait(x)
  BY <1>1, <1>2, SMT DEF AsleepInWait
<1> QED
  BY <1>3, <1>4, <1>5, <1>6

(* The running thread enters a routine: its frame is that routine's and no *)
(* other thread's frame changes.                                           *)
LEMMA EnterFrame ==
    ASSUME TypeOK, NEW op \in {"P", "Acquire", "Wait", "Broadcast"},
           NEW obj \in Sem \cup Lock, NEW cv \in CV \cup {NULL},
           frame' = [frame EXCEPT ![currentThread] = Frame(op, obj, cv)]
    PROVE  /\ frame'[currentThread].op = op
           /\ frame'[currentThread].obj = obj
           /\ frame'[currentThread].cv = cv
           /\ \A t \in Thread \ {currentThread} : frame'[t] = frame[t]
<1>1. DOMAIN frame = Thread /\ currentThread \in Thread
  BY DEF TypeOK, SchedTypeOK
<1>2. frame'[currentThread] = Frame(op, obj, cv)
  BY <1>1
<1> QED
  BY <1>1, <1>2, RoutineFrame, SMT

----------------------------------------------------------------------------
(* OnePlace needs CarcassIsDead, so that deleting the carcass disturbs no  *)
(* list, and CarcassIsDead needs OnePlace, so that nobody wakes a carcass. *)
Places == OnePlace /\ CarcassIsDead

LEMMA InitPlaces == Init => Places
<1> SUFFICES ASSUME Init PROVE Places
  OBVIOUS
<1>1. /\ ReadySet = {}
      /\ \A x : AsleepInP(x) = {} /\ AsleepInAcquire(x) = {} /\ AsleepInWait(x) = {}
  BY DEF Init, SchedInit, ReadySet, AsleepInP, AsleepInAcquire, AsleepInWait
<1>2. ReadyOK /\ SemQueuesOK
  BY <1>1, ListsEmpty DEF Init, SchedInit, ReadyOK, SemQueuesOK
<1>3. LockQueuesOK /\ CVQueuesOK
  BY <1>1, ListsEmpty DEF Init, LockQueuesOK, CVQueuesOK
<1>4. StatusOK /\ CarcassIsDead
  BY DEF Init, SchedInit, StatusOK, CarcassIsDead
<1> QED
  BY <1>2, <1>3, <1>4 DEF Places, OnePlace

(* Nobody moves.                                                           *)
LEMMA StayPlaces ==
    ASSUME OnePlace,
           \A t \in Thread : /\ status'[t] = "READY" <=> status[t] = "READY"
                             /\ status'[t] = "BLOCKED" <=> status[t] = "BLOCKED"
                             /\ status[t] = "BLOCKED" => frame'[t] = frame[t]
                             /\ status'[t] = "RUNNING" => t = currentThread',
           UNCHANGED <<readyList, queue, waitingThreads, waitingCV>>
    PROVE  OnePlace'
<1>1. ReadyOK' /\ SemQueuesOK'
  BY StaySets DEF OnePlace, ReadyOK, SemQueuesOK
<1>2. LockQueuesOK' /\ CVQueuesOK'
  BY StaySets DEF OnePlace, LockQueuesOK, CVQueuesOK
<1>3. StatusOK'
  BY DEF OnePlace, StatusOK
<1> QED
  BY <1>1, <1>2, <1>3 DEF OnePlace

(* The first thread of a list of sleeping threads is woken.                *)
LEMMA WakeReady ==
    ASSUME TypeOK, OnePlace, NEW q \in Seq(Thread), NEW S, Lists(q, S),
           \A t \in S : t \in Thread /\ status[t] = "BLOCKED",
           status' = Woken(q, status), readyList' = ReadyWith(q),
           UNCHANGED <<frame, currentThread>>
    PROVE  /\ q # <<>> => Head(q) \in S
           /\ ReadyOK' /\ StatusOK'
           /\ Lists(Rest(q), S \ {First(q)})
           /\ \A x : /\ AsleepInP(x)' = AsleepInP(x) \ {First(q)}
                     /\ AsleepInAcquire(x)' = AsleepInAcquire(x) \ {First(q)}
                     /\ AsleepInWait(x)' = AsleepInWait(x) \ {First(q)}
<1>1. q # <<>> => Head(q) \in S
  BY ListsTail
<1>2. status \in [Thread -> ThreadStatus \cup {"FREE"}] /\ readyList \in Seq(Thread)
  BY DEF TypeOK, SchedTypeOK
<1>3. /\ ReadySet' = ReadySet \cup (IF q = <<>> THEN {} ELSE {Head(q)})
      /\ \A x : /\ AsleepInP(x)' = AsleepInP(x) \ {First(q)}
                /\ AsleepInAcquire(x)' = AsleepInAcquire(x) \ {First(q)}
                /\ AsleepInWait(x)' = AsleepInWait(x) \ {First(q)}
  BY <1>1, <1>2, WakeSets
<1>4. ReadyOK'
  <2>1. CASE q = <<>>
    BY <1>3, <2>1 DEF OnePlace, ReadyOK, ReadyWith
  <2>2. CASE q # <<>>
    <3>1. Head(q) \in Thread /\ Head(q) \notin ReadySet
      BY <1>1, <2>2 DEF ReadySet
    <3>2. Lists(Append(readyList, Head(q)), ReadySet \cup {Head(q)})
      BY <1>2, <3>1, ListsAppend DEF OnePlace, ReadyOK
    <3> QED
      BY <1>3, <2>2, <3>2 DEF ReadyOK, ReadyWith
  <2> QED BY <2>1, <2>2
<1>5. StatusOK'
  BY <1>2 DEF OnePlace, StatusOK, Woken
<1> QED
  BY <1>1, <1>3, <1>4, <1>5, ListsRest

LEMMA RemoveAbsent == ASSUME NEW S, NEW x, x \notin S PROVE S \ {x} = S
OBVIOUS

LEMMA WakeCarcass ==
    ASSUME TypeOK, CarcassIsDead, NEW q \in Seq(Thread),
           First(q) # NULL => frame[First(q)].op # "Finish",
           status' = Woken(q, status), UNCHANGED <<frame, threadToBeDestroyed>>
    PROVE  CarcassIsDead'
<1> SUFFICES ASSUME threadToBeDestroyed # NULL
             PROVE  Finished(threadToBeDestroyed) /\ status'[threadToBeDestroyed] = "BLOCKED"
  BY DEF CarcassIsDead, Finished
<1>1. /\ threadToBeDestroyed \in Thread
      /\ status \in [Thread -> ThreadStatus \cup {"FREE"}]
      /\ frame[threadToBeDestroyed].op = "Finish"
      /\ status[threadToBeDestroyed] = "BLOCKED"
  BY DEF TypeOK, SchedTypeOK, CarcassIsDead, Finished
<1>2. threadToBeDestroyed # First(q)
  BY <1>1
<1> QED
  BY <1>1, <1>2 DEF Woken, First, Finished

(* Semaphore::V, called by a thread or by an interrupt handler.            *)
LEMMA VPlaces ==
    ASSUME TypeOK, Places, NEW s \in Sem, V(s) \/ DeviceInterrupt(s)
    PROVE  Places'
<1>1. /\ DoV(s)
      /\ UNCHANGED <<currentThread, frame, waitingThreads, waitingCV, threadToBeDestroyed>>
  BY DEF V, DeviceInterrupt, cpuVars, lockVars, cvVars
<1>2. queue[s] \in Seq(Thread) /\ Lists(queue[s], AsleepInP(s)) /\ queue \in [Sem -> Seq(Thread)]
  BY DEF TypeOK, SynchTypeOK, Places, OnePlace, SemQueuesOK
<1>3. /\ status' = Woken(queue[s], status)
      /\ readyList' = ReadyWith(queue[s])
      /\ queue' = [queue EXCEPT ![s] = Rest(@)]
  BY <1>1 DEF DoV
<1>4. \A t \in AsleepInP(s) : t \in Thread /\ status[t] = "BLOCKED"
  BY DEF AsleepInP
<1> DEFINE h == First(queue[s])
<1>5. /\ queue[s] # <<>> => h \in AsleepInP(s)
      /\ queue[s] = <<>> => h = NULL
      /\ ReadyOK' /\ StatusOK'
      /\ Lists(Rest(queue[s]), AsleepInP(s) \ {h})
      /\ \A x : /\ AsleepInP(x)' = AsleepInP(x) \ {h}
                /\ AsleepInAcquire(x)' = AsleepInAcquire(x) \ {h}
                /\ AsleepInWait(x)' = AsleepInWait(x) \ {h}
  BY <1>1, <1>2, <1>3, <1>4, WakeReady DEF Places, First
<1>6. /\ \A x : x # s => h \notin AsleepInP(x)
      /\ \A x : h \notin AsleepInAcquire(x)
      /\ \A x : h \notin AsleepInWait(x)
  BY <1>5 DEF AsleepInP, AsleepInAcquire, AsleepInWait
<1>a. /\ \A x : x # s => AsleepInP(x)' = AsleepInP(x)
      /\ \A x : AsleepInAcquire(x)' = AsleepInAcquire(x)
      /\ \A x : AsleepInWait(x)' = AsleepInWait(x)
  BY <1>5, <1>6, RemoveAbsent
<1>7. SemQueuesOK'
  <2> SUFFICES ASSUME NEW x \in Sem PROVE Lists(queue'[x], AsleepInP(x)')
    BY DEF SemQueuesOK
  <2>1. CASE x = s
    BY <1>2, <1>3, <1>5, <2>1
  <2>2. CASE x # s
    BY <1>2, <1>3, <1>a, <2>2 DEF Places, OnePlace, SemQueuesOK
  <2> QED BY <2>1, <2>2
<1>8. LockQueuesOK' /\ CVQueuesOK'
  BY <1>1, <1>a DEF Places, OnePlace, LockQueuesOK, CVQueuesOK
<1>9. CarcassIsDead'
  <2>1. h # NULL => frame[h].op = "P"
    BY <1>5 DEF AsleepInP
  <2> QED
    BY <1>1, <1>2, <1>3, <2>1, WakeCarcass DEF Places, h
<1> QED
  BY <1>5, <1>7, <1>8, <1>9 DEF Places, OnePlace
(* Lock::Release wakes the first waiter.                                   *)
LEMMA ReleasePlaces ==
    ASSUME TypeOK, Places, NEW l \in Lock, Release(l)
    PROVE  Places'
<1>1. UNCHANGED <<currentThread, frame, queue, waitingCV, threadToBeDestroyed>>
  BY DEF Release, cpuVars, semVars, cvVars
<1>3. /\ status' = Woken(waitingThreads[l], status)
      /\ readyList' = ReadyWith(waitingThreads[l])
      /\ waitingThreads' = [waitingThreads EXCEPT ![l] = Rest(@)]
  BY DEF Release, PassOn
<1>2. /\ waitingThreads[l] \in Seq(Thread)
      /\ Lists(waitingThreads[l], AsleepInAcquire(l))
      /\ waitingThreads \in [Lock -> Seq(Thread)]
  BY DEF TypeOK, SynchTypeOK, Places, OnePlace, LockQueuesOK
<1>4. \A t \in AsleepInAcquire(l) : t \in Thread /\ status[t] = "BLOCKED"
  BY DEF AsleepInAcquire
<1> DEFINE h == First(waitingThreads[l])
<1>5. /\ waitingThreads[l] # <<>> => h \in AsleepInAcquire(l)
      /\ waitingThreads[l] = <<>> => h = NULL
      /\ ReadyOK' /\ StatusOK'
      /\ Lists(Rest(waitingThreads[l]), AsleepInAcquire(l) \ {h})
      /\ \A x : /\ AsleepInP(x)' = AsleepInP(x) \ {h}
                /\ AsleepInAcquire(x)' = AsleepInAcquire(x) \ {h}
                /\ AsleepInWait(x)' = AsleepInWait(x) \ {h}
  BY <1>1, <1>2, <1>3, <1>4, WakeReady DEF Places, First
<1>6. /\ \A x : x # l => h \notin AsleepInAcquire(x)
      /\ \A x : h \notin AsleepInP(x)
      /\ \A x : h \notin AsleepInWait(x)
  BY <1>5 DEF AsleepInP, AsleepInAcquire, AsleepInWait
<1> HIDE DEF h
<1>a. /\ \A x : x # l => AsleepInAcquire(x)' = AsleepInAcquire(x)
      /\ \A x : AsleepInP(x)' = AsleepInP(x)
      /\ \A x : AsleepInWait(x)' = AsleepInWait(x)
  BY <1>5, <1>6, RemoveAbsent
<1>7. LockQueuesOK'
  <2> SUFFICES ASSUME NEW x \in Lock PROVE Lists(waitingThreads'[x], AsleepInAcquire(x)')
    BY DEF LockQueuesOK
  <2>1. CASE x = l
    BY <1>2, <1>3, <1>5, <2>1
  <2>2. CASE x # l
    BY <1>2, <1>3, <1>a, <2>2 DEF Places, OnePlace, LockQueuesOK
  <2> QED BY <2>1, <2>2
<1>8. SemQueuesOK' /\ CVQueuesOK'
  BY <1>1, <1>a DEF Places, OnePlace, SemQueuesOK, CVQueuesOK
<1>9. CarcassIsDead'
  <2>1. h # NULL => frame[h].op = "Acquire"
    BY <1>5 DEF AsleepInAcquire
  <2> QED
    BY <1>1, <1>2, <1>3, <2>1, WakeCarcass DEF Places, h
<1> QED
  BY <1>5, <1>7, <1>8, <1>9 DEF Places, OnePlace

(* Condition::Signal, also from Broadcast, wakes the first waiter.         *)
LEMMA SignalPlaces ==
    ASSUME TypeOK, Places, NEW c \in CV, NEW l \in Lock, DoSignal(c, l),
           UNCHANGED <<currentThread, frame, queue, waitingThreads, threadToBeDestroyed>>
    PROVE  Places'
<1>1. UNCHANGED <<currentThread, frame, queue, waitingThreads, threadToBeDestroyed>>
  OBVIOUS
<1>3. /\ status' = Woken(waitingCV[c], status)
      /\ readyList' = ReadyWith(waitingCV[c])
      /\ waitingCV' = [waitingCV EXCEPT ![c] = Rest(@)]
  BY DEF DoSignal, Rest
<1>2. /\ waitingCV[c] \in Seq(Thread)
      /\ Lists(waitingCV[c], AsleepInWait(c))
      /\ waitingCV \in [CV -> Seq(Thread)]
  BY DEF TypeOK, SynchTypeOK, Places, OnePlace, CVQueuesOK
<1>4. \A t \in AsleepInWait(c) : t \in Thread /\ status[t] = "BLOCKED"
  BY DEF AsleepInWait
<1> DEFINE h == First(waitingCV[c])
<1>5. /\ waitingCV[c] # <<>> => h \in AsleepInWait(c)
      /\ waitingCV[c] = <<>> => h = NULL
      /\ ReadyOK' /\ StatusOK'
      /\ Lists(Rest(waitingCV[c]), AsleepInWait(c) \ {h})
      /\ \A x : /\ AsleepInP(x)' = AsleepInP(x) \ {h}
                /\ AsleepInAcquire(x)' = AsleepInAcquire(x) \ {h}
                /\ AsleepInWait(x)' = AsleepInWait(x) \ {h}
  BY <1>1, <1>2, <1>3, <1>4, WakeReady DEF Places, First
<1>6. /\ \A x : x # c => h \notin AsleepInWait(x)
      /\ \A x : h \notin AsleepInP(x)
      /\ \A x : h \notin AsleepInAcquire(x)
  BY <1>5 DEF AsleepInP, AsleepInAcquire, AsleepInWait
<1> HIDE DEF h
<1>a. /\ \A x : x # c => AsleepInWait(x)' = AsleepInWait(x)
      /\ \A x : AsleepInP(x)' = AsleepInP(x)
      /\ \A x : AsleepInAcquire(x)' = AsleepInAcquire(x)
  BY <1>5, <1>6, RemoveAbsent
<1>7. CVQueuesOK'
  <2> SUFFICES ASSUME NEW x \in CV PROVE Lists(waitingCV'[x], AsleepInWait(x)')
    BY DEF CVQueuesOK
  <2>1. CASE x = c
    BY <1>2, <1>3, <1>5, <2>1
  <2>2. CASE x # c
    BY <1>2, <1>3, <1>a, <2>2 DEF Places, OnePlace, CVQueuesOK
  <2> QED BY <2>1, <2>2
<1>8. SemQueuesOK' /\ LockQueuesOK'
  BY <1>1, <1>a DEF Places, OnePlace, SemQueuesOK, LockQueuesOK
<1>9. CarcassIsDead'
  <2>1. h # NULL => frame[h].op = "Wait"
    BY <1>5, ZenonT(30) DEF AsleepInWait
  <2> QED
    BY <1>1, <1>2, <1>3, <2>1, WakeCarcass DEF Places, h
<1> QED
  BY <1>5, <1>7, <1>8, <1>9 DEF Places, OnePlace


(* currentThread falls asleep: what holds wherever it is queued.           *)
LEMMA SleepStatus ==
    ASSUME TypeOK, Places, status[currentThread] = "RUNNING", status' = Sleeping,
           frame'[currentThread].op \in {"P", "Acquire", "Wait", "Finish"},
           \A t \in Thread \ {currentThread} : frame'[t] = frame[t],
           UNCHANGED <<currentThread, readyList>>
    PROVE  /\ ReadyOK' /\ StatusOK'
           /\ threadToBeDestroyed' = threadToBeDestroyed => CarcassIsDead'
<1>1. ReadyOK'
  BY SleepSets DEF Places, OnePlace, ReadyOK
<1>2. StatusOK'
  BY DEF TypeOK, SchedTypeOK, Places, OnePlace, StatusOK, Sleeping
<1>3. threadToBeDestroyed' = threadToBeDestroyed => CarcassIsDead'
  BY DEF TypeOK, SchedTypeOK, Places, CarcassIsDead, Finished, Sleeping
<1> QED BY <1>1, <1>2, <1>3

(* Semaphore::P sleeps, the first time or again.                           *)
LEMMA PSleepPlaces ==
    ASSUME TypeOK, Places, status[currentThread] = "RUNNING", NEW s \in Sem,
           frame'[currentThread].op = "P", frame'[currentThread].obj = s,
           status' = Sleeping, \A t \in Thread \ {currentThread} : frame'[t] = frame[t],
           queue' = [queue EXCEPT ![s] = Append(@, currentThread)],
           UNCHANGED <<currentThread, readyList, waitingThreads, waitingCV, threadToBeDestroyed>>
    PROVE  Places'
<1>1. ReadyOK' /\ StatusOK' /\ CarcassIsDead'
  BY SleepStatus
<1>2. /\ AsleepInP(s)' = AsleepInP(s) \cup {currentThread}
      /\ \A x : x # s => AsleepInP(x)' = AsleepInP(x)
      /\ \A x : AsleepInAcquire(x)' = AsleepInAcquire(x)
      /\ \A x : AsleepInWait(x)' = AsleepInWait(x)
  BY SleepSets
<1>3. LockQueuesOK' /\ CVQueuesOK'
  BY <1>2 DEF Places, OnePlace, LockQueuesOK, CVQueuesOK
<1>4. SemQueuesOK'
  <2> SUFFICES ASSUME NEW x \in Sem PROVE Lists(queue'[x], AsleepInP(x)')
    BY DEF SemQueuesOK
  <2>1. /\ queue \in [Sem -> Seq(Thread)]
        /\ currentThread \in Thread \ AsleepInP(s)
        /\ Lists(queue[x], AsleepInP(x))
    BY DEF TypeOK, SchedTypeOK, SynchTypeOK, Places, OnePlace, SemQueuesOK, AsleepInP
  <2>2. CASE x = s
    <3>1. Lists(Append(queue[s], currentThread), AsleepInP(s) \cup {currentThread})
      BY <2>1, <2>2, ListsAppend
    <3> QED
      BY <1>2, <2>1, <2>2, <3>1
  <2>3. CASE x # s
    BY <1>2, <2>1, <2>3
  <2> QED BY <2>2, <2>3
<1> QED
  BY <1>1, <1>3, <1>4 DEF Places, OnePlace

(* Lock::Acquire sleeps, called by a thread or by Condition::Wait.         *)
LEMMA AcquireSleepPlaces ==
    ASSUME TypeOK, Places, status[currentThread] = "RUNNING", NEW l \in Lock,
           frame'[currentThread].op = "Acquire", frame'[currentThread].obj = l,
           status' = Sleeping, \A t \in Thread \ {currentThread} : frame'[t] = frame[t],
           waitingThreads' = [waitingThreads EXCEPT ![l] = Append(@, currentThread)],
           UNCHANGED <<currentThread, readyList, queue, waitingCV, threadToBeDestroyed>>
    PROVE  Places'
<1>1. ReadyOK' /\ StatusOK' /\ CarcassIsDead'
  BY SleepStatus
<1>2. /\ AsleepInAcquire(l)' = AsleepInAcquire(l) \cup {currentThread}
      /\ \A x : x # l => AsleepInAcquire(x)' = AsleepInAcquire(x)
      /\ \A x : AsleepInP(x)' = AsleepInP(x)
      /\ \A x : AsleepInWait(x)' = AsleepInWait(x)
  BY SleepSets
<1>3. SemQueuesOK' /\ CVQueuesOK'
  BY <1>2 DEF Places, OnePlace, SemQueuesOK, CVQueuesOK
<1>4. LockQueuesOK'
  <2> SUFFICES ASSUME NEW x \in Lock PROVE Lists(waitingThreads'[x], AsleepInAcquire(x)')
    BY DEF LockQueuesOK
  <2>1. /\ waitingThreads \in [Lock -> Seq(Thread)]
        /\ currentThread \in Thread \ AsleepInAcquire(l)
        /\ Lists(waitingThreads[x], AsleepInAcquire(x))
    BY DEF TypeOK, SchedTypeOK, SynchTypeOK, Places, OnePlace, LockQueuesOK, AsleepInAcquire
  <2>2. CASE x = l
    <3>1. Lists(Append(waitingThreads[l], currentThread), AsleepInAcquire(l) \cup {currentThread})
      BY <2>1, <2>2, ListsAppend
    <3> QED
      BY <1>2, <2>1, <2>2, <3>1
  <2>3. CASE x # l
    BY <1>2, <2>1, <2>3
  <2> QED BY <2>2, <2>3
<1> QED
  BY <1>1, <1>3, <1>4 DEF Places, OnePlace

(* Thread::Finish sleeps on no list.                                       *)
LEMMA FinishPlaces ==
    ASSUME TypeOK, Places, Finish,
           UNCHANGED <<queue, waitingThreads, waitingCV>>
    PROVE  Places'
<1>0. /\ status[currentThread] = "RUNNING" /\ status' = Sleeping
      /\ frame'[currentThread].op = "Finish"
      /\ \A t \in Thread \ {currentThread} : frame'[t] = frame[t]
      /\ UNCHANGED <<currentThread, readyList>> /\ threadToBeDestroyed' = currentThread
  BY PlainFrame DEF Finish, InCaller, CpuBusy, Sleeping, SleepIn, TypeOK, SchedTypeOK
<1>1. ReadyOK' /\ StatusOK'
  BY <1>0, SleepStatus
<1>2. /\ \A x : AsleepInP(x)' = AsleepInP(x)
      /\ \A x : AsleepInAcquire(x)' = AsleepInAcquire(x)
      /\ \A x : AsleepInWait(x)' = AsleepInWait(x)
  BY <1>0, SleepSets
<1>3. SemQueuesOK' /\ LockQueuesOK' /\ CVQueuesOK'
  BY <1>2 DEF Places, OnePlace, SemQueuesOK, LockQueuesOK, CVQueuesOK
<1>4. CarcassIsDead'
  BY <1>0 DEF TypeOK, SchedTypeOK, CarcassIsDead, Finished, Sleeping
<1> QED
  BY <1>1, <1>3, <1>4 DEF Places, OnePlace

(* Condition::Wait: the caller joins the condition's list and, when it was *)
(* the lock's owner, the first thread waiting for the lock is woken.       *)
LEMMA WaitPlaces ==
    ASSUME TypeOK, Places, NEW c \in CV, NEW l \in Lock, Wait(c, l)
    PROVE  Places'
<1>1. /\ status[currentThread] = "RUNNING"
      /\ frame'[currentThread].op = "Wait" /\ frame'[currentThread].cv = c
      /\ \A t \in Thread \ {currentThread} : frame'[t] = frame[t]
      /\ waitingCV' = [waitingCV EXCEPT ![c] = Append(@, currentThread)]
      /\ UNCHANGED <<currentThread, queue, threadToBeDestroyed>>
  <2>1. frame' = [frame EXCEPT ![currentThread] = Frame("Wait", l, c)]
    BY DEF Wait, SleepIn
  <2>2. /\ frame'[currentThread].op = "Wait" /\ frame'[currentThread].cv = c
        /\ \A t \in Thread \ {currentThread} : frame'[t] = frame[t]
    BY <2>1, EnterFrame
  <2> QED
    BY <2>2 DEF Wait, InCaller, CpuBusy, cpuVars, semVars
<1>2. PICK q \in {waitingThreads[l], <<>>} :
          /\ status' = Woken(q, Sleeping)
          /\ readyList' = ReadyWith(q)
          /\ waitingThreads' = IF q = <<>> THEN waitingThreads
                               ELSE [waitingThreads EXCEPT ![l] = Rest(@)]
  <2>1. CASE owner[l] = currentThread
    <3>1. /\ status' = Woken(waitingThreads[l], Sleeping)
          /\ readyList' = ReadyWith(waitingThreads[l])
          /\ waitingThreads' = [waitingThreads EXCEPT ![l] = Rest(@)]
      BY <2>1 DEF Wait, PassOn
    <3>2. waitingThreads[l] = <<>> => waitingThreads' = waitingThreads
      BY <3>1 DEF Rest, TypeOK, SynchTypeOK
    <3> QED BY <3>1, <3>2
  <2>2. CASE owner[l] # currentThread
    BY <2>2 DEF Wait, Woken, ReadyWith, lockVars
  <2> QED BY <2>1, <2>2
<1>3. /\ status \in [Thread -> ThreadStatus \cup {"FREE"}]
      /\ currentThread \in Thread
      /\ readyList \in Seq(Thread)
      /\ waitingThreads \in [Lock -> Seq(Thread)]
      /\ waitingCV \in [CV -> Seq(Thread)]
  BY DEF TypeOK, SchedTypeOK, SynchTypeOK
<1>a. q \in Seq(Thread)
  <2>1. waitingThreads[l] \in Seq(Thread) /\ <<>> \in Seq(Thread)
    BY <1>3, SMT
  <2> QED BY <1>2, <2>1
<1>4. Lists(waitingThreads[l], AsleepInAcquire(l))
  BY DEF Places, OnePlace, LockQueuesOK
<1>5. q # <<>> => /\ Head(q) \in AsleepInAcquire(l)
                  /\ Head(q) \in Thread \ {currentThread}
                  /\ Lists(Rest(waitingThreads[l]), AsleepInAcquire(l) \ {Head(q)})
  <2> SUFFICES ASSUME q # <<>>
               PROVE  /\ Head(q) \in AsleepInAcquire(l)
                      /\ Head(q) \in Thread \ {currentThread}
                      /\ Lists(Rest(waitingThreads[l]), AsleepInAcquire(l) \ {Head(q)})
    OBVIOUS
  <2>1. q = waitingThreads[l] /\ Rest(q) = Tail(q)
    BY DEF Rest
  <2>2. Head(q) \in AsleepInAcquire(l) /\ Lists(Tail(q), AsleepInAcquire(l) \ {Head(q)})
    BY <1>a, <1>4, <2>1, ListsTail
  <2>3. Head(q) \in Thread \ {currentThread}
    BY <1>1, <2>2 DEF AsleepInAcquire
  <2> QED
    BY <2>1, <2>2, <2>3
<1>6. /\ \A t \in Thread : status'[t] = IF q # <<>> /\ t = Head(q) THEN "READY"
                                        ELSE IF t = currentThread THEN "BLOCKED" ELSE status[t]
  BY <1>2, <1>3, <1>a, <1>5 DEF Woken, Sleeping
<1>7. /\ ReadySet' = IF q = <<>> THEN ReadySet ELSE ReadySet \cup {Head(q)}
      /\ \A x : AsleepInP(x)' = AsleepInP(x)
      /\ \A x : AsleepInAcquire(x)' = IF q # <<>> /\ x = l THEN AsleepInAcquire(x) \ {Head(q)}
                                      ELSE AsleepInAcquire(x)
      /\ AsleepInWait(c)' = AsleepInWait(c) \cup {currentThread}
      /\ \A x : x # c => AsleepInWait(x)' = AsleepInWait(x)
  <2>0. q # <<>> => /\ Head(q) \in Thread \ {currentThread}
                    /\ status[Head(q)] = "BLOCKED"
                    /\ frame[Head(q)].op = "Acquire" /\ frame[Head(q)].obj = l
    BY <1>5 DEF AsleepInAcquire
  <2>1. ReadySet' = IF q = <<>> THEN ReadySet ELSE ReadySet \cup {Head(q)}
    BY <1>1, <1>3, <1>6, <2>0 DEF ReadySet
  <2>2. \A x : AsleepInP(x)' = AsleepInP(x)
    BY <1>1, <1>3, <1>6, <2>0, SMT DEF AsleepInP
  <2>3. \A x : AsleepInAcquire(x)' = IF q # <<>> /\ x = l THEN AsleepInAcquire(x) \ {Head(q)}
                                     ELSE AsleepInAcquire(x)
    BY <1>1, <1>3, <1>6, <2>0, SMT DEF AsleepInAcquire
  <2>4. \A t \in Thread : (status'[t] = "BLOCKED" /\ frame'[t].op = "Wait")
                          <=> t = currentThread \/ (status[t] = "BLOCKED" /\ frame[t].op = "Wait")
    <3> TAKE t \in Thread
    <3>1. CASE q # <<>> /\ t = Head(q)
      BY <1>6, <2>0, <3>1
    <3>2. CASE t = currentThread
      BY <1>1, <1>6, <2>0, <3>2
    <3>3. CASE ~(q # <<>> /\ t = Head(q)) /\ t # currentThread
      BY <1>1, <1>6, <3>3
    <3> QED BY <3>1, <3>2, <3>3
  <2>5. /\ AsleepInWait(c)' = AsleepInWait(c) \cup {currentThread}
        /\ \A x : x # c => AsleepInWait(x)' = AsleepInWait(x)
    <3>1. /\ frame'[currentThread].cv = c
          /\ \A t \in Thread : t # currentThread => frame'[t].cv = frame[t].cv
          /\ status[currentThread] # "BLOCKED"
      BY <1>1
    <3>2. AsleepInWait(c)' = AsleepInWait(c) \cup {currentThread}
      BY <1>3, <2>4, <3>1, SMT DEF AsleepInWait
    <3>3. ASSUME NEW x, x # c PROVE AsleepInWait(x)' = AsleepInWait(x)
      BY <1>3, <2>4, <3>1, <3>3, SMT DEF AsleepInWait
    <3> QED BY <3>2, <3>3
  <2> QED BY <2>1, <2>2, <2>3, <2>5
<1>8. ReadyOK'
  <2>1. CASE q = <<>>
    BY <1>2, <1>7, <2>1 DEF Places, OnePlace, ReadyOK, ReadyWith
  <2>2. CASE q # <<>>
    <3>1. Head(q) \notin ReadySet
      BY <1>5, <2>2 DEF ReadySet, AsleepInAcquire
    <3>2. Lists(Append(readyList, Head(q)), ReadySet \cup {Head(q)})
      BY <1>3, <1>5, <2>2, <3>1, ListsAppend DEF Places, OnePlace, ReadyOK
    <3> QED
      BY <1>2, <1>7, <2>2, <3>2 DEF ReadyOK, ReadyWith
  <2> QED BY <2>1, <2>2
<1>9. SemQueuesOK'
  BY <1>1, <1>7 DEF Places, OnePlace, SemQueuesOK
<1>10. LockQueuesOK'
  <2> SUFFICES ASSUME NEW x \in Lock PROVE Lists(waitingThreads'[x], AsleepInAcquire(x)')
    BY DEF LockQueuesOK
  <2>1. CASE q # <<>> /\ x = l
    BY <1>2, <1>3, <1>5, <1>7, <2>1
  <2>2. CASE ~(q # <<>> /\ x = l)
    BY <1>2, <1>3, <1>7, <2>2 DEF Places, OnePlace, LockQueuesOK
  <2> QED BY <2>1, <2>2
<1>11. CVQueuesOK'
  <2> SUFFICES ASSUME NEW x \in CV PROVE Lists(waitingCV'[x], AsleepInWait(x)')
    BY DEF CVQueuesOK
  <2>1. Lists(waitingCV[x], AsleepInWait(x)) /\ currentThread \notin AsleepInWait(x)
    BY <1>1 DEF Places, OnePlace, CVQueuesOK, AsleepInWait
  <2>2. CASE x = c
    <3>1. Lists(Append(waitingCV[c], currentThread), AsleepInWait(c) \cup {currentThread})
      BY <1>3, <2>1, <2>2, ListsAppend
    <3> QED
      BY <1>1, <1>3, <1>7, <2>2, <3>1
  <2>3. CASE x # c
    BY <1>1, <1>3, <1>7, <2>1, <2>3
  <2> QED BY <2>2, <2>3
<1>12. StatusOK'
  BY <1>1, <1>6 DEF Places, OnePlace, StatusOK
<1>13. CarcassIsDead'
  <2>1. q # <<>> => frame[Head(q)].op = "Acquire"
    BY <1>5 DEF AsleepInAcquire
  <2> QED
    BY <1>1, <1>6, <2>1 DEF TypeOK, SchedTypeOK, Places, CarcassIsDead, Finished
<1> QED
  BY <1>8, <1>9, <1>10, <1>11, <1>12, <1>13 DEF Places, OnePlace

(* new Thread, and Thread::Fork, which makes the new thread ready.         *)
(* A thread that was not started yet goes to the end of the ready list.    *)
LEMMA ReadiedPlaces ==
    ASSUME TypeOK, Places, NEW t \in Thread, status[t] \in {"FREE", "JUST_CREATED"},
           status' = [status EXCEPT ![t] = "READY"],
           \A u \in Thread \ {t} : frame'[u] = frame[u],
           readyList' = Append(readyList, t),
           UNCHANGED <<currentThread, threadToBeDestroyed, queue, waitingThreads, waitingCV>>
    PROVE  Places'
<1> USE DEF TypeOK, SchedTypeOK
<1>1. /\ ReadySet' = ReadySet \cup {t}
      /\ \A x : /\ AsleepInP(x)' = AsleepInP(x)
                /\ AsleepInAcquire(x)' = AsleepInAcquire(x)
                /\ AsleepInWait(x)' = AsleepInWait(x)
  <2>1. /\ status[t] # "BLOCKED"
        /\ \A u \in Thread : status'[u] = IF u = t THEN "READY" ELSE status[u]
    OBVIOUS
  <2>2. ReadySet' = ReadySet \cup {t}
    BY <2>1 DEF ReadySet
  <2>3. \A x : AsleepInP(x)' = AsleepInP(x)
    BY <2>1, SMT DEF AsleepInP
  <2>4. \A x : AsleepInAcquire(x)' = AsleepInAcquire(x)
    BY <2>1, SMT DEF AsleepInAcquire
  <2>5. \A x : AsleepInWait(x)' = AsleepInWait(x)
    BY <2>1, SMT DEF AsleepInWait
  <2> QED BY <2>2, <2>3, <2>4, <2>5
<1>2. ReadyOK'
  <2>1. t \notin ReadySet
    BY DEF ReadySet
  <2> QED
    BY <1>1, <2>1, ListsAppend DEF Places, OnePlace, ReadyOK
<1>3. SemQueuesOK' /\ LockQueuesOK' /\ CVQueuesOK'
  BY <1>1 DEF Places, OnePlace, SemQueuesOK, LockQueuesOK, CVQueuesOK
<1>4. StatusOK' /\ CarcassIsDead'
  BY DEF Places, OnePlace, StatusOK, CarcassIsDead, Finished
<1> QED BY <1>2, <1>3, <1>4 DEF Places, OnePlace

LEMMA ForkPlaces ==
    ASSUME TypeOK, Places, NEW t \in Thread, NewThread(t) \/ Fork(t),
           UNCHANGED <<queue, waitingThreads, waitingCV>>
    PROVE  Places'
<1>1. CASE NewThread(t)
  <2> USE DEF TypeOK, SchedTypeOK
  <2>1. OnePlace'
    BY <1>1, StayPlaces DEF NewThread, Places, OnePlace, StatusOK
  <2>2. CarcassIsDead'
    BY <1>1 DEF NewThread, Places, CarcassIsDead, Finished
  <2> QED BY <2>1, <2>2 DEF Places
<1>2. CASE Fork(t)
  <2>1. \A u \in Thread \ {t} : frame'[u] = frame[u]
    BY <1>2 DEF Fork, TypeOK, SchedTypeOK
  <2> QED BY <1>2, <2>1, ReadiedPlaces DEF Fork
<1> QED BY <1>1, <1>2

(* What Scheduler::Run changes, thread by thread: the next thread runs, the*)
(* carcass may be deleted, the others are as st says.                      *)
LEMMA RunEffect ==
    ASSUME TypeOK, NEW next \in Thread, NEW st \in [Thread -> ThreadStatus \cup {"FREE"}],
           Run(next, st)
    PROVE  /\ currentThread' = next
           /\ threadToBeDestroyed' \in {threadToBeDestroyed, NULL}
           /\ \A t \in Thread \ {next} : /\ frame'[t] = frame[t]
                                         /\ status'[t] = st[t] \/ (/\ status'[t] = "FREE"
                                                                  /\ t = threadToBeDestroyed
                                                                  /\ threadToBeDestroyed' = NULL)
           /\ status'[next] = "RUNNING"
BY DEF Run, TypeOK, SchedTypeOK

(* Thread::Yield: the first ready thread runs and the caller queues behind *)
(* the others.                                                             *)
LEMMA SwitchPlaces ==
    ASSUME TypeOK, Places, CpuBusy, SwitchAway,
           UNCHANGED <<queue, waitingThreads, waitingCV>>
    PROVE  Places'
<1> DEFINE next == Head(readyList)
           st == [status EXCEPT ![currentThread] = "READY"]
<1>1. /\ readyList \in Seq(Thread) /\ readyList # <<>>
      /\ readyList' = Append(Tail(readyList), currentThread)
      /\ Run(next, st)
      /\ status[currentThread] = "RUNNING"
      /\ currentThread \in Thread
      /\ status \in [Thread -> ThreadStatus \cup {"FREE"}]
  BY DEF SwitchAway, CpuBusy, TypeOK, SchedTypeOK
<1>2. next \in ReadySet /\ Lists(Tail(readyList), ReadySet \ {next}) /\ Tail(readyList) \in Seq(Thread)
  BY <1>1, ListsTail, SMT DEF Places, OnePlace, ReadyOK
<1>3. /\ next \in Thread /\ status[next] = "READY" /\ next # currentThread
      /\ st \in [Thread -> ThreadStatus \cup {"FREE"}]
      /\ st[currentThread] = "READY"
      /\ \A t \in Thread \ {currentThread} : st[t] = status[t]
  BY <1>1, <1>2 DEF ReadySet, ThreadStatus
<1>4. \A t \in Thread : t = threadToBeDestroyed => status[t] = "BLOCKED" /\ frame[t].op = "Finish"
  BY DEF Places, CarcassIsDead, Finished
<1> HIDE DEF next, st
<1>a. /\ currentThread' = next
      /\ threadToBeDestroyed' \in {threadToBeDestroyed, NULL}
      /\ \A t \in Thread \ {next} : /\ frame'[t] = frame[t]
                                    /\ status'[t] = st[t] \/ (/\ status'[t] = "FREE"
                                                             /\ t = threadToBeDestroyed
                                                             /\ threadToBeDestroyed' = NULL)
      /\ status'[next] = "RUNNING"
  BY <1>1, <1>3, RunEffect
<1>5. /\ currentThread' = next
      /\ threadToBeDestroyed' \in {threadToBeDestroyed, NULL}
      /\ status'[next] = "RUNNING" /\ status'[currentThread] = "READY"
      /\ \A t \in Thread \ {next} : frame'[t] = frame[t]
      /\ \A t \in Thread \ {next, currentThread} :
            status'[t] = status[t] \/ (/\ status'[t] = "FREE" /\ status[t] = "BLOCKED"
                                       /\ frame[t].op = "Finish" /\ threadToBeDestroyed' = NULL)
  BY <1>1, <1>3, <1>4, <1>a
<1>6. ReadySet' = (ReadySet \ {next}) \cup {currentThread}
  BY <1>1, <1>3, <1>5 DEF ReadySet
<1>b. \A x : /\ AsleepInP(x)' = AsleepInP(x)
            /\ AsleepInAcquire(x)' = AsleepInAcquire(x)
            /\ AsleepInWait(x)' = AsleepInWait(x)
  <2>1. \A t \in Thread, op \in {"P", "Acquire", "Wait"} :
            /\ (status'[t] = "BLOCKED" /\ frame'[t].op = op) <=> (status[t] = "BLOCKED" /\ frame[t].op = op)
            /\ status[t] = "BLOCKED" => frame'[t] = frame[t]
    BY <1>1, <1>3, <1>5
  <2> QED
    BY <2>1, SMT DEF AsleepInP, AsleepInAcquire, AsleepInWait
<1>7. ReadyOK'
  <2>1. currentThread \notin ReadySet \ {next}
    BY <1>1 DEF ReadySet
  <2> QED
    BY <1>1, <1>2, <1>6, <2>1, ListsAppend DEF ReadyOK
<1>8. SemQueuesOK' /\ LockQueuesOK' /\ CVQueuesOK'
  BY <1>b DEF Places, OnePlace, SemQueuesOK, LockQueuesOK, CVQueuesOK
<1>9. StatusOK'
  BY <1>3, <1>5, SMTT(30) DEF Places, OnePlace, StatusOK
<1>10. CarcassIsDead'
  BY <1>1, <1>3, <1>4, <1>5, SMT DEF Places, CarcassIsDead, Finished, TypeOK, SchedTypeOK
<1> QED
  BY <1>7, <1>8, <1>9, <1>10 DEF Places, OnePlace

(* Thread::Sleep: the first ready thread runs; nobody is RUNNING before.   *)
LEMMA DispatchPlaces ==
    ASSUME TypeOK, Places, Dispatch, UNCHANGED <<queue, waitingThreads, waitingCV>>
    PROVE  Places'
<1> DEFINE next == Head(readyList)
<1>1. /\ readyList \in Seq(Thread) /\ readyList # <<>>
      /\ readyList' = Tail(readyList)
      /\ Run(next, status)
      /\ status[currentThread] # "RUNNING"
      /\ status \in [Thread -> ThreadStatus \cup {"FREE"}]
  BY DEF Dispatch, Asleep, TypeOK, SchedTypeOK
<1>2. next \in ReadySet /\ Lists(Tail(readyList), ReadySet \ {next})
  BY <1>1, ListsTail DEF Places, OnePlace, ReadyOK
<1>3. next \in Thread /\ status[next] = "READY"
  BY <1>2 DEF ReadySet
<1>4. \A t \in Thread : t = threadToBeDestroyed => status[t] = "BLOCKED" /\ frame[t].op = "Finish"
  BY DEF Places, CarcassIsDead, Finished
<1> HIDE DEF next
<1>5. /\ currentThread' = next
      /\ threadToBeDestroyed' \in {threadToBeDestroyed, NULL}
      /\ \A t \in Thread \ {next} : /\ frame'[t] = frame[t]
                                    /\ status'[t] = status[t] \/ (/\ status'[t] = "FREE"
                                                                 /\ t = threadToBeDestroyed
                                                                 /\ threadToBeDestroyed' = NULL)
      /\ status'[next] = "RUNNING"
  BY <1>1, <1>3, RunEffect
<1>6. ReadySet' = ReadySet \ {next}
  BY <1>3, <1>4, <1>5 DEF ReadySet
<1>7. \A x : /\ AsleepInP(x)' = AsleepInP(x)
             /\ AsleepInAcquire(x)' = AsleepInAcquire(x)
             /\ AsleepInWait(x)' = AsleepInWait(x)
  <2>1. \A t \in Thread, op \in {"P", "Acquire", "Wait"} :
            /\ (status'[t] = "BLOCKED" /\ frame'[t].op = op) <=> (status[t] = "BLOCKED" /\ frame[t].op = op)
            /\ status[t] = "BLOCKED" => frame'[t] = frame[t]
    BY <1>3, <1>4, <1>5
  <2> QED
    BY <2>1, SMT DEF AsleepInP, AsleepInAcquire, AsleepInWait
<1>8. ReadyOK'
  BY <1>1, <1>2, <1>6 DEF ReadyOK
<1>9. SemQueuesOK' /\ LockQueuesOK' /\ CVQueuesOK'
  BY <1>7 DEF Places, OnePlace, SemQueuesOK, LockQueuesOK, CVQueuesOK
<1>10. StatusOK'
  BY <1>1, <1>3, <1>5 DEF Places, OnePlace, StatusOK
<1>11. CarcassIsDead'
  BY <1>3, <1>4, <1>5 DEF Places, CarcassIsDead, Finished, TypeOK, SchedTypeOK
<1> QED
  BY <1>8, <1>9, <1>10, <1>11 DEF Places, OnePlace

(* A step that moves nobody and changes at most currentThread's frame.     *)
LEMMA QuietPlaces ==
    ASSUME TypeOK, Places,
           \/ frame' = frame
           \/ status[currentThread] = "RUNNING" /\ \E f : frame' = [frame EXCEPT ![currentThread] = f],
           UNCHANGED <<currentThread, status, threadToBeDestroyed, readyList, queue,
                       waitingThreads, waitingCV>>
    PROVE  Places'
<1>1. \A t \in Thread : status[t] = "BLOCKED" => frame'[t] = frame[t]
  BY DEF TypeOK, SchedTypeOK
<1>2. OnePlace'
  BY <1>1, StayPlaces DEF Places, OnePlace, StatusOK
<1>3. CarcassIsDead'
  BY <1>1 DEF TypeOK, SchedTypeOK, Places, CarcassIsDead, Finished
<1> QED BY <1>2, <1>3 DEF Places

LEMMA FirstReady ==
    ASSUME TypeOK, Places, readyList # <<>>
    PROVE  Head(readyList) \in Thread /\ status[Head(readyList)] = "READY"
<1>1. readyList \in Seq(Thread) /\ Lists(readyList, ReadySet)
  BY DEF TypeOK, SchedTypeOK, Places, OnePlace, ReadyOK
<1>2. Head(readyList) \in ReadySet
  BY <1>1, ListsTail
<1> QED
  BY <1>2 DEF ReadySet

LEMMA SchedPlaces ==
    ASSUME TypeOK, Places, SchedNext, UNCHANGED <<queue, waitingThreads, waitingCV>>
    PROVE  Places'
<1>1. CASE UserInstruction
  BY <1>1, QuietPlaces DEF UserInstruction
<1> QED
  BY <1>1, ForkPlaces, SwitchPlaces, FinishPlaces, DispatchPlaces
  DEF SchedNext, Yield, TimeSlice, InCaller, Ticking

LEMMA NextPlaces == TypeOK /\ Places /\ [Next]_vars => Places'
<1> SUFFICES ASSUME TypeOK, Places, [Next]_vars PROVE Places'
  OBVIOUS
<1>1. CASE SchedStep
  <2>1. UNCHANGED <<queue, waitingThreads, waitingCV>> /\ SchedNext
    BY <1>1 DEF SchedStep, semVars, lockVars, cvVars
  <2> QED BY <2>1, SchedPlaces
<1>2. ASSUME NEW s \in Sem, P(s) PROVE Places'
  <2>1. CASE value[s] = 0
    <3>1. /\ frame' = [frame EXCEPT ![currentThread] = Frame("P", s, NULL)]
          /\ queue' = [queue EXCEPT ![s] = Append(@, currentThread)]
          /\ status[currentThread] = "RUNNING" /\ status' = Sleeping
          /\ UNCHANGED <<currentThread, readyList, waitingThreads, waitingCV, threadToBeDestroyed>>
      BY <1>2, <2>1 DEF P, InCaller, CpuBusy, SleepIn, cpuVars, lockVars, cvVars
    <3>2. /\ frame'[currentThread].op = "P" /\ frame'[currentThread].obj = s
          /\ \A t \in Thread \ {currentThread} : frame'[t] = frame[t]
      BY <3>1, EnterFrame
    <3> QED
      BY <3>1, <3>2, PSleepPlaces
  <2>2. CASE value[s] # 0
    BY <1>2, <2>2, QuietPlaces DEF P, cpuVars, lockVars, cvVars
  <2> QED BY <2>1, <2>2
<1>3. CASE PWoken
  <2>1. CASE value[frame[currentThread].obj] = 0
    BY <1>3, <2>1, PSleepPlaces
    DEF PWoken, CpuBusy, cpuVars, lockVars, cvVars, TypeOK, SchedTypeOK, FrameOK
  <2>2. CASE value[frame[currentThread].obj] # 0
    BY <1>3, <2>2, QuietPlaces DEF PWoken, CpuBusy, ReturnToCaller, cpuVars, lockVars, cvVars
  <2> QED BY <2>1, <2>2
<1>4. ASSUME NEW s \in Sem, V(s) \/ DeviceInterrupt(s) PROVE Places'
  BY <1>4, VPlaces
<1>5. ASSUME NEW s \in Sem, DeviceRequest(s) PROVE Places'
  BY <1>5, QuietPlaces DEF DeviceRequest, schedVars, semVars, lockVars, cvVars
<1>6. ASSUME NEW l \in Lock, Acquire(l) PROVE Places'
  <2>1. CASE CanTake(l)
    BY <1>6, <2>1, QuietPlaces DEF Acquire, TakeNow, cpuVars, semVars, cvVars
  <2>2. CASE ~CanTake(l)
    <3>1. /\ frame' = [frame EXCEPT ![currentThread] = Frame("Acquire", l, NULL)]
          /\ waitingThreads' = [waitingThreads EXCEPT ![l] = Append(@, currentThread)]
          /\ status[currentThread] = "RUNNING" /\ status' = Sleeping
          /\ UNCHANGED <<currentThread, readyList, queue, waitingCV, threadToBeDestroyed>>
      BY <1>6, <2>2 DEF Acquire, InCaller, CpuBusy, SleepIn, cpuVars, semVars, cvVars
    <3>2. /\ frame'[currentThread].op = "Acquire" /\ frame'[currentThread].obj = l
          /\ \A t \in Thread \ {currentThread} : frame'[t] = frame[t]
      BY <3>1, EnterFrame
    <3> QED
      BY <3>1, <3>2, AcquireSleepPlaces
  <2> QED BY <2>1, <2>2
<1>7. CASE AcquireWoken
  BY <1>7, QuietPlaces DEF AcquireWoken, CpuBusy, ReturnToCaller, cpuVars, semVars, lockVars, cvVars
<1>8. ASSUME NEW l \in Lock, Release(l) PROVE Places'
  BY <1>8, ReleasePlaces
<1>9. ASSUME NEW c \in CV, NEW l \in Lock, Wait(c, l) PROVE Places'
  BY <1>9, WaitPlaces
<1>10. CASE WaitWoken
  <2>1. frame[currentThread].obj \in Lock /\ status[currentThread] = "RUNNING"
    BY <1>10 DEF WaitWoken, CpuBusy, TypeOK, SchedTypeOK, FrameOK
  <2>2. CASE CanTake(frame[currentThread].obj)
    BY <1>10, <2>1, <2>2, QuietPlaces DEF WaitWoken, TakeNow, ReturnToCaller, cpuVars, semVars, cvVars
  <2>3. CASE ~CanTake(frame[currentThread].obj)
    <3> DEFINE l == frame[currentThread].obj
    <3>1. /\ frame' = [frame EXCEPT ![currentThread] = Frame("Acquire", l, NULL)]
          /\ waitingThreads' = [waitingThreads EXCEPT ![l] = Append(@, currentThread)]
          /\ status' = Sleeping
          /\ UNCHANGED <<currentThread, readyList, queue, waitingCV, threadToBeDestroyed>>
      BY <1>10, <2>3 DEF WaitWoken, cpuVars, semVars, cvVars
    <3> HIDE DEF l
    <3>2. l \in Lock
      BY <2>1 DEF l
    <3>3. /\ frame'[currentThread].op = "Acquire" /\ frame'[currentThread].obj = l
          /\ \A t \in Thread \ {currentThread} : frame'[t] = frame[t]
      BY <3>1, <3>2, EnterFrame
    <3> QED
      BY <2>1, <3>1, <3>2, <3>3, AcquireSleepPlaces
  <2> QED BY <2>2, <2>3
<1>11. CASE BroadcastSignal \/ \E c \in CV, l \in Lock : Signal(c, l)
  <2>1. PICK c \in CV, l \in Lock : DoSignal(c, l)
    BY <1>11 DEF BroadcastSignal, Signal, InBroadcast, CpuBusy, TypeOK, SchedTypeOK, FrameOK
  <2>2. UNCHANGED <<currentThread, frame, queue, waitingThreads, threadToBeDestroyed>>
    BY <1>11 DEF BroadcastSignal, Signal, cpuVars, semVars, lockVars
  <2> QED BY <2>1, <2>2, SignalPlaces
<1>12. CASE BroadcastDone \/ \E c \in CV, l \in Lock : Broadcast(c, l)
  BY <1>12, QuietPlaces DEF BroadcastDone, Broadcast, InBroadcast, InCaller, CpuBusy, cpuVars,
     synchVars, semVars, lockVars, cvVars
<1>13. CASE IdleHalt
  BY <1>13, QuietPlaces DEF IdleHalt, synchVars, semVars, lockVars, cvVars
<1>14. CASE UNCHANGED vars
  BY <1>14, QuietPlaces DEF vars, schedVars, synchVars, semVars, lockVars, cvVars
<1> QED
  BY <1>1, <1>2, <1>3, <1>4, <1>5, <1>6, <1>7, <1>8, <1>9, <1>10, <1>11, <1>12, <1>13, <1>14
  DEF Next, SemStep, LockStep, CVStep, BroadcastSpin, Halted

(* For any number of threads and objects: the scheduler and the queues of  *)
(* synch.cc hold every thread in exactly one place, and Scheduler::Run only*)
(* ever deletes a thread that has finished.                                *)
THEOREM ThreadsInOnePlace == Spec => [](OnePlace /\ CarcassIsDead)
<1>1. Spec => []Places
  BY TypeCorrect, InitPlaces, NextPlaces, PTL DEF Spec
<1> QED
  BY <1>1, PTL DEF Places

----------------------------------------------------------------------------
(* The theorems about locks need what Lock::Lock does not ensure: that the *)
(* owner field of a new lock is not by chance the address of a thread.     *)
CleanHeap == StaleOwner \cap Thread = {}

LEMMA InitLocks == CleanHeap /\ Init => LockConsistent
BY SMT DEF CleanHeap, Init, SchedInit, LockConsistent, Range, Awake, Plain, Frame

(* A step that leaves the locks alone and wakes nobody in Acquire.         *)
LEMMA LockStays ==
    ASSUME LockConsistent, UNCHANGED lockVars,
           \A t \in Thread : held'[t] \subseteq held[t],
           \A t \in Thread : Awake(t)' /\ frame'[t].op = "Acquire"
                             => Awake(t) /\ frame'[t] = frame[t]
    PROVE  LockConsistent'
BY SMT DEF LockConsistent, lockVars

(* Acquire, or the re-acquire of Wait, gets through.                       *)
LEMMA TakeLocks ==
    ASSUME TypeOK, LockConsistent, NEW l \in Lock, CanTake(l), TakeNow(l),
           \A t \in Thread : Awake(t)' /\ frame'[t].op = "Acquire"
                             => Awake(t) /\ frame'[t] = frame[t]
    PROVE  LockConsistent'
<1>1. /\ available \in [Lock -> BOOLEAN]
      /\ owner \in [Lock -> Thread \cup StaleOwner \cup {NULL}]
      /\ held \in [Thread -> SUBSET Lock]
      /\ currentThread \in Thread
  BY DEF TypeOK, SchedTypeOK, SynchTypeOK
<1>2. /\ waitingThreads' = waitingThreads
      /\ owner' = [owner EXCEPT ![l] = currentThread]
      /\ held' = [held EXCEPT ![currentThread] = @ \cup {l}]
      /\ available'[l] = FALSE
      /\ \A x \in Lock \ {l} : available'[x] = available[x]
  BY <1>1, SMT DEF TakeNow, Give, CanTake, LockConsistent
<1>3. owner[l] = currentThread \/ (owner[l] \notin Thread /\ waitingThreads[l] = <<>>)
  BY DEF CanTake, LockConsistent
<1>4. currentThread \notin Range(waitingThreads[l])
  BY <1>1, <1>3, SMT DEF LockConsistent, Range
<1> SUFFICES ASSUME NEW x \in Lock
             PROVE  /\ available'[x] => owner'[x] \notin Thread /\ waitingThreads'[x] = <<>>
                    /\ ~available'[x] => owner'[x] \in Thread \ Range(waitingThreads'[x])
                    /\ \A t \in Thread :
                        \/ x \in held'[t]
                        \/ Awake(t)' /\ frame'[t].op = "Acquire" /\ frame'[t].obj = x
                        => owner'[x] = t
  BY DEF LockConsistent
<1>5. CASE x = l
  <2>1. \A t \in Thread \ {currentThread} :
            ~(l \in held[t] \/ (Awake(t) /\ frame[t].op = "Acquire" /\ frame[t].obj = l))
    BY <1>3 DEF LockConsistent
  <2> QED
    BY <1>1, <1>2, <1>4, <1>5, <2>1
<1>6. CASE x # l
  BY <1>1, <1>2, <1>6, SMT DEF LockConsistent
<1> QED BY <1>5, <1>6

(* Acquire sleeps.                                                         *)
LEMMA SleepLocks ==
    ASSUME TypeOK, Places, LockConsistent, NEW l \in Lock, ~CanTake(l),
           waitingThreads' = [waitingThreads EXCEPT ![l] = Append(@, currentThread)],
           UNCHANGED <<available, owner, held>>,
           \A t \in Thread : Awake(t)' /\ frame'[t].op = "Acquire"
                             => Awake(t) /\ frame'[t] = frame[t],
           status[currentThread] = "RUNNING"
    PROVE  LockConsistent'
<1>1. /\ currentThread \in Thread
      /\ waitingThreads \in [Lock -> Seq(Thread)]
      /\ available \in [Lock -> BOOLEAN]
      /\ Lists(waitingThreads[l], AsleepInAcquire(l))
      /\ currentThread \notin AsleepInAcquire(l)
  BY DEF TypeOK, SchedTypeOK, SynchTypeOK, Places, OnePlace, LockQueuesOK, AsleepInAcquire
<1>2. Range(Append(waitingThreads[l], currentThread)) = Range(waitingThreads[l]) \cup {currentThread}
  BY <1>1, ListsAppend, SMT DEF Lists
<1>3. ~available[l] /\ owner[l] # currentThread
  BY DEF CanTake
<1>4. \A x \in Lock : /\ available[x] => waitingThreads'[x] = <<>>
                      /\ ~available[x] => owner[x] \notin Range(waitingThreads'[x])
  BY <1>1, <1>2, <1>3 DEF LockConsistent
<1> QED
  BY <1>4, SMT DEF LockConsistent

(* Release, by itself or within Wait: the lock passes to the first waiter, *)
(* who is the only thread woken.                                           *)
LEMMA PassLocks ==
    ASSUME TypeOK, Places, LockConsistent, NEW l \in Lock, owner[l] = currentThread, PassOn(l),
           Take(currentThread, l), frame[currentThread].op # "Acquire",
           \A t \in Thread : Awake(t)' /\ frame'[t].op = "Acquire"
                             => (Awake(t) \/ t = First(waitingThreads[l])) /\ frame'[t] = frame[t]
    PROVE  LockConsistent'
<1>1. /\ currentThread \in Thread
      /\ waitingThreads \in [Lock -> Seq(Thread)]
      /\ available \in [Lock -> BOOLEAN]
      /\ owner \in [Lock -> Thread \cup StaleOwner \cup {NULL}]
      /\ held \in [Thread -> SUBSET Lock]
  BY DEF TypeOK, SchedTypeOK, SynchTypeOK
<1>a. Lists(waitingThreads[l], AsleepInAcquire(l)) /\ waitingThreads[l] \in Seq(Thread)
  BY <1>1 DEF Places, OnePlace, LockQueuesOK
<1> DEFINE h == First(waitingThreads[l])
<1>2. ~available[l]
  BY <1>1 DEF LockConsistent
<1>3. /\ held' = [held EXCEPT ![currentThread] = @ \ {l}]
      /\ owner' = [owner EXCEPT ![l] = h]
      /\ waitingThreads' = [waitingThreads EXCEPT ![l] = Rest(@)]
      /\ available'[l] = (waitingThreads[l] = <<>>)
      /\ \A x \in Lock \ {l} : available'[x] = available[x]
  BY <1>1, <1>2 DEF PassOn, Take
<1>4. \A t \in Thread : /\ l \in held[t] => t = currentThread
                        /\ ~(Awake(t) /\ frame[t].op = "Acquire" /\ frame[t].obj = l)
  BY DEF LockConsistent
<1>5. /\ waitingThreads[l] = <<>> => h = NULL /\ Rest(waitingThreads[l]) = <<>>
      /\ waitingThreads[l] # <<>> => /\ h \in Thread \ Range(Rest(waitingThreads[l]))
                                     /\ frame[h].obj = l
  <2>1. CASE waitingThreads[l] = <<>>
    BY <2>1 DEF First, Rest
  <2>2. CASE waitingThreads[l] # <<>>
    <3>1. /\ h \in AsleepInAcquire(l)
          /\ Rest(waitingThreads[l]) = Tail(waitingThreads[l])
          /\ Lists(Tail(waitingThreads[l]), AsleepInAcquire(l) \ {h})
      BY <1>a, <2>2, ListsTail DEF First, Rest
    <3> QED
      BY <2>2, <3>1 DEF Lists, AsleepInAcquire
  <2> QED BY <2>1, <2>2
<1>6. \A t \in Thread : Awake(t)' /\ frame'[t].op = "Acquire"
                        => (Awake(t) \/ t = h) /\ frame'[t] = frame[t]
  OBVIOUS
<1> HIDE DEF h
<1> SUFFICES ASSUME NEW x \in Lock
             PROVE  /\ available'[x] => owner'[x] \notin Thread /\ waitingThreads'[x] = <<>>
                    /\ ~available'[x] => owner'[x] \in Thread \ Range(waitingThreads'[x])
                    /\ \A t \in Thread :
                        \/ x \in held'[t]
                        \/ Awake(t)' /\ frame'[t].op = "Acquire" /\ frame'[t].obj = x
                        => owner'[x] = t
  BY DEF LockConsistent
<1>7. CASE x = l
  <2>1. owner'[x] = h /\ waitingThreads'[x] = Rest(waitingThreads[l])
    BY <1>1, <1>3, <1>7
  <2>2. \A t \in Thread : x \notin held'[t]
    BY <1>1, <1>3, <1>4, <1>7
  <2>3. \A t \in Thread : Awake(t)' /\ frame'[t].op = "Acquire" /\ frame'[t].obj = x => t = h
    BY <1>4, <1>6, <1>7
  <2>4. CASE waitingThreads[l] = <<>>
    <3>1. available'[x] = TRUE
      BY <1>3, <1>7, <2>4
    <3> QED
      BY <1>5, <2>1, <2>2, <2>3, <2>4, <3>1
  <2>5. CASE waitingThreads[l] # <<>>
    <3>1. available'[x] = FALSE
      BY <1>3, <1>7, <2>5
    <3> QED
      BY <1>5, <2>1, <2>2, <2>3, <2>5, <3>1
  <2> QED BY <2>4, <2>5
<1>8. CASE x # l
  <2>1. /\ owner'[x] = owner[x] /\ waitingThreads'[x] = waitingThreads[x]
        /\ available'[x] = available[x]
        /\ \A t \in Thread : x \in held'[t] => x \in held[t]
    BY <1>1, <1>3, <1>8
  <2>2. \A t \in Thread : Awake(t)' /\ frame'[t].op = "Acquire" /\ frame'[t].obj = x
                          => Awake(t) /\ frame[t].op = "Acquire" /\ frame[t].obj = x
    BY <1>5, <1>6, <1>8, SMT
  <2> QED
    BY <2>1, <2>2, SMT DEF LockConsistent
<1> QED BY <1>7, <1>8

(* Waking the first thread of q wakes nobody else.                         *)
LEMMA WakeAwake ==
    ASSUME NEW q \in Seq(Thread), NEW st \in [Thread -> ThreadStatus \cup {"FREE"}],
           status' = Woken(q, st)
    PROVE  \A t \in Thread : Awake(t)' => st[t] \in {"READY", "RUNNING"} \/ t = First(q)
BY DEF Woken, First, Awake

(* The thread V or Signal wakes is not in Acquire, the one Release wakes is.*)
LEMMA FirstSleeper ==
    ASSUME TypeOK, Places
    PROVE  /\ \A s \in Sem : First(queue[s]) # NULL => frame[First(queue[s])].op = "P"
           /\ \A c \in CV : First(waitingCV[c]) # NULL => frame[First(waitingCV[c])].op = "Wait"
<1>1. ASSUME NEW s \in Sem, First(queue[s]) # NULL PROVE frame[First(queue[s])].op = "P"
  <2>1. queue[s] \in Seq(Thread) /\ Lists(queue[s], AsleepInP(s)) /\ queue[s] # <<>>
    BY <1>1 DEF TypeOK, SynchTypeOK, Places, OnePlace, SemQueuesOK, First
  <2>2. Head(queue[s]) \in AsleepInP(s)
    BY <2>1, ListsTail
  <2> QED
    BY <2>1, <2>2 DEF First, AsleepInP
<1>2. ASSUME NEW c \in CV, First(waitingCV[c]) # NULL PROVE frame[First(waitingCV[c])].op = "Wait"
  <2>1. waitingCV[c] \in Seq(Thread) /\ Lists(waitingCV[c], AsleepInWait(c)) /\ waitingCV[c] # <<>>
    BY <1>2 DEF TypeOK, SynchTypeOK, Places, OnePlace, CVQueuesOK, First
  <2>2. Head(waitingCV[c]) \in AsleepInWait(c)
    BY <2>1, ListsTail
  <2> QED
    BY <2>1, <2>2 DEF First, AsleepInWait
<1> QED BY <1>1, <1>2

(* The scheduler wakes nobody in Acquire.                                  *)
LEMMA SchedAwake ==
    ASSUME TypeOK, Places, SchedNext
    PROVE  \A t \in Thread : Awake(t)' /\ frame'[t].op = "Acquire" => Awake(t) /\ frame'[t] = frame[t]
<1> USE DEF TypeOK, SchedTypeOK, Awake
<1>1. ASSUME NEW t \in Thread, NewThread(t) \/ Fork(t)
      PROVE  \A u \in Thread : Awake(u)' /\ frame'[u].op = "Acquire" => Awake(u) /\ frame'[u] = frame[u]
  BY <1>1, PlainFrame DEF NewThread, Fork
<1>2. CASE Finish
  BY <1>2, PlainFrame DEF Finish, SleepIn
<1>3. CASE UserInstruction
  BY <1>3 DEF UserInstruction
<1>4. CASE CpuBusy /\ SwitchAway
  <2>1. Run(Head(readyList), [status EXCEPT ![currentThread] = "READY"])
    BY <1>4 DEF SwitchAway
  <2>2. status[Head(readyList)] = "READY" /\ Head(readyList) \in Thread
    BY <1>4, FirstReady DEF SwitchAway
  <2> QED
    BY <1>4, <2>1, <2>2, PlainFrame DEF Run, CpuBusy
<1>5. CASE Dispatch
  <2>1. Run(Head(readyList), status)
    BY <1>5 DEF Dispatch
  <2>2. status[Head(readyList)] = "READY" /\ Head(readyList) \in Thread
    BY <1>5, FirstReady DEF Dispatch
  <2> QED
    BY <2>1, <2>2, PlainFrame DEF Run
<1> QED
  BY <1>1, <1>2, <1>3, <1>4, <1>5 DEF SchedNext, Yield, TimeSlice, InCaller, Ticking

LEMMA SchedLocks ==
    ASSUME TypeOK, Places, LockConsistent, SchedStep PROVE LockConsistent'
<1>1. UNCHANGED lockVars /\ \A t \in Thread : held'[t] \subseteq held[t]
  BY DEF SchedStep, TypeOK, SynchTypeOK
<1>2. SchedNext
  BY DEF SchedStep
<1> QED
  BY <1>1, <1>2, SchedAwake, LockStays

(* One step per action: the actions on locks by the lemmas above, the      *)
(* others because they leave the locks alone.                              *)
LEMMA NextLocks == TypeOK /\ Places /\ LockConsistent /\ [Next]_vars => LockConsistent'
<1> SUFFICES ASSUME TypeOK, Places, LockConsistent, [Next]_vars PROVE LockConsistent'
  OBVIOUS
<1> DEFINE NoneWoken == \A t \in Thread : Awake(t)' /\ frame'[t].op = "Acquire"
                                          => Awake(t) /\ frame'[t] = frame[t]
<1>0. /\ currentThread \in Thread
      /\ status \in [Thread -> ThreadStatus \cup {"FREE"}]
      /\ frame \in [Thread -> FrameType]
      /\ held \in [Thread -> SUBSET Lock]
  BY DEF TypeOK, SchedTypeOK, SynchTypeOK
<1>1. ASSUME UNCHANGED <<status, frame>> PROVE NoneWoken
  BY <1>1 DEF Awake
<1>2. ASSUME status' \in {status, Sleeping}, NEW f, f.op # "Acquire" \/ status' = Sleeping,
             frame' = [frame EXCEPT ![currentThread] = f]
      PROVE  NoneWoken
  BY <1>0, <1>2 DEF Awake, Sleeping
<1>3. CASE SchedStep
  BY <1>3, SchedLocks
<1>4. ASSUME NEW s \in Sem, P(s) PROVE LockConsistent'
  <2>1. NoneWoken
    BY <1>1, <1>2, <1>4 DEF P, SleepIn
  <2> QED
    BY <1>4, <2>1, LockStays DEF P
<1>5. CASE PWoken
  <2>1. NoneWoken
    <3>1. CASE value[frame[currentThread].obj] = 0
      BY <1>0, <1>5, <3>1 DEF PWoken, Sleeping, Awake
    <3>2. CASE value[frame[currentThread].obj] # 0
      BY <1>0, <1>5, <3>2, PlainFrame DEF PWoken, ReturnToCaller, Awake
    <3> QED BY <3>1, <3>2
  <2> QED
    BY <1>5, <2>1, LockStays DEF PWoken
<1>6. ASSUME NEW s \in Sem, V(s) \/ DeviceInterrupt(s) PROVE LockConsistent'
  <2>1. UNCHANGED <<frame, lockVars, held>> /\ status' = Woken(queue[s], status)
    BY <1>6 DEF V, DeviceInterrupt, DoV
  <2>2. NoneWoken
    <3>1. queue[s] \in Seq(Thread)
      BY DEF TypeOK, SynchTypeOK
    <3>2. \A t \in Thread : Awake(t)' => status[t] \in {"READY", "RUNNING"} \/ t = First(queue[s])
      BY <1>0, <2>1, <3>1, WakeAwake
    <3>3. \A t \in Thread : t = First(queue[s]) => frame[t].op = "P"
      BY FirstSleeper
    <3> QED
      BY <2>1, <3>2, <3>3 DEF Awake
  <2> QED
    BY <2>1, <2>2, LockStays
<1>7. ASSUME NEW s \in Sem, DeviceRequest(s) PROVE LockConsistent'
  <2>1. UNCHANGED <<status, frame, lockVars, held>>
    BY <1>7 DEF DeviceRequest, schedVars
  <2> QED
    BY <1>1, <2>1, LockStays
<1>8. ASSUME NEW l \in Lock, Acquire(l) PROVE LockConsistent'
  <2>1. status[currentThread] = "RUNNING"
    BY <1>8 DEF Acquire, InCaller, CpuBusy
  <2>2. CASE CanTake(l)
    <3>1. TakeNow(l) /\ UNCHANGED <<status, frame>>
      BY <1>8, <2>2 DEF Acquire
    <3> QED
      BY <1>1, <2>2, <3>1, TakeLocks
  <2>3. CASE ~CanTake(l)
    <3>1. /\ waitingThreads' = [waitingThreads EXCEPT ![l] = Append(@, currentThread)]
          /\ status' = Sleeping
          /\ frame' = [frame EXCEPT ![currentThread] = Frame("Acquire", l, NULL)]
          /\ UNCHANGED <<available, owner, held>>
      BY <1>8, <2>3 DEF Acquire, SleepIn
    <3> QED
      BY <1>2, <2>1, <2>3, <3>1, SleepLocks
  <2> QED BY <2>2, <2>3
<1>9. CASE AcquireWoken
  <2>1. /\ status[currentThread] = "RUNNING" /\ frame[currentThread].op = "Acquire"
        /\ held' = [held EXCEPT ![currentThread] = @ \cup {frame[currentThread].obj}]
        /\ frame' = [frame EXCEPT ![currentThread] = Plain("run")]
        /\ UNCHANGED <<status, lockVars>>
    BY <1>9 DEF AcquireWoken, CpuBusy, Give, ReturnToCaller
  <2>2. frame[currentThread].obj \in Lock => owner[frame[currentThread].obj] = currentThread
    BY <1>0, <2>1 DEF LockConsistent, Awake
  <2>3. NoneWoken
    BY <1>2, <2>1, PlainFrame
  <2> QED
    BY <1>0, <2>1, <2>2, <2>3, SMT DEF LockConsistent, lockVars
<1>10. ASSUME NEW l \in Lock, Release(l) PROVE LockConsistent'
  <2>1. /\ owner[l] = currentThread /\ PassOn(l) /\ Take(currentThread, l)
        /\ frame[currentThread].op = "run" /\ frame' = frame
        /\ status' = Woken(waitingThreads[l], status)
        /\ waitingThreads[l] \in Seq(Thread)
    BY <1>10 DEF Release, InCaller, TypeOK, SynchTypeOK
  <2> QED
    BY <1>0, <2>1, WakeAwake, PassLocks DEF Awake
<1>11. ASSUME NEW c \in CV, NEW l \in Lock, Wait(c, l) PROVE LockConsistent'
  <2>1. /\ frame[currentThread].op = "run"
        /\ frame' = [frame EXCEPT ![currentThread] = Frame("Wait", l, c)]
    BY <1>11 DEF Wait, InCaller, SleepIn
  <2>2. Frame("Wait", l, c).op = "Wait"
    BY DEF Frame
  <2>3. CASE owner[l] = currentThread
    <3>1. /\ PassOn(l) /\ Take(currentThread, l)
          /\ status' = Woken(waitingThreads[l], Sleeping)
          /\ waitingThreads[l] \in Seq(Thread)
          /\ Sleeping \in [Thread -> ThreadStatus \cup {"FREE"}]
      BY <1>11, <2>3 DEF Wait, TypeOK, SynchTypeOK, SchedTypeOK, Sleeping, ThreadStatus
    <3>2. \A t \in Thread : Awake(t)' => Awake(t) \/ t = First(waitingThreads[l])
      <4>1. \A t \in Thread : Awake(t)' => Sleeping[t] \in {"READY", "RUNNING"}
                                          \/ t = First(waitingThreads[l])
        BY <3>1, WakeAwake
      <4>2. \A t \in Thread : Sleeping[t] \in {"READY", "RUNNING"} => Awake(t)
        BY <1>0 DEF Sleeping, Awake
      <4> QED
        BY <4>1, <4>2
    <3>3. \A t \in Thread : frame'[t].op = "Acquire" => frame'[t] = frame[t]
      BY <1>0, <2>1, <2>2
    <3> QED
      BY <2>1, <2>3, <3>1, <3>2, <3>3, PassLocks
  <2>4. CASE owner[l] # currentThread
    <3>1. status' = Sleeping /\ UNCHANGED <<lockVars, held>>
      BY <1>11, <2>4 DEF Wait
    <3> QED
      BY <1>2, <2>1, <3>1, LockStays
  <2> QED BY <2>3, <2>4
<1>12. CASE WaitWoken
  <2>0. /\ frame[currentThread].obj \in Lock /\ status[currentThread] = "RUNNING"
        /\ frame[currentThread].op = "Wait"
    BY <1>12 DEF WaitWoken, CpuBusy, TypeOK, SchedTypeOK, FrameOK
  <2>1. PICK l \in Lock : l = frame[currentThread].obj
    BY <2>0
  <2>2. CASE CanTake(l)
    <3>1. TakeNow(l) /\ status' = status /\ frame' = [frame EXCEPT ![currentThread] = Plain("run")]
      BY <1>12, <2>1, <2>2 DEF WaitWoken, ReturnToCaller
    <3>2. NoneWoken
      BY <1>2, <3>1, PlainFrame
    <3> QED
      BY <2>2, <3>1, <3>2, TakeLocks
  <2>3. CASE ~CanTake(l)
    <3>1. /\ waitingThreads' = [waitingThreads EXCEPT ![l] = Append(@, currentThread)]
          /\ status' = Sleeping
          /\ frame' = [frame EXCEPT ![currentThread] = Frame("Acquire", l, NULL)]
          /\ UNCHANGED <<available, owner, held>>
      BY <1>12, <2>1, <2>3 DEF WaitWoken
    <3> QED
      BY <1>2, <2>0, <2>3, <3>1, SleepLocks
  <2> QED BY <2>2, <2>3
<1>13. CASE BroadcastSignal \/ \E c \in CV, l \in Lock : Signal(c, l)
  <2>1. PICK c \in CV : status' = Woken(waitingCV[c], status)
    BY <1>13 DEF BroadcastSignal, Signal, DoSignal, InBroadcast, CpuBusy, TypeOK, SchedTypeOK, FrameOK
  <2>2. UNCHANGED <<frame, lockVars, held>>
    BY <1>13 DEF BroadcastSignal, Signal
  <2>3. NoneWoken
    <3>1. waitingCV[c] \in Seq(Thread)
      BY DEF TypeOK, SynchTypeOK
    <3>2. \A t \in Thread : Awake(t)' => status[t] \in {"READY", "RUNNING"} \/ t = First(waitingCV[c])
      BY <1>0, <2>1, <3>1, WakeAwake
    <3>3. \A t \in Thread : t = First(waitingCV[c]) => frame[t].op = "Wait"
      BY FirstSleeper
    <3> QED
      BY <2>2, <3>2, <3>3 DEF Awake
  <2> QED
    BY <2>2, <2>3, LockStays
<1>14. CASE BroadcastDone \/ \E c \in CV, l \in Lock : Broadcast(c, l)
  <2>1. UNCHANGED <<status, lockVars, held>>
    BY <1>14 DEF BroadcastDone, Broadcast, synchVars
  <2>2. PICK f : f.op # "Acquire" /\ frame' = [frame EXCEPT ![currentThread] = f]
    BY <1>14 DEF BroadcastDone, Broadcast, Plain, Frame
  <2> QED
    BY <1>2, <2>1, <2>2, LockStays
<1>15. CASE IdleHalt \/ UNCHANGED vars
  <2>1. UNCHANGED <<status, frame, lockVars, held>>
    BY <1>15 DEF IdleHalt, vars, schedVars, synchVars
  <2> QED
    BY <1>1, <2>1, LockStays
<1> QED
  BY <1>3, <1>4, <1>5, <1>6, <1>7, <1>8, <1>9, <1>10, <1>11, <1>12, <1>13, <1>14, <1>15
  DEF Next, SemStep, LockStep, CVStep, BroadcastSpin, Halted

(* For any number of threads, locks, conditions and semaphores, and whether*)
(* or not a timer preempts: if no new lock finds a thread's address in its *)
(* owner field, at most one thread at a time has been let through a lock's *)
(* Acquire (or Wait) and not yet released it.                              *)
THEOREM LocksExclude ==
    ASSUME CleanHeap PROVE Spec => [](LockConsistent /\ MutualExclusion)
<1>1. Init => LockConsistent
  BY InitLocks
<1>2. LockConsistent /\ TypeOK => MutualExclusion
  BY SMT DEF LockConsistent, MutualExclusion, TypeOK, SynchTypeOK
<1>3. Spec => []Places
  BY ThreadsInOnePlace, PTL DEF Places
<1> QED
  BY <1>1, <1>2, <1>3, TypeCorrect, NextLocks, PTL DEF Spec

----------------------------------------------------------------------------
(* Refinement: every step is a step of FifoLock's Next or leaves the       *)
(* abstract state alone.                                                   *)
LEMMA InitFifo == Init => Fifo!Init
BY DEF Init, SchedInit, Fifo!Init, Holder

(* Locks untouched: at most a context switch.                              *)
LEMMA FifoStays ==
    ASSUME TypeOK', UNCHANGED lockVars PROVE Fifo!Next
<1>1. Holder' = Holder /\ waitingThreads' = waitingThreads /\ currentThread' \in Thread
  BY DEF lockVars, Holder, TypeOK, SchedTypeOK
<1> QED
  BY <1>1 DEF Fifo!Next, Fifo!Switch

LEMMA FifoTakes ==
    ASSUME TypeOK, LockConsistent, NEW l \in Lock, CanTake(l), TakeNow(l), UNCHANGED currentThread
    PROVE  Fifo!Next
<1>0. /\ available \in [Lock -> BOOLEAN]
      /\ owner \in [Lock -> Thread \cup StaleOwner \cup {NULL}]
      /\ currentThread \in Thread
  BY DEF TypeOK, SchedTypeOK, SynchTypeOK
<1>1. waitingThreads' = waitingThreads
  BY DEF TakeNow
<1>2. CASE owner[l] = currentThread
  <2>1. available' = available /\ owner' = owner
    BY <1>0, <1>2 DEF TakeNow
  <2>2. Holder' = Holder
    BY <2>1 DEF Holder
  <2> QED
    BY <1>0, <1>1, <2>2 DEF Fifo!Next, Fifo!Switch
<1>3. CASE owner[l] # currentThread
  <2>1. /\ available[l]
        /\ available' = [available EXCEPT ![l] = FALSE]
        /\ owner' = [owner EXCEPT ![l] = currentThread]
    BY <1>3 DEF CanTake, TakeNow
  <2>2. Holder[l] = NULL /\ Holder' = [Holder EXCEPT ![l] = currentThread]
    BY <1>0, <2>1 DEF Holder
  <2>3. Fifo!Grab(l)
    BY <1>1, <2>2 DEF Fifo!Grab
  <2> QED
    BY <2>3 DEF Fifo!Next
<1> QED BY <1>2, <1>3

LEMMA FifoQueues ==
    ASSUME TypeOK, Places, LockConsistent, NEW l \in Lock, ~CanTake(l),
           waitingThreads' = [waitingThreads EXCEPT ![l] = Append(@, currentThread)],
           UNCHANGED <<currentThread, available, owner>>, status[currentThread] = "RUNNING"
    PROVE  Fifo!Next
<1>1. Holder' = Holder /\ Holder[l] = owner[l] /\ owner[l] \notin {NULL, currentThread}
  BY DEF Holder, CanTake, LockConsistent
<1>2. currentThread \notin Range(waitingThreads[l])
  BY DEF Places, OnePlace, LockQueuesOK, Lists, AsleepInAcquire
<1>3. Fifo!Queue(l)
  BY <1>1, <1>2 DEF Fifo!Queue, Range, Fifo!Range
<1> QED
  BY <1>3 DEF Fifo!Next

LEMMA FifoPasses ==
    ASSUME TypeOK, LockConsistent, NEW l \in Lock, owner[l] = currentThread, PassOn(l),
           UNCHANGED currentThread
    PROVE  Fifo!Next
<1>0. /\ available \in [Lock -> BOOLEAN]
      /\ owner \in [Lock -> Thread \cup StaleOwner \cup {NULL}]
      /\ waitingThreads \in [Lock -> Seq(Thread)]
      /\ currentThread \in Thread
  BY DEF TypeOK, SchedTypeOK, SynchTypeOK
<1>1. ~available[l] /\ Holder[l] = currentThread
  BY <1>0 DEF LockConsistent, Holder
<1>2. CASE waitingThreads[l] = <<>>
  <2>1. /\ available' = [available EXCEPT ![l] = TRUE]
        /\ waitingThreads' = waitingThreads
        /\ owner' = [owner EXCEPT ![l] = NULL]
    BY <1>0, <1>2 DEF PassOn, Rest, First
  <2>2. Holder' = [Holder EXCEPT ![l] = NULL]
    BY <1>0, <2>1 DEF Holder
  <2>3. Fifo!Pass(l)
    BY <1>1, <1>2, <2>1, <2>2 DEF Fifo!Pass
  <2> QED
    BY <2>3 DEF Fifo!Next
<1>3. CASE waitingThreads[l] # <<>>
  <2>1. /\ available' = available
        /\ waitingThreads' = [waitingThreads EXCEPT ![l] = Tail(@)]
        /\ owner' = [owner EXCEPT ![l] = Head(waitingThreads[l])]
    BY <1>0, <1>1, <1>3 DEF PassOn, Rest, First
  <2>2. Holder' = [Holder EXCEPT ![l] = Head(waitingThreads[l])]
    BY <1>0, <1>1, <2>1 DEF Holder
  <2>3. Fifo!Pass(l)
    BY <1>1, <1>3, <2>1, <2>2 DEF Fifo!Pass
  <2> QED
    BY <2>3 DEF Fifo!Next
<1> QED BY <1>2, <1>3

LEMMA StepFifo ==
    TypeOK /\ TypeOK' /\ Places /\ LockConsistent /\ [Next]_vars => [Fifo!Next]_(Fifo!lockState)
<1> SUFFICES ASSUME TypeOK, TypeOK', Places, LockConsistent, [Next]_vars PROVE Fifo!Next
  BY DEF Fifo!lockState
<1>1. CASE \E l \in Lock : Acquire(l)
  <2>1. PICK l \in Lock : Acquire(l)
    BY <1>1
  <2>2. currentThread' = currentThread /\ status[currentThread] = "RUNNING"
    BY <2>1 DEF Acquire, InCaller, CpuBusy, cpuVars
  <2>3. CASE CanTake(l)
    BY <2>1, <2>2, <2>3, FifoTakes DEF Acquire
  <2>4. CASE ~CanTake(l)
    BY <2>1, <2>2, <2>4, FifoQueues DEF Acquire
  <2> QED BY <2>3, <2>4
<1>2. CASE WaitWoken
  <2>1. PICK l \in Lock : l = frame[currentThread].obj
    BY <1>2 DEF WaitWoken, TypeOK, SchedTypeOK, FrameOK
  <2>2. currentThread' = currentThread /\ status[currentThread] = "RUNNING"
    BY <1>2 DEF WaitWoken, CpuBusy, cpuVars
  <2>3. CASE CanTake(l)
    BY <1>2, <2>1, <2>2, <2>3, FifoTakes DEF WaitWoken
  <2>4. CASE ~CanTake(l)
    BY <1>2, <2>1, <2>2, <2>4, FifoQueues, ZenonT(30) DEF WaitWoken
  <2> QED BY <2>3, <2>4
<1>3. CASE \E l \in Lock : Release(l)
  BY <1>3, FifoPasses DEF Release, cpuVars
<1>4. ASSUME NEW c \in CV, NEW l \in Lock, Wait(c, l) PROVE Fifo!Next
  <2>1. CASE owner[l] = currentThread
    BY <1>4, <2>1, FifoPasses DEF Wait, cpuVars
  <2>2. CASE owner[l] # currentThread
    BY <1>4, <2>2, FifoStays DEF Wait
  <2> QED BY <2>1, <2>2
<1>5. CASE SchedStep \/ SemStep \/ AcquireWoken
  <2>1. UNCHANGED lockVars
    BY <1>5 DEF SchedStep, SemStep, PWoken, P, V, DeviceRequest, DeviceInterrupt, AcquireWoken
  <2> QED BY <2>1, FifoStays
<1>6. CASE \/ BroadcastSignal \/ BroadcastDone \/ IdleHalt \/ UNCHANGED vars
           \/ \E c \in CV, l \in Lock : Signal(c, l) \/ Broadcast(c, l)
  <2>1. UNCHANGED lockVars
    BY <1>6 DEF BroadcastSignal, BroadcastDone, IdleHalt, Signal, Broadcast, vars, synchVars
  <2> QED BY <2>1, FifoStays
<1> QED
  BY <1>1, <1>2, <1>3, <1>4, <1>5, <1>6 DEF Next, LockStep, CVStep, BroadcastSpin, Halted

(* For any instance with a clean heap, the locks of synch.cc implement     *)
(* FifoLock: FREE or owned, handed over in arrival order, never barged.    *)
THEOREM LocksImplementFifo ==
    ASSUME CleanHeap PROVE Spec => LocksAreFifo
<1>1. Spec => []Places
  BY ThreadsInOnePlace, PTL DEF Places
<1>2. Spec => []LockConsistent
  BY LocksExclude, PTL
<1> QED
  BY <1>1, <1>2, TypeCorrect, InitFifo, StepFifo, PTL DEF Spec, LocksAreFifo, Fifo!Spec

----------------------------------------------------------------------------
(* Conditions and semaphores.  What a step does to the other threads: it   *)
(* leaves the frame of a sleeping thread alone, and it neither puts to     *)
(* sleep nor moves on a thread that a V has woken, unless that thread runs.*)
SleepersStay == \A t \in Thread : status[t] = "BLOCKED" => frame'[t] = frame[t]

WokenStay ==
    \A t \in Thread : Awake(t) /\ frame[t].op = "P" => Awake(t)' /\ frame'[t] = frame[t]

(* currentThread goes to sleep, or moves on, from a frame that is not P's. *)
LEMMA CallerStays ==
    ASSUME TypeOK, status[currentThread] = "RUNNING", frame[currentThread].op # "P",
           \A t \in Thread \ {currentThread} : frame'[t] = frame[t],
           \A t \in Thread \ {currentThread} : status'[t] = status[t] \/ status'[t] = "READY"
    PROVE  SleepersStay /\ WokenStay
BY DEF SleepersStay, WokenStay, Awake

(* Nobody but a sleeper changes status.                                    *)
LEMMA WakingStays ==
    ASSUME TypeOK, NEW q \in Seq(Thread), frame' = frame, status' = Woken(q, status)
    PROVE  SleepersStay /\ WokenStay
BY DEF SleepersStay, WokenStay, Awake, Woken, TypeOK, SchedTypeOK

LEMMA SchedStays ==
    ASSUME TypeOK, Places, SchedStep PROVE SleepersStay /\ WokenStay
<1> USE DEF TypeOK, SchedTypeOK
<1>1. ASSUME NEW t \in Thread, NewThread(t) \/ Fork(t) PROVE SleepersStay /\ WokenStay
  BY <1>1 DEF NewThread, Fork, SleepersStay, WokenStay, Awake
<1>2. CASE Finish
  <2>1. /\ status[currentThread] = "RUNNING" /\ frame[currentThread].op # "P"
        /\ status' = [status EXCEPT ![currentThread] = "BLOCKED"]
        /\ frame' = [frame EXCEPT ![currentThread] = Plain("Finish")]
    BY <1>2 DEF Finish, SleepIn, InCaller, CpuBusy
  <2> QED
    BY <2>1, CallerStays
<1>3. CASE UserInstruction
  BY <1>3 DEF UserInstruction, SleepersStay, WokenStay, Awake
<1>4. ASSUME NEW st, Run(Head(readyList), st), readyList # <<>>,
             \A t \in Thread : st[t] = status[t] \/ (status[t] = "RUNNING" /\ st[t] = "READY")
      PROVE  SleepersStay /\ WokenStay
  <2>1. status[Head(readyList)] = "READY" /\ Head(readyList) \in Thread
    BY <1>4, FirstReady
  <2>2. threadToBeDestroyed # NULL =>
            frame[threadToBeDestroyed].op = "Finish" /\ status[threadToBeDestroyed] = "BLOCKED"
    BY DEF Places, CarcassIsDead, Finished
  <2>3. \A t \in Thread : frame[t].op # "ThreadRoot" \/ t # Head(readyList) => frame'[t] = frame[t]
    BY <1>4, <2>1 DEF Run
  <2>4. SleepersStay
    BY <2>1, <2>3 DEF SleepersStay
  <2>5. ASSUME NEW t \in Thread, Awake(t), frame[t].op = "P" PROVE Awake(t)'
    <3>1. t # threadToBeDestroyed
      BY <2>2, <2>5
    <3>2. status'[t] \in {"RUNNING", st[t]}
      BY <1>4, <3>1 DEF Run
    <3> QED
      BY <1>4, <2>5, <3>2 DEF Awake
  <2> QED
    BY <2>3, <2>4, <2>5 DEF WokenStay
<1>5. CASE CpuBusy /\ SwitchAway
  <2>1. Run(Head(readyList), [status EXCEPT ![currentThread] = "READY"]) /\ readyList # <<>>
    BY <1>5 DEF SwitchAway
  <2>2. \A t \in Thread : \/ [status EXCEPT ![currentThread] = "READY"][t] = status[t]
                          \/ /\ status[t] = "RUNNING"
                             /\ [status EXCEPT ![currentThread] = "READY"][t] = "READY"
    BY <1>5 DEF CpuBusy
  <2> QED
    BY <1>4, <2>1, <2>2
<1>6. CASE Dispatch
  BY <1>4, <1>6 DEF Dispatch
<1> QED
  BY <1>1, <1>2, <1>3, <1>5, <1>6 DEF SchedStep, SchedNext, Yield, TimeSlice, InCaller, Ticking

(* One step per action; only PWoken moves a thread that a V has woken.     *)
LEMMA NextStays == TypeOK /\ Places /\ [Next]_vars => SleepersStay /\ (WokenStay \/ PWoken)
<1> SUFFICES ASSUME TypeOK, Places, [Next]_vars PROVE SleepersStay /\ (WokenStay \/ PWoken)
  OBVIOUS
<1>0. /\ currentThread \in Thread
      /\ status \in [Thread -> ThreadStatus \cup {"FREE"}]
      /\ frame \in [Thread -> FrameType]
  BY DEF TypeOK, SchedTypeOK
<1>1. ASSUME UNCHANGED <<status, frame>> PROVE SleepersStay /\ WokenStay
  BY <1>1 DEF SleepersStay, WokenStay, Awake
<1>2. ASSUME status' \in {status, Sleeping}, NEW f, frame' = [frame EXCEPT ![currentThread] = f],
             CpuBusy, frame[currentThread].op # "P"
      PROVE  SleepersStay /\ WokenStay
  BY <1>0, <1>2, CallerStays DEF CpuBusy, Sleeping
<1>3. CASE SchedStep
  BY <1>3, SchedStays
<1>4. ASSUME NEW s \in Sem, P(s) PROVE SleepersStay /\ WokenStay
  BY <1>1, <1>2, <1>4 DEF P, SleepIn, InCaller
<1>5. CASE PWoken
  BY <1>0, <1>5 DEF PWoken, CpuBusy, ReturnToCaller, SleepersStay
<1>6. ASSUME NEW s \in Sem, V(s) \/ DeviceInterrupt(s) PROVE SleepersStay /\ WokenStay
  <2>1. frame' = frame /\ status' = Woken(queue[s], status) /\ queue[s] \in Seq(Thread)
    BY <1>6 DEF V, DeviceInterrupt, DoV, TypeOK, SynchTypeOK
  <2> QED BY <2>1, WakingStays
<1>7. ASSUME NEW s \in Sem, DeviceRequest(s) PROVE SleepersStay /\ WokenStay
  BY <1>1, <1>7 DEF DeviceRequest, schedVars
<1>8. ASSUME NEW l \in Lock, Acquire(l) PROVE SleepersStay /\ WokenStay
  <2>1. CASE CanTake(l)
    BY <1>1, <1>8, <2>1 DEF Acquire
  <2>2. CASE ~CanTake(l)
    BY <1>2, <1>8, <2>2 DEF Acquire, SleepIn, InCaller
  <2> QED BY <2>1, <2>2
<1>9. CASE AcquireWoken
  BY <1>2, <1>9 DEF AcquireWoken, ReturnToCaller
<1>10. ASSUME NEW l \in Lock, Release(l) PROVE SleepersStay /\ WokenStay
  <2>1. frame' = frame /\ status' = Woken(waitingThreads[l], status) /\ waitingThreads[l] \in Seq(Thread)
    BY <1>10 DEF Release, TypeOK, SynchTypeOK
  <2> QED BY <2>1, WakingStays
<1>11. ASSUME NEW c \in CV, NEW l \in Lock, Wait(c, l) PROVE SleepersStay /\ WokenStay
  <2>1. /\ status[currentThread] = "RUNNING" /\ frame[currentThread].op # "P"
        /\ frame' = [frame EXCEPT ![currentThread] = Frame("Wait", l, c)]
        /\ status' \in {Sleeping, Woken(waitingThreads[l], Sleeping)}
    BY <1>11 DEF Wait, InCaller, CpuBusy, SleepIn
  <2>2. \A t \in Thread \ {currentThread} : status'[t] = status[t] \/ status'[t] = "READY"
    BY <1>0, <2>1 DEF Sleeping, Woken
  <2> QED
    BY <1>0, <2>1, <2>2, CallerStays
<1>12. CASE WaitWoken
  <2>1. CpuBusy /\ frame[currentThread].op # "P"
    BY <1>12 DEF WaitWoken
  <2>2. CASE CanTake(frame[currentThread].obj)
    BY <1>2, <1>12, <2>1, <2>2 DEF WaitWoken, ReturnToCaller
  <2>3. CASE ~CanTake(frame[currentThread].obj)
    BY <1>2, <1>12, <2>1, <2>3 DEF WaitWoken
  <2> QED BY <2>2, <2>3
<1>13. CASE BroadcastSignal \/ \E c \in CV, l \in Lock : Signal(c, l)
  <2>1. PICK c \in CV : status' = Woken(waitingCV[c], status)
    BY <1>13 DEF BroadcastSignal, Signal, DoSignal, InBroadcast, CpuBusy, TypeOK, SchedTypeOK, FrameOK
  <2>2. frame' = frame /\ waitingCV[c] \in Seq(Thread)
    BY <1>13 DEF BroadcastSignal, Signal, TypeOK, SynchTypeOK
  <2> QED BY <2>1, <2>2, WakingStays
<1>14. CASE BroadcastDone \/ \E c \in CV, l \in Lock : Broadcast(c, l)
  <2>1. CpuBusy /\ frame[currentThread].op # "P" /\ status' = status
    BY <1>14 DEF BroadcastDone, Broadcast, InBroadcast, InCaller
  <2>2. PICK f : frame' = [frame EXCEPT ![currentThread] = f]
    BY <1>14 DEF BroadcastDone, Broadcast
  <2> QED BY <1>2, <2>1, <2>2
<1>15. CASE IdleHalt \/ UNCHANGED vars
  BY <1>1, <1>15 DEF IdleHalt, vars, schedVars
<1> QED
  BY <1>3, <1>4, <1>5, <1>6, <1>7, <1>8, <1>9, <1>10, <1>11, <1>12, <1>13, <1>14, <1>15
  DEF Next, SemStep, LockStep, CVStep, BroadcastSpin, Halted

(* The steps of a condition: Wait binds it to the lock, the Signal that    *)
(* wakes the last waiter unbinds it; every other step leaves it alone.     *)
LEMMA StepCV ==
    ASSUME TypeOK, Places, Places', CVLockAgrees, [Next]_vars
    PROVE  CVLockAgrees'
<1>0. /\ currentThread \in Thread
      /\ frame \in [Thread -> FrameType]
      /\ waitingLock \in [CV -> Lock \cup {NULL}]
      /\ waitingCV \in [CV -> Seq(Thread)]
  BY DEF TypeOK, SchedTypeOK, SynchTypeOK
<1>1. SleepersStay
  BY NextStays
<1>a. \A c \in CV : Lists(waitingCV[c], AsleepInWait(c)) /\ Lists(waitingCV[c], AsleepInWait(c))'
  BY DEF Places, OnePlace, CVQueuesOK
<1>2. \A c \in CV : /\ AsleepInWait(c) = Range(waitingCV[c])
                    /\ AsleepInWait(c)' = Range(waitingCV'[c])
  BY <1>a DEF Lists
<1>3. ASSUME NEW c \in CV, waitingCV'[c] = waitingCV[c], waitingLock'[c] = waitingLock[c]
      PROVE  /\ waitingLock'[c] = NULL <=> waitingCV'[c] = <<>>
             /\ \A t \in AsleepInWait(c)' : frame'[t].obj = waitingLock'[c]
  <2>1. \A t \in AsleepInWait(c)' : t \in AsleepInWait(c) /\ frame'[t] = frame[t]
    <3>1. AsleepInWait(c)' = AsleepInWait(c)
      BY <1>2, <1>3
    <3> QED
      BY <1>1, <3>1 DEF SleepersStay, AsleepInWait
  <2> QED
    BY <1>3, <2>1 DEF CVLockAgrees
<1>4. CASE UNCHANGED cvVars
  BY <1>3, <1>4 DEF CVLockAgrees, cvVars
<1>5. ASSUME NEW c \in CV, NEW l \in Lock, Wait(c, l) PROVE CVLockAgrees'
  <2>1. /\ waitingLock[c] \in {NULL, l}
        /\ waitingLock' = [waitingLock EXCEPT ![c] = l]
        /\ waitingCV' = [waitingCV EXCEPT ![c] = Append(@, currentThread)]
        /\ frame' = [frame EXCEPT ![currentThread] = Frame("Wait", l, c)]
    BY <1>5 DEF Wait, SleepIn
  <2>2. waitingLock'[c] = l /\ waitingCV'[c] # <<>> /\ l # NULL
    BY <1>0, <2>1, SMT
  <2>3. AsleepInWait(c)' = AsleepInWait(c) \cup {currentThread}
    <3>1. currentThread \notin AsleepInWait(c) /\ waitingCV[c] \in Seq(Thread)
      BY <1>0, <1>5 DEF AsleepInWait, Wait, InCaller, CpuBusy
    <3>2. Lists(Append(waitingCV[c], currentThread), AsleepInWait(c) \cup {currentThread})
      BY <1>0, <1>a, <3>1, ListsAppend
    <3> QED
      BY <1>0, <1>2, <2>1, <3>2 DEF Lists
  <2>4. \A t \in AsleepInWait(c) : t # currentThread /\ frame'[t] = frame[t] /\ waitingLock[c] = l
    <3>1. status[currentThread] # "BLOCKED"
      BY <1>5 DEF Wait, InCaller, CpuBusy
    <3>2. ASSUME NEW t \in AsleepInWait(c) PROVE waitingLock[c] # NULL
      BY <1>2, <3>2, SMT DEF CVLockAgrees, Range
    <3> QED
      BY <1>1, <2>1, <3>1, <3>2 DEF SleepersStay, AsleepInWait
  <2>5. frame'[currentThread].obj = l
    BY <1>0, <2>1 DEF Frame
  <2>6. \A t \in AsleepInWait(c)' : frame'[t].obj = l
    BY <2>3, <2>4, <2>5, SMT DEF CVLockAgrees
  <2>7. \A x \in CV \ {c} : waitingCV'[x] = waitingCV[x] /\ waitingLock'[x] = waitingLock[x]
    BY <1>0, <2>1
  <2> QED
    BY <1>3, <2>2, <2>6, <2>7 DEF CVLockAgrees
<1>6. ASSUME NEW c \in CV, NEW l \in Lock, DoSignal(c, l), frame' = frame PROVE CVLockAgrees'
  <2>1. /\ waitingCV[c] # <<>> /\ waitingLock[c] = l
        /\ waitingCV' = [waitingCV EXCEPT ![c] = Tail(@)]
        /\ waitingLock' = [waitingLock EXCEPT ![c] = IF Len(waitingCV[c]) = 1 THEN NULL ELSE @]
    BY <1>6 DEF DoSignal
  <2>2. waitingCV[c] \in Seq(Thread) /\ waitingCV'[c] = Tail(waitingCV[c])
    BY <1>0, <2>1
  <2>3. waitingCV'[c] = <<>> <=> Len(waitingCV[c]) = 1
    <3>1. Len(waitingCV[c]) \in Nat \ {0} /\ Len(Tail(waitingCV[c])) = Len(waitingCV[c]) - 1
      BY <2>1, <2>2, SMT
    <3>2. Tail(waitingCV[c]) \in Seq(Thread)
      BY <2>1, <2>2, SMT
    <3>3. Tail(waitingCV[c]) = <<>> <=> Len(Tail(waitingCV[c])) = 0
      BY <3>2, EmptyList
    <3> QED
      BY <2>2, <3>1, <3>3, SMT
  <2>4. waitingLock'[c] = NULL <=> waitingCV'[c] = <<>>
    BY <1>0, <2>1, <2>3
  <2>5. AsleepInWait(c)' \subseteq AsleepInWait(c)
    <3>1. Lists(Tail(waitingCV[c]), AsleepInWait(c) \ {Head(waitingCV[c])})
      BY <1>a, <2>1, <2>2, ListsTail
    <3> QED
      BY <1>2, <2>2, <3>1 DEF Lists
  <2>6. ASSUME NEW t \in AsleepInWait(c)' PROVE frame'[t].obj = waitingLock'[c]
    <3>1. waitingCV'[c] # <<>>
      BY <1>2, <2>6, SMT DEF Range
    <3>2. waitingLock'[c] = waitingLock[c]
      BY <1>0, <2>1, <2>3, <3>1
    <3> QED
      BY <1>6, <2>5, <2>6, <3>2 DEF CVLockAgrees
  <2>7. \A x \in CV \ {c} : waitingCV'[x] = waitingCV[x] /\ waitingLock'[x] = waitingLock[x]
    BY <1>0, <2>1
  <2> QED
    BY <1>3, <2>4, <2>6, <2>7 DEF CVLockAgrees
<1>7. CASE BroadcastSignal
  BY <1>6, <1>7 DEF BroadcastSignal, InBroadcast, CpuBusy, TypeOK, SchedTypeOK, FrameOK
<1>8. CASE \E c \in CV, l \in Lock : Signal(c, l)
  BY <1>6, <1>8 DEF Signal
<1>9. CASE SchedStep \/ SemStep \/ LockStep \/ WaitWoken
  <2>1. UNCHANGED cvVars
    BY <1>9 DEF SchedStep, SemStep, PWoken, P, V, DeviceRequest, DeviceInterrupt, LockStep,
       AcquireWoken, Acquire, Release, WaitWoken
  <2> QED BY <1>4, <2>1
<1>10. CASE \/ BroadcastDone \/ IdleHalt \/ UNCHANGED vars
            \/ \E c \in CV, l \in Lock : Broadcast(c, l)
  BY <1>4, <1>10 DEF BroadcastDone, IdleHalt, Broadcast, vars, synchVars
<1> QED
  BY <1>5, <1>7, <1>8, <1>9, <1>10 DEF Next, CVStep, BroadcastSpin, Halted

(* For any number of threads, locks and conditions: a condition is bound to*)
(* a lock exactly while somebody waits, and to the one its waiters gave up.*)
THEOREM ConditionsKeepTheirLock == Spec => []CVLockAgrees
<1>1. Init => CVLockAgrees
  BY DEF Init, SchedInit, CVLockAgrees, AsleepInWait
<1>2. Spec => []Places
  BY ThreadsInOnePlace, PTL DEF Places
<1> QED
  BY <1>1, <1>2, TypeCorrect, StepCV, PTL DEF Spec

(* The woken threads are counted, so their number can be compared.         *)
LEMMA WokenFinite ==
    ASSUME NEW s
    PROVE  WokenInP(s) \subseteq Thread /\ IsFiniteSet(WokenInP(s)) /\ Cardinality(WokenInP(s)) \in Nat
<1>1. WokenInP(s) \subseteq Thread
  BY DEF WokenInP
<1> QED
  BY <1>1, FS_Subset, FS_CardinalityType

(* A semaphore that is not worked on keeps its balance.                    *)
LEMMA BalanceStays ==
    ASSUME TypeOK, NoLostWakeup, NEW s \in Sem, WokenInP(s) \subseteq WokenInP(s)',
           IsFiniteSet(WokenInP(s)'), queue'[s] = queue[s], value'[s] = value[s]
    PROVE  queue'[s] # <<>> => value'[s] <= Cardinality(WokenInP(s)')
<1>1. Cardinality(WokenInP(s)) <= Cardinality(WokenInP(s)')
  BY FS_Subset
<1>2. Cardinality(WokenInP(s)) \in Nat /\ Cardinality(WokenInP(s)') \in Nat /\ value[s] \in Nat
  BY WokenFinite, FS_CardinalityType DEF TypeOK, SynchTypeOK
<1> QED
  BY <1>1, <1>2, SMT DEF NoLostWakeup

(* V adds one unit and one woken thread, P takes one unit and no woken     *)
(* thread, and a woken thread that goes through P takes one unit with it.  *)
LEMMA StepWakeups ==
    ASSUME TypeOK, Places, NoLostWakeup, [Next]_vars
    PROVE  NoLostWakeup'
<1>0. /\ currentThread \in Thread
      /\ status \in [Thread -> ThreadStatus \cup {"FREE"}]
      /\ frame \in [Thread -> FrameType]
      /\ value \in [Sem -> Nat]
      /\ queue \in [Sem -> Seq(Thread)]
  BY DEF TypeOK, SchedTypeOK, SynchTypeOK
<1>1. \A s \in Sem : WokenInP(s)' \subseteq Thread /\ IsFiniteSet(WokenInP(s)')
                     /\ Cardinality(WokenInP(s)') \in Nat
  <2>1. \A s \in Sem : WokenInP(s)' \subseteq Thread
    BY DEF WokenInP
  <2> QED
    BY <2>1, FS_Subset, FS_CardinalityType
<1>2. ASSUME WokenStay, NEW s \in Sem PROVE WokenInP(s) \subseteq WokenInP(s)'
  BY <1>2 DEF WokenStay, WokenInP
<1>3. ASSUME NEW s \in Sem, queue'[s] = queue[s], value'[s] = value[s],
             WokenInP(s) \subseteq WokenInP(s)'
      PROVE  queue'[s] # <<>> => value'[s] <= Cardinality(WokenInP(s)')
  BY <1>1, <1>3, BalanceStays
<1>4. CASE WokenStay /\ UNCHANGED semVars
  BY <1>2, <1>3, <1>4 DEF NoLostWakeup, semVars
<1>5. ASSUME NEW s \in Sem, P(s), WokenStay PROVE NoLostWakeup'
  <2>1. CASE value[s] = 0
    <3>1. value' = value /\ queue' = [queue EXCEPT ![s] = Append(@, currentThread)]
      BY <1>5, <2>1 DEF P
    <3>2. \A x \in Sem \ {s} : queue'[x] = queue[x] /\ value'[x] = value[x]
      BY <1>0, <3>1
    <3>3. value'[s] <= Cardinality(WokenInP(s)')
      BY <1>1, <2>1, <3>1, SMT
    <3> QED
      BY <1>2, <1>3, <1>5, <3>2, <3>3 DEF NoLostWakeup
  <2>2. CASE value[s] # 0
    <3>1. UNCHANGED <<queue, status, frame>> /\ value' = [value EXCEPT ![s] = @ - 1]
      BY <1>5, <2>2 DEF P
    <3>2. \A x \in Sem : WokenInP(x)' = WokenInP(x)
      BY <3>1 DEF WokenInP, Awake
    <3>3. \A x \in Sem : value'[x] <= value[x]
      BY <1>0, <2>2, <3>1, SMT
    <3>4. \A x \in Sem : value'[x] \in Nat
      BY <1>0, <2>2, <3>1, SMT
    <3> QED
      BY <1>0, <1>1, <3>1, <3>2, <3>3, <3>4, SMT DEF NoLostWakeup
  <2> QED BY <2>1, <2>2
<1>6. CASE PWoken
  <2>1. PICK s \in Sem : s = frame[currentThread].obj
    BY <1>6 DEF PWoken, TypeOK, FrameOK, SchedTypeOK
  <2>2. status[currentThread] = "RUNNING" /\ frame[currentThread].op = "P"
    BY <1>6 DEF PWoken, CpuBusy
  <2>3. \A t \in Thread \ {currentThread} : status'[t] = status[t] /\ frame'[t] = frame[t]
    BY <1>0, <1>6 DEF PWoken, Sleeping, ReturnToCaller
  <2>4. \A x \in Sem : WokenInP(x) \ {currentThread} \subseteq WokenInP(x)'
    BY <2>3 DEF WokenInP, Awake
  <2>5. \A x \in Sem \ {s} : currentThread \notin WokenInP(x)
    BY <2>1 DEF WokenInP
  <2>6. CASE value[s] = 0
    <3>1. value' = value /\ queue' = [queue EXCEPT ![s] = Append(@, currentThread)]
      BY <1>6, <2>1, <2>6 DEF PWoken
    <3>2. \A x \in Sem \ {s} : queue'[x] = queue[x] /\ value'[x] = value[x]
      BY <1>0, <3>1
    <3>3. value'[s] <= Cardinality(WokenInP(s)')
      BY <1>1, <2>6, <3>1, SMT
    <3> QED
      BY <1>3, <2>4, <2>5, <3>2, <3>3 DEF NoLostWakeup
  <2>7. CASE value[s] # 0
    <3>1. queue' = queue /\ value' = [value EXCEPT ![s] = @ - 1]
      BY <1>6, <2>1, <2>7 DEF PWoken
    <3>2. \A x \in Sem \ {s} : queue'[x] = queue[x] /\ value'[x] = value[x]
      BY <1>0, <3>1
    <3>3. currentThread \in WokenInP(s)
      BY <1>0, <2>1, <2>2 DEF WokenInP, Awake
    <3>4. Cardinality(WokenInP(s)) - 1 <= Cardinality(WokenInP(s)')
      <4>1. Cardinality(WokenInP(s) \ {currentThread}) = Cardinality(WokenInP(s)) - 1
        BY <3>3, WokenFinite, FS_RemoveElement
      <4> QED
        BY <1>1, <2>4, <4>1, FS_Subset, SMT
    <3>5. queue'[s] # <<>> => value'[s] <= Cardinality(WokenInP(s)')
      BY <1>0, <1>1, <2>7, <3>1, <3>4, WokenFinite, SMT DEF NoLostWakeup
    <3> QED
      BY <1>3, <2>4, <2>5, <3>2, <3>5 DEF NoLostWakeup
  <2> QED BY <2>6, <2>7
<1>7. ASSUME NEW s \in Sem, DoV(s), frame' = frame, WokenStay PROVE NoLostWakeup'
  <2>1. /\ status' = Woken(queue[s], status)
        /\ queue' = [queue EXCEPT ![s] = Rest(@)]
        /\ value' = [value EXCEPT ![s] = @ + 1]
    BY <1>7 DEF DoV
  <2>2. \A x \in Sem \ {s} : queue'[x] = queue[x] /\ value'[x] = value[x]
    BY <1>0, <2>1
  <2>3. CASE queue[s] = <<>>
    <3>1. queue'[s] = <<>>
      BY <1>0, <2>1, <2>3 DEF Rest
    <3> QED
      BY <1>2, <1>3, <1>7, <2>2, <3>1 DEF NoLostWakeup
  <2>4. CASE queue[s] # <<>>
    <3> DEFINE h == Head(queue[s])
    <3>1. h \in AsleepInP(s)
      BY <1>0, <2>4, ListsTail DEF Places, OnePlace, SemQueuesOK
    <3>2. h \notin WokenInP(s) /\ h \in Thread
      BY <3>1 DEF AsleepInP, WokenInP, Awake
    <3>3. h \in WokenInP(s)'
      BY <1>0, <1>7, <2>1, <2>4, <3>1 DEF AsleepInP, WokenInP, Awake, Woken
    <3> HIDE DEF h
    <3>4. Cardinality(WokenInP(s)) + 1 <= Cardinality(WokenInP(s)')
      <4>1. WokenInP(s) \cup {h} \subseteq WokenInP(s)'
        BY <1>2, <1>7, <3>3
      <4>2. Cardinality(WokenInP(s) \cup {h}) = Cardinality(WokenInP(s)) + 1
        BY <3>2, WokenFinite, FS_AddElement
      <4> QED
        BY <1>1, <4>1, <4>2, FS_Subset, SMT
    <3>5. value'[s] <= Cardinality(WokenInP(s)')
      BY <1>0, <1>1, <2>1, <2>4, <3>4, WokenFinite, SMT DEF NoLostWakeup
    <3> QED
      BY <1>2, <1>3, <1>7, <2>2, <3>5 DEF NoLostWakeup
  <2> QED BY <2>3, <2>4
<1>8. PWoken \/ WokenStay
  BY NextStays
<1>9. \/ UNCHANGED semVars
      \/ PWoken
      \/ \E s \in Sem : P(s) \/ (DoV(s) /\ frame' = frame)
  <2>1. CASE SchedStep \/ LockStep \/ WaitWoken
    BY <2>1 DEF SchedStep, LockStep, AcquireWoken, Acquire, Release, WaitWoken
  <2>2. CASE SemStep
    BY <2>2 DEF SemStep, V, DeviceRequest, DeviceInterrupt
  <2>3. CASE \/ BroadcastSignal \/ BroadcastDone \/ IdleHalt \/ UNCHANGED vars
             \/ \E c \in CV, l \in Lock : Wait(c, l) \/ Signal(c, l) \/ Broadcast(c, l)
    BY <2>3 DEF BroadcastSignal, BroadcastDone, IdleHalt, Wait, Signal, Broadcast, vars, synchVars
  <2> QED
    BY <2>1, <2>2, <2>3 DEF Next, CVStep, BroadcastSpin, Halted
<1> QED
  BY <1>4, <1>5, <1>6, <1>7, <1>8, <1>9

(* For any number of threads and semaphores, any initial values and any    *)
(* sequence of P, V, device completions and context switches: while a      *)
(* thread is queued in P, every unit of the value has a woken thread on its*)
(* way to it.  V wakes at most one thread and P tests the value again, and *)
(* that is enough.                                                         *)
THEOREM WakeupsAreNotLost == Spec => []NoLostWakeup
<1>1. Init => NoLostWakeup
  BY DEF Init, NoLostWakeup
<1>2. Spec => []Places
  BY ThreadsInOnePlace, PTL DEF Places
<1> QED
  BY <1>1, <1>2, TypeCorrect, StepWakeups, PTL DEF Spec
============================================================================
