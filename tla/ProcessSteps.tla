---------------------------- MODULE ProcessSteps ----------------------------
(***************************************************************************)
(* The inductive invariant of module Process, the steps the module can take*)
(* as seen by the process table and the threads' calls, and the first part *)
(* of the invariant: the kernel below, the lives of the threads, and their *)
(* user contexts.                                                          *)
(***************************************************************************)
EXTENDS Process, SynchProofs

USE Zenon
USE ProcessAssumption DEF ProcessAssumption

----------------------------------------------------------------------------
(* The inductive invariant.                                                *)
CallOps == {"Start", "Exec", "Fork", "Exit", "newProcess", "kernelRun", "user", "gone"}

CallPcs == {"load", "put", "find", "store", "fork", "get", "unlock", "remove", "clear",
            "finish", "start", "user", "gone"}

CallType ==
    [op : CallOps, pc : CallPcs, new : Thread \cup {NULL}, slot : Slot \cup {-1}]

Entry == {Junk} \cup [activeThreadCount : Int, inactiveThreadCount : Nat]

IsSequence(q) == \E S : q \in Seq(S)

ProcessTypes ==
    /\ map \subseteq Slot /\ table \in [Slot -> Entry]
    /\ space \in [Thread -> Nat] /\ pid \in [Thread -> Int]
    /\ IsSequence(pageTables)
    /\ userRegisters \in [Thread -> Thread] /\ regs \in Thread
    /\ call \in [Thread -> CallType] /\ astray \in BOOLEAN

(* A thread that has begun to execute, and one whose code is still to run. *)
Begun(t) == call[t].op \in {"Start", "user", "Exec", "Fork", "Exit"}

Unborn(t) == call[t] = Gone \/ call[t].op \in {"newProcess", "kernelRun"}

(* Where a thread is in its life, as the handlers and as Thread see it.    *)
Lives ==
    \A t \in Thread :
        /\ status[t] = "FREE" => call[t] = Gone
        /\ status[t] = "JUST_CREATED" => Unborn(t)
        /\ frame[t].op = "Finish" => call[t] = Gone \/ status[t] = "JUST_CREATED"
        /\ Begun(t) => frame[t].op # "ThreadRoot"

(* t has made a thread and not passed it to Thread::Fork yet.              *)
Holding(t) ==
    call[t].op \in {"Exec", "Fork"} /\ call[t].pc \in {"put", "find", "store", "fork"}

(* It is that of no other call, and Exec has given it an address space.    *)
Children ==
    \A t \in Thread : Holding(t) =>
        /\ call[t].new \in Thread /\ status[call[t].new] = "JUST_CREATED"
        /\ call[t].op = "Exec" /\ call[t].pc # "fork" =>
                call[call[t].new] = Gone /\ space[call[t].new] # 0
        /\ \A u \in Thread \ {t} : Holding(u) => call[u].new # call[t].new

(* Between the Release in Table::Put and the store, interrupts are off.    *)
Poised ==
    \A t \in Thread : call[t].pc = "store" =>
        t = currentThread /\ CpuBusy /\ frame[t].op = "run" /\ level = "IntOff"

Marks ==
    /\ \A i \in Slot \ map : table[i] = Junk
    /\ \A i \in map : table[i] = Junk <=> Here.pc = "store" /\ Here.slot = i
    /\ Here.pc = "store" => Here.slot \in map \cup {-1}

(* The user context of each thread that has set it up is in the CPU or,    *)
(* for the others, saved.                                                  *)
Contexts ==
    \A t \in Thread :
        /\ call[t].op \in {"user", "Exec", "Fork", "Exit", "newProcess", "kernelRun"} => space[t] # 0
        /\ call[t].op = "Start" /\ call[t].pc # "load" => space[t] # 0
        /\ call[t].op \in {"user", "Exec", "Fork", "Exit"} =>
                IF t = currentThread THEN regs = t /\ pageTable = space[t]
                                     ELSE userRegisters[t] = t

(* Until the main thread has started its program there is no other thread. *)
FirstProcess ==
    \A m \in Thread : call[m].op = "Start" =>
        /\ m = Main
        /\ \A t \in Thread \ {m} : call[t] = Gone
        /\ call[m].pc # "store" => map = {}
        /\ call[m].pc = "store" => call[m].slot = 0

Members(i) == {t \in Thread : Member(t, i)}

(* The last thread of a process stays the only one while it removes it.    *)
LastOut ==
    \A t \in Thread :
        call[t].op = "Exit" /\ call[t].pc \in {"remove", "clear"} => Members(pid[t]) = {t}

Counts == ThreadCounts /\ (~astray => LastOut /\ (call[Main].op = "Start" => pid[Main] = 0))

KernelOK == TypeOK /\ Places

IInv ==
    /\ KernelOK /\ ProcessTypes /\ Lives /\ Children
    /\ Poised /\ Marks /\ Contexts /\ FirstProcess /\ Counts

----------------------------------------------------------------------------
(* The kernel.  A step of Process is a step of Synch, a step of the        *)
(* scheduler, or one of the few things the handlers do to the kernel       *)
(* themselves: create a thread, leave interrupts off, halt.                *)
Outside ==
    /\ UNCHANGED <<currentThread, frame, saved, readyList, machineStatus,
                   threadToBeDestroyed, synchVars>>
    /\ level' \in Level /\ halted' \in BOOLEAN
    /\ status' = status \/ \E t \in Thread : Create(t)

LEMMA OutsideKernel == ASSUME KernelOK, Outside PROVE KernelOK'
<1>0. TypeOK /\ Places
  BY DEF KernelOK
<1>1. status' \in [Thread -> ThreadStatus \cup {"FREE"}]
  BY <1>0 DEF Outside, Create, TypeOK, SchedTypeOK, ThreadStatus
<1>2. TypeOK'
  BY <1>0, <1>1 DEF Outside, TypeOK, SchedTypeOK, FrameOK, SynchTypeOK, synchVars, semVars, lockVars, cvVars
<1>3. \A t \in Thread : /\ status'[t] = status[t]
                           \/ (status[t] = "FREE" /\ status'[t] = "JUST_CREATED")
  BY <1>0 DEF Outside, Create, TypeOK, SchedTypeOK
<1>4. UNCHANGED <<currentThread, frame, readyList, queue, waitingThreads, waitingCV, threadToBeDestroyed>>
  BY DEF Outside, synchVars, semVars, lockVars, cvVars
<1>5. OnePlace'
  BY <1>0, <1>3, <1>4, StayPlaces DEF Places, OnePlace, StatusOK
<1>6. CarcassIsDead'
  BY <1>0, <1>3, <1>4 DEF Places, CarcassIsDead, Finished, TypeOK, SchedTypeOK
<1> QED
  BY <1>2, <1>5, <1>6 DEF KernelOK, Places

LEMMA SchedKernel ==
    ASSUME KernelOK, SchedNext, UNCHANGED synchVars PROVE KernelOK'
<1>1. SynchTypeOK'
  BY DEF KernelOK, TypeOK, SynchTypeOK, synchVars, semVars, lockVars, cvVars
<1>2. UNCHANGED <<queue, waitingThreads, waitingCV>>
  BY DEF synchVars, semVars, lockVars, cvVars
<1> QED
  BY <1>1, <1>2, SchedType, SchedPlaces DEF KernelOK

LEMMA StepKinds ==
    ASSUME KernelOK, Children, [Next_Process]_allVars
    PROVE  [Next]_vars \/ Outside \/ (SchedNext /\ UNCHANGED synchVars)
<1>0. /\ syscallLock \in Lock /\ tableLock \in Lock /\ level \in Level /\ halted \in BOOLEAN
      /\ currentThread \in Thread
  BY DEF KernelOK, TypeOK, SchedTypeOK
<1>1. ASSUME NEW l \in Lock, Acquire(l) \/ Release(l) PROVE Next
  BY <1>1 DEF Next, LockStep
<1>2. ASSUME NEW n, LoadFails(n) PROVE Outside
  BY <1>0, <1>2 DEF LoadFails, Outside
<1>3. ASSUME NEW op, PutAcquire(op) \/ PutFind(op) PROVE Next
  BY <1>0, <1>1, <1>3 DEF PutAcquire, PutFind
<1>4. CASE EnterAny
  BY <1>0, <1>1, <1>4 DEF EnterAny, Enter
<1>5. CASE StartProcess
  <2>1. CASE PutAcquire("Start") \/ PutFind("Start") \/ UNCHANGED vars
    BY <1>3, <2>1
  <2>2. CASE \E n \in Images : LoadFails(n)
    BY <1>2, <2>2
  <2>3. ASSUME NEW n \in Images, ReserveConsole,
               UNCHANGED <<currentThread, status, frame, saved, readyList, machineStatus,
                           threadToBeDestroyed, halted, synchVars>>
        PROVE  Outside
    BY <1>0, <2>3 DEF ReserveConsole, Outside, Level
  <2> QED
    BY <1>5, <2>1, <2>2, <2>3 DEF StartProcess
<1>6. CASE StartFails
  BY <1>6 DEF StartFails, SchedNext
<1>7. CASE Exec_Syscall
  <2>1. CASE PutAcquire("Exec") \/ PutFind("Exec") \/ UNCHANGED vars \/ Release(syscallLock)
    BY <1>0, <1>1, <1>3, <2>1
  <2>2. CASE \E n \in Images : LoadFails(n)
    BY <1>2, <2>2
  <2>3. ASSUME NEW t \in Thread, Create(t), ReserveConsole,
               UNCHANGED <<currentThread, frame, saved, readyList, machineStatus,
                           threadToBeDestroyed, halted, synchVars>>
        PROVE  Outside
    BY <1>0, <2>3 DEF ReserveConsole, Outside, Level
  <2>4. ASSUME At("Exec", "fork"), Fork(Here.new) PROVE SchedNext
    <3>1. Here.new \in Thread
      BY <1>0, <2>4 DEF At, Here, Children, Holding
    <3> QED BY <2>4, <3>1 DEF SchedNext
  <2> QED
    BY <1>7, <2>1, <2>2, <2>3, <2>4 DEF Exec_Syscall
<1>8. CASE newProcess \/ kernelRun
  BY <1>8 DEF newProcess, kernelRun
<1>9. CASE Fork_Syscall
  <2>1. CASE ForkReturns \/ UNCHANGED vars
    BY <1>0, <1>1, <2>1 DEF ForkReturns
  <2>2. ASSUME NEW t \in Thread, Create(t),
               UNCHANGED <<cpuVars, frame, saved, readyList, level, synchVars>>
        PROVE  Outside
    BY <1>0, <2>2 DEF Outside, cpuVars
  <2>3. ASSUME At("Fork", "fork"), Fork(Here.new) PROVE SchedNext
    <3>1. Here.new \in Thread
      BY <1>0, <2>3 DEF At, Here, Children, Holding
    <3> QED BY <2>3, <3>1 DEF SchedNext
  <2> QED
    BY <1>9, <2>1, <2>2, <2>3 DEF Fork_Syscall
<1>10. CASE Exit_Syscall
  <2>1. CASE ExitLookup \/ Remove
    BY <1>0, <1>1, <2>1 DEF ExitLookup, Remove
  <2>2. CASE ExitEnd
    <3>1. CASE TableSize > 1
      BY <2>2, <3>1 DEF ExitEnd, SchedNext
    <3>2. CASE ~(TableSize > 1)
      BY <1>0, <2>2, <3>2 DEF ExitEnd, Outside
    <3> QED BY <3>1, <3>2
  <2> QED BY <1>10, <2>1, <2>2 DEF Exit_Syscall
<1>11. CASE HaltMachine
  BY <1>0, <1>11 DEF HaltMachine, Outside
<1>12. CASE Switch
  BY <1>12 DEF Switch, SchedNext
<1>13. CASE Kernel
  BY <1>13 DEF Kernel, SchedNext, Next, LockStep
<1>14. CASE Dead \/ UNCHANGED allVars
  BY <1>14 DEF Dead, allVars
<1> QED
  BY <1>4, <1>5, <1>6, <1>7, <1>8, <1>9, <1>10, <1>11, <1>12, <1>13, <1>14 DEF Next_Process, Handler

LEMMA StepKernel == ASSUME KernelOK, Children, [Next_Process]_allVars PROVE KernelOK'
<1>1. CASE [Next]_vars
  BY <1>1, NextType, NextPlaces DEF KernelOK
<1> QED
  BY <1>1, StepKinds, OutsideKernel, SchedKernel

----------------------------------------------------------------------------
(* How a step of a handler changes call, and what it leaves of a thread's  *)
(* place: Kept is what the lives of threads depend on.                     *)
Kept ==
    /\ currentThread' = currentThread
    /\ \A t \in Thread :
        /\ status'[t] = "FREE" <=> status[t] = "FREE"
        /\ status'[t] = "JUST_CREATED" <=> status[t] = "JUST_CREATED"
        /\ frame'[t].op \in {"Finish", "ThreadRoot"} \/ frame[t].op \in {"Finish", "ThreadRoot"}
                => frame'[t].op = frame[t].op

LEMMA SameKept == ASSUME UNCHANGED <<currentThread, status, frame>> PROVE Kept
BY DEF Kept

LEMMA LockKept ==
    ASSUME KernelOK, NEW l \in Lock, Acquire(l) \/ Release(l) \/ AcquireWoken PROVE Kept
<1>0. /\ TypeOK /\ Places
      /\ currentThread \in Thread
      /\ status \in [Thread -> ThreadStatus \cup {"FREE"}]
      /\ frame \in [Thread -> FrameType]
  BY DEF KernelOK, TypeOK, SchedTypeOK
<1>1. CASE Acquire(l)
  <2>1. CASE CanTake(l)
    BY <1>1, <2>1, SameKept DEF Acquire, cpuVars
  <2>2. CASE ~CanTake(l)
    <3>1. /\ status[currentThread] = "RUNNING" /\ frame[currentThread].op = "run"
          /\ status' = Sleeping /\ currentThread' = currentThread
          /\ frame' = [frame EXCEPT ![currentThread] = Frame("Acquire", l, NULL)]
      BY <1>1, <2>2 DEF Acquire, InCaller, CpuBusy, SleepIn, cpuVars
    <3>2. Frame("Acquire", l, NULL).op = "Acquire"
      BY DEF Frame
    <3> QED
      BY <1>0, <3>1, <3>2 DEF Kept, Sleeping
  <2> QED BY <2>1, <2>2
<1>2. CASE Release(l)
  <2>1. /\ status' = Woken(waitingThreads[l], status)
        /\ UNCHANGED <<currentThread, frame>>
    BY <1>2 DEF Release, cpuVars
  <2>2. waitingThreads[l] # <<>> => Head(waitingThreads[l]) \in Thread
                                    /\ status[Head(waitingThreads[l])] = "BLOCKED"
    <3>1. waitingThreads[l] \in Seq(Thread) /\ Lists(waitingThreads[l], AsleepInAcquire(l))
      BY <1>0 DEF TypeOK, SynchTypeOK, Places, OnePlace, LockQueuesOK
    <3>2. waitingThreads[l] # <<>> => Head(waitingThreads[l]) \in AsleepInAcquire(l)
      BY <3>1, ListsTail
    <3> QED
      BY <3>2 DEF AsleepInAcquire
  <2> QED
    BY <1>0, <2>1, <2>2 DEF Kept, Woken
<1>3. CASE AcquireWoken
  <2>1. /\ frame[currentThread].op = "Acquire" /\ UNCHANGED <<currentThread, status>>
        /\ frame' = [frame EXCEPT ![currentThread] = Plain("run")]
    BY <1>3 DEF AcquireWoken, ReturnToCaller, cpuVars
  <2> QED
    BY <1>0, <2>1, PlainFrame DEF Kept
<1> QED BY <1>1, <1>2, <1>3

LEMMA CallFields ==
    /\ \A op, pc, new, slot :
            /\ Call(op, pc, new, slot).op = op /\ Call(op, pc, new, slot).pc = pc
            /\ Call(op, pc, new, slot).new = new /\ Call(op, pc, new, slot).slot = slot
    /\ User.op = "user" /\ User.pc = "user" /\ User.new = NULL /\ User.slot = -1
    /\ Gone.op = "gone" /\ Gone.pc = "gone" /\ Gone.new = NULL /\ Gone.slot = -1
BY DEF Call, User, Gone

LivesOK == Lives /\ Children

LEMMA Child ==
    ASSUME LivesOK, NEW t \in Thread, Holding(t)
    PROVE  /\ call[t].new \in Thread /\ status[call[t].new] = "JUST_CREATED"
           /\ call[t].op = "Exec" /\ call[t].pc # "fork" =>
                    call[call[t].new] = Gone /\ space[call[t].new] # 0
           /\ \A u \in Thread \ {t} : Holding(u) => call[u].new # call[t].new
BY DEF LivesOK, Children

(* Only the caller moves, and it does not take up a child.                 *)
LEMMA MoveLives ==
    ASSUME KernelOK, LivesOK, Kept, InCaller,
           \A t \in Thread \ {currentThread} : call'[t] = call[t] /\ space'[t] = space[t],
           Holding(currentThread)' =>
                /\ Holding(currentThread)
                /\ call'[currentThread].new = call[currentThread].new
                /\ call'[currentThread].op = call[currentThread].op
                /\ call[currentThread].pc = "fork" => call'[currentThread].pc = "fork"
    PROVE  LivesOK'
<1>1. /\ currentThread \in Thread /\ currentThread' = currentThread
      /\ status[currentThread] = "RUNNING" /\ frame[currentThread].op = "run"
  BY DEF InCaller, CpuBusy, KernelOK, TypeOK, SchedTypeOK, Kept
<1>2. /\ status'[currentThread] \notin {"FREE", "JUST_CREATED"}
      /\ frame'[currentThread].op \notin {"Finish", "ThreadRoot"}
  BY <1>1 DEF Kept
<1>3. Lives'
  <2> SUFFICES ASSUME NEW t \in Thread
               PROVE  /\ status'[t] = "FREE" => call'[t] = Gone
                      /\ status'[t] = "JUST_CREATED" => Unborn(t)'
                      /\ frame'[t].op = "Finish" => call'[t] = Gone \/ status'[t] = "JUST_CREATED"
                      /\ Begun(t)' => frame'[t].op # "ThreadRoot"
    BY DEF Lives, Gone, Call
  <2>1. CASE t = currentThread
    BY <1>2, <2>1
  <2>2. CASE t # currentThread
    BY <2>2, SMT DEF LivesOK, Lives, Kept, Unborn, Begun, Gone, Call
  <2> QED BY <2>1, <2>2
<1>4. \A t \in Thread : /\ Holding(t)' => Holding(t) /\ call'[t].new = call[t].new /\ call'[t].op = call[t].op
                        /\ Holding(t)' /\ call[t].pc = "fork" => call'[t].pc = "fork"
  BY <1>1 DEF Holding
<1>5. \A t \in Thread : Holding(t) => call[t].new # currentThread
  BY <1>1 DEF LivesOK, Children
<1>6. Children'
  BY <1>4, <1>5, SMT DEF LivesOK, Children, Kept, Gone, Call
<1> QED BY <1>3, <1>6 DEF LivesOK

(* A context switch: the thread that gets the CPU may begin, and a carcass *)
(* is deleted.                                                             *)
LEMMA SwitchLives ==
    ASSUME KernelOK, LivesOK, Switch PROVE LivesOK'
<1>0. /\ TypeOK /\ Places /\ currentThread \in Thread
      /\ status \in [Thread -> ThreadStatus \cup {"FREE"}]
      /\ frame \in [Thread -> FrameType]
  BY DEF KernelOK, TypeOK, SchedTypeOK
<1>1. UNCHANGED <<call, space>>
  BY DEF Switch, memoryVars
<1>2. PICK st \in [Thread -> ThreadStatus \cup {"FREE"}] :
        /\ Run(Head(readyList), st) /\ readyList # <<>>
        /\ \A t \in Thread : st[t] = status[t] \/ (status[t] = "RUNNING" /\ st[t] = "READY")
  <2>1. CASE CpuBusy /\ SwitchAway
    <3> DEFINE st == [status EXCEPT ![currentThread] = "READY"]
    <3>1. Run(Head(readyList), st) /\ readyList # <<>>
      BY <2>1 DEF SwitchAway
    <3>2. /\ st \in [Thread -> ThreadStatus \cup {"FREE"}]
          /\ \A t \in Thread : st[t] = status[t] \/ (status[t] = "RUNNING" /\ st[t] = "READY")
      BY <1>0, <2>1 DEF CpuBusy, ThreadStatus
    <3> QED BY <3>1, <3>2
  <2>2. CASE Dispatch
    BY <1>0, <2>2 DEF Dispatch
  <2> QED
    BY <2>1, <2>2 DEF Switch, Yield, TimeSlice, InCaller, Ticking
<1>3. Head(readyList) \in Thread /\ status[Head(readyList)] = "READY"
  BY <1>0, <1>2, FirstReady
<1>4. threadToBeDestroyed # NULL =>
        frame[threadToBeDestroyed].op = "Finish" /\ status[threadToBeDestroyed] = "BLOCKED"
  BY <1>0 DEF Places, CarcassIsDead, Finished
<1>5. \A t \in Thread :
        /\ \/ status'[t] = status[t]
           \/ /\ status'[t] = "FREE" /\ status[t] = "BLOCKED" /\ frame[t].op = "Finish"
           \/ /\ status'[t] \in {"READY", "RUNNING"} /\ status[t] \in {"READY", "RUNNING"}
        /\ frame'[t].op = frame[t].op \/ (frame[t].op = "ThreadRoot" /\ frame'[t].op = "run")
  <2>1. \A t \in Thread : frame'[t].op = frame[t].op \/ (frame[t].op = "ThreadRoot" /\ frame'[t].op = "run")
    BY <1>0, <1>2, <1>3, PlainFrame DEF Run
  <2>2. ASSUME NEW t \in Thread
        PROVE  \/ status'[t] = status[t]
               \/ /\ status'[t] = "FREE" /\ status[t] = "BLOCKED" /\ frame[t].op = "Finish"
               \/ /\ status'[t] \in {"READY", "RUNNING"} /\ status[t] \in {"READY", "RUNNING"}
    <3>1. CASE t = Head(readyList)
      BY <1>2, <1>3, <3>1 DEF Run
    <3>2. CASE t # Head(readyList) /\ t = threadToBeDestroyed /\ status'[t] = "FREE"
      BY <1>4, <3>2, SchedulerAssumption DEF SchedulerAssumption
    <3>3. status'[t] = st[t] \/ t = Head(readyList) \/ (t = threadToBeDestroyed /\ status'[t] = "FREE")
      BY <1>2, SchedulerAssumption DEF Run, SchedulerAssumption
    <3> QED BY <1>2, <3>1, <3>2, <3>3
  <2> QED BY <2>1, <2>2
<1>6. Lives'
  BY <1>1, <1>5, SMT DEF LivesOK, Lives, Unborn, Begun, Gone, Call
<1>7. Children'
  BY <1>1, <1>5, SMT DEF LivesOK, Children, Holding, Gone, Call
<1> QED BY <1>6, <1>7 DEF LivesOK

(* Thread::Fork of the child.                                              *)
LEMMA ForkLives ==
    ASSUME KernelOK, LivesOK, InCaller, Holding(currentThread), Fork(Here.new), space' = space,
           \A t \in Thread \ {currentThread} : call'[t] = call[t], ~Holding(currentThread)'
    PROVE  LivesOK'
<1> DEFINE n == Here.new
<1>0. /\ currentThread \in Thread /\ status[currentThread] = "RUNNING"
      /\ frame[currentThread].op = "run"
      /\ status \in [Thread -> ThreadStatus \cup {"FREE"}]
      /\ frame \in [Thread -> FrameType]
  BY DEF InCaller, CpuBusy, KernelOK, TypeOK, SchedTypeOK
<1>1. /\ n \in Thread /\ status[n] = "JUST_CREATED" /\ n # currentThread
      /\ \A t \in Thread \ {currentThread} : Holding(t) => call[t].new # n
  BY <1>0 DEF LivesOK, Children, Here
<1>2. /\ status' = [status EXCEPT ![n] = "READY"]
      /\ frame' = [frame EXCEPT ![n] = Plain("ThreadRoot")]
      /\ currentThread' = currentThread
  BY DEF Fork
<1> HIDE DEF n
<1>3. Unborn(n) /\ call'[n] = call[n]
  BY <1>1 DEF LivesOK, Lives
<1>4. ~Begun(n)
  BY <1>3, CallFields DEF Unborn, Begun
<1>5. Lives'
  <2> SUFFICES ASSUME NEW t \in Thread
               PROVE  /\ status'[t] = "FREE" => call'[t] = Gone
                      /\ status'[t] = "JUST_CREATED" => Unborn(t)'
                      /\ frame'[t].op = "Finish" => call'[t] = Gone \/ status'[t] = "JUST_CREATED"
                      /\ Begun(t)' => frame'[t].op # "ThreadRoot"
    BY DEF Lives, Gone, Call
  <2>1. CASE t = currentThread
    BY <1>0, <1>1, <1>2, <2>1
  <2>2. CASE t = n
    BY <1>0, <1>1, <1>2, <1>3, <1>4, <2>2, PlainFrame DEF Begun
  <2>3. CASE t \notin {n, currentThread}
    <3>1. status'[t] = status[t] /\ frame'[t] = frame[t] /\ call'[t] = call[t]
      BY <1>0, <1>1, <1>2, <2>3
    <3> QED
      BY <3>1 DEF LivesOK, Lives, Unborn, Begun, Gone, Call
  <2> QED BY <2>1, <2>2, <2>3
<1>6. \A t \in Thread : Holding(t)' => t # currentThread /\ Holding(t) /\ call'[t] = call[t]
  BY <1>2 DEF Holding
<1>7. \A t \in Thread : Holding(t)' =>
        /\ status'[call[t].new] = status[call[t].new]
        /\ call[t].new # currentThread
        /\ call[t].new \in Thread
  BY <1>0, <1>1, <1>2, <1>6 DEF LivesOK, Children
<1>8. Children'
  BY <1>6, <1>7, SMT DEF LivesOK, Children, Gone, Call
<1> QED BY <1>5, <1>8 DEF LivesOK

(* Thread::Finish.                                                         *)
LEMMA FinishLives ==
    ASSUME KernelOK, LivesOK, Finish, space' = space,
           \A t \in Thread \ {currentThread} : call'[t] = call[t],
           call'[currentThread] = Gone
    PROVE  LivesOK'
<1>0. /\ currentThread \in Thread /\ status[currentThread] = "RUNNING"
      /\ frame[currentThread].op = "run"
      /\ status \in [Thread -> ThreadStatus \cup {"FREE"}]
      /\ frame \in [Thread -> FrameType]
      /\ status' = [status EXCEPT ![currentThread] = "BLOCKED"]
      /\ frame' = [frame EXCEPT ![currentThread] = Plain("Finish")]
  BY DEF Finish, SleepIn, InCaller, CpuBusy, KernelOK, TypeOK, SchedTypeOK
<1>1. Lives'
  <2> SUFFICES ASSUME NEW t \in Thread
               PROVE  /\ status'[t] = "FREE" => call'[t] = Gone
                      /\ status'[t] = "JUST_CREATED" => Unborn(t)'
                      /\ frame'[t].op = "Finish" => call'[t] = Gone \/ status'[t] = "JUST_CREATED"
                      /\ Begun(t)' => frame'[t].op # "ThreadRoot"
    BY DEF Lives, Gone, Call
  <2>1. CASE t = currentThread
    BY <1>0, <2>1, PlainFrame DEF Unborn, Gone, Call
  <2>2. CASE t # currentThread
    <3>1. status'[t] = status[t] /\ frame'[t] = frame[t] /\ call'[t] = call[t]
      BY <1>0, <2>2
    <3> QED
      BY <3>1 DEF LivesOK, Lives, Unborn, Begun, Gone, Call
  <2> QED BY <2>1, <2>2
<1>2. \A t \in Thread : Holding(t)' => t # currentThread /\ Holding(t) /\ call'[t] = call[t]
  BY CallFields DEF Holding
<1>3. \A t \in Thread : Holding(t)' =>
        /\ status'[call[t].new] = status[call[t].new]
        /\ call[t].new # currentThread /\ call[t].new \in Thread
  BY <1>0, <1>2 DEF LivesOK, Children
<1>4. Children'
  BY <1>2, <1>3, SMT DEF LivesOK, Children, Gone, Call
<1> QED BY <1>1, <1>4 DEF LivesOK

(* A new thread for Exec, which is Gone to the handlers until its process  *)
(* is in the table, or for Fork, which says at once where it starts.       *)
LEMMA CreateLives ==
    ASSUME KernelOK, LivesOK, InCaller, NEW n \in Thread, Create(n),
           UNCHANGED <<currentThread, frame>>,
           \A t \in Thread \ {currentThread, n} : call'[t] = call[t] /\ space'[t] = space[t],
           \/ call'[currentThread].op = "Fork"
           \/ call'[currentThread].op = "Exec" /\ call'[n] = Gone /\ space'[n] # 0,
           call'[currentThread].new = n,
           Unborn(n)'
    PROVE  LivesOK'
<1>0. /\ currentThread \in Thread /\ status[currentThread] = "RUNNING"
      /\ frame[currentThread].op = "run"
      /\ status[n] = "FREE" /\ n # currentThread
      /\ status' = [status EXCEPT ![n] = "JUST_CREATED"]
      /\ status \in [Thread -> ThreadStatus \cup {"FREE"}]
  BY DEF Create, InCaller, CpuBusy, KernelOK, TypeOK, SchedTypeOK
<1>1. Lives'
  <2> SUFFICES ASSUME NEW t \in Thread
               PROVE  /\ status'[t] = "FREE" => call'[t] = Gone
                      /\ status'[t] = "JUST_CREATED" => Unborn(t)'
                      /\ frame'[t].op = "Finish" => call'[t] = Gone \/ status'[t] = "JUST_CREATED"
                      /\ Begun(t)' => frame'[t].op # "ThreadRoot"
    BY DEF Lives, Gone, Call
  <2>1. CASE t = currentThread
    BY <1>0, <2>1
  <2>2. CASE t = n
    <3>1. ~Begun(n)'
      BY CallFields DEF Unborn, Begun
    <3> QED BY <1>0, <2>2, <3>1
  <2>3. CASE t \notin {n, currentThread}
    <3>1. status'[t] = status[t] /\ frame'[t] = frame[t] /\ call'[t] = call[t]
      BY <1>0, <2>3
    <3> QED
      BY <3>1 DEF LivesOK, Lives, Unborn, Begun, Gone, Call
  <2> QED BY <2>1, <2>2, <2>3
<1>2. \A t \in Thread \ {currentThread} : Holding(t)' => t # n /\ Holding(t) /\ call'[t] = call[t]
  <2>1. ~Holding(n)'
    BY CallFields DEF Unborn, Holding
  <2> QED BY <2>1 DEF Holding
<1>3. \A t \in Thread \ {currentThread} : Holding(t)' =>
        /\ status'[call[t].new] = "JUST_CREATED"
        /\ call[t].new \notin {currentThread, n} /\ call[t].new \in Thread
  BY <1>0, <1>2 DEF LivesOK, Children
<1>4. Children'
  <2> SUFFICES ASSUME NEW t \in Thread, Holding(t)'
               PROVE  /\ call'[t].new \in Thread /\ status'[call'[t].new] = "JUST_CREATED"
                      /\ call'[t].op = "Exec" /\ call'[t].pc # "fork" =>
                            call'[call'[t].new] = Gone /\ space'[call'[t].new] # 0
                      /\ \A u \in Thread \ {t} : Holding(u)' => call'[u].new # call'[t].new
    BY DEF Children, Gone, Call
  <2>1. CASE t = currentThread
    BY <1>0, <1>2, <1>3, <2>1, SMT
  <2>2. CASE t # currentThread
    <3>1. Holding(t) /\ call'[t] = call[t]
      BY <1>2, <2>2
    <3>2. /\ status'[call[t].new] = "JUST_CREATED"
          /\ call[t].new \notin {currentThread, n} /\ call[t].new \in Thread
      BY <1>3, <2>2
    <3>3. /\ call'[call[t].new] = call[call[t].new] /\ space'[call[t].new] = space[call[t].new]
      BY <3>2
    <3>4. call'[t].op = "Exec" /\ call'[t].pc # "fork" =>
                call'[call'[t].new] = Gone /\ space'[call'[t].new] # 0
      <4>1. call[t].op = "Exec" /\ call[t].pc # "fork" =>
                    call[call[t].new] = Gone /\ space[call[t].new] # 0
        BY <3>1, Child
      <4> QED BY <3>1, <3>3, <4>1
    <3>5. ASSUME NEW u \in Thread \ {t}, Holding(u)' PROVE call'[u].new # call'[t].new
      <4>1. CASE u = currentThread
        BY <3>1, <3>2, <4>1
      <4>2. CASE u # currentThread
        <5>1. Holding(u) /\ call'[u] = call[u]
          BY <1>2, <3>5, <4>2
        <5>2. call[u].new # call[t].new
          BY <3>1, <5>1, Child
        <5> QED BY <3>1, <5>1, <5>2
      <4> QED BY <4>1, <4>2
    <3> QED BY <3>1, <3>2, <3>4, <3>5
  <2> QED BY <2>1, <2>2
<1> QED BY <1>1, <1>4 DEF LivesOK

----------------------------------------------------------------------------
(* The kinds of step.  Every step is one of these, in which the kernel's   *)
(* part is reduced to Kept, or to what it does to the threads' lives.      *)
CallerOnly == \A t \in Thread \ {currentThread} : call'[t] = call[t]

After == call'[currentThread]

Idles ==
    /\ Kept
    /\ UNCHANGED <<tableVars, pageTables, space, pid, contextVars, call>>
    /\ Here.pc = "store" => UNCHANGED vars

(* The caller goes from one place to another and nothing else changes.     *)
Moves(op, pc, op2, pc2) ==
    /\ At(op, pc) /\ Kept
    /\ UNCHANGED <<tableVars, pageTables, space, pid, contextVars>>
    /\ CallerOnly
    /\ call' \in [Thread -> CallType] /\ After.op = op2 /\ After.pc = pc2
    /\ op2 = op => After.new = Here.new

MovesOn ==
    \/ Moves("Start", "put", "Start", "find") \/ Moves("Exec", "put", "Exec", "find")
    \/ Moves("user", "user", "Exec", "load") \/ Moves("user", "user", "Fork", "get")
    \/ Moves("user", "user", "Exit", "get") \/ Moves("Exit", "remove", "Exit", "clear")
    \/ Moves("Fork", "get", "user", "user") \/ Moves("Fork", "unlock", "user", "user")

TurnedAway == Moves("Exec", "store", "user", "user") /\ Here.slot = -1

LeavesLast == Moves("Exit", "get", "Exit", "remove") /\ Get(pid[currentThread]) # NULL /\ LastThread

LeavesOthers ==
    /\ At("Exit", "get") /\ Kept /\ Get(pid[currentThread]) # NULL /\ ~LastThread
    /\ table' = [table EXCEPT ![pid[currentThread]] =
                    Process(@.activeThreadCount - 1, @.inactiveThreadCount + 1)]
    /\ Goto("finish")
    /\ UNCHANGED <<map, pageTables, space, pid, contextVars>>

Clears ==
    /\ At("Exit", "clear") /\ Kept
    /\ map' = map \ {pid[currentThread]}
    /\ table' = [table EXCEPT ![pid[currentThread]] = Junk]
    /\ Goto("finish")
    /\ UNCHANGED <<pageTables, space, pid, contextVars>>

Ends ==
    /\ At("Exit", "finish") \/ At("Start", "load")
    /\ Finish \/ Kept
    /\ currentThread' = currentThread
    /\ call' = [call EXCEPT ![currentThread] = Gone]
    /\ UNCHANGED <<tableVars, pageTables, space, pid, contextVars>>

StartLoads ==
    /\ At("Start", "load") /\ Kept
    /\ \E e : pageTables' = Append(pageTables, e)
    /\ space' = [space EXCEPT ![currentThread] = Len(pageTables) + 1]
    /\ Goto("put")
    /\ UNCHANGED <<tableVars, pid, contextVars>>

Marked(op) ==
    /\ At(op, "find") /\ Kept
    /\ InCaller' /\ level' = "IntOff"
    /\ LET i == Find(map, TableSize)
       IN  /\ map' = IF i = -1 THEN map ELSE map \cup {i}
           /\ call' = [call EXCEPT ![currentThread].pc = "store",
                                   ![currentThread].slot = i]
           /\ i = -1 => astray'
    /\ UNCHANGED <<table, pageTables, space, pid, contextVars>>

StartStores ==
    /\ At("Start", "store") /\ Kept
    /\ table' = [table EXCEPT ![Here.slot] = Process(1, 0)]
    /\ regs' = currentThread /\ pageTable' = space[currentThread]
    /\ Return
    /\ UNCHANGED <<map, pageTables, space, pid, userRegisters>>

ExecLoads(t) ==
    /\ At("Exec", "load") /\ Create(t)
    /\ \E e : pageTables' = Append(pageTables, e)
    /\ space' = [space EXCEPT ![t] = Len(pageTables) + 1]
    /\ call' = [call EXCEPT ![currentThread] = Call("Exec", "put", t, -1)]
    /\ UNCHANGED <<currentThread, frame, tableVars, pid, contextVars>>

ExecStores ==
    /\ At("Exec", "store") /\ Here.slot # -1 /\ Kept
    /\ table' = [table EXCEPT ![Here.slot] = Process(1, 0)]
    /\ pid' = [pid EXCEPT ![Here.new] = Here.slot]
    /\ call' = [call EXCEPT ![currentThread].pc = "fork",
                            ![Here.new] = Call("newProcess", "start", NULL, -1)]
    /\ UNCHANGED <<map, pageTables, space, contextVars>>

Forks ==
    /\ Fork(Here.new)
    /\ \/ At("Exec", "fork") /\ Return
       \/ At("Fork", "fork") /\ Goto("unlock")
    /\ UNCHANGED <<tableVars, pageTables, space, pid, contextVars>>

Begins ==
    /\ At("newProcess", "start") \/ At("kernelRun", "start")
    /\ Kept
    /\ regs' = currentThread /\ pageTable' = space[currentThread]
    /\ Return
    /\ UNCHANGED <<tableVars, pageTables, space, pid, userRegisters>>

ForkGets(t) ==
    /\ At("Fork", "get") /\ Get(pid[currentThread]) # NULL
    /\ Create(t)
    /\ pid' = [pid EXCEPT ![t] = pid[currentThread]]
    /\ space' = [space EXCEPT ![t] = space[currentThread]]
    /\ call' = [call EXCEPT ![currentThread] = Call("Fork", "fork", t, -1),
                            ![t] = Call("kernelRun", "start", NULL, -1)]
    /\ table' = [table EXCEPT ![pid[currentThread]].activeThreadCount = @ + 1]
    /\ UNCHANGED <<currentThread, frame, map, pageTables, contextVars>>

StepKind ==
    \/ Idles \/ MovesOn \/ TurnedAway \/ LeavesLast \/ LeavesOthers \/ Clears \/ Ends
    \/ StartLoads \/ Marked("Start") \/ Marked("Exec") \/ StartStores \/ ExecStores
    \/ Forks \/ Begins \/ Switch
    \/ \E t \in Thread : ExecLoads(t) \/ ForkGets(t)

LEMMA StepEffect ==
    ASSUME KernelOK, ProcessTypes, Poised, Contexts, [Next_Process]_allVars
    PROVE  StepKind
<1>0. /\ syscallLock \in Lock /\ tableLock \in Lock
      /\ currentThread \in Thread
      /\ call \in [Thread -> CallType] /\ astray \in BOOLEAN
      /\ Here \in CallType
  BY DEF KernelOK, TypeOK, SchedTypeOK, ProcessTypes, Here
<1>1. ASSUME NEW l \in Lock, Acquire(l) \/ Release(l) PROVE Kept
  BY <1>1, LockKept
<1>2. /\ \A pc \in CallPcs : Goto(pc) =>
            /\ CallerOnly /\ call' \in [Thread -> CallType] /\ After.pc = pc
            /\ After.op = Here.op /\ After.new = Here.new /\ After.slot = Here.slot
      /\ \A op \in CallOps, pc \in CallPcs :
            call' = [call EXCEPT ![currentThread] = Call(op, pc, NULL, -1)] =>
            /\ CallerOnly /\ call' \in [Thread -> CallType] /\ After.op = op /\ After.pc = pc
      /\ Return => CallerOnly /\ call' \in [Thread -> CallType] /\ After = User
  <2>1. ASSUME NEW pc \in CallPcs, Goto(pc)
        PROVE  /\ CallerOnly /\ call' \in [Thread -> CallType] /\ After.pc = pc
               /\ After.op = Here.op /\ After.new = Here.new /\ After.slot = Here.slot
    BY <1>0, <2>1 DEF Goto, CallerOnly, After, Here, CallType
  <2>2. ASSUME NEW op \in CallOps, NEW pc \in CallPcs,
               call' = [call EXCEPT ![currentThread] = Call(op, pc, NULL, -1)]
        PROVE  CallerOnly /\ call' \in [Thread -> CallType] /\ After.op = op /\ After.pc = pc
    BY <1>0, <2>2 DEF CallerOnly, After, CallType, Call
  <2>3. ASSUME Return PROVE CallerOnly /\ call' \in [Thread -> CallType] /\ After = User
    <3>1. "user" \in CallOps /\ "user" \in CallPcs
      BY DEF CallOps, CallPcs
    <3> QED
      BY <1>0, <2>3, <3>1 DEF Return, CallerOnly, After, CallType, User, Call
  <2> QED BY <2>1, <2>2, <2>3
<1>3. ASSUME NEW n, LoadFails(n), Here.pc # "store" PROVE Idles
  BY <1>3, SameKept DEF LoadFails, Idles, tableVars, memoryVars, contextVars
<1>4. ASSUME NEW op, PutFind(op), Remember PROVE Marked(op)
  <2>1. Kept
    BY <1>0, <1>1, <1>4 DEF PutFind
  <2>2. InCaller' /\ level' = "IntOff"
    <3>1. /\ status' = Woken(waitingThreads[tableLock], status) /\ level' = "IntOff"
          /\ UNCHANGED <<currentThread, frame, halted>> /\ InCaller
      BY <1>4 DEF PutFind, Release, cpuVars
    <3>2. status'[currentThread] = "RUNNING"
      <4>1. /\ waitingThreads[tableLock] \in Seq(Thread)
            /\ Lists(waitingThreads[tableLock], AsleepInAcquire(tableLock))
            /\ status \in [Thread -> ThreadStatus \cup {"FREE"}]
        BY <1>0 DEF KernelOK, TypeOK, SchedTypeOK, SynchTypeOK, Places, OnePlace, LockQueuesOK
      <4>2. waitingThreads[tableLock] # <<>> =>
                Head(waitingThreads[tableLock]) \in AsleepInAcquire(tableLock)
        BY <4>1, ListsTail
      <4>3. waitingThreads[tableLock] # <<>> => Head(waitingThreads[tableLock]) # currentThread
        BY <3>1, <4>2 DEF AsleepInAcquire, InCaller, CpuBusy
      <4> QED BY <1>0, <3>1, <4>1, <4>3 DEF Woken, InCaller, CpuBusy
    <3> QED BY <3>1, <3>2 DEF InCaller, CpuBusy
  <2>3. Find(map, TableSize) = -1 => astray'
    <3>1. call'[currentThread].pc = "store" /\ call'[currentThread].slot = Find(map, TableSize)
      BY <1>0, <1>4 DEF PutFind, CallType
    <3> QED BY <1>0, <1>4, <3>1 DEF Remember
  <2> QED
    BY <1>4, <2>1, <2>2, <2>3 DEF PutFind, Marked, memoryVars
<1>5. CASE EnterAny
  <2>1. ASSUME NEW op \in CallOps, NEW pc \in CallPcs, Enter(op, pc), op # "user"
        PROVE  Moves("user", "user", op, pc)
    <3>1. Kept /\ At("user", "user")
      BY <1>0, <1>1, <2>1, CallFields DEF Enter, InUser, At
    <3> QED
      BY <1>2, <2>1, <3>1 DEF Enter, Moves, memoryVars
  <2>2. /\ "Exec" \in CallOps /\ "Fork" \in CallOps /\ "Exit" \in CallOps
        /\ "load" \in CallPcs /\ "get" \in CallPcs
    BY DEF CallOps, CallPcs
  <2>3. MovesOn
    BY <1>5, <2>1, <2>2 DEF EnterAny, MovesOn
  <2> QED BY <2>3 DEF StepKind
<1>6. ASSUME NEW op, PutAcquire(op) PROVE Moves(op, "put", op, "find")
  <2>1. Kept
    BY <1>0, <1>1, <1>6 DEF PutAcquire
  <2>2. "find" \in CallPcs
    BY DEF CallPcs
  <2> QED
    BY <1>2, <1>6, <2>1, <2>2 DEF PutAcquire, Moves, At, memoryVars
<1>7. CASE StartProcess /\ Remember
  <2>1. CASE PutAcquire("Start")
    BY <1>6, <2>1 DEF StepKind, MovesOn
  <2>2. CASE PutFind("Start")
    BY <1>4, <1>7, <2>2 DEF StepKind
  <2>3. ASSUME NEW n \in Images, At("Start", "load"), LoadFails(n) PROVE Idles
    BY <1>3, <2>3 DEF At
  <2>4. ASSUME NEW n \in Images, At("Start", "load"), AddrSpace(n),
               space' = [space EXCEPT ![currentThread] = Len(pageTables) + 1], Goto("put"),
               UNCHANGED <<currentThread, status, frame, tableVars, pid, contextVars>>
        PROVE  StartLoads
    BY <2>4, SameKept DEF StartLoads, AddrSpace
  <2>5. ASSUME At("Start", "store"), table' = [table EXCEPT ![Here.slot] = Process(1, 0)],
               regs' = currentThread, pageTable' = space[currentThread], Return,
               UNCHANGED <<vars, map, pageTables, space, pid, userRegisters>>
        PROVE  StartStores
    BY <2>5, SameKept DEF StartStores, vars, schedVars
  <2> QED
    BY <1>7, <2>1, <2>2, <2>3, <2>4, <2>5 DEF StartProcess, StepKind
<1>8. CASE StartFails
  BY <1>8 DEF StartFails, Finish, Ends, StepKind, memoryVars
<1>9. CASE Exec_Syscall /\ Remember
  <2>1. CASE PutAcquire("Exec")
    BY <1>6, <2>1 DEF StepKind, MovesOn
  <2>2. CASE PutFind("Exec")
    BY <1>4, <1>9, <2>2 DEF StepKind
  <2>3. ASSUME NEW n \in Images, At("Exec", "load"), LoadFails(n) PROVE Idles
    BY <1>3, <2>3 DEF At
  <2>4. ASSUME NEW n \in Images, At("Exec", "load"), AddrSpace(n), NEW t \in Thread, Create(t),
               space' = [space EXCEPT ![t] = Len(pageTables) + 1],
               call' = [call EXCEPT ![currentThread] = Call("Exec", "put", t, -1)],
               UNCHANGED <<currentThread, frame, tableVars, pid, contextVars>>
        PROVE  ExecLoads(t)
    BY <2>4 DEF ExecLoads, AddrSpace
  <2>5. ASSUME At("Exec", "store"), Here.slot = -1, Return,
               UNCHANGED <<vars, tableVars, memoryVars, pid, contextVars>>
        PROVE  TurnedAway
    BY <1>2, <2>5, SameKept, CallFields DEF TurnedAway, Moves, vars, schedVars, memoryVars
  <2>6. ASSUME At("Exec", "store"), Here.slot # -1, Release(syscallLock),
               table' = [table EXCEPT ![Here.slot] = Process(1, 0)],
               pid' = [pid EXCEPT ![Here.new] = Here.slot],
               call' = [call EXCEPT ![currentThread].pc = "fork",
                                    ![Here.new] = Call("newProcess", "start", NULL, -1)],
               UNCHANGED <<map, memoryVars, contextVars>>
        PROVE  ExecStores
    BY <1>0, <1>1, <2>6 DEF ExecStores, memoryVars
  <2>7. ASSUME At("Exec", "fork"), Fork(Here.new), Return,
               UNCHANGED <<tableVars, memoryVars, pid, contextVars>>
        PROVE  Forks
    BY <2>7 DEF Forks, memoryVars
  <2> QED
    BY <1>9, <2>1, <2>2, <2>3, <2>4, <2>5, <2>6, <2>7 DEF Exec_Syscall, StepKind
<1>10. CASE newProcess \/ kernelRun
  BY <1>10, SameKept DEF newProcess, kernelRun, Begins, StepKind, vars, schedVars
<1>11. CASE Fork_Syscall
  <2>1. ASSUME ForkReturns PROVE Moves("Fork", "unlock", "user", "user")
    <3>1. pageTable' = pageTable
      BY <1>0, <2>1 DEF ForkReturns, At, Here, Contexts
    <3> QED
      BY <1>0, <1>1, <1>2, <2>1, <3>1, CallFields DEF ForkReturns, Moves, memoryVars, contextVars
  <2>2. ASSUME NEW t \in Thread, At("Fork", "get"), Get(pid[currentThread]) # NULL, Create(t),
               pid' = [pid EXCEPT ![t] = pid[currentThread]],
               space' = [space EXCEPT ![t] = space[currentThread]],
               call' = [call EXCEPT ![currentThread] = Call("Fork", "fork", t, -1),
                                    ![t] = Call("kernelRun", "start", NULL, -1)],
               table' = [table EXCEPT ![pid[currentThread]].activeThreadCount = @ + 1],
               UNCHANGED <<cpuVars, frame, map, pageTables, contextVars>>
        PROVE  ForkGets(t)
    BY <2>2 DEF ForkGets, cpuVars
  <2>3. ASSUME At("Fork", "get"), Return,
               UNCHANGED <<vars, tableVars, memoryVars, pid, contextVars>>
        PROVE  Moves("Fork", "get", "user", "user")
    BY <1>2, <2>3, SameKept, CallFields DEF Moves, vars, schedVars, memoryVars
  <2>4. ASSUME At("Fork", "fork"), Fork(Here.new), Goto("unlock"),
               UNCHANGED <<tableVars, memoryVars, pid, contextVars>>
        PROVE  Forks
    BY <2>4 DEF Forks, memoryVars
  <2> QED
    BY <1>11, <2>1, <2>2, <2>3, <2>4 DEF Fork_Syscall, StepKind, MovesOn
<1>12. CASE Exit_Syscall
  <2>1. CASE At("Exit", "get") /\ ExitLookup
    <3>1. CASE UNCHANGED <<vars, tableVars, memoryVars, pid, contextVars, call>>
      BY <3>1, SameKept DEF Idles, StepKind, vars, schedVars, memoryVars
    <3>2. ASSUME Get(pid[currentThread]) # NULL, LastThread, Goto("remove"),
                 IF TableSize > 1 THEN Release(syscallLock) ELSE UNCHANGED vars,
                 UNCHANGED <<tableVars, memoryVars, pid, contextVars>>
          PROVE  LeavesLast
      <4>1. Kept
        BY <1>0, <1>1, <3>2, SameKept DEF vars, schedVars
      <4>2. "remove" \in CallPcs
        BY DEF CallPcs
      <4> QED
        BY <1>2, <2>1, <3>2, <4>1, <4>2 DEF LeavesLast, Moves, At, memoryVars
    <3>3. ASSUME Get(pid[currentThread]) # NULL, ~LastThread, Release(syscallLock),
                 table' = [table EXCEPT ![pid[currentThread]] =
                              Process(@.activeThreadCount - 1, @.inactiveThreadCount + 1)],
                 Goto("finish"), UNCHANGED <<map, memoryVars, pid, contextVars>>
          PROVE  LeavesOthers
      BY <1>0, <1>1, <2>1, <3>3 DEF LeavesOthers, memoryVars
    <3> QED
      BY <2>1, <3>1, <3>2, <3>3 DEF ExitLookup, StepKind
  <2>2. CASE Remove
    <3>1. ASSUME At("Exit", "remove"), Acquire(tableLock), Goto("clear"),
                 UNCHANGED <<tableVars, memoryVars, pid, contextVars>>
          PROVE  Moves("Exit", "remove", "Exit", "clear")
      <4>1. "clear" \in CallPcs
        BY DEF CallPcs
      <4> QED
        BY <1>0, <1>1, <1>2, <3>1, <4>1 DEF Moves, At, memoryVars
    <3>2. ASSUME At("Exit", "clear"), Release(tableLock),
                 map' = map \ {pid[currentThread]},
                 table' = [table EXCEPT ![pid[currentThread]] = Junk], Goto("finish"),
                 UNCHANGED <<memoryVars, pid, contextVars>>
          PROVE  Clears
      BY <1>0, <1>1, <3>2 DEF Clears, memoryVars
    <3> QED
      BY <2>2, <3>1, <3>2 DEF Remove, StepKind, MovesOn
  <2>3. CASE ExitEnd
    BY <2>3, SameKept DEF ExitEnd, Finish, Ends, StepKind, memoryVars
  <2> QED BY <1>12, <2>1, <2>2, <2>3 DEF Exit_Syscall
<1>13. CASE HaltMachine
  <2>1. Here.pc # "store"
    BY <1>13, CallFields DEF HaltMachine, InUser
  <2> QED
    BY <1>13, <2>1, SameKept DEF HaltMachine, Idles, StepKind, processVars, memoryVars
<1>14. CASE Switch
  BY <1>14 DEF StepKind
<1>15. CASE Kernel
  <2>1. Here.pc # "store"
    BY <1>0, <1>15, CallFields DEF Kernel, InUser, AcquireWoken, IdleHalt, Asleep, Poised, CpuBusy, Here
  <2>2. Kept
    BY <1>0, <1>15, LockKept, SameKept DEF Kernel, UserInstruction, IdleHalt
  <2> QED
    BY <1>15, <2>1, <2>2 DEF Kernel, Idles, StepKind, processVars, memoryVars
<1>16. CASE Dead \/ UNCHANGED allVars
  BY <1>16, SameKept DEF Dead, allVars, processVars, memoryVars, Idles, StepKind, vars, schedVars
<1> QED
  BY <1>5, <1>7, <1>8, <1>9, <1>10, <1>11, <1>12, <1>13, <1>14, <1>15, <1>16 DEF Next_Process, Handler

LEMMA StepAstray ==
    ASSUME astray \in BOOLEAN, [Next_Process]_allVars
    PROVE  (astray => astray') /\ astray' \in BOOLEAN
<1>1. CASE Remember
  BY <1>1 DEF Remember
<1>2. CASE UNCHANGED allVars
  BY <1>2 DEF allVars
<1> QED BY <1>1, <1>2 DEF Next_Process, Dead

----------------------------------------------------------------------------
(* What a kind of step does to call, in full.                              *)
LEMMA CallMove ==
    ASSUME call \in [Thread -> CallType], currentThread \in Thread
    PROVE  /\ \A pc : Goto(pc) =>
                /\ CallerOnly
                /\ After.op = Here.op /\ After.pc = pc
                /\ After.new = Here.new /\ After.slot = Here.slot
           /\ \A c : call' = [call EXCEPT ![currentThread] = c] => CallerOnly /\ After = c
           /\ Return => CallerOnly /\ After = User
           /\ \A pc, i : call' = [call EXCEPT ![currentThread].pc = pc, ![currentThread].slot = i] =>
                /\ CallerOnly
                /\ After.op = Here.op /\ After.pc = pc /\ After.new = Here.new /\ After.slot = i
<1>1. call[currentThread] \in CallType
  OBVIOUS
<1>2. ASSUME NEW pc, Goto(pc)
      PROVE  /\ CallerOnly
             /\ After.op = Here.op /\ After.pc = pc
             /\ After.new = Here.new /\ After.slot = Here.slot
  BY <1>1, <1>2 DEF Goto, CallerOnly, After, Here, CallType
<1>3. ASSUME NEW c, call' = [call EXCEPT ![currentThread] = c] PROVE CallerOnly /\ After = c
  BY <1>3 DEF CallerOnly, After
<1>4. ASSUME Return PROVE CallerOnly /\ After = User
  BY <1>3, <1>4 DEF Return
<1>5. ASSUME NEW pc, NEW i,
             call' = [call EXCEPT ![currentThread].pc = pc, ![currentThread].slot = i]
      PROVE  /\ CallerOnly
             /\ After.op = Here.op /\ After.pc = pc /\ After.new = Here.new /\ After.slot = i
  BY <1>1, <1>5 DEF CallerOnly, After, Here, CallType
<1> QED BY <1>2, <1>3, <1>4, <1>5

(* The two steps that also set the call of the new thread.                 *)
LEMMA PairMove ==
    ASSUME call \in [Thread -> CallType], currentThread \in Thread, NEW n \in Thread,
           n # currentThread, NEW b
    PROVE  /\ \A a : call' = [call EXCEPT ![currentThread] = a, ![n] = b] =>
                /\ \A t \in Thread \ {currentThread, n} : call'[t] = call[t]
                /\ After = a /\ call'[n] = b
           /\ \A pc : call' = [call EXCEPT ![currentThread].pc = pc, ![n] = b] =>
                /\ \A t \in Thread \ {currentThread, n} : call'[t] = call[t]
                /\ After.op = Here.op /\ After.pc = pc /\ After.new = Here.new
                /\ call'[n] = b
<1>1. call[currentThread] \in CallType
  OBVIOUS
<1>2. ASSUME NEW a, call' = [call EXCEPT ![currentThread] = a, ![n] = b]
      PROVE  /\ \A t \in Thread \ {currentThread, n} : call'[t] = call[t]
             /\ After = a /\ call'[n] = b
  BY <1>2 DEF After
<1>3. ASSUME NEW pc, call' = [call EXCEPT ![currentThread].pc = pc, ![n] = b]
      PROVE  /\ \A t \in Thread \ {currentThread, n} : call'[t] = call[t]
             /\ After.op = Here.op /\ After.pc = pc /\ After.new = Here.new
             /\ call'[n] = b
  BY <1>1, <1>3 DEF After, Here, CallType
<1> QED BY <1>2, <1>3

(* The caller's child, in the step in which Exec stores its process.       *)
LEMMA ExecChild ==
    ASSUME KernelOK, ProcessTypes, LivesOK, ExecStores
    PROVE  /\ Here.new \in Thread /\ Here.new # currentThread /\ currentThread' = currentThread
           /\ call[Here.new] = Gone /\ space[Here.new] # 0 /\ status[Here.new] = "JUST_CREATED"
           /\ \A t \in Thread \ {currentThread, Here.new} : call'[t] = call[t]
           /\ After.op = "Exec" /\ After.pc = "fork" /\ After.new = Here.new
           /\ call'[Here.new] = Call("newProcess", "start", NULL, -1)
<1>1. /\ currentThread \in Thread /\ call \in [Thread -> CallType]
      /\ status[currentThread] = "RUNNING" /\ Here.op = "Exec" /\ Here.pc = "store"
      /\ currentThread' = currentThread
  BY DEF KernelOK, TypeOK, SchedTypeOK, ProcessTypes, ExecStores, At, InCaller, CpuBusy, Kept
<1>2. /\ Here.new \in Thread /\ status[Here.new] = "JUST_CREATED"
      /\ call[Here.new] = Gone /\ space[Here.new] # 0
  BY <1>1 DEF LivesOK, Children, Holding, Here
<1>3. Here.new # currentThread
  BY <1>1, <1>2
<1>4. PICK n \in Thread : n = Here.new
  BY <1>2
<1>5. call' = [call EXCEPT ![currentThread].pc = "fork", ![n] = Call("newProcess", "start", NULL, -1)]
  BY <1>4 DEF ExecStores
<1>6. /\ \A t \in Thread \ {currentThread, n} : call'[t] = call[t]
      /\ After.op = Here.op /\ After.pc = "fork" /\ After.new = Here.new
      /\ call'[n] = Call("newProcess", "start", NULL, -1)
  <2>1. n # currentThread
    BY <1>3, <1>4
  <2>2. PICK b : b = Call("newProcess", "start", NULL, -1)
    OBVIOUS
  <2>3. call' = [call EXCEPT ![currentThread].pc = "fork", ![n] = b]
    BY <1>5, <2>2
  <2>4. /\ \A t \in Thread \ {currentThread, n} : call'[t] = call[t]
        /\ After.op = Here.op /\ After.pc = "fork" /\ After.new = Here.new
        /\ call'[n] = b
    BY <1>1, <2>1, <2>3, PairMove
  <2> QED BY <2>2, <2>4
<1> QED
  BY <1>1, <1>2, <1>3, <1>4, <1>6

(* The thread that Fork or Exec creates was nobody's.                      *)
LEMMA Newborn ==
    ASSUME KernelOK, LivesOK, InCaller, NEW t \in Thread, Create(t)
    PROVE  /\ t # currentThread /\ call[t] = Gone /\ status[t] = "FREE"
           /\ currentThread \in Thread
BY DEF KernelOK, TypeOK, SchedTypeOK, LivesOK, Lives, Create, InCaller, CpuBusy

LEMMA SequenceGrows ==
    ASSUME NEW q, IsSequence(q), NEW e
    PROVE  Len(q) \in Nat /\ IsSequence(Append(q, e))
<1>1. PICK S : q \in Seq(S)
  BY DEF IsSequence
<1>2. Append(q, e) \in Seq(S \cup {e})
  <2>1. q \in Seq(S \cup {e}) /\ e \in S \cup {e}
    BY <1>1, SMT
  <2> QED BY <2>1, SMT
<1>3. \E T : Append(q, e) \in Seq(T)
  BY <1>2
<1> QED BY <1>1, <1>3, SMT DEF IsSequence

LEMMA StepLives ==
    ASSUME KernelOK, ProcessTypes, LivesOK, Contexts, StepKind PROVE LivesOK'
<1>0. /\ currentThread \in Thread /\ call \in [Thread -> CallType]
      /\ space \in [Thread -> Nat] /\ Len(pageTables) \in Nat
  BY SequenceGrows DEF KernelOK, TypeOK, SchedTypeOK, ProcessTypes
<1>1. CASE Idles
  <2>1. call' = call /\ space' = space /\ Kept
    BY <1>1 DEF Idles
  <2>2. Lives'
    BY <2>1 DEF Kept, LivesOK, Lives, Unborn, Begun, Gone, Call
  <2>3. Children'
    BY <2>1, SMT DEF Kept, LivesOK, Children, Holding, Gone, Call
  <2> QED BY <2>2, <2>3 DEF LivesOK
<1>2. ASSUME Kept, InCaller, CallerOnly, space' = space,
             \/ After.op \notin {"Exec", "Fork"}
             \/ After.pc \notin {"put", "find", "store", "fork"}
             \/ /\ Here.op \in {"Exec", "Fork"} /\ Here.pc \in {"put", "find"}
                /\ After.op = Here.op /\ After.new = Here.new
      PROVE  LivesOK'
  <2>1. currentThread' = currentThread
    BY <1>2 DEF Kept
  <2> QED
    BY <1>2, <2>1, MoveLives DEF CallerOnly, After, Here, Holding
<1>3. ASSUME NEW op, NEW pc, NEW op2, NEW pc2, Moves(op, pc, op2, pc2),
             \/ op2 \notin {"Exec", "Fork"} \/ pc2 \notin {"put", "find", "store", "fork"}
             \/ op \in {"Exec", "Fork"} /\ op2 = op /\ pc \in {"put", "find"}
      PROVE  LivesOK'
  BY <1>2, <1>3 DEF Moves, At
<1>4. CASE MovesOn \/ TurnedAway \/ LeavesLast
  BY <1>3, <1>4 DEF MovesOn, TurnedAway, LeavesLast
<1>5. CASE LeavesOthers \/ Clears
  <2>1. Goto("finish") /\ Kept /\ InCaller /\ space' = space
    BY <1>5 DEF LeavesOthers, Clears, At
  <2> QED BY <1>0, <1>2, <2>1, CallMove
<1>6. CASE Ends
  <2>1. CallerOnly /\ After = Gone /\ space' = space /\ InCaller
    BY <1>0, <1>6, CallMove DEF Ends, At
  <2>2. CASE Kept
    BY <1>2, <2>1, <2>2, CallFields
  <2>3. CASE Finish
    BY <2>1, <2>3, FinishLives DEF CallerOnly, After
  <2> QED BY <1>6, <2>2, <2>3 DEF Ends
<1>7. CASE StartLoads
  <2>1. /\ CallerOnly /\ After.op = "Start" /\ Kept /\ InCaller
        /\ \A t \in Thread \ {currentThread} : space'[t] = space[t]
    BY <1>0, <1>7, CallMove DEF StartLoads, At
  <2>2. ~Holding(currentThread)'
    BY <2>1 DEF Holding, After, Kept
  <2> QED
    BY <2>1, <2>2, MoveLives DEF CallerOnly
<1>8. CASE Marked("Start") \/ Marked("Exec")
  <2>1. /\ CallerOnly /\ After.op = Here.op /\ After.new = Here.new
        /\ Here.op \in {"Start", "Exec"} /\ Here.pc = "find"
        /\ Kept /\ InCaller /\ space' = space
    BY <1>0, <1>8, CallMove DEF Marked, At
  <2> QED BY <1>2, <2>1
<1>9. CASE StartStores \/ Begins
  <2>1. CallerOnly /\ After = User /\ Kept /\ InCaller /\ space' = space
    BY <1>0, <1>9, CallMove DEF StartStores, Begins, At
  <2> QED BY <1>2, <2>1, CallFields
<1>10. CASE ExecStores
  <2>0. PICK n \in Thread : n = Here.new
    BY <1>10, ExecChild
  <2>1. /\ n # currentThread /\ currentThread' = currentThread
        /\ call[n] = Gone /\ space[n] # 0 /\ status[n] = "JUST_CREATED"
        /\ \A t \in Thread \ {currentThread, n} : call'[t] = call[t]
        /\ After.op = "Exec" /\ After.pc = "fork" /\ After.new = n
        /\ call'[n] = Call("newProcess", "start", NULL, -1)
        /\ Kept /\ space' = space
    BY <1>10, <2>0, ExecChild DEF ExecStores
  <2>2. /\ Here.op = "Exec" /\ Here.pc = "store" /\ n = Here.new
        /\ status[currentThread] = "RUNNING" /\ frame[currentThread].op = "run"
    BY <1>10, <2>0 DEF ExecStores, At, InCaller, CpuBusy
  <2>3. Unborn(n)' /\ ~Begun(n)' /\ ~Holding(n)'
        /\ status'[n] = "JUST_CREATED"
    <3>1. call'[n].op = "newProcess"
      BY <2>1, CallFields, SMT
    <3> QED BY <2>1, <3>1 DEF Unborn, Begun, Holding, Kept
  <2>4. Lives'
    <3> SUFFICES ASSUME NEW t \in Thread
                 PROVE  /\ status'[t] = "FREE" => call'[t] = Gone
                        /\ status'[t] = "JUST_CREATED" => Unborn(t)'
                        /\ frame'[t].op = "Finish" => call'[t] = Gone \/ status'[t] = "JUST_CREATED"
                        /\ Begun(t)' => frame'[t].op # "ThreadRoot"
      BY DEF Lives, Gone, Call
    <3>1. CASE t = n
      BY <2>3, <3>1
    <3>2. CASE t = currentThread
      BY <2>1, <2>2, <3>2 DEF Kept
    <3>3. CASE t \notin {n, currentThread}
      BY <2>1, <3>3, SMT DEF LivesOK, Lives, Kept, Unborn, Begun, Gone, Call
    <3> QED BY <3>1, <3>2, <3>3
  <2>5. Holding(currentThread)
    BY <2>2 DEF Holding, Here
  <2>6. \A t \in Thread \ {currentThread} : Holding(t)' =>
            /\ Holding(t) /\ t # n /\ call'[t] = call[t] /\ call[t].new \notin {n, currentThread}
            /\ call[t].new \in Thread
    <3> SUFFICES ASSUME NEW t \in Thread \ {currentThread}, Holding(t)'
                 PROVE  /\ Holding(t) /\ t # n /\ call'[t] = call[t]
                        /\ call[t].new \notin {n, currentThread} /\ call[t].new \in Thread
      OBVIOUS
    <3>1. t # n /\ call'[t] = call[t]
      BY <2>1, <2>3
    <3>2. Holding(t)
      BY <3>1 DEF Holding
    <3>3. call[t].new \in Thread /\ status[call[t].new] = "JUST_CREATED"
          /\ call[t].new # call[currentThread].new
      BY <1>0, <2>5, <3>2 DEF LivesOK, Children
    <3> QED
      BY <2>2, <3>1, <3>2, <3>3 DEF Here
  <2>7. Children'
    <3> SUFFICES ASSUME NEW t \in Thread, Holding(t)'
                 PROVE  /\ call'[t].new \in Thread /\ status'[call'[t].new] = "JUST_CREATED"
                        /\ call'[t].op = "Exec" /\ call'[t].pc # "fork" =>
                              call'[call'[t].new] = Gone /\ space'[call'[t].new] # 0
                        /\ \A u \in Thread \ {t} : Holding(u)' => call'[u].new # call'[t].new
      BY DEF Children, Gone, Call
    <3>1. CASE t = currentThread
      BY <2>1, <2>3, <2>6, <3>1 DEF After
    <3>2. CASE t # currentThread
      <4>1. /\ Holding(t) /\ call'[t] = call[t]
            /\ call[t].new \notin {n, currentThread} /\ call[t].new \in Thread
        BY <2>6, <3>2
      <4>2. call'[call[t].new] = call[call[t].new] /\ space'[call[t].new] = space[call[t].new]
        BY <2>1, <4>1
      <4>3. status'[call[t].new] = "JUST_CREATED"
        BY <2>1, <4>1, Child DEF Kept
      <4>4. call'[t].op = "Exec" /\ call'[t].pc # "fork" =>
                  call'[call'[t].new] = Gone /\ space'[call'[t].new] # 0
        BY <4>1, <4>2, Child
      <4>5. ASSUME NEW u \in Thread \ {t}, Holding(u)' PROVE call'[u].new # call'[t].new
        <5>1. CASE u = currentThread
          BY <2>1, <4>1, <5>1 DEF After
        <5>2. CASE u # currentThread
          <6>1. Holding(u) /\ call'[u] = call[u]
            BY <2>6, <4>5, <5>2
          <6> QED BY <4>1, <6>1, Child
        <5> QED BY <5>1, <5>2
      <4> QED BY <4>1, <4>3, <4>4, <4>5
    <3> QED BY <3>1, <3>2
  <2> QED BY <2>4, <2>7 DEF LivesOK
<1>11. CASE Forks
  <2>1. /\ Fork(Here.new) /\ InCaller /\ space' = space /\ CallerOnly
        /\ Here.op \in {"Exec", "Fork"} /\ Here.pc = "fork"
        /\ After = User \/ After.pc = "unlock"
    BY <1>0, <1>11, CallMove DEF Forks, At
  <2>2. Holding(currentThread)
    BY <2>1 DEF Holding, Here
  <2>3. currentThread' = currentThread
    BY <2>1 DEF Fork
  <2>4. ~Holding(currentThread)'
    BY <2>1, <2>3, CallFields DEF Holding, After
  <2> QED
    BY <2>1, <2>2, <2>4, ForkLives DEF CallerOnly
<1>12. CASE Switch
  BY <1>12, SwitchLives
<1>13. ASSUME NEW t \in Thread, ExecLoads(t) PROVE LivesOK'
  <2>1. InCaller /\ Create(t)
    BY <1>13 DEF ExecLoads, At
  <2>2. t # currentThread /\ call[t] = Gone
    BY <2>1, Newborn
  <2>3. CallerOnly /\ After = Call("Exec", "put", t, -1)
    BY <1>0, <1>13, CallMove DEF ExecLoads
  <2>4. call'[t] = Gone /\ Unborn(t)'
    BY <2>2, <2>3 DEF CallerOnly, Unborn, Gone
  <2>5. space'[t] # 0 /\ \A u \in Thread \ {t} : space'[u] = space[u]
    BY <1>0, <1>13, SMT DEF ExecLoads
  <2>6. call'[currentThread].op = "Exec" /\ call'[currentThread].new = t
    BY <2>3, CallFields, SMT DEF After
  <2>7. UNCHANGED <<currentThread, frame>>
    BY <1>13 DEF ExecLoads
  <2>8. \A u \in Thread \ {currentThread, t} : call'[u] = call[u] /\ space'[u] = space[u]
    BY <2>3, <2>5 DEF CallerOnly
  <2> QED
    BY <2>1, <2>4, <2>5, <2>6, <2>7, <2>8, CreateLives
<1>14. ASSUME NEW t \in Thread, ForkGets(t) PROVE LivesOK'
  <2>1. InCaller /\ Create(t)
    BY <1>14 DEF ForkGets, At
  <2>2. t # currentThread /\ call[t] = Gone
    BY <2>1, Newborn
  <2>3. /\ \A u \in Thread \ {currentThread, t} : call'[u] = call[u]
        /\ After = Call("Fork", "fork", t, -1) /\ call'[t] = Call("kernelRun", "start", NULL, -1)
    BY <1>0, <1>14, <2>2, PairMove DEF ForkGets
  <2>4. Unborn(t)'
    <3>1. call'[t].op = "kernelRun"
      BY <2>3, CallFields, SMT
    <3> QED BY <3>1 DEF Unborn
  <2>5. \A u \in Thread \ {t} : space'[u] = space[u]
    BY <1>0, <1>14 DEF ForkGets
  <2>6. After.op = "Fork" /\ After.new = t /\ UNCHANGED <<currentThread, frame>>
    BY <1>14, <2>3, CallFields, SMT DEF ForkGets
  <2> QED
    BY <2>1, <2>3, <2>4, <2>5, <2>6, CreateLives DEF After
<1> QED
  BY <1>1, <1>4, <1>5, <1>6, <1>7, <1>8, <1>9, <1>10, <1>11, <1>12, <1>13, <1>14 DEF StepKind

----------------------------------------------------------------------------
(* The user context.                                                       *)
LEMMA MoveContexts ==
    ASSUME Contexts, currentThread \in Thread, currentThread' = currentThread,
           userRegisters' = userRegisters,
           \A t \in Thread \ {currentThread} :
                \/ call'[t] = call[t] /\ space'[t] = space[t]
                \/ call'[t].op = "gone"
                \/ call'[t].op \in {"newProcess", "kernelRun"} /\ space'[t] # 0,
           After.op \notin {"gone", "newProcess", "kernelRun"} => space'[currentThread] # 0,
           After.op \in {"user", "Exec", "Fork", "Exit"} =>
                regs' = currentThread /\ pageTable' = space'[currentThread],
           After.op \notin {"newProcess", "kernelRun"}
    PROVE  Contexts'
<1> SUFFICES ASSUME NEW t \in Thread
             PROVE  /\ call'[t].op \in {"user", "Exec", "Fork", "Exit", "newProcess", "kernelRun"} => space'[t] # 0
                    /\ call'[t].op = "Start" /\ call'[t].pc # "load" => space'[t] # 0
                    /\ call'[t].op \in {"user", "Exec", "Fork", "Exit"} =>
                            IF t = currentThread' THEN regs' = t /\ pageTable' = space'[t]
                                                  ELSE userRegisters'[t] = t
  BY DEF Contexts
<1>1. CASE t = currentThread
  BY <1>1 DEF After
<1>2. CASE t # currentThread
  BY <1>2 DEF Contexts
<1> QED BY <1>1, <1>2

LEMMA SwitchContexts ==
    ASSUME KernelOK, KernelOK', ProcessTypes, Lives, Contexts, Switch
    PROVE  Contexts'
<1>0. /\ currentThread \in Thread /\ currentThread' \in Thread
      /\ userRegisters \in [Thread -> Thread]
      /\ UNCHANGED <<call, space>>
  BY DEF KernelOK, TypeOK, SchedTypeOK, ProcessTypes, Switch, memoryVars
<1>1. SwitchContext
  BY DEF Switch
<1>2. PICK next \in Thread : next = currentThread'
  BY <1>0
<1> DEFINE returns == frame[next].op # "ThreadRoot" /\ space[next] # 0
<1>3. /\ userRegisters' = IF space[currentThread] = 0 THEN userRegisters
                          ELSE [userRegisters EXCEPT ![currentThread] = regs]
      /\ regs' = IF returns THEN userRegisters'[next] ELSE regs
      /\ pageTable' = IF returns THEN space[next] ELSE pageTable
  BY <1>1, <1>2, SMT DEF SwitchContext
<1> SUFFICES ASSUME NEW t \in Thread, call[t].op \in {"user", "Exec", "Fork", "Exit"}
             PROVE  IF t = next THEN regs' = t /\ pageTable' = space[t] ELSE userRegisters'[t] = t
  BY <1>0, <1>2 DEF Contexts
<1>4. space[t] # 0 /\ frame[t].op # "ThreadRoot"
  BY DEF Contexts, Lives, Begun
<1>5. userRegisters'[t] = t
  BY <1>0, <1>3, <1>4 DEF Contexts
<1> QED BY <1>3, <1>4, <1>5

LEMMA StepContexts ==
    ASSUME KernelOK, KernelOK', ProcessTypes, LivesOK, Contexts, StepKind
    PROVE  Contexts'
<1>0. /\ currentThread \in Thread /\ call \in [Thread -> CallType]
      /\ space \in [Thread -> Nat] /\ Len(pageTables) \in Nat
  BY SequenceGrows DEF KernelOK, TypeOK, SchedTypeOK, ProcessTypes
<1>1. CASE Idles
  <2>1. UNCHANGED <<currentThread, call, space, regs, userRegisters, pageTable>>
    BY <1>1 DEF Idles, Kept, contextVars
  <2> QED BY <2>1 DEF Contexts
<1>2. Here.op \notin {"gone", "Start"} => space[currentThread] # 0
  BY <1>0, SMT DEF Contexts, Here, CallType, CallOps
<1>3. Here.op \in {"user", "Exec", "Fork", "Exit"} =>
            regs = currentThread /\ pageTable = space[currentThread]
  BY <1>0 DEF Contexts, Here
<1>4. ASSUME currentThread' = currentThread, CallerOnly, UNCHANGED <<space, contextVars>>,
             \/ /\ Here.op \in {"user", "Exec", "Fork", "Exit"}
                /\ After.op \in {"user", "Exec", "Fork", "Exit"}
             \/ After.op = "gone"
             \/ After.op = "Start" /\ Here.op = "Start" /\ Here.pc # "load"
      PROVE  Contexts'
  <2>1. After.op = "Start" => space[currentThread] # 0
    BY <1>0, <1>4 DEF Contexts, Here
  <2> QED
    BY <1>0, <1>2, <1>3, <1>4, <2>1, MoveContexts DEF CallerOnly, contextVars
<1>5. ASSUME NEW op, NEW pc, NEW op2, NEW pc2, Moves(op, pc, op2, pc2),
             \/ op \in {"user", "Exec", "Fork", "Exit"} /\ op2 \in {"user", "Exec", "Fork", "Exit"}
             \/ op = "Start" /\ op2 = "Start" /\ pc # "load"
      PROVE  Contexts'
  BY <1>4, <1>5 DEF Moves, At, Kept
<1>6. CASE MovesOn \/ TurnedAway \/ LeavesLast
  BY <1>5, <1>6 DEF MovesOn, TurnedAway, LeavesLast
<1>7. CASE LeavesOthers \/ Clears
  BY <1>0, <1>4, <1>7, CallMove DEF LeavesOthers, Clears, At, Kept
<1>8. CASE Ends
  BY <1>0, <1>4, <1>8, CallMove, CallFields DEF Ends
<1>9. CASE StartLoads
  <2>1. /\ CallerOnly /\ After.op = "Start" /\ currentThread' = currentThread
        /\ userRegisters' = userRegisters
        /\ space' = [space EXCEPT ![currentThread] = Len(pageTables) + 1]
    BY <1>0, <1>9, CallMove DEF StartLoads, At, Kept, contextVars
  <2>2. space'[currentThread] # 0 /\ \A t \in Thread \ {currentThread} : space'[t] = space[t]
    BY <1>0, <2>1, SMT
  <2> QED BY <1>0, <2>1, <2>2, MoveContexts DEF CallerOnly
<1>10. CASE Marked("Start") \/ Marked("Exec")
  <2>1. /\ Here.op \in {"Start", "Exec"} /\ Here.pc = "find"
        /\ CallerOnly /\ After.op = Here.op /\ currentThread' = currentThread
        /\ UNCHANGED <<space, contextVars>>
    <3>1. CASE Marked("Start")
      BY <1>0, <3>1, CallMove DEF Marked, At, Kept
    <3>2. CASE Marked("Exec")
      BY <1>0, <3>2, CallMove DEF Marked, At, Kept
    <3> QED BY <1>10, <3>1, <3>2
  <2> QED BY <1>4, <2>1
<1>11. CASE StartStores \/ Begins
  <2>1. /\ Here.op # "gone" /\ (Here.op = "Start" => Here.pc # "load")
        /\ CallerOnly /\ After = User /\ currentThread' = currentThread
        /\ regs' = currentThread /\ pageTable' = space[currentThread]
        /\ UNCHANGED <<space, userRegisters>>
    <3>1. CASE StartStores
      BY <1>0, <3>1, CallMove DEF StartStores, At, Kept
    <3>2. CASE Begins
      BY <1>0, <3>2, CallMove DEF Begins, At, Kept
    <3> QED BY <1>11, <3>1, <3>2
  <2>2. space[currentThread] # 0
    BY <1>0, <1>2, <2>1 DEF Contexts, Here
  <2> QED BY <1>0, <2>1, <2>2, MoveContexts, CallFields DEF CallerOnly
<1>12. CASE ExecStores
  <2>1. PICK n \in Thread : n = Here.new
    BY <1>12, ExecChild
  <2>2. /\ n # currentThread /\ currentThread' = currentThread /\ space[n] # 0
        /\ \A t \in Thread \ {currentThread, n} : call'[t] = call[t]
        /\ After.op = "Exec" /\ call'[n] = Call("newProcess", "start", NULL, -1)
        /\ Here.op = "Exec" /\ UNCHANGED <<space, regs, userRegisters, pageTable>>
    BY <1>12, <2>1, ExecChild DEF ExecStores, At, contextVars
  <2>3. call'[n].op = "newProcess" /\ space'[n] # 0
    BY <2>2, CallFields, SMT
  <2> QED
    BY <1>0, <1>2, <1>3, <2>2, <2>3, MoveContexts
<1>13. CASE Forks
  <2>1. /\ Here.op \in {"Exec", "Fork"} /\ CallerOnly /\ After.op \in {"user", "Fork"}
        /\ currentThread' = currentThread /\ UNCHANGED <<space, contextVars>>
    BY <1>0, <1>13, CallMove, CallFields DEF Forks, At, Fork
  <2> QED BY <1>4, <2>1
<1>14. CASE Switch
  BY <1>14, SwitchContexts DEF LivesOK
<1>15. ASSUME NEW t \in Thread, ExecLoads(t) PROVE Contexts'
  <2>1. /\ Here.op = "Exec" /\ CallerOnly /\ After = Call("Exec", "put", t, -1)
        /\ InCaller /\ Create(t) /\ currentThread' = currentThread
        /\ space' = [space EXCEPT ![t] = Len(pageTables) + 1]
        /\ UNCHANGED <<regs, userRegisters, pageTable>>
    BY <1>0, <1>15, CallMove DEF ExecLoads, At, contextVars
  <2>2. t # currentThread /\ call[t] = Gone
    BY <2>1, Newborn
  <2>3. After.op = "Exec" /\ call'[t].op = "gone" /\ \A u \in Thread \ {t} : space'[u] = space[u]
    <3>1. After.op = "Exec"
      BY <2>1, CallFields, SMT
    <3>2. call'[t] = Gone
      BY <2>1, <2>2 DEF CallerOnly
    <3>3. \A u \in Thread \ {t} : space'[u] = space[u]
      BY <1>0, <2>1
    <3> QED BY <3>1, <3>2, <3>3, CallFields
  <2> QED
    BY <1>0, <1>2, <1>3, <2>1, <2>2, <2>3, MoveContexts DEF CallerOnly
<1>16. ASSUME NEW t \in Thread, ForkGets(t) PROVE Contexts'
  <2>1. /\ Here.op = "Fork" /\ InCaller /\ Create(t) /\ currentThread' = currentThread
        /\ space' = [space EXCEPT ![t] = space[currentThread]]
        /\ UNCHANGED <<regs, userRegisters, pageTable>>
    BY <1>16 DEF ForkGets, At, contextVars
  <2>2. t # currentThread
    BY <2>1, Newborn
  <2>3. /\ \A u \in Thread \ {currentThread, t} : call'[u] = call[u]
        /\ After = Call("Fork", "fork", t, -1) /\ call'[t] = Call("kernelRun", "start", NULL, -1)
    BY <1>0, <1>16, <2>2, PairMove DEF ForkGets
  <2>4. After.op = "Fork" /\ call'[t].op = "kernelRun"
    BY <2>3, CallFields, SMT
  <2>5. /\ space'[t] = space[currentThread] /\ \A u \in Thread \ {t} : space'[u] = space[u]
        /\ space[currentThread] # 0
    BY <1>0, <1>2, <2>1
  <2> QED
    BY <1>0, <1>3, <2>1, <2>2, <2>3, <2>4, <2>5, MoveContexts
<1> QED
  BY <1>1, <1>6, <1>7, <1>8, <1>9, <1>10, <1>11, <1>12, <1>13, <1>14, <1>15, <1>16 DEF StepKind
==============================================================================
