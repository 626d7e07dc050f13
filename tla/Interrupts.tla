----------------------------- MODULE Interrupts -----------------------------
(***************************************************************************)
(* The interrupt hardware (machine/interrupt.cc) with the timer device     *)
(* (machine/timer.cc) and simulated time.  Synch abstracts from time: there*)
(* an interrupt may come at any tick.  Here the pending list holds when    *)
(* each is due, time advances in OneTick and Idle only, and threads are    *)
(* what runs in between: kernel code, which may turn interrupts off and on,*)
(* ask a device for something and sleep, and user instructions.            *)
(*                                                                         *)
(* OneTick and Idle are taken one handler at a time.  OneTick may nest: the*)
(* Yield it calls ends in SetLevel(IntOn), that is in another OneTick.  The*)
(* inner ones start and end in SystemMode, so one saved status, that of the*)
(* outermost, is what the last one to return restores.  Which code that one*)
(* returns to is on the thread's stack (code), not in the saved status.    *)
(***************************************************************************)
EXTENDS Integers, FiniteSets, SequencesExt

CONSTANTS
    Thread, Main, NULL,
    SystemTick, UserTick,   \* time of one SetLevel(IntOn), one instruction
    TimerDelay,             \* what TimeOfNextInterrupt may return; {} if no timer
    DeviceDelay,            \* how long device requests take
    MaxTime                 \* bound: no tick starts, nothing idles, after it

ASSUME InterruptsAssumption ==
    /\ Main \in Thread /\ IsFiniteSet(Thread)
    /\ {SystemTick, UserTick} \subseteq Nat \ {0}
    /\ TimerDelay \subseteq Nat \ {0}
    /\ DeviceDelay \subseteq Nat \ {0}
    /\ MaxTime \in Nat

VARIABLES
    level, status, yieldOnReturn,   \* fields of Interrupt
    pending,                        \* its list of [type, when, arg]
    stats,                          \* totalTicks, idleTicks, systemTicks, userTicks
    currentThread, readyList,
    where,                          \* what each thread is in the middle of
    code,                           \* what it was executing when it got there:
                                    \* its user program or the kernel
    old,                            \* OneTick's local: the status it restores
    oldLevel,                       \* the level Yield or P restores
    halted

cpuVars == <<currentThread, readyList>>
threadVars == <<where, code, old, oldLevel>>
vars == <<level, status, yieldOnReturn, pending, stats, cpuVars, threadVars, halted>>

Where == where[currentThread]

Goto(step) == where' = [where EXCEPT ![currentThread] = step]

(* "MachineStatus old = status", the first line of OneTick.                *)
SaveStatus == old' = [old EXCEPT ![currentThread] = status]

(* The end of the outermost OneTick: its status, and back to its caller.   *)
RestoreStatus == status' = old[currentThread] /\ Goto(code[currentThread])

----------------------------------------------------------------------------
(* Mutant of SortedInsert: a later interrupt may go in front.              *)
SortedInsertFront(q, e) == <<e>> \o q

(* List::SortedInsert: in front of the first element with a larger key.    *)
SortedInsert(q, e) ==
    LET later == {i \in DOMAIN q : e.when < q[i].when}
        place == IF later = {} THEN Len(q) + 1 ELSE Min(later)
    IN  InsertAt(q, place, e)

(* What Interrupt::Schedule inserts.                                       *)
ToOccur(type, fromNow, arg) ==
    [type |-> type, when |-> stats.totalTicks + fromNow, arg |-> arg]

(* A device is asked for something and a thread is to sleep until it       *)
(* answers; with interrupts off, as in Semaphore::P.  No OneTick is under  *)
(* way: the one that P's last SetLevel runs will save the status of now.   *)
RequestAndSleep(d) ==
    /\ Where = "kernel"
    /\ pending' = SortedInsert(pending, ToOccur("Device", d, currentThread))
    /\ oldLevel' = [oldLevel EXCEPT ![currentThread] = level]
    /\ level' = "IntOff"
    /\ SaveStatus
    /\ Goto("asleep")
    /\ UNCHANGED <<status, yieldOnReturn, stats, cpuVars, code, halted>>

(* Thread::Finish: sleep for good; what is saved is never restored.        *)
Finish ==
    /\ Where = "kernel"
    /\ level' = "IntOff"
    /\ SaveStatus
    /\ Goto("finished")
    /\ UNCHANGED <<status, yieldOnReturn, pending, stats, cpuVars, code, oldLevel, halted>>

----------------------------------------------------------------------------
(* The time a OneTick takes, by the status it is called in.                *)
Advance ==
    IF status = "SystemMode"
    THEN [stats EXCEPT !.totalTicks = @ + SystemTick, !.systemTicks = @ + SystemTick]
    ELSE [stats EXCEPT !.totalTicks = @ + UserTick, !.userTicks = @ + UserTick]

(* OneTick up to its loop.                                                 *)
OneTick ==
    /\ stats.totalTicks < MaxTime
    /\ stats' = Advance
    /\ level' = "IntOff"
    /\ Goto("tick")
    /\ UNCHANGED <<status, yieldOnReturn, pending, cpuVars, code, oldLevel, halted>>

(* Interrupt::SetLevel called by kernel code.                              *)
SetLevel(now) ==
    /\ Where = "kernel"
    /\ IF now = "IntOn" /\ level = "IntOff"
       THEN OneTick /\ SaveStatus
       ELSE level' = now /\ UNCHANGED <<status, yieldOnReturn, pending, stats, cpuVars,
                                        threadVars, halted>>

(* Machine::Run: an instruction, then OneTick whatever the level.          *)
Instruction ==
    /\ Where = "user"
    /\ OneTick
    /\ SaveStatus

(* Machine::RaiseException, and its return; Machine::Run's first setStatus.*)
SystemCall ==
    /\ Where = "user"
    /\ status' = "SystemMode"
    /\ code' = [code EXCEPT ![currentThread] = "kernel"]
    /\ Goto("kernel")
    /\ UNCHANGED <<level, yieldOnReturn, pending, stats, cpuVars, old, oldLevel, halted>>

ToUserCode ==
    /\ Where = "kernel"
    /\ status' = "UserMode"
    /\ code' = [code EXCEPT ![currentThread] = "user"]
    /\ Goto("user")
    /\ UNCHANGED <<level, yieldOnReturn, pending, stats, cpuVars, old, oldLevel, halted>>

----------------------------------------------------------------------------
(* CheckIfDue's choice: the first pending interrupt is due, or would be if *)
(* the clock were at now.                                                  *)
Due(now) == pending # <<>> /\ pending[1].when <= now

(* "Check if there is nothing more to do", asked in IdleMode only: nothing *)
(* but the timer is pending.                                               *)
OnlyTimer == Len(pending) = 1 /\ pending[1].type = "Timer"

(* Interrupt::YieldOnReturn, called by TimerInterruptHandler.              *)
YieldOnReturn == yieldOnReturn' = TRUE

(* CheckIfDue fires the first interrupt.  Timer::TimerExpired re-schedules *)
(* itself and calls TimerInterruptHandler; the handler runs in SystemMode, *)
(* so its test for IdleMode is always passed.  A device's handler makes the*)
(* thread that waits for it ready.                                         *)
Fire ==
    LET i == pending[1] IN
    IF i.type = "Timer"
    THEN /\ \E d \in TimerDelay :
               pending' = SortedInsert(Tail(pending),
                              [type |-> "Timer", when |-> stats'.totalTicks + d, arg |-> NULL])
         /\ YieldOnReturn
         /\ UNCHANGED readyList
    ELSE /\ pending' = Tail(pending)
         /\ readyList' = Append(readyList, i.arg)
         /\ UNCHANGED yieldOnReturn

(* CheckIfDue returns FALSE: what it removed is put back, behind others    *)
(* that are due at the same time.                                          *)
PutBack == pending' = IF pending = <<>> THEN <<>> ELSE SortedInsert(Tail(pending), pending[1])

TickFires ==
    /\ Where = "tick"
    /\ Due(stats.totalTicks)
    /\ UNCHANGED stats
    /\ Fire
    /\ UNCHANGED <<level, status, currentThread, threadVars, halted>>

(* The rest of OneTick: interrupts on, yield if a handler asked for it.    *)
TickEnds ==
    /\ Where = "tick"
    /\ ~Due(stats.totalTicks)
    /\ PutBack
    /\ level' = "IntOn"
    /\ yieldOnReturn' = FALSE
    /\ IF yieldOnReturn
       THEN status' = "SystemMode" /\ Goto("yield")
       ELSE RestoreStatus
    /\ UNCHANGED <<stats, cpuVars, code, old, oldLevel, halted>>

----------------------------------------------------------------------------
(* Thread::Yield, called by OneTick or by kernel code.                     *)
YieldCalled ==
    /\ Where \in {"yield", "kernel"}
    /\ IF Where = "kernel" THEN SaveStatus ELSE UNCHANGED old
    /\ oldLevel' = [oldLevel EXCEPT ![currentThread] = level]
    /\ level' = "IntOff"
    /\ LET queue == Append(readyList, currentThread)
       IN  /\ currentThread' = Head(queue)
           /\ readyList' = Tail(queue)
           /\ where' = [where EXCEPT ![currentThread] = "resume", ![Head(queue)] = "resume"]
    /\ UNCHANGED <<status, yieldOnReturn, pending, stats, code, halted>>

(* The thread has the CPU again in Yield or in P, or for the first time in *)
(* ThreadRoot: SetLevel(oldLevel), then what is left of an outer OneTick.  *)
Resume ==
    /\ Where = "resume"
    /\ IF oldLevel[currentThread] = "IntOn"
       THEN OneTick
       ELSE /\ RestoreStatus
            /\ UNCHANGED <<level, yieldOnReturn, pending, stats, cpuVars, code, oldLevel, halted>>
    /\ UNCHANGED old

(* Thread::Sleep finds a thread to run.                                    *)
Dispatch ==
    /\ Where \in {"asleep", "finished"}
    /\ readyList # <<>>
    /\ currentThread' = Head(readyList)
    /\ readyList' = Tail(readyList)
    /\ where' = [where EXCEPT ![Head(readyList)] = "resume"]
    /\ UNCHANGED <<level, status, yieldOnReturn, pending, stats, code, old, oldLevel, halted>>

----------------------------------------------------------------------------
(* CheckIfDue(TRUE): the clock advances to the first interrupt, if it is in*)
(* the future.                                                             *)
IdleClock ==
    LET skipped == IF pending[1].when > stats.totalTicks
                   THEN pending[1].when - stats.totalTicks ELSE 0
    IN  [stats EXCEPT !.totalTicks = @ + skipped, !.idleTicks = @ + skipped]

(* Mutant of NothingToDo: Idle does not look what else is pending.         *)
NothingToDoTimer == pending = <<>> \/ pending[1].type = "Timer"

(* Nothing will ever make a thread ready: no interrupt, or the timer only. *)
NothingToDo == pending = <<>> \/ OnlyTimer

(* Interrupt::Idle, called from Sleep when no thread is ready: halt, or    *)
(* fire the first interrupt.                                               *)
Idle ==
    /\ Where \in {"asleep", "finished"}
    /\ readyList = <<>>
    /\ ~halted
    /\ stats.totalTicks < MaxTime
    /\ status' = "IdleMode"
    /\ stats' = IF pending = <<>> THEN stats ELSE IdleClock
    /\ IF NothingToDo
       THEN halted' = TRUE /\ UNCHANGED <<pending, readyList, yieldOnReturn, where>>
       ELSE Fire /\ Goto(IF Where = "asleep" THEN "idle" ELSE "idle finished") /\ UNCHANGED halted
    /\ UNCHANGED <<level, currentThread, code, old, oldLevel>>

Idling == Where \in {"idle", "idle finished"}

(* Its loop, "check for any other pending interrupts".                     *)
IdleFires ==
    /\ Idling
    /\ Due(stats.totalTicks)
    /\ ~OnlyTimer
    /\ UNCHANGED stats
    /\ Fire
    /\ UNCHANGED <<level, status, currentThread, threadVars, halted>>

IdleEnds ==
    /\ Idling
    /\ ~Due(stats.totalTicks) \/ OnlyTimer
    /\ PutBack
    /\ yieldOnReturn' = FALSE
    /\ status' = "SystemMode"
    /\ Goto(IF Where = "idle" THEN "asleep" ELSE "finished")
    /\ UNCHANGED <<level, stats, cpuVars, code, old, oldLevel, halted>>

(* The machine has halted, or the bound on time is reached.                *)
End == (halted \/ stats.totalTicks >= MaxTime) /\ UNCHANGED vars

----------------------------------------------------------------------------
(* After Initialize: the timer, if any, was armed before interrupts were   *)
(* enabled for the first time; the other threads have been forked.         *)
Init ==
    /\ level = "IntOff"
    /\ status = "SystemMode"
    /\ yieldOnReturn = FALSE
    /\ pending \in IF TimerDelay = {} THEN {<<>>}
                   ELSE {<<[type |-> "Timer", when |-> d, arg |-> NULL]>> : d \in TimerDelay}
    /\ stats = [totalTicks |-> 0, idleTicks |-> 0, systemTicks |-> 0, userTicks |-> 0]
    /\ currentThread = Main
    /\ readyList \in SetToSeqs(Thread \ {Main})
    /\ where = [t \in Thread |-> "resume"]
    /\ code = [t \in Thread |-> "kernel"]
    /\ old = [t \in Thread |-> "SystemMode"]
    /\ oldLevel = [t \in Thread |-> "IntOn"]
    /\ halted = FALSE

KernelStep ==
    \/ \E now \in {"IntOn", "IntOff"} : SetLevel(now)
    \/ \E d \in DeviceDelay : RequestAndSleep(d)
    \/ Finish
    \/ ToUserCode

Next ==
    \/ ~halted /\ KernelStep
    \/ Instruction \/ SystemCall
    \/ TickFires \/ TickEnds \/ YieldCalled \/ Resume
    \/ ~halted /\ Dispatch
    \/ Idle \/ IdleFires \/ IdleEnds
    \/ End

Spec == Init /\ [][Next]_vars

----------------------------------------------------------------------------
(* While interrupts are enabled nothing is due: OneTick fires all that is  *)
(* before it enables them, and what a handler or a request schedules is in *)
(* the future.  (Idle may leave the timer due, with interrupts off.)       *)
NothingDueWhileOn == level = "IntOn" => \A i \in ToSet(pending) : i.when > stats.totalTicks

(* The statistics printed at the end account for all of the time.          *)
TicksAddUp == stats.totalTicks = stats.idleTicks + stats.systemTicks + stats.userTicks

(* A thread that was preempted or slept goes on in the mode of the code it *)
(* goes on with: the status that OneTick saved, however many more ticks of *)
(* this and of other threads came in between, is that of its caller.       *)
OwnMode ==
    /\ Where = "user" => status = "UserMode"
    /\ Where \in {"kernel", "resume"} => status = "SystemMode"

(* A yield is requested for the thread the timer interrupted, at once: the *)
(* request does not outlive the tick, and an idle machine drops it.        *)
YieldNotKept == yieldOnReturn => Where = "tick" \/ Idling

(* "If there are no pending interrupts, and nothing is on the ready queue, *)
(* it is time to stop": the machine never halts on a thread that waits for *)
(* a device or that could run.                                             *)
HaltsWhenDone == halted => \A t \in Thread : where[t] = "finished"
=============================================================================
