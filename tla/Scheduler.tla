------------------------------ MODULE Scheduler ------------------------------
(***************************************************************************)
(* Threads, the ready list and the interrupt level of the Nachos kernel    *)
(* (threads/thread.cc, threads/scheduler.cc, machine/interrupt.cc).        *)
(*                                                                         *)
(* Nachos is a uniprocessor: only currentThread executes, and it loses the *)
(* CPU in exactly two ways.  It gives it up (Yield, Sleep, Finish), or the *)
(* timer handler asks for a yield while OneTick runs, and OneTick runs only*)
(* when interrupts go from off to on or after a user instruction.  Kernel  *)
(* code between two such points is one atomic step, which is why an action *)
(* below is a whole routine up to the point where it sleeps or returns.    *)
(*                                                                         *)
(* A module that EXTENDS this one adds what threads sleep on and conjoins  *)
(* the actions below with UNCHANGED of its own variables.                  *)
(***************************************************************************)
EXTENDS Naturals, Sequences, Functions

CONSTANTS
    Thread,         \* addresses at which Thread objects may be allocated
    Main,           \* the thread Initialize() wraps around main()
    NULL,           \* the null pointer
    RandomYield,    \* TRUE iff started with -rs: a timer device exists
    UserProgram     \* TRUE iff threads run MIPS code through Machine::Run

ASSUME SchedulerAssumption ==
    /\ Main \in Thread
    /\ NULL \notin Thread
    /\ RandomYield \in BOOLEAN
    /\ UserProgram \in BOOLEAN

VARIABLES
    currentThread,          \* the thread that owns the CPU
    status,                 \* ThreadStatus of each Thread object
    frame,                  \* where each thread resumes when it gets the CPU
    saved,                  \* the level each thread will pass to SetLevel
    readyList,              \* Scheduler::readyList
    level,                  \* Interrupt::level
    machineStatus,          \* Interrupt::status: idling in Sleep, or not
    threadToBeDestroyed,    \* the finished thread whose object is not deleted
    halted                  \* Interrupt::Halt has run

schedVars == <<currentThread, status, frame, saved, readyList, level,
               machineStatus, threadToBeDestroyed, halted>>

----------------------------------------------------------------------------
(* "FREE" is not a ThreadStatus: no Thread object lives at the address.  A *)
(* deleted thread becomes FREE, and operator new may return its address    *)
(* again.                                                                  *)
ThreadStatus == {"JUST_CREATED", "RUNNING", "READY", "BLOCKED"}

Level == {"IntOn", "IntOff"}

(* The kernel routine a thread is inside of, with the objects the rest of  *)
(* that routine refers to.  "run" is the caller's own code.                *)
Frame(op, obj, cv) == [op |-> op, obj |-> obj, cv |-> cv]

Plain(op) == Frame(op, NULL, NULL)

(* currentThread executes; otherwise it is in the loop of Thread::Sleep.   *)
CpuBusy == ~halted /\ status[currentThread] = "RUNNING"

(* currentThread is in its caller's code and may call any kernel routine.  *)
InCaller == CpuBusy /\ frame[currentThread].op = "run"

(* currentThread has just gone through a SetLevel(IntOn) or an instruction *)
(* and interrupts are on: OneTick is looking for due interrupts.  Broadcast*)
(* is the one routine that ticks in its middle, after each Signal.         *)
Ticking ==
    CpuBusy /\ level = "IntOn" /\ frame[currentThread].op \in {"run", "Broadcast"}

Asleep == ~halted /\ status[currentThread] # "RUNNING"

----------------------------------------------------------------------------
(* List::Remove on a list that may be empty, and what is left of it.       *)
First(q) == IF q = <<>> THEN NULL ELSE Head(q)

Rest(q) == IF q = <<>> THEN <<>> ELSE Tail(q)

(* Scheduler::ReadyToRun on the first thread of q, if any: the statuses    *)
(* (from st) and the ready list it leaves.                                 *)
Woken(q, st) == IF q = <<>> THEN st ELSE [st EXCEPT ![Head(q)] = "READY"]

ReadyWith(q) == IF q = <<>> THEN readyList ELSE Append(readyList, Head(q))

(* Scheduler::Run(next), from statuses st, then the code next runs up to   *)
(* the point where it can be observed.  A new thread starts in ThreadRoot, *)
(* which enables interrupts and does not return into Run, so it does not   *)
(* delete the carcass; every other thread returns into Run and deletes it. *)
(* A thread that had called Yield only has SetLevel(oldLevel) left to do;  *)
(* one inside a synchronization routine goes on with interrupts off.       *)
Run(next, st) ==
    LET fresh == frame[next].op = "ThreadRoot"
        carcass == IF fresh THEN NULL ELSE threadToBeDestroyed
    IN  /\ currentThread' = next
        /\ status' = [t \in Thread |-> IF t = next THEN "RUNNING"
                                       ELSE IF t = carcass THEN "FREE"
                                       ELSE st[t]]
        /\ frame' = IF fresh THEN [frame EXCEPT ![next] = Plain("run")] ELSE frame
        /\ threadToBeDestroyed' = IF fresh THEN threadToBeDestroyed ELSE NULL
        /\ level' = IF fresh THEN "IntOn"
                    ELSE IF frame[next].op \in {"run", "Broadcast"} THEN saved[next]
                    ELSE "IntOff"
        /\ machineStatus' = "SystemMode"
        /\ UNCHANGED halted

(* Put currentThread to sleep inside routine f, which saved level lv.      *)
(* ASSERT(level == IntOff) in Thread::Sleep is met by every caller.        *)
SleepIn(f, lv) ==
    /\ frame' = [frame EXCEPT ![currentThread] = f]
    /\ saved' = [saved EXCEPT ![currentThread] = lv]
    /\ level' = "IntOff"

----------------------------------------------------------------------------
(* The state Initialize() leaves: main runs, interrupts are enabled.       *)
SchedInit ==
    /\ currentThread = Main
    /\ status = [t \in Thread |-> IF t = Main THEN "RUNNING" ELSE "FREE"]
    /\ frame = [t \in Thread |-> IF t = Main THEN Plain("run") ELSE Plain("ThreadRoot")]
    /\ saved = [t \in Thread |-> "IntOn"]
    /\ readyList = <<>>
    /\ level = "IntOn"
    /\ machineStatus = "SystemMode"
    /\ threadToBeDestroyed = NULL
    /\ halted = FALSE

(* new Thread(name): an unused address gets a JUST_CREATED thread object.  *)
NewThread(t) ==
    /\ InCaller
    /\ status[t] = "FREE"
    /\ status' = [status EXCEPT ![t] = "JUST_CREATED"]
    /\ UNCHANGED <<currentThread, frame, saved, readyList, level, machineStatus,
                   threadToBeDestroyed, halted>>

(* Thread::Fork: StackAllocate makes ThreadRoot the place to start, then   *)
(* ReadyToRun with interrupts off.                                         *)
Fork(t) ==
    /\ InCaller
    /\ status[t] = "JUST_CREATED"
    /\ status' = [status EXCEPT ![t] = "READY"]
    /\ frame' = [frame EXCEPT ![t] = Plain("ThreadRoot")]
    /\ readyList' = Append(readyList, t)
    /\ UNCHANGED <<currentThread, saved, level, machineStatus,
                   threadToBeDestroyed, halted>>

(* Mutant of SwitchAway: Prepend for Append in ReadyToRun.                 *)
SwitchAwayPrepend ==
    /\ readyList # <<>>
    /\ readyList' = <<currentThread>> \o Tail(readyList)
    /\ saved' = [saved EXCEPT ![currentThread] = level]
    /\ Run(Head(readyList), [status EXCEPT ![currentThread] = "READY"])

(* Thread::Yield when another thread is ready (it returns at once if none  *)
(* is): the first ready thread runs, the caller goes to the end.           *)
SwitchAway ==
    /\ readyList # <<>>
    /\ readyList' = Append(Tail(readyList), currentThread)
    /\ saved' = [saved EXCEPT ![currentThread] = level]
    /\ Run(Head(readyList), [status EXCEPT ![currentThread] = "READY"])

Yield == InCaller /\ SwitchAway

(* The timer interrupt: TimerInterruptHandler calls YieldOnReturn and      *)
(* OneTick then yields on behalf of the interrupted thread.                *)
TimeSlice == RandomYield /\ Ticking /\ SwitchAway

(* Thread::Finish: the carcass is remembered, not deleted, because its     *)
(* stack is still in use; then Sleep.                                      *)
Finish ==
    /\ InCaller
    /\ threadToBeDestroyed' = currentThread
    /\ status' = [status EXCEPT ![currentThread] = "BLOCKED"]
    /\ SleepIn(Plain("Finish"), level)
    /\ UNCHANGED <<currentThread, readyList, machineStatus, halted>>

(* Thread::Sleep once FindNextToRun returns a thread.  The next thread may *)
(* be the sleeper itself, made ready by an interrupt while the CPU idled.  *)
Dispatch ==
    /\ Asleep
    /\ readyList # <<>>
    /\ readyList' = Tail(readyList)
    /\ Run(Head(readyList), status)
    /\ UNCHANGED saved

(* Machine::Run: every user instruction ends in OneTick, whose             *)
(* ChangeLevel(IntOff, IntOn) leaves interrupts on whatever they were.     *)
UserInstruction ==
    /\ UserProgram
    /\ InCaller
    /\ level = "IntOff"
    /\ level' = "IntOn"
    /\ UNCHANGED <<currentThread, status, frame, saved, readyList, machineStatus,
                   threadToBeDestroyed, halted>>

SchedNext ==
    \/ \E t \in Thread : NewThread(t) \/ Fork(t)
    \/ Yield
    \/ TimeSlice
    \/ Finish
    \/ Dispatch
    \/ UserInstruction

----------------------------------------------------------------------------
(* Where a thread is, as the scheduler sees it.                            *)
Finished(t) == frame[t].op = "Finish"

SchedTypeOK(frames) ==
    /\ currentThread \in Thread
    /\ status \in [Thread -> ThreadStatus \cup {"FREE"}]
    /\ frame \in [Thread -> frames]
    /\ saved \in [Thread -> Level]
    /\ readyList \in Seq(Thread)
    /\ level \in Level
    /\ machineStatus \in {"SystemMode", "IdleMode"}
    /\ threadToBeDestroyed \in Thread \cup {NULL}
    /\ halted \in BOOLEAN
==============================================================================
