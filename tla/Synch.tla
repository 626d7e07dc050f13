-------------------------------- MODULE Synch --------------------------------
(***************************************************************************)
(* Semaphores, locks and Mesa condition variables (threads/synch.cc) on    *)
(* the scheduler of module Scheduler, with devices whose completion        *)
(* interrupt does a V (as in synchdisk.cc, synchconsole.cc and post.cc).   *)
(*                                                                         *)
(* Any thread may call any operation at any time; the clients' discipline  *)
(* is no part of this module.                                              *)
(***************************************************************************)
EXTENDS Scheduler, FiniteSets

CONSTANTS
    Sem, Lock, CV,      \* the synchronization objects
    InitialValue,       \* initialValue of each semaphore
    StaleOwner,         \* what the memory of Lock::owner may hold when the
                        \* constructor, which does not assign it, returns
    MaxUnits            \* bound: V is not called, and no device request made,
                        \* once a semaphore has this many units, counting
                        \* those its pending completion interrupts will add

ASSUME SynchAssumption ==
    /\ NULL \notin Sem \cup Lock \cup CV
    /\ IsFiniteSet(Thread)
    /\ InitialValue \in [Sem -> Nat]
    /\ MaxUnits \in Nat

VARIABLES
    value, queue,                       \* Semaphore
    available, owner, waitingThreads,   \* Lock
    waitingLock, waitingCV,             \* Condition
    pending,                            \* Interrupt::pending, per semaphore the
                                        \* completion handler will V
    held                                \* history: locks each thread has been
                                        \* given by Acquire or Wait and has
                                        \* not given back

semVars == <<value, queue>>
lockVars == <<available, owner, waitingThreads>>
cvVars == <<waitingLock, waitingCV>>
synchVars == <<semVars, lockVars, cvVars, pending, held>>
vars == <<schedVars, synchVars>>

(* What the scheduler keeps when currentThread neither sleeps nor returns  *)
(* from a routine.                                                         *)
cpuVars == <<currentThread, machineStatus, threadToBeDestroyed, halted>>

Give(t, l) == held' = [held EXCEPT ![t] = @ \cup {l}]

Take(t, l) == held' = [held EXCEPT ![t] = @ \ {l}]

(* The routine currentThread was in returns: SetLevel(inter), caller's code. *)
ReturnToCaller ==
    /\ frame' = [frame EXCEPT ![currentThread] = Plain("run")]
    /\ level' = saved[currentThread]

Sleeping == [status EXCEPT ![currentThread] = "BLOCKED"]

----------------------------------------------------------------------------
Init ==
    /\ SchedInit
    /\ value = InitialValue
    /\ queue = [s \in Sem |-> <<>>]
    /\ available = [l \in Lock |-> TRUE]
    /\ owner \in [Lock -> StaleOwner]
    /\ waitingThreads = [l \in Lock |-> <<>>]
    /\ waitingLock = [c \in CV |-> NULL]
    /\ waitingCV = [c \in CV |-> <<>>]
    /\ pending = [s \in Sem |-> 0]
    /\ held = [t \in Thread |-> {}]

----------------------------------------------------------------------------
(* Semaphore::P, called with interrupts at any level.                      *)
P(s) ==
    /\ InCaller
    /\ IF value[s] = 0
       THEN /\ queue' = [queue EXCEPT ![s] = Append(@, currentThread)]
            /\ status' = Sleeping
            /\ SleepIn(Frame("P", s, NULL), level)
            /\ UNCHANGED value
       ELSE /\ value' = [value EXCEPT ![s] = @ - 1]
            /\ UNCHANGED <<queue, status, frame, saved, level>>
    /\ UNCHANGED <<cpuVars, readyList, lockVars, cvVars, pending, held>>

(* The while loop of P, for a thread that a V has made ready: the value may*)
(* have been consumed meanwhile, and then it queues up again.              *)
PWoken ==
    /\ CpuBusy
    /\ frame[currentThread].op = "P"
    /\ LET s == frame[currentThread].obj
       IN  IF value[s] = 0
           THEN /\ queue' = [queue EXCEPT ![s] = Append(@, currentThread)]
                /\ status' = Sleeping
                /\ UNCHANGED <<value, frame, level>>
           ELSE /\ value' = [value EXCEPT ![s] = @ - 1]
                /\ ReturnToCaller
                /\ UNCHANGED <<queue, status>>
    /\ UNCHANGED <<cpuVars, saved, readyList, lockVars, cvVars, pending, held>>

(* Mutant of DoV: wake a waiter only when the value was zero.              *)
DoVFromZero(s) ==
    LET q == IF value[s] = 0 THEN queue[s] ELSE <<>>
    IN  /\ status' = Woken(q, status)
        /\ readyList' = ReadyWith(q)
        /\ queue' = [queue EXCEPT ![s] = IF q = <<>> THEN @ ELSE Tail(@)]
        /\ value' = [value EXCEPT ![s] = @ + 1]

(* The body of Semaphore::V: wake the first waiter, then increment.        *)
DoV(s) ==
    /\ status' = Woken(queue[s], status)
    /\ readyList' = ReadyWith(queue[s])
    /\ queue' = [queue EXCEPT ![s] = Rest(@)]
    /\ value' = [value EXCEPT ![s] = @ + 1]

V(s) ==
    /\ InCaller
    /\ value[s] + pending[s] < MaxUnits
    /\ DoV(s)
    /\ UNCHANGED <<cpuVars, frame, saved, level, lockVars, cvVars, pending, held>>

(* A device request schedules its completion interrupt (Disk::ReadRequest, *)
(* Console::PutChar, Network::Send call Interrupt::Schedule).              *)
DeviceRequest(s) ==
    /\ InCaller
    /\ value[s] + pending[s] < MaxUnits
    /\ pending' = [pending EXCEPT ![s] = @ + 1]
    /\ UNCHANGED <<schedVars, semVars, lockVars, cvVars, held>>

(* CheckIfDue fires a completion handler, which does a V with interrupts   *)
(* off.  It runs from OneTick, or from Idle when a sleeping thread finds   *)
(* the ready list empty (and then Idle fires whatever else is due).        *)
DeviceInterrupt(s) ==
    /\ \/ Ticking /\ UNCHANGED machineStatus
       \/ /\ Asleep
          /\ readyList = <<>> \/ machineStatus = "IdleMode"
          /\ machineStatus' = "IdleMode"
    /\ pending[s] > 0
    /\ pending' = [pending EXCEPT ![s] = @ - 1]
    /\ DoV(s)
    /\ UNCHANGED <<currentThread, threadToBeDestroyed, halted, frame, saved,
                   level, lockVars, cvVars, held>>

(* Interrupt::Idle with nothing pending but perhaps the timer: Halt.       *)
IdleHalt ==
    /\ Asleep
    /\ readyList = <<>>
    /\ \A s \in Sem : pending[s] = 0
    /\ halted' = TRUE
    /\ UNCHANGED <<currentThread, status, frame, saved, readyList, level,
                   machineStatus, threadToBeDestroyed, synchVars>>

----------------------------------------------------------------------------
(* Mutant of CanTake: Acquire does not look whether the caller is owner.   *)
CanTakeFree(l) == available[l]

(* The two paths of Lock::Acquire that do not sleep: the owner gets through*)
(* with no effect, and a FREE lock becomes BUSY with the caller as owner.  *)
CanTake(l) == owner[l] = currentThread \/ available[l]

TakeNow(l) ==
    /\ available' = [available EXCEPT ![l] = IF owner[l] = currentThread THEN @ ELSE FALSE]
    /\ owner' = [owner EXCEPT ![l] = currentThread]
    /\ Give(currentThread, l)
    /\ UNCHANGED waitingThreads

(* Lock::Acquire; a thread that sleeps in it owns the lock when it wakes,  *)
(* because Release hands the lock over.                                    *)
Acquire(l) ==
    /\ InCaller
    /\ IF CanTake(l)
       THEN /\ TakeNow(l)
            /\ UNCHANGED <<status, frame, saved, level>>
       ELSE /\ waitingThreads' = [waitingThreads EXCEPT ![l] = Append(@, currentThread)]
            /\ status' = Sleeping
            /\ SleepIn(Frame("Acquire", l, NULL), level)
            /\ UNCHANGED <<available, owner, held>>
    /\ UNCHANGED <<cpuVars, readyList, semVars, cvVars, pending>>

(* Acquire returns to a thread that slept in it.                           *)
AcquireWoken ==
    /\ CpuBusy
    /\ frame[currentThread].op = "Acquire"
    /\ Give(currentThread, frame[currentThread].obj)
    /\ ReturnToCaller
    /\ UNCHANGED <<cpuVars, status, saved, readyList, semVars, lockVars, cvVars, pending>>

(* Mutant of PassOn: the lock is made FREE although it is handed over.     *)
PassOnFree(l) ==
    /\ available' = [available EXCEPT ![l] = TRUE]
    /\ owner' = [owner EXCEPT ![l] = First(waitingThreads[l])]
    /\ waitingThreads' = [waitingThreads EXCEPT ![l] = Rest(@)]

(* The effect of Lock::Release by its owner on the lock: the first waiter  *)
(* becomes the owner of the still BUSY lock, or the lock becomes FREE.     *)
PassOn(l) ==
    /\ available' = [available EXCEPT ![l] = @ \/ waitingThreads[l] = <<>>]
    /\ owner' = [owner EXCEPT ![l] = First(waitingThreads[l])]
    /\ waitingThreads' = [waitingThreads EXCEPT ![l] = Rest(@)]

(* Lock::Release.  A caller that is not the owner gets a message and       *)
(* nothing changes.  The owner's path has no SetLevel(inter): it returns   *)
(* with interrupts off.                                                    *)
Release(l) ==
    /\ InCaller
    /\ owner[l] = currentThread
    /\ status' = Woken(waitingThreads[l], status)
    /\ readyList' = ReadyWith(waitingThreads[l])
    /\ PassOn(l)
    /\ level' = "IntOff"
    /\ Take(currentThread, l)
    /\ UNCHANGED <<cpuVars, frame, saved, semVars, cvVars, pending>>

----------------------------------------------------------------------------
(* Condition::Wait with the lock the condition is in use with, or with any *)
(* lock when it is not in use: release the lock (if it is the caller's),   *)
(* queue up, sleep.  With another lock it prints a message and returns.    *)
Wait(c, l) ==
    /\ InCaller
    /\ waitingLock[c] \in {NULL, l}
    /\ waitingLock' = [waitingLock EXCEPT ![c] = l]
    /\ waitingCV' = [waitingCV EXCEPT ![c] = Append(@, currentThread)]
    /\ IF owner[l] = currentThread
       THEN /\ status' = Woken(waitingThreads[l], Sleeping)
            /\ readyList' = ReadyWith(waitingThreads[l])
            /\ PassOn(l)
            /\ Take(currentThread, l)
       ELSE /\ status' = Sleeping
            /\ UNCHANGED <<readyList, lockVars, held>>
    /\ SleepIn(Frame("Wait", l, c), level)
    /\ UNCHANGED <<cpuVars, semVars, pending>>

(* A signalled thread re-acquires the lock before Wait returns.            *)
WaitWoken ==
    /\ CpuBusy
    /\ frame[currentThread].op = "Wait"
    /\ LET l == frame[currentThread].obj
       IN  IF CanTake(l)
           THEN /\ TakeNow(l)
                /\ ReturnToCaller
                /\ UNCHANGED status
           ELSE /\ waitingThreads' = [waitingThreads EXCEPT ![l] = Append(@, currentThread)]
                /\ status' = Sleeping
                /\ frame' = [frame EXCEPT ![currentThread] = Frame("Acquire", l, NULL)]
                /\ UNCHANGED <<available, owner, held, level>>
    /\ UNCHANGED <<cpuVars, saved, readyList, semVars, cvVars, pending>>

(* Mutant of DoSignal: the thread is woken but left on the list.           *)
DoSignalKeep(c, l) ==
    /\ waitingCV[c] # <<>>
    /\ waitingLock[c] = l
    /\ status' = Woken(waitingCV[c], status)
    /\ readyList' = ReadyWith(waitingCV[c])
    /\ UNCHANGED cvVars

(* Mutant of DoSignal: the lock is unbound after every Signal.             *)
DoSignalUnbind(c, l) ==
    /\ waitingCV[c] # <<>>
    /\ waitingLock[c] = l
    /\ status' = Woken(waitingCV[c], status)
    /\ readyList' = ReadyWith(waitingCV[c])
    /\ waitingCV' = [waitingCV EXCEPT ![c] = Tail(@)]
    /\ waitingLock' = [waitingLock EXCEPT ![c] = NULL]

(* Condition::Signal past its two early returns (nobody waiting, another   *)
(* lock): wake the first waiter; the last one takes the lock binding along.*)
DoSignal(c, l) ==
    /\ waitingCV[c] # <<>>
    /\ waitingLock[c] = l
    /\ status' = Woken(waitingCV[c], status)
    /\ readyList' = ReadyWith(waitingCV[c])
    /\ waitingCV' = [waitingCV EXCEPT ![c] = Tail(@)]
    /\ waitingLock' = [waitingLock EXCEPT ![c] = IF Len(waitingCV[c]) = 1 THEN NULL ELSE @]

Signal(c, l) ==
    /\ InCaller
    /\ DoSignal(c, l)
    /\ UNCHANGED <<cpuVars, frame, saved, level, semVars, lockVars, pending, held>>

(* Condition::Broadcast is a loop of Signals that runs with interrupts as  *)
(* the caller left them, so a time slice can fall between two of them.     *)
Broadcast(c, l) ==
    /\ InCaller
    /\ frame' = [frame EXCEPT ![currentThread] = Frame("Broadcast", l, c)]
    /\ UNCHANGED <<cpuVars, status, saved, readyList, level, synchVars>>

InBroadcast == CpuBusy /\ frame[currentThread].op = "Broadcast"

BroadcastSignal ==
    /\ InBroadcast
    /\ DoSignal(frame[currentThread].cv, frame[currentThread].obj)
    /\ UNCHANGED <<cpuVars, frame, saved, level, semVars, lockVars, pending, held>>

BroadcastDone ==
    /\ InBroadcast
    /\ waitingCV[frame[currentThread].cv] = <<>>
    /\ frame' = [frame EXCEPT ![currentThread] = Plain("run")]
    /\ UNCHANGED <<cpuVars, status, saved, readyList, level, synchVars>>

(* Signal with the wrong lock removes nobody, so the loop never ends.      *)
BroadcastSpin ==
    /\ InBroadcast
    /\ waitingCV[frame[currentThread].cv] # <<>>
    /\ waitingLock[frame[currentThread].cv] # frame[currentThread].obj
    /\ UNCHANGED vars

----------------------------------------------------------------------------
(* The scheduler's own steps; a thread that finishes holds nothing more.   *)
SchedStep ==
    /\ SchedNext
    /\ UNCHANGED <<semVars, lockVars, cvVars, pending>>
    /\ held' = [t \in Thread |-> IF frame'[t].op = "Finish" THEN {} ELSE held[t]]

SemStep == PWoken \/ \E s \in Sem : P(s) \/ V(s) \/ DeviceRequest(s) \/ DeviceInterrupt(s)

LockStep == AcquireWoken \/ \E l \in Lock : Acquire(l) \/ Release(l)

CVStep ==
    \/ WaitWoken
    \/ \E c \in CV, l \in Lock : Wait(c, l) \/ Signal(c, l) \/ Broadcast(c, l)
    \/ BroadcastSignal
    \/ BroadcastDone
    \/ BroadcastSpin

Halted == halted /\ UNCHANGED vars

Next == SchedStep \/ SemStep \/ LockStep \/ CVStep \/ IdleHalt \/ Halted

Spec == Init /\ [][Next]_vars

(* The CPU never stops: a sleeping CPU dispatches a ready thread or fires a*)
(* pending interrupt, and a woken thread goes on with its routine.  User   *)
(* code executes at least one instruction between two system calls.  The   *)
(* timer always re-arms itself and a due interrupt stays pending until the *)
(* next tick, so a thread that ticks again and again is sliced in the end. *)
Fairness ==
    /\ WF_vars(Dispatch /\ SchedStep)
    /\ WF_vars(Asleep /\ \E s \in Sem : DeviceInterrupt(s))
    /\ WF_vars(PWoken \/ AcquireWoken \/ WaitWoken \/ BroadcastSignal \/ BroadcastDone)
    /\ WF_vars(UserInstruction /\ SchedStep)
    /\ SF_vars(TimeSlice /\ SchedStep)

FairSpec == Spec /\ Fairness

----------------------------------------------------------------------------
Ops == {"run", "ThreadRoot", "Finish", "P", "Acquire", "Wait", "Broadcast"}

FrameType == [op : Ops, obj : Sem \cup Lock \cup {NULL}, cv : CV \cup {NULL}]

(* The frame of a thread inside a routine names the objects the routine    *)
(* was called with.                                                        *)
FrameOK ==
    \A t \in Thread :
        /\ frame[t].op = "P" => frame[t].obj \in Sem
        /\ frame[t].op \in {"Acquire", "Wait", "Broadcast"} => frame[t].obj \in Lock
        /\ frame[t].op \in {"Wait", "Broadcast"} => frame[t].cv \in CV

SynchTypeOK ==
    /\ value \in [Sem -> Nat]
    /\ queue \in [Sem -> Seq(Thread)]
    /\ available \in [Lock -> BOOLEAN]
    /\ owner \in [Lock -> Thread \cup StaleOwner \cup {NULL}]
    /\ waitingThreads \in [Lock -> Seq(Thread)]
    /\ waitingLock \in [CV -> Lock \cup {NULL}]
    /\ waitingCV \in [CV -> Seq(Thread)]
    /\ pending \in [Sem -> Nat]
    /\ held \in [Thread -> SUBSET Lock]

(* Every variable has its type, and the code that resumes a thread finds   *)
(* the objects its frame names; a semaphore's value is never negative.     *)
TypeOK == SchedTypeOK(FrameType) /\ FrameOK /\ SynchTypeOK

(* The threads that are asleep in P(s), in Acquire(l) and in Wait(c).      *)
ReadySet == {t \in Thread : status[t] = "READY"}

AsleepInP(s) ==
    {t \in Thread : status[t] = "BLOCKED" /\ frame[t].op = "P" /\ frame[t].obj = s}

AsleepInAcquire(l) ==
    {t \in Thread : status[t] = "BLOCKED" /\ frame[t].op = "Acquire" /\ frame[t].obj = l}

AsleepInWait(c) ==
    {t \in Thread : status[t] = "BLOCKED" /\ frame[t].op = "Wait" /\ frame[t].cv = c}

(* q is the list of exactly the threads in S, each once.                   *)
Lists(q, S) == IsInjective(q) /\ Range(q) = S

ReadyOK == Lists(readyList, ReadySet)

SemQueuesOK == \A s \in Sem : Lists(queue[s], AsleepInP(s))

LockQueuesOK == \A l \in Lock : Lists(waitingThreads[l], AsleepInAcquire(l))

CVQueuesOK == \A c \in CV : Lists(waitingCV[c], AsleepInWait(c))

StatusOK ==
    \A t \in Thread :
        /\ status[t] = "RUNNING" => t = currentThread
        /\ status[t] = "BLOCKED" => frame[t].op \in {"P", "Acquire", "Wait", "Finish"}

(* Thread and List code never loses a thread or runs it twice: the ready   *)
(* list holds the READY threads once each; a BLOCKED thread that has not   *)
(* finished is, once, in the queue of the semaphore, lock or condition it  *)
(* sleeps on and in no other; only currentThread is RUNNING.  ReadyToRun   *)
(* and Append check none of this, so one wrong wake-up would corrupt the   *)
(* lists silently.                                                         *)
OnePlace == ReadyOK /\ SemQueuesOK /\ LockQueuesOK /\ CVQueuesOK /\ StatusOK

(* Lock: two threads never both believe they hold the same lock, where a   *)
(* thread believes so from the return of Acquire or Wait to its Release.   *)
MutualExclusion ==
    \A t, u \in Thread : t # u => held[t] \cap held[u] = {}

Awake(t) == status[t] \in {"READY", "RUNNING"}

(* Lock: a FREE lock has no owner and nobody waits for it; a BUSY one has  *)
(* an owner that does not wait for it; and both the thread that believes   *)
(* to hold a lock and the one Release woke, which has not run yet, are     *)
(* really its owner.                                                       *)
LockConsistent ==
    \A l \in Lock :
        /\ available[l] => owner[l] \notin Thread /\ waitingThreads[l] = <<>>
        /\ ~available[l] => owner[l] \in Thread \ Range(waitingThreads[l])
        /\ \A t \in Thread :
            \/ l \in held[t]
            \/ Awake(t) /\ frame[t].op = "Acquire" /\ frame[t].obj = l
            => owner[l] = t

(* The threads a V has woken in P(s) that have not run since.              *)
WokenInP(s) == {t \in Thread : Awake(t) /\ frame[t].op = "P" /\ frame[t].obj = s}

(* Semaphore: while threads are queued in P, every unit of the value has a *)
(* woken thread on its way to consume it.  So a waiter is never left asleep*)
(* with units nobody is coming for, although V wakes only one thread and a *)
(* passer-by may take the unit the woken thread was woken for.             *)
NoLostWakeup ==
    \A s \in Sem : queue[s] # <<>> => value[s] <= Cardinality(WokenInP(s))

(* Condition: waitingLock is set exactly while somebody waits, and it is   *)
(* the lock every one of the waiters released and will take again, which is*)
(* what the "Wrong lock!" tests of Wait and Signal rely on.                *)
CVLockAgrees ==
    \A c \in CV :
        /\ waitingLock[c] = NULL <=> waitingCV[c] = <<>>
        /\ \A t \in AsleepInWait(c) : frame[t].obj = waitingLock[c]

(* Thread::~Thread asserts this != currentThread: the object Run deletes is*)
(* a finished thread's, and it is on no list and not the next to run.      *)
CarcassIsDead ==
    threadToBeDestroyed # NULL =>
        Finished(threadToBeDestroyed) /\ status[threadToBeDestroyed] = "BLOCKED"

(* The locks are those of FifoLock: whatever is interleaved with it, a lock*)
(* goes to a thread that found it FREE or from its owner to the longest    *)
(* waiter, and nobody barges in between a Release and the waiter's return. *)
Holder == [l \in Lock |-> IF available[l] THEN NULL ELSE owner[l]]

Fifo == INSTANCE FifoLock WITH
            caller <- currentThread, holder <- Holder, line <- waitingThreads

LocksAreFifo == Fifo!Spec

(* Round robin: with a timer and user programs, a thread made ready gets   *)
(* the CPU, whatever the others do and although Release leaves interrupts  *)
(* off: the next user instruction turns them on again.                     *)
ReadyRuns == \A t \in Thread : status[t] = "READY" ~> status[t] = "RUNNING"
==============================================================================
