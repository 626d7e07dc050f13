------------------------------ MODULE Syscalls ------------------------------
(***************************************************************************)
(* The lock and condition variable system calls of userprog/exception.cc:  *)
(* LockTable and CVTable, their guards LockTableLock and CVTableLock, and  *)
(* the nine handlers, on the kernel of module Synch.                       *)
(*                                                                         *)
(* A handler can lose the CPU only inside a call of Synch and on the tick  *)
(* of a SetLevel(IntOn), so its steps are the stretches between its calls  *)
(* of Synch, and call says which stretch a thread is going to execute.     *)
(* Lock::Release leaves interrupts off until the next user instruction,    *)
(* and Synch's level keeps the stretches after it together.                *)
(***************************************************************************)
EXTENDS Synch, Integers

CONSTANTS
    LockTableLock, CVTableLock,     \* the Lock objects that guard the tables
    MaxLocks, MaxCVs,               \* bounds: entries of LockTable and CVTable
    LockArg, CVArg,                 \* the numbers user programs pass
    Calls                           \* the system calls they make

(* The objects the tables point to are named by their index: no entry is   *)
(* ever reused and no Lock or Condition is ever deleted.                   *)
ASSUME SyscallsAssumption ==
    /\ {LockTableLock, CVTableLock} \subseteq Lock
    /\ LockTableLock # CVTableLock
    /\ MaxLocks \in Nat /\ MaxCVs \in Nat
    /\ 0 .. MaxLocks - 1 \subseteq Lock \ {LockTableLock, CVTableLock}
    /\ 0 .. MaxCVs - 1 \subseteq CV
    /\ LockArg \subseteq Int /\ CVArg \subseteq Int
    /\ Calls \subseteq {"Acquire", "Release", "Wait", "Signal", "Broadcast",
                        "CreateLock", "DestroyLock", "CreateCV", "DestroyCV"}

VARIABLES
    LockTable, CVTable,     \* the two vectors
    call,                   \* per thread: the handler, where in it, arguments
    fault                   \* the kernel dereferenced a null pointer and died

tableVars == <<LockTable, CVTable, fault>>
allVars == <<vars, tableVars, call>>

----------------------------------------------------------------------------
Call(op, pc, n, m) == [op |-> op, pc |-> pc, n |-> n, m |-> m]

(* The thread executes its user program.                                   *)
User == Call("user", "user", 0, 0)

InUser == InCaller /\ call[currentThread] = User

At(op, pc) ==
    InCaller /\ call[currentThread].op = op /\ call[currentThread].pc = pc

Arg == call[currentThread].n
Arg2 == call[currentThread].m

Goto(pc) == call' = [call EXCEPT ![currentThread].pc = pc]

Return == call' = [call EXCEPT ![currentThread] = User]

(* LockTable[n].Kernel_Lock and CVTable[n].CV; NULL out of range too.      *)
LockAt(n) == IF n \in 0 .. Len(LockTable) - 1 THEN LockTable[n + 1].Kernel_Lock ELSE NULL

CVAt(n) == IF n \in 0 .. Len(CVTable) - 1 THEN CVTable[n + 1].CV ELSE NULL

(* Mutant of TableLock: DestroyLock locks the wrong table.                 *)
TableLockMixed(op) ==
    IF op \in {"Acquire", "Release", "CreateLock"} THEN LockTableLock ELSE CVTableLock

TableLock(op) ==
    IF op \in {"Acquire", "Release", "CreateLock", "DestroyLock"}
    THEN LockTableLock ELSE CVTableLock

----------------------------------------------------------------------------
(* The routines of Synch with their early returns, which change nothing.   *)
ReleaseLock(l) ==
    IF owner[l] = currentThread THEN Release(l) ELSE InCaller /\ UNCHANGED vars

SignalCV(c, l) ==
    IF waitingCV[c] # <<>> /\ waitingLock[c] = l
    THEN Signal(c, l) ELSE InCaller /\ UNCHANGED vars

WaitCV(c, l) ==
    IF waitingLock[c] \in {NULL, l} THEN Wait(c, l) ELSE InCaller /\ UNCHANGED vars

(* ExceptionHandler enters a handler, which starts by acquiring its table's*)
(* lock.  The tick of the previous user instruction left interrupts on.    *)
Enter(op, n, m) ==
    /\ InUser
    /\ level = "IntOn"
    /\ Acquire(TableLock(op))
    /\ call' = [call EXCEPT ![currentThread] = Call(op, "check", n, m)]
    /\ UNCHANGED tableVars

(* Unlock the table and return to the user program.                        *)
Leave(op) ==
    /\ ReleaseLock(TableLock(op))
    /\ Return
    /\ UNCHANGED fault

Init_Syscalls ==
    /\ Init
    /\ LockTable = <<>>
    /\ CVTable = <<>>
    /\ call = [t \in Thread |-> User]
    /\ fault = FALSE

----------------------------------------------------------------------------
(* Mutant of Acquire_Syscall: the error path forgets to unlock the table.  *)
AcquireKeepsTable ==
    \/ /\ At("Acquire", "check")
       /\ IF LockAt(Arg) = NULL \/ LockTable[Arg + 1].IsDeleted
          THEN Return /\ UNCHANGED <<vars, fault>>
          ELSE Acquire(LockAt(Arg)) /\ Goto("unlock") /\ UNCHANGED fault
       /\ UNCHANGED <<LockTable, CVTable>>
    \/ /\ At("Acquire", "unlock")
       /\ Leave("Acquire")
       /\ UNCHANGED <<LockTable, CVTable>>

(* Acquire_Syscall: the lock is acquired with the table locked.            *)
Acquire_Syscall ==
    \/ /\ At("Acquire", "check")
       /\ IF LockAt(Arg) = NULL \/ LockTable[Arg + 1].IsDeleted
          THEN Leave("Acquire")
          ELSE Acquire(LockAt(Arg)) /\ Goto("unlock") /\ UNCHANGED fault
       /\ UNCHANGED <<LockTable, CVTable>>
    \/ /\ At("Acquire", "unlock")
       /\ Leave("Acquire")
       /\ UNCHANGED <<LockTable, CVTable>>

(* Release_Syscall; the pending deletion is carried out after the table has*)
(* been unlocked.                                                          *)
Release_Syscall ==
    \/ /\ At("Release", "check")
       /\ IF LockAt(Arg) = NULL
          THEN Leave("Release")
          ELSE ReleaseLock(LockAt(Arg)) /\ Goto("unlock") /\ UNCHANGED fault
       /\ UNCHANGED <<LockTable, CVTable>>
    \/ /\ At("Release", "unlock")
       /\ ReleaseLock(LockTableLock)
       /\ Goto("delete")
       /\ UNCHANGED tableVars
    \/ /\ At("Release", "delete")
       /\ LET gone == LockTable[Arg + 1].IsDeleted /\ waitingThreads[LockAt(Arg)] = <<>>
          IN  LockTable' = IF gone THEN [LockTable EXCEPT ![Arg + 1].Kernel_Lock = NULL]
                           ELSE LockTable
       /\ Return
       /\ UNCHANGED <<vars, CVTable, fault>>

(* The end of an error path and of Wait_Syscall, with the table unlocked   *)
(* and nothing checked: LockTable[n].Kernel_Lock->Release().  A null       *)
(* pointer faults; what lies beyond the vector may or may not.             *)
ReleaseArg(n) ==
    /\ InCaller
    /\ Return
    /\ IF LockAt(n) # NULL
       THEN ReleaseLock(LockAt(n)) /\ UNCHANGED fault
       ELSE /\ fault' \in IF n \in 0 .. Len(LockTable) - 1 THEN {TRUE} ELSE BOOLEAN
            /\ UNCHANGED vars
    /\ UNCHANGED <<LockTable, CVTable>>

(* The check Wait, Signal and Broadcast share: the CV's number is Arg, the *)
(* lock's Arg2.                                                            *)
ArgsOK == CVAt(Arg) # NULL /\ LockAt(Arg2) # NULL

(* The error path: unlock the table, then release the lock named by Arg2.  *)
BadArgs(op) ==
    \/ /\ At(op, "check") /\ ~ArgsOK
       /\ ReleaseLock(CVTableLock)
       /\ Goto("error")
       /\ UNCHANGED tableVars
    \/ /\ At(op, "error")
       /\ ReleaseArg(Arg2)

Wait_Syscall ==
    \/ BadArgs("Wait")
    \/ /\ At("Wait", "check") /\ ArgsOK
       /\ ReleaseLock(CVTableLock)
       /\ Goto("wait")
       /\ UNCHANGED tableVars
    \/ /\ At("Wait", "wait")
       /\ WaitCV(CVAt(Arg), LockAt(Arg2))
       /\ Goto("woken")
       /\ UNCHANGED tableVars
    \/ /\ At("Wait", "woken")
       /\ ReleaseArg(Arg2)

(* Signal_Syscall carries out a pending deletion, with the table locked.   *)
Signal_Syscall ==
    \/ BadArgs("Signal")
    \/ /\ At("Signal", "check") /\ ArgsOK
       /\ SignalCV(CVAt(Arg), LockAt(Arg2))
       /\ Goto("unlock")
       /\ UNCHANGED tableVars
    \/ /\ At("Signal", "unlock")
       /\ LET gone == CVTable[Arg + 1].IsDeleted /\ waitingCV[CVAt(Arg)] = <<>>
          IN  CVTable' = IF gone THEN [CVTable EXCEPT ![Arg + 1].CV = NULL] ELSE CVTable
       /\ Leave("Signal")
       /\ UNCHANGED LockTable

Broadcast_Syscall ==
    \/ BadArgs("Broadcast")
    \/ /\ At("Broadcast", "check") /\ ArgsOK
       /\ Broadcast(CVAt(Arg), LockAt(Arg2))
       /\ Goto("unlock")
       /\ UNCHANGED tableVars
    \/ /\ At("Broadcast", "unlock")
       /\ Leave("Broadcast")
       /\ UNCHANGED <<LockTable, CVTable>>

----------------------------------------------------------------------------
CreateLock_Syscall ==
    /\ At("CreateLock", "check")
    /\ LockTable' = Append(LockTable, [Kernel_Lock |-> Len(LockTable), IsDeleted |-> FALSE])
    /\ Leave("CreateLock")
    /\ UNCHANGED CVTable

(* DestroyLock_Syscall: IsDeleted is set, and the entry cleared unless     *)
(* threads are queued in the lock.                                         *)
DestroyLock_Syscall ==
    /\ At("DestroyLock", "check")
    /\ LockTable' =
        IF LockAt(Arg) = NULL THEN LockTable
        ELSE [LockTable EXCEPT ![Arg + 1] =
                [Kernel_Lock |-> IF waitingThreads[LockAt(Arg)] = <<>> THEN NULL ELSE @.Kernel_Lock,
                 IsDeleted |-> TRUE]]
    /\ Leave("DestroyLock")
    /\ UNCHANGED CVTable

CreateCV_Syscall ==
    /\ At("CreateCV", "check")
    /\ CVTable' = Append(CVTable, [CV |-> Len(CVTable), IsDeleted |-> FALSE])
    /\ Leave("CreateCV")
    /\ UNCHANGED LockTable

DestroyCV_Syscall ==
    /\ At("DestroyCV", "check")
    /\ CVTable' =
        IF CVAt(Arg) = NULL THEN CVTable
        ELSE [CVTable EXCEPT ![Arg + 1] =
                [CV |-> IF waitingCV[CVAt(Arg)] = <<>> THEN NULL ELSE @.CV,
                 IsDeleted |-> TRUE]]
    /\ Leave("DestroyCV")
    /\ UNCHANGED LockTable

----------------------------------------------------------------------------
(* ExceptionHandler: which handler, with which arguments.  A table does not*)
(* grow beyond its bound, counting the handlers about to make it grow.     *)
Creating(op) == Cardinality({t \in Thread : call[t].op = op})

EnterAny ==
    \/ \E op \in Calls \cap {"Acquire", "Release", "DestroyLock"}, n \in LockArg : Enter(op, n, 0)
    \/ \E op \in Calls \cap {"Wait", "Signal", "Broadcast"}, n \in CVArg, m \in LockArg :
            Enter(op, n, m)
    \/ \E op \in Calls \cap {"DestroyCV"}, n \in CVArg : Enter(op, n, 0)
    \/ \E op \in Calls \cap {"CreateLock"} :
            Len(LockTable) + Creating(op) < MaxLocks /\ Enter(op, 0, 0)
    \/ \E op \in Calls \cap {"CreateCV"} :
            Len(CVTable) + Creating(op) < MaxCVs /\ Enter(op, 0, 0)

Handler ==
    \/ Acquire_Syscall \/ Release_Syscall
    \/ Wait_Syscall \/ Signal_Syscall \/ Broadcast_Syscall
    \/ CreateLock_Syscall \/ DestroyLock_Syscall
    \/ CreateCV_Syscall \/ DestroyCV_Syscall

(* A user thread executes, forks, yields or exits (its next instruction    *)
(* first turns interrupts on); elsewhere only the timer and Sleep switch.  *)
UserStep ==
    /\ InUser
    /\ level = "IntOn" \/ UserInstruction
    /\ SchedStep

Switch == (TimeSlice \/ Dispatch) /\ SchedStep

(* A thread goes on inside a routine of Synch.                             *)
Resume == AcquireWoken \/ WaitWoken \/ BroadcastSignal \/ BroadcastDone \/ BroadcastSpin

Kernel == UserStep \/ Switch \/ Resume \/ IdleHalt

Dead == (fault \/ halted) /\ UNCHANGED allVars

Next_Syscalls ==
    \/ ~fault /\ EnterAny
    \/ ~fault /\ Handler
    \/ ~fault /\ Kernel /\ UNCHANGED <<tableVars, call>>
    \/ Dead

Spec_Syscalls == Init_Syscalls /\ [][Next_Syscalls]_allVars

(* As in Synch, and a thread inside a handler goes on with it.             *)
Fairness_Syscalls ==
    LET Does(A) == ~fault /\ A /\ SchedStep /\ UNCHANGED <<tableVars, call>>
    IN  /\ WF_allVars(~fault /\ Handler)
        /\ WF_allVars(~fault /\ Resume /\ UNCHANGED <<tableVars, call>>)
        /\ WF_allVars(Does(Dispatch))
        /\ WF_allVars(Does(InUser /\ UserInstruction))
        /\ SF_allVars(Does(TimeSlice))

FairSpec_Syscalls == Spec_Syscalls /\ Fairness_Syscalls

----------------------------------------------------------------------------
Entry == [Kernel_Lock : (0 .. MaxLocks - 1) \cup {NULL}, IsDeleted : BOOLEAN]

CVEntry == [CV : (0 .. MaxCVs - 1) \cup {NULL}, IsDeleted : BOOLEAN]

CallType ==
    [op : {"user", "Acquire", "Release", "Wait", "Signal", "Broadcast",
           "CreateLock", "DestroyLock", "CreateCV", "DestroyCV"},
     pc : {"user", "check", "unlock", "delete", "wait", "woken", "error"},
     n : LockArg \cup CVArg \cup {0}, m : LockArg \cup {0}]

(* The tables point to objects that were created; the handlers are where   *)
(* their code can be.                                                      *)
TypeOK_Syscalls ==
    /\ LockTable \in Seq(Entry)
    /\ CVTable \in Seq(CVEntry)
    /\ fault \in BOOLEAN
    /\ call \in [Thread -> CallType]

(* t is in a stretch of a handler that needs the table guarded by l.       *)
Inside(t, l) == call[t].pc \in {"check", "unlock"} /\ TableLock(call[t].op) = l

(* Every path through a handler, the error paths included, gives the table *)
(* lock back: a thread owns a table's lock only inside a handler that      *)
(* acquired it, and such a handler has it all the time except while it is  *)
(* asleep waiting for it.                                                  *)
TableLocks ==
    \A t \in Thread, l \in {LockTableLock, CVTableLock} :
        /\ owner[l] = t => Inside(t, l)
        /\ Inside(t, l) /\ t \notin AsleepInAcquire(l) => owner[l] = t

(* An entry that a handler found valid is still there when the handler has *)
(* been asleep or preempted with the table locked, and also in the two     *)
(* stretches that use it after the table was unlocked: the deletion at the *)
(* end of Release_Syscall and the call of Wait in Wait_Syscall, where only *)
(* the level Release left behind ensures it.  Nothing is said of the lock  *)
(* Wait_Syscall looks up again when its Wait has returned (pc "woken"): it *)
(* may have been destroyed during the sleep, and ReleaseArg then faults.   *)
CheckedIsLive ==
    \A t \in Thread :
        LET c == call[t]
        IN  /\ c.pc = "unlock" /\ c.op \in {"Acquire", "Release"} => LockAt(c.n) # NULL
            /\ c.pc = "unlock" /\ c.op \in {"Signal", "Broadcast"} => CVAt(c.n) # NULL
            /\ c.pc = "delete" => LockAt(c.n) # NULL
            /\ c.pc = "wait" => CVAt(c.n) # NULL /\ LockAt(c.m) # NULL

(* A cleared entry stays cleared and is marked deleted, and a mark is never*)
(* taken back, however the handlers interleave: a number is never recycled.*)
EntriesOnlyDie ==
    [][/\ \A i \in DOMAIN LockTable :
            /\ LockTable'[i].Kernel_Lock \in {LockTable[i].Kernel_Lock, NULL}
            /\ LockTable[i].IsDeleted \/ LockTable'[i].Kernel_Lock = NULL
                 => LockTable'[i].IsDeleted
       /\ \A i \in DOMAIN CVTable :
            /\ CVTable'[i].CV \in {CVTable[i].CV, NULL}
            /\ CVTable[i].IsDeleted \/ CVTable'[i].CV = NULL => CVTable'[i].IsDeleted
      ]_<<LockTable, CVTable>>

(* "LockTable[n].Kernel_Lock->Release(); // Releases said lock"            *)
(* (Release_Syscall): a Release that was called comes to its end.          *)
ReleaseReturns ==
    \A t \in Thread : call[t].op = "Release" ~> call[t].op = "user"
==============================================================================
