------------------------------- MODULE Process -------------------------------
(***************************************************************************)
(* Processes: Exec, Fork, Exit, Yield and Halt of userprog/exception.cc,   *)
(* StartProcess of progtest.cc, the process table (class Table), the frames*)
(* of memMap and the address spaces of addrspace.cc, and the user context  *)
(* that Scheduler::Run saves and restores, on the kernel of module Synch.  *)
(* Of the user registers the context here has the two program counters and *)
(* the stack pointer, which every start of a thread writes; the others are *)
(* left out, for kernelRun leaves in them what the thread before it had.   *)
(*                                                                         *)
(* As in module Syscalls, a step is the stretch of a routine between two   *)
(* calls that can lose the CPU.                                            *)
(***************************************************************************)
EXTENDS Synch, Integers, FiniteSetsExt

CONSTANTS
    syscallLock,        \* serializes Exec, Fork and Exit
    tableLock,          \* processTable->lock
    TableSize,          \* PROCESS_TABLE_MAX_SIZE
    NumPhysPages,
    Images,             \* pages needed by the executables there are; one that
                        \* needs none is not in NOFF format
    StalePid,           \* what Thread::pid, which the constructor does not
                        \* assign, may hold in the main thread
    Calls,              \* the system calls the user programs make
    MaxForks            \* bound: a process that has had so many threads does
                        \* not call Fork

ASSUME ProcessAssumption ==
    /\ {syscallLock, tableLock} \subseteq Lock /\ syscallLock # tableLock
    /\ TableSize \in Nat \ {0} /\ NumPhysPages \in Nat
    /\ Images \subseteq Nat /\ StalePid \subseteq Int /\ MaxForks \in Nat
    /\ NULL \notin [activeThreadCount : Int, inactiveThreadCount : Int]
    /\ UserProgram

VARIABLES
    map, table,         \* processTable: the marked slots, and their contents
    memMap,             \* the marked physical pages
    pageTables,         \* the page table of each address space created so far
    space, pid,         \* Thread::space (0 for NULL) and Thread::pid
    regs, userRegisters,\* whose PCReg, NextPCReg and StackReg are in the CPU,
                        \* and are saved for each thread
    pageTable,          \* machine->pageTable: which address space's
    call,               \* per thread: the routine, where in it, its locals
    fault,              \* the kernel died: null pointer or failed ASSERT
    astray              \* history: the main thread's pid is not its process's,
                        \* or a Put has found the process table full

tableVars == <<map, table>>
memoryVars == <<memMap, pageTables, space>>
contextVars == <<regs, userRegisters, pageTable>>
processVars == <<tableVars, memoryVars, pid, contextVars, call, fault>>
allVars == <<vars, processVars, astray>>

----------------------------------------------------------------------------
Slot == 0 .. TableSize - 1

(* What new void*[size] leaves in an entry that was never stored.          *)
Junk == [activeThreadCount |-> -1, inactiveThreadCount |-> -1]

Process(a, i) == [activeThreadCount |-> a, inactiveThreadCount |-> i]

Call(op, pc, new, slot) == [op |-> op, pc |-> pc, new |-> new, slot |-> slot]

User == Call("user", "user", NULL, -1)
Gone == Call("gone", "gone", NULL, -1)

Here == call[currentThread]

InUser == InCaller /\ Here = User

At(op, pc) == InCaller /\ Here.op = op /\ Here.pc = pc

Goto(pc) == call' = [call EXCEPT ![currentThread].pc = pc]

Return == call' = [call EXCEPT ![currentThread] = User]

(* Table::Get: NULL out of range and for a slot that is not marked.        *)
Get(i) == IF i \in map THEN table[i] ELSE NULL

(* BitMap::Find: the first clear bit of n, -1 if there is none.            *)
Find(bits, n) == IF 0 .. n - 1 \subseteq bits THEN -1 ELSE Min((0 .. n - 1) \ bits)

(* Addresses at which a Thread can still be allocated, less those a call   *)
(* on its way is going to use: threads are bounded by the set Thread.      *)
RoomForThread ==
    Cardinality({t \in Thread : status[t] = "FREE"})
        > Cardinality({t \in Thread : call[t].op \in {"Exec", "Fork"} /\ call[t].new = NULL})

----------------------------------------------------------------------------
Frames == 0 .. NumPhysPages - 1

(* The physical pages memMap->Find hands out in n calls.                   *)
Lowest(n) ==
    CHOOSE S \in SUBSET (Frames \ memMap) :
        Cardinality(S) = n /\ \A f \in S, g \in Frames \ (memMap \cup S) : f < g

(* AddrSpace::AddrSpace when its ASSERTs are met and enough pages are free.*)
(* Pages are handed out in ascending order, so a page table is a set.      *)
AddrSpace(n) ==
    /\ n \in 1 .. Cardinality(Frames \ memMap)
    /\ memMap' = memMap \cup Lowest(n)
    /\ pageTables' = Append(pageTables, Lowest(n))

(* The two ways the constructor ends the machine: a failed ASSERT, and     *)
(* "Physical Pages too small!" followed by Halt.                           *)
LoadFails(n) ==
    /\ \/ n \notin 1 .. NumPhysPages /\ fault' = TRUE /\ UNCHANGED halted
       \/ /\ n \in 1 .. NumPhysPages
          /\ Cardinality(Frames \ memMap) < n
          /\ halted' = TRUE /\ UNCHANGED fault
    /\ UNCHANGED <<currentThread, status, frame, saved, readyList, level,
                   machineStatus, threadToBeDestroyed, synchVars, tableVars,
                   memoryVars, pid, contextVars, call>>

(* fileTable.Put(0), twice: the Release in it leaves interrupts off.       *)
ReserveConsole == level' = "IntOff"

----------------------------------------------------------------------------
(* Table::Put in three steps: lock; find a slot and unlock; store.         *)
PutAcquire(op) ==
    /\ At(op, "put")
    /\ Acquire(tableLock)
    /\ Goto("find")
    /\ UNCHANGED <<tableVars, memoryVars, pid, contextVars, fault>>

PutFind(op) ==
    /\ At(op, "find")
    /\ Release(tableLock)
    /\ LET i == Find(map, TableSize)
       IN  /\ map' = IF i = -1 THEN map ELSE map \cup {i}
           /\ call' = [call EXCEPT ![currentThread].pc = "store",
                                   ![currentThread].slot = i]
    /\ UNCHANGED <<table, memoryVars, pid, contextVars, fault>>

(* StartProcess, run by the main thread.  Nothing sets the main thread's   *)
(* pid.                                                                    *)
StartProcess ==
    \/ /\ At("Start", "load")
       /\ \E n \in Images :
            \/ /\ AddrSpace(n)
               /\ ReserveConsole
               /\ space' = [space EXCEPT ![currentThread] = Len(pageTables) + 1]
               /\ Goto("put")
               /\ UNCHANGED <<currentThread, status, frame, saved, readyList,
                              machineStatus, threadToBeDestroyed, halted, synchVars,
                              tableVars, pid, contextVars, fault>>
            \/ LoadFails(n)
    \/ PutAcquire("Start")
    \/ PutFind("Start")
    \/ /\ At("Start", "store")
       /\ table' = [table EXCEPT ![Here.slot] = Process(1, 0)]
       /\ regs' = currentThread
       /\ pageTable' = space[currentThread]
       /\ Return
       /\ UNCHANGED <<vars, map, memMap, pageTables, space, pid, userRegisters, fault>>

(* The executable cannot be opened: StartProcess returns, main finishes.   *)
StartFails ==
    /\ At("Start", "load")
    /\ Finish
    /\ call' = [call EXCEPT ![currentThread] = Gone]
    /\ UNCHANGED <<synchVars, tableVars, memoryVars, pid, contextVars, fault>>

----------------------------------------------------------------------------
(* ExceptionHandler enters Exec, Fork or Exit, which take syscallLock.  The*)
(* tick of the previous user instruction left interrupts on.               *)
Enter(op, pc) ==
    /\ InUser /\ level = "IntOn" /\ op \in Calls
    /\ Acquire(syscallLock)
    /\ call' = [call EXCEPT ![currentThread] = Call(op, pc, NULL, -1)]
    /\ UNCHANGED <<tableVars, memoryVars, pid, contextVars, fault>>

(* new Thread at an unused address.                                        *)
Create(t) == status[t] = "FREE" /\ status' = [status EXCEPT ![t] = "JUST_CREATED"]

(* Exec_Syscall past copyin and Open, whose failures return at once.  The  *)
(* path taken when the table is full returns without releasing syscallLock *)
(* or deleting the thread.                                                 *)
Exec_Syscall ==
    \/ /\ At("Exec", "load")
       /\ \E n \in Images :
            \/ /\ AddrSpace(n)
               /\ ReserveConsole
               /\ \E t \in Thread :
                    /\ Create(t)
                    /\ space' = [space EXCEPT ![t] = Len(pageTables) + 1]
                    /\ call' = [call EXCEPT ![currentThread] = Call("Exec", "put", t, -1)]
               /\ UNCHANGED <<currentThread, frame, saved, readyList, machineStatus,
                              threadToBeDestroyed, halted, synchVars, tableVars,
                              pid, contextVars, fault>>
            \/ LoadFails(n)
    \/ PutAcquire("Exec")
    \/ PutFind("Exec")
    \/ /\ At("Exec", "store") /\ Here.slot = -1
       /\ Return
       /\ UNCHANGED <<vars, tableVars, memoryVars, pid, contextVars, fault>>
    \/ /\ At("Exec", "store") /\ Here.slot # -1
       /\ table' = [table EXCEPT ![Here.slot] = Process(1, 0)]
       /\ pid' = [pid EXCEPT ![Here.new] = Here.slot]
       /\ Release(syscallLock)
       /\ call' = [call EXCEPT ![currentThread].pc = "fork",
                               ![Here.new] = Call("newProcess", "start", NULL, -1)]
       /\ UNCHANGED <<map, memoryVars, contextVars, fault>>
    \/ /\ At("Exec", "fork")
       /\ Fork(Here.new)
       /\ Return
       /\ UNCHANGED <<synchVars, tableVars, memoryVars, pid, contextVars, fault>>

(* newProcess and kernelRun: the first thing a new thread does is to set   *)
(* its program counters, stack pointer and page table; then it runs user   *)
(* code.                                                                   *)
newProcess ==
    /\ At("newProcess", "start")
    /\ regs' = currentThread
    /\ pageTable' = space[currentThread]
    /\ Return
    /\ UNCHANGED <<vars, tableVars, memMap, pageTables, space, pid, userRegisters, fault>>

(* Mutant of kernelRun: the page table register is left alone.             *)
kernelRunNoRestore ==
    /\ At("kernelRun", "start")
    /\ regs' = currentThread
    /\ Return
    /\ UNCHANGED <<vars, tableVars, memMap, pageTables, space, pid, userRegisters,
                   pageTable, fault>>

kernelRun ==
    /\ At("kernelRun", "start")
    /\ regs' = currentThread
    /\ pageTable' = space[currentThread]
    /\ Return
    /\ UNCHANGED <<vars, tableVars, memMap, pageTables, space, pid, userRegisters, fault>>

(* Mutant of ForkReturns: syscallLock is not given back.                   *)
ForkReturnsLocked ==
    /\ At("Fork", "unlock")
    /\ pageTable' = space[currentThread]
    /\ Return
    /\ UNCHANGED <<vars, tableVars, memoryVars, pid, regs, userRegisters, fault>>

(* The last lines of Fork: unlock, and restore the caller's page table.    *)
ForkReturns ==
    /\ At("Fork", "unlock")
    /\ Release(syscallLock)
    /\ pageTable' = space[currentThread]
    /\ Return
    /\ UNCHANGED <<tableVars, memoryVars, pid, regs, userRegisters, fault>>

(* Fork_Syscall: without a process it returns with syscallLock held.       *)
Fork_Syscall ==
    \/ /\ At("Fork", "get") /\ Get(pid[currentThread]) # NULL
       /\ \E t \in Thread :
            /\ Create(t)
            /\ pid' = [pid EXCEPT ![t] = pid[currentThread]]
            /\ space' = [space EXCEPT ![t] = space[currentThread]]
            /\ call' = [call EXCEPT ![currentThread] = Call("Fork", "fork", t, -1),
                                    ![t] = Call("kernelRun", "start", NULL, -1)]
       /\ table' = [table EXCEPT ![pid[currentThread]].activeThreadCount = @ + 1]
       /\ UNCHANGED <<cpuVars, frame, saved, readyList, level, synchVars, map, memMap,
                      pageTables, contextVars, fault>>
    \/ /\ At("Fork", "get") /\ Get(pid[currentThread]) = NULL
       /\ Return
       /\ UNCHANGED <<vars, tableVars, memoryVars, pid, contextVars, fault>>
    \/ /\ At("Fork", "fork")
       /\ Fork(Here.new)
       /\ Goto("unlock")
       /\ UNCHANGED <<synchVars, tableVars, memoryVars, pid, contextVars, fault>>
    \/ ForkReturns

----------------------------------------------------------------------------
(* Mutant of LastThread: the threads that have exited are counted in.      *)
LastThreadEver ==
    Get(pid[currentThread]).activeThreadCount + Get(pid[currentThread]).inactiveThreadCount = 1

(* Exit_Syscall.  The branch for "only one process left" tests the capacity*)
(* of the table.                                                           *)
LastThread == Get(pid[currentThread]).activeThreadCount = 1

ExitLookup ==
    \/ /\ Get(pid[currentThread]) = NULL
       /\ fault' = TRUE
       /\ UNCHANGED <<vars, tableVars, memoryVars, pid, contextVars, call>>
    \/ /\ Get(pid[currentThread]) # NULL /\ LastThread
       /\ IF TableSize > 1 THEN Release(syscallLock) ELSE UNCHANGED vars
       /\ Goto("remove")
       /\ UNCHANGED <<tableVars, memoryVars, pid, contextVars, fault>>
    \/ /\ Get(pid[currentThread]) # NULL /\ ~LastThread
       /\ Release(syscallLock)
       /\ table' = [table EXCEPT ![pid[currentThread]] =
                        Process(@.activeThreadCount - 1, @.inactiveThreadCount + 1)]
       /\ Goto("finish")
       /\ UNCHANGED <<map, memoryVars, pid, contextVars, fault>>

(* Mutant of Remove: the bit stays marked.                                 *)
RemoveKeepsBit ==
    \/ /\ At("Exit", "remove")
       /\ Acquire(tableLock)
       /\ Goto("clear")
       /\ UNCHANGED <<tableVars, memoryVars, pid, contextVars, fault>>
    \/ /\ At("Exit", "clear")
       /\ Release(tableLock)
       /\ table' = [table EXCEPT ![pid[currentThread]] = Junk]
       /\ Goto("finish")
       /\ UNCHANGED <<map, memoryVars, pid, contextVars, fault>>

(* Table::Remove of the caller's process.                                  *)
Remove ==
    \/ /\ At("Exit", "remove")
       /\ Acquire(tableLock)
       /\ Goto("clear")
       /\ UNCHANGED <<tableVars, memoryVars, pid, contextVars, fault>>
    \/ /\ At("Exit", "clear")
       /\ Release(tableLock)
       /\ map' = map \ {pid[currentThread]}
       /\ table' = [table EXCEPT ![pid[currentThread]] = Junk]
       /\ Goto("finish")
       /\ UNCHANGED <<memoryVars, pid, contextVars, fault>>

(* Mutant of ExitEnd: Exit returns to the user program.                    *)
ExitEndReturns ==
    /\ At("Exit", "finish")
    /\ Return
    /\ UNCHANGED <<vars, tableVars, memoryVars, pid, contextVars, fault>>

(* The end of Exit: Finish, or Halt in the branch for the last process.    *)
ExitEnd ==
    /\ At("Exit", "finish")
    /\ IF TableSize > 1
       THEN Finish
       ELSE /\ halted' = TRUE
            /\ UNCHANGED <<currentThread, status, frame, saved, readyList, level,
                           machineStatus, threadToBeDestroyed>>
    /\ call' = [call EXCEPT ![currentThread] = Gone]
    /\ UNCHANGED <<synchVars, tableVars, memoryVars, pid, contextVars, fault>>

Exit_Syscall == (At("Exit", "get") /\ ExitLookup) \/ Remove \/ ExitEnd

----------------------------------------------------------------------------
(* SC_Halt, and every exception that is not a system call: Halt.           *)
HaltMachine ==
    /\ InUser /\ "Halt" \in Calls
    /\ halted' = TRUE
    /\ UNCHANGED <<currentThread, status, frame, saved, readyList, level,
                   machineStatus, threadToBeDestroyed, synchVars, processVars>>

ThreadsSoFar ==
    LET p == Get(pid[currentThread])
    IN  IF p = NULL THEN 0 ELSE p.activeThreadCount + p.inactiveThreadCount

EnterAny ==
    \/ RoomForThread /\ Enter("Exec", "load")
    \/ RoomForThread /\ ThreadsSoFar < MaxForks /\ Enter("Fork", "get")
    \/ Enter("Exit", "get")

Handler ==
    \/ StartProcess \/ StartFails \/ Exec_Syscall \/ newProcess
    \/ Fork_Syscall \/ kernelRun \/ Exit_Syscall

(* The user context in Scheduler::Run: the old thread's registers are saved*)
(* and, unless the next thread starts in ThreadRoot, its own are restored, *)
(* each for a thread with an address space.                                *)
SwitchContext ==
    LET old == currentThread
        next == currentThread'
        returns == frame[next].op # "ThreadRoot" /\ space[next] # 0
    IN  /\ userRegisters' = IF space[old] = 0 THEN userRegisters
                            ELSE [userRegisters EXCEPT ![old] = regs]
        /\ regs' = IF returns THEN userRegisters'[next] ELSE regs
        /\ pageTable' = IF returns THEN space[next] ELSE pageTable

Switch ==
    /\ \/ TimeSlice
       \/ Dispatch
       \/ InUser /\ "Yield" \in Calls /\ level = "IntOn" /\ Yield
    /\ SwitchContext
    /\ UNCHANGED <<synchVars, tableVars, memoryVars, pid, call, fault>>

Kernel ==
    /\ \/ InUser /\ UserInstruction /\ UNCHANGED synchVars
       \/ AcquireWoken
       \/ IdleHalt
    /\ UNCHANGED processVars

Dead == (fault \/ halted) /\ UNCHANGED allVars

Init_Process ==
    /\ Init
    /\ map = {} /\ table = [i \in Slot |-> Junk]
    /\ memMap = {} /\ pageTables = <<>>
    /\ space = [t \in Thread |-> 0]
    /\ \E p \in StalePid : pid = [t \in Thread |-> p]
    /\ astray = (pid[Main] # 0)
    /\ regs = Main /\ userRegisters = [t \in Thread |-> Main] /\ pageTable = 0
    /\ call = [t \in Thread |-> IF t = Main THEN Call("Start", "load", NULL, -1) ELSE Gone]
    /\ fault = FALSE

Remember ==
    astray' = (astray \/ \E t \in Thread : call'[t].pc = "store" /\ call'[t].slot = -1)

Next_Process ==
    \/ ~fault /\ EnterAny /\ Remember
    \/ ~fault /\ Handler /\ Remember
    \/ ~fault /\ HaltMachine /\ Remember
    \/ ~fault /\ Switch /\ Remember
    \/ ~fault /\ Kernel /\ Remember
    \/ Dead

Spec_Process == Init_Process /\ [][Next_Process]_allVars

(* A thread that gets the CPU back executes something before the next tick *)
(* can take it away again; a sleeping CPU dispatches or idles; user code   *)
(* executes instructions and the timer slices it.  Programs need not make  *)
(* any particular call.                                                    *)
Fairness_Process ==
    /\ \A t \in Thread : SF_allVars(~fault /\ currentThread = t /\ Handler /\ Remember)
    /\ WF_allVars(~fault /\ Kernel /\ Remember)
    /\ WF_allVars(~fault /\ Asleep /\ Switch /\ Remember)
    /\ SF_allVars(~fault /\ TimeSlice /\ Switch /\ Remember)

FairSpec_Process == Spec_Process /\ Fairness_Process

----------------------------------------------------------------------------
(* The threads of process i from the step that counts them in to the one   *)
(* that counts them out.                                                   *)
Member(t, i) ==
    /\ pid[t] = i
    /\ call[t].pc \notin {"gone", "finish"} /\ call[t].op # "Start"

(* Exec, Fork and Exit, whatever threads of whatever processes interleave, *)
(* keep a process in the table exactly as long as it has threads, with     *)
(* activeThreadCount their number: an id is not recycled under a running   *)
(* thread, and the last thread to exit is the one that removes the process.*)
(* Not so for the first process if the main thread's pid, which nothing    *)
(* assigns, is not 0.                                                      *)
ThreadCounts ==
    ~astray => \A i \in Slot :
        LET n == Cardinality({t \in Thread : Member(t, i)})
        IN  /\ n > 0 <=> Get(i) \notin {NULL, Junk}
            /\ n > 0 => Get(i).activeThreadCount = n

(* Table::Put marks the slot under the lock and stores the pointer after   *)
(* the Release: a marked slot without its pointer is only ever seen by the *)
(* thread that is about to store it.                                       *)
MarkedIsStored ==
    \A i \in map : table[i] = Junk =>
        Here.pc = "store" /\ Here.slot = i /\ level = "IntOff"

(* The scheduler's switches and the start of a new thread leave the CPU    *)
(* with the program counters, the stack pointer and the page table of the  *)
(* thread that executes user instructions, even if it was preempted before *)
(* it had set them up.  Of the other registers this would be false: a      *)
(* forked thread starts with those of whoever ran before it (kernelRun).   *)
OwnContext ==
    InUser => regs = currentThread /\ pageTable = space[currentThread]

(* When the last process is gone the machine halts, although the test for  *)
(* the last process in Exit never succeeds: Idle finds nothing to wait for.*)
LastExitHalts ==
    (map = {} /\ \A t \in Thread : call[t].op \in {"gone", "Exit"}) ~> (halted \/ fault)

(* "This system call prepares the thread to exit properly" (WRITEUP.txt):  *)
(* a thread that calls Exit ends, unless a failed Exec or Fork has kept    *)
(* syscallLock.                                                            *)
ExitEnds ==
    \A t \in Thread :
        call[t].op = "Exit" ~> (call[t].op # "Exit" \/ halted \/ fault \/ astray)
==============================================================================
