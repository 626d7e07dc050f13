------------------------------ MODULE FileCalls ------------------------------
(***************************************************************************)
(* The file system calls of userprog/exception.cc (Create, Open, Read,     *)
(* Write, Close), made by the threads of one user program, which share the *)
(* file table of its address space (class Table), on the file system of the*)
(* userprog build (the FILESYS_STUB classes, which call UNIX).             *)
(*                                                                         *)
(* Only Table::Put and Table::Remove can lose the CPU, after they have     *)
(* acquired the table's lock; the rest of a call is one step.              *)
(***************************************************************************)
EXTENDS Synch, Integers, FiniteSetsExt

CONSTANTS
    tableLock,          \* fileTable.lock
    TableSize,          \* MaxOpenFiles
    Names,              \* the names of files
    Sizes,              \* lengths of the buffers of Read and Write
    Pointers,           \* which user addresses are passed: {TRUE}, the good
                        \* ones only, or BOOLEAN
    Calls,              \* the calls made
    Keyboard,           \* lengths of the words typed
    MaxOpens, MaxLength \* bounds: files opened, length of a file

ASSUME FileCallsAssumption ==
    /\ tableLock \in Lock /\ UserProgram
    /\ TableSize \in Nat /\ TableSize >= 2 /\ Sizes \subseteq Nat \ {0} /\ Keyboard \subseteq Nat
    /\ Pointers \subseteq BOOLEAN /\ MaxOpens \in Nat /\ MaxLength \in Nat

VARIABLES
    map, table,     \* fileTable: the marked slots, and the pointers
    opened,         \* every OpenFile created so far: name, offset, not deleted
    length,         \* of each file; -1 if it does not exist
    at              \* per thread: the call it is in, with its argument

diskVars == <<length>>
fileVars == <<map, table, opened, diskVars, at>>
allVars == <<vars, fileVars>>

----------------------------------------------------------------------------
ConsoleInput == 0
ConsoleOutput == 1
Ids == 0 .. TableSize - 1

(* 0 is the null pointer, otherwise an index of opened.                    *)
Get(i) == IF i \in map THEN table[i] ELSE 0

Find == IF Ids \subseteq map THEN -1 ELSE Min(Ids \ map)

InUser == InCaller /\ at[currentThread].call = "user"

In(call) == InCaller /\ at[currentThread].call = call

Argument == at[currentThread].arg

Goto(call, arg) == at' = [at EXCEPT ![currentThread] = [call |-> call, arg |-> arg]]

(* ExceptionHandler gets a system call: the instruction before it ticked.  *)
Syscall(call) == InUser /\ level = "IntOn" /\ call \in Calls

(* copyin or copyout meets an address that ReadMem or WriteMem refuses: the*)
(* exception it raises is not a system call, and the handler halts.        *)
BadAddress ==
    /\ halted' = TRUE
    /\ UNCHANGED <<currentThread, status, frame, saved, readyList, level, machineStatus,
                   threadToBeDestroyed, synchVars, fileVars>>

----------------------------------------------------------------------------
(* FileSystem::Create of the stub: an existing file is truncated.          *)
Create_Syscall(name, good) ==
    /\ Syscall("Create")
    /\ IF ~good THEN BadAddress
       ELSE /\ length' = [length EXCEPT ![name] = 0]
            /\ UNCHANGED <<vars, map, table, opened, at>>

(* Open_Syscall: open the file, then Table::Put up to the Acquire.         *)
Open_Syscall(name, good) ==
    /\ Syscall("Open") /\ Len(opened) < MaxOpens
    /\ IF ~good THEN BadAddress
       ELSE IF length[name] = -1 THEN UNCHANGED allVars
       ELSE /\ opened' = Append(opened, [name |-> name, currentOffset |-> 0, live |-> TRUE])
            /\ Acquire(tableLock)
            /\ Goto("Open", Len(opened) + 1)
            /\ UNCHANGED <<map, table, diskVars>>

(* Mutant of Put: when the table is full the file stays open.              *)
PutFullKeeps ==
    LET f == Argument IN
    /\ In("Open")
    /\ Release(tableLock)
    /\ map' = IF Find = -1 THEN map ELSE map \cup {Find}
    /\ table' = IF Find = -1 THEN table ELSE [table EXCEPT ![Find] = f]
    /\ Goto("user", 0)
    /\ UNCHANGED <<opened, diskVars>>

(* Mutant of Put: when the table is full the lock is kept.                 *)
PutFullLocked ==
    LET f == Argument IN
    /\ In("Open")
    /\ IF Find = -1
       THEN /\ opened' = [opened EXCEPT ![f].live = FALSE]
            /\ UNCHANGED <<vars, map, table>>
       ELSE /\ Release(tableLock)
            /\ map' = map \cup {Find}
            /\ table' = [table EXCEPT ![Find] = f]
            /\ UNCHANGED opened
    /\ Goto("user", 0)
    /\ UNCHANGED diskVars

(* The rest of Table::Put, which stores the pointer after the Release, with*)
(* interrupts still off; and of Open, which deletes a file that has no     *)
(* place in the table.                                                     *)
Put ==
    LET f == Argument IN
    /\ In("Open")
    /\ Release(tableLock)
    /\ IF Find = -1
       THEN opened' = [opened EXCEPT ![f].live = FALSE] /\ UNCHANGED <<map, table>>
       ELSE /\ map' = map \cup {Find}
            /\ table' = [table EXCEPT ![Find] = f]
            /\ UNCHANGED opened
    /\ Goto("user", 0)
    /\ UNCHANGED diskVars

----------------------------------------------------------------------------
(* Write_Syscall: copyin precedes the look-up.  A write beyond the end of a*)
(* file that was truncated leaves a hole.                                  *)
Write_Syscall(id, len, good) ==
    LET f == Get(id)
        end == opened[f].currentOffset + len
    IN  /\ Syscall("Write")
        /\ IF id = ConsoleInput THEN UNCHANGED allVars
           ELSE IF ~good THEN BadAddress
           ELSE IF id = ConsoleOutput \/ f = 0 THEN UNCHANGED allVars
           ELSE /\ end <= MaxLength
                /\ length' = [length EXCEPT ![opened[f].name] =
                                IF end > @ THEN end ELSE @]
                /\ opened' = [opened EXCEPT ![f].currentOffset = end]
                /\ UNCHANGED <<vars, map, table, at>>

(* read() of UNIX at the offset of the open file.                          *)
ReadPartial(f, len) ==
    LET left == length[opened[f].name] - opened[f].currentOffset
    IN  IF left <= 0 THEN 0 ELSE Min({left, len})

(* Read_Syscall of a file.  Nothing is copied out when nothing was read.   *)
ReadFile(id, len, good) ==
    LET f == Get(id)
        n == ReadPartial(f, len)
    IN  IF f = 0 THEN UNCHANGED allVars
        ELSE IF n > 0 /\ ~good THEN BadAddress
        ELSE /\ opened' = [opened EXCEPT ![f].currentOffset = @ + n]
             /\ UNCHANGED <<vars, map, table, diskVars, at>>

(* Read_Syscall of the keyboard: scanf of a word, then len bytes of the    *)
(* buffer, however long the word was.  A word that fills the buffer would  *)
(* overrun it.                                                             *)
ReadKeyboard(len, good) ==
    \E word \in {w \in Keyboard : w < len} :
        IF ~good THEN BadAddress
        ELSE UNCHANGED allVars

Read_Syscall(id, len, good) ==
    /\ Syscall("Read")
    /\ \/ id = ConsoleInput /\ ReadKeyboard(len, good)
       \/ id = ConsoleOutput /\ UNCHANGED allVars
       \/ id \notin {ConsoleInput, ConsoleOutput} /\ ReadFile(id, len, good)

----------------------------------------------------------------------------
(* Close_Syscall: Table::Remove up to the Acquire.                         *)
Close_Syscall(id) ==
    /\ Syscall("Close")
    /\ IF id \notin Ids THEN UNCHANGED allVars
       ELSE /\ Acquire(tableLock)
            /\ Goto("Close", id)
            /\ UNCHANGED <<map, table, opened, diskVars>>

(* The rest: the slot is freed and the file deleted, if there was one.     *)
Remove ==
    LET id == Argument
        f == Get(id)
    IN  /\ In("Close")
        /\ Release(tableLock)
        /\ map' = map \ {id}
        /\ table' = IF id \in map THEN [table EXCEPT ![id] = 0] ELSE table
        /\ opened' = IF f = 0 THEN opened ELSE [opened EXCEPT ![f].live = FALSE]
        /\ Goto("user", 0)
        /\ UNCHANGED diskVars

----------------------------------------------------------------------------
(* Threads of the program, which Fork made ready.  A table starts with the *)
(* two null pointers AddrSpace put there for the console.                  *)
Init_FileCalls ==
    /\ Init
    /\ map = {ConsoleInput, ConsoleOutput} /\ table = [i \in Ids |-> 0]
    /\ opened = <<>>
    /\ length = [n \in Names |-> -1]
    /\ at = [t \in Thread |-> [call |-> "user", arg |-> 0]]

Spawn(t) ==
    /\ InUser
    /\ status[t] = "FREE"
    /\ status' = [status EXCEPT ![t] = "READY"]
    /\ frame' = [frame EXCEPT ![t] = Plain("ThreadRoot")]
    /\ readyList' = Append(readyList, t)
    /\ UNCHANGED <<cpuVars, saved, level, synchVars, fileVars>>

AnyCall ==
    \/ \E name \in Names, good \in Pointers : Create_Syscall(name, good) \/ Open_Syscall(name, good)
    \/ \E id \in -1 .. TableSize, len \in Sizes, good \in Pointers :
            Write_Syscall(id, len, good) \/ Read_Syscall(id, len, good)
    \/ \E id \in -1 .. TableSize : Close_Syscall(id)

Handler == Put \/ Remove

Switch == (TimeSlice \/ Dispatch) /\ UNCHANGED <<synchVars, fileVars>>

Kernel ==
    /\ (InUser /\ UserInstruction /\ UNCHANGED synchVars) \/ AcquireWoken
    /\ UNCHANGED fileVars

Dead == halted /\ UNCHANGED allVars

Next_FileCalls ==
    \/ \E t \in Thread : Spawn(t)
    \/ AnyCall
    \/ Handler
    \/ Switch
    \/ Kernel
    \/ Dead

Spec_FileCalls == Init_FileCalls /\ [][Next_FileCalls]_allVars

(* A thread that gets the CPU executes something before the next tick can  *)
(* take it away again; the timer slices user code.                         *)
FairSpec_FileCalls ==
    /\ Spec_FileCalls
    /\ \A t \in Thread : SF_allVars(currentThread = t /\ Handler)
    /\ WF_allVars(Kernel)
    /\ WF_allVars(Asleep /\ Switch)
    /\ SF_allVars(TimeSlice /\ Switch)

----------------------------------------------------------------------------
Live == {f \in DOMAIN opened : opened[f].live}

OpeningNow == {at[t].arg : t \in {u \in Thread : at[u].call = "Open"}}

(* However Opens and Closes of several threads interleave, and when the    *)
(* table is full: an OpenFile that was not deleted is in exactly one slot, *)
(* or with the one thread that is putting it there; and a slot never holds *)
(* a deleted one, so nothing is closed twice or used after it was closed.  *)
FilesAccounted ==
    LET inTable == [i \in {j \in map : table[j] # 0} |-> table[i]]
    IN  /\ IsInjective(inTable)
        /\ Live = Range(inTable) \cup OpeningNow
        /\ Range(inTable) \cap OpeningNow = {}

(* A thread that calls Open or Close gets back to its program, whatever the*)
(* others do with the table.                                               *)
CallsReturn == \A t \in Thread : at[t].call # "user" ~> (at[t].call = "user" \/ halted)
==============================================================================
