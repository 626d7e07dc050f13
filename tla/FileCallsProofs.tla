--------------------------- MODULE FileCallsProofs ---------------------------
(***************************************************************************)
(* Proofs about module FileCalls, for any number of threads, slots and     *)
(* files: the file table of a program and the threads that are opening a   *)
(* file account for every OpenFile.                                        *)
(***************************************************************************)
EXTENDS FileCalls, SynchProofs, WellFoundedInduction

USE Zenon
USE FileCallsAssumption DEF FileCallsAssumption

----------------------------------------------------------------------------
(* The inductive invariant.  A slot that is not marked holds no pointer, a *)
(* thread in Open has an OpenFile of its own, and FilesAccounted is put    *)
(* slot by slot and file by file.                                          *)
FileType == [name : Names, currentOffset : Nat, live : BOOLEAN]

AtType == [call : {"user", "Open", "Close"}, arg : Nat]

FileTypes ==
    /\ map \subseteq Ids
    /\ opened \in Seq(FileType)
    /\ table \in [Ids -> 0 .. Len(opened)]
    /\ length \in [Names -> Int]
    /\ at \in [Thread -> AtType]

Opens(t, f) == at[t].call = "Open" /\ at[t].arg = f

Arguments ==
    \A t \in Thread : /\ at[t].call = "Open" => at[t].arg \in 1 .. Len(opened)
                      /\ at[t].call = "Close" => at[t].arg \in Ids

OneOpener == \A t, u \in Thread, f \in Nat : Opens(t, f) /\ Opens(u, f) => t = u

Accounts ==
    /\ \A i \in Ids \ map : table[i] = 0
    /\ \A i, j \in Ids : table[i] # 0 /\ table[i] = table[j] => i = j
    /\ \A i \in Ids, t \in Thread : table[i] # 0 => ~Opens(t, table[i])
    /\ \A f \in 1 .. Len(opened) :
            opened[f].live <=> (\E i \in Ids : table[i] = f) \/ (\E t \in Thread : Opens(t, f))

FileInv == FileTypes /\ Arguments /\ OneOpener /\ Accounts

----------------------------------------------------------------------------
(* BitMap::Find returns a clear bit, or -1.                                *)
LEMMA LeastOf ==
    ASSUME NEW S \in SUBSET Nat, S # {}
    PROVE  Min(S) \in S
<1>1. OpToRel(<, Nat) = {ss \in Nat \X Nat : ss[1] < ss[2]}
  BY DEF OpToRel
<1>2. \E x \in S : \A y \in S : ~(<<y, x>> \in OpToRel(<, Nat))
  BY NatLessThanWellFounded, WFMin
<1>3. \E x \in S : \A y \in S : ~(<<y, x>> \in {ss \in Nat \X Nat : ss[1] < ss[2]})
  BY <1>1, <1>2
<1>4. PICK x \in S : \A y \in S : ~(<<y, x>> \in {ss \in Nat \X Nat : ss[1] < ss[2]})
  BY <1>3
<1>5. ASSUME NEW y \in S PROVE x <= y
  <2>1. x \in Nat /\ y \in Nat
    OBVIOUS
  <2>2. y < x => <<y, x>> \in {ss \in Nat \X Nat : ss[1] < ss[2]}
    BY <2>1
  <2>3. ~(y < x)
    BY <1>4, <2>2
  <2> QED BY <2>1, <2>3, SMT
<1> QED BY <1>5 DEF Min

LEMMA FindSlot == Find \in (Ids \ map) \cup {-1}
<1>1. Ids \ map \in SUBSET Nat
  BY SMT DEF Ids
<1>2. CASE Ids \subseteq map
  BY <1>2 DEF Find
<1>3. CASE ~(Ids \subseteq map)
  BY <1>1, <1>3, LeastOf DEF Find
<1> QED BY <1>2, <1>3

----------------------------------------------------------------------------
(* What a step does to the file table and to the open files.               *)
Keeps ==
    /\ UNCHANGED <<map, table, at>>
    /\ opened' \in Seq(FileType) /\ Len(opened') = Len(opened)
    /\ \A f \in 1 .. Len(opened) : opened'[f].live = opened[f].live
    /\ length' \in [Names -> Int]

Begins(call, arg) ==
    /\ at[currentThread].call = "user"
    /\ Goto(call, arg)
    /\ UNCHANGED <<map, table, length>>

BeginsOpen ==
    /\ Begins("Open", Len(opened) + 1)
    /\ \E name \in Names :
            opened' = Append(opened, [name |-> name, currentOffset |-> 0, live |-> TRUE])

BeginsClose == \E id \in Ids : Begins("Close", id) /\ UNCHANGED opened

Ends(call) == at[currentThread].call = call /\ Goto("user", 0) /\ UNCHANGED length

GivesUp ==
    /\ Ends("Open")
    /\ opened' = [opened EXCEPT ![Argument].live = FALSE]
    /\ UNCHANGED <<map, table>>

Stores ==
    /\ Ends("Open")
    /\ \E i \in Ids \ map : map' = map \cup {i} /\ table' = [table EXCEPT ![i] = Argument]
    /\ UNCHANGED opened

Removes ==
    /\ Ends("Close")
    /\ map' = map \ {Argument}
    /\ table' = IF Argument \in map THEN [table EXCEPT ![Argument] = 0] ELSE table
    /\ opened' = IF Get(Argument) = 0 THEN opened
                 ELSE [opened EXCEPT ![Get(Argument)].live = FALSE]

FileStep == Keeps \/ BeginsOpen \/ BeginsClose \/ GivesUp \/ Stores \/ Removes

(* What it does to the kernel: a step of Synch or of the scheduler, a new  *)
(* thread, or a halt.                                                      *)
KernelStep ==
    \/ [Next]_vars
    \/ SchedNext /\ UNCHANGED synchVars
    \/ \E t \in Thread :
            /\ status' = [status EXCEPT ![t] = "READY"]
            /\ frame' = [frame EXCEPT ![t] = Plain("ThreadRoot")]
            /\ readyList' = Append(readyList, t)
            /\ UNCHANGED <<cpuVars, saved, level, synchVars>>
    \/ /\ halted' = TRUE
       /\ UNCHANGED <<currentThread, status, frame, saved, readyList, level, machineStatus,
                      threadToBeDestroyed, synchVars>>

LEMMA KernelType == ASSUME TypeOK, KernelStep PROVE TypeOK'
<1>1. CASE [Next]_vars
  BY <1>1, NextType
<1>2. CASE SchedNext /\ UNCHANGED synchVars
  <2>1. SynchTypeOK'
    BY <1>2 DEF TypeOK, SynchTypeOK, synchVars, semVars, lockVars, cvVars
  <2> QED BY <1>2, <2>1, SchedType
<1>3. ASSUME NEW t \in Thread,
             status' = [status EXCEPT ![t] = "READY"],
             frame' = [frame EXCEPT ![t] = Plain("ThreadRoot")],
             readyList' = Append(readyList, t),
             UNCHANGED <<cpuVars, saved, level, synchVars>>
      PROVE  TypeOK'
  <2>1. SynchTypeOK'
    BY <1>3 DEF TypeOK, SynchTypeOK, synchVars, semVars, lockVars, cvVars
  <2>2. frame' \in [Thread -> FrameType] /\ FrameOK'
    BY <1>3, SetFrame, ProperFrames DEF TypeOK, SchedTypeOK
  <2>3. status' \in [Thread -> ThreadStatus \cup {"FREE"}] /\ readyList' \in Seq(Thread)
    BY <1>3, SMT DEF TypeOK, SchedTypeOK, ThreadStatus
  <2> QED
    BY <1>3, <2>1, <2>2, <2>3 DEF TypeOK, SchedTypeOK, cpuVars
<1>4. CASE /\ halted' = TRUE
           /\ UNCHANGED <<currentThread, status, frame, saved, readyList, level, machineStatus,
                          threadToBeDestroyed, synchVars>>
  <2>1. SynchTypeOK' /\ FrameOK'
    BY <1>4 DEF TypeOK, SynchTypeOK, FrameOK, synchVars, semVars, lockVars, cvVars
  <2> QED
    BY <1>4, <2>1 DEF TypeOK, SchedTypeOK
<1> QED BY <1>1, <1>2, <1>3, <1>4 DEF KernelStep

(* Read_Syscall and Write_Syscall move the offset of one open file.        *)
LEMMA MoveOffset ==
    ASSUME opened \in Seq(FileType), NEW f \in 1 .. Len(opened), NEW n \in Nat,
           opened' = [opened EXCEPT ![f].currentOffset = n]
    PROVE  /\ opened' \in Seq(FileType) /\ Len(opened') = Len(opened)
           /\ \A g \in 1 .. Len(opened) : opened'[g].live = opened[g].live
<1>1. opened[f] \in FileType
  BY SMT
<1>2. [opened[f] EXCEPT !.currentOffset = n] \in FileType
  BY <1>1 DEF FileType
<1>3. opened' = [opened EXCEPT ![f] = [opened[f] EXCEPT !.currentOffset = n]]
  OBVIOUS
<1>4. [opened[f] EXCEPT !.currentOffset = n].live = opened[f].live
  BY <1>1 DEF FileType
<1> HIDE DEF FileType
<1> QED BY <1>2, <1>3, <1>4, SMT

LEMMA Slots ==
    ASSUME FileTypes, NEW id \in Int, Get(id) # 0
    PROVE  id \in Ids /\ Get(id) = table[id] /\ Get(id) \in 1 .. Len(opened)
BY SMT DEF FileTypes, Get

(* Each of the handlers is one of these steps.                             *)
LEMMA CallKinds ==
    ASSUME TypeOK, FileTypes, AnyCall PROVE FileStep /\ KernelStep
<1>0. /\ length \in [Names -> Int] /\ opened \in Seq(FileType) /\ Len(opened) \in Nat
      /\ at \in [Thread -> AtType]
  BY SMT DEF FileTypes
<1> USE DEF FileStep, KernelStep
<1>1. ASSUME BadAddress PROVE FileStep /\ KernelStep
  BY <1>0, <1>1 DEF BadAddress, fileVars, diskVars, Keeps
<1>2. ASSUME UNCHANGED allVars PROVE FileStep /\ KernelStep
  <2>1. UNCHANGED vars /\ UNCHANGED <<map, table, opened, length, at>>
    BY <1>2 DEF allVars, fileVars, diskVars
  <2> QED BY <1>0, <2>1 DEF Keeps
<1>3. ASSUME NEW name \in Names, NEW good \in Pointers, Create_Syscall(name, good)
      PROVE  FileStep /\ KernelStep
  <2>1. CASE ~good
    BY <1>1, <1>3, <2>1 DEF Create_Syscall
  <2>2. CASE good
    <3>1. length' = [length EXCEPT ![name] = 0] /\ UNCHANGED <<vars, map, table, opened, at>>
      BY <1>3, <2>2 DEF Create_Syscall
    <3>2. length' \in [Names -> Int]
      BY <1>0, <3>1, SMT
    <3> QED BY <1>0, <3>1, <3>2 DEF Keeps
  <2> QED BY <2>1, <2>2
<1>4. ASSUME NEW name \in Names, NEW good \in Pointers, Open_Syscall(name, good)
      PROVE  FileStep /\ KernelStep
  <2>1. CASE ~good
    BY <1>1, <1>4, <2>1 DEF Open_Syscall
  <2>2. CASE good /\ length[name] = -1
    BY <1>2, <1>4, <2>2 DEF Open_Syscall
  <2>3. CASE good /\ length[name] # -1
    <3>1. /\ opened' = Append(opened, [name |-> name, currentOffset |-> 0, live |-> TRUE])
          /\ Acquire(tableLock)
          /\ Goto("Open", Len(opened) + 1)
          /\ UNCHANGED <<map, table, diskVars>>
      BY <1>4, <2>3 DEF Open_Syscall
    <3>2. Next
      BY <3>1 DEF Next, LockStep
    <3>3. at[currentThread].call = "user"
      BY <1>4 DEF Open_Syscall, Syscall, InUser
    <3> QED BY <3>1, <3>2, <3>3 DEF BeginsOpen, Begins, diskVars
  <2> QED BY <2>1, <2>2, <2>3
<1>5. ASSUME NEW id \in -1 .. TableSize, NEW len \in Sizes, NEW good \in Pointers,
             Write_Syscall(id, len, good)
      PROVE  FileStep /\ KernelStep
  <2> DEFINE f == Get(id)
             end == opened[f].currentOffset + len
  <2>1. CASE id # ConsoleInput /\ ~good
    BY <1>1, <1>5, <2>1 DEF Write_Syscall
  <2>2. CASE id = ConsoleInput \/ (good /\ (id = ConsoleOutput \/ f = 0))
    BY <1>2, <1>5, <2>2 DEF Write_Syscall
  <2>3. CASE id # ConsoleInput /\ good /\ id # ConsoleOutput /\ f # 0
    <3>1. /\ length' = [length EXCEPT ![opened[f].name] = IF end > @ THEN end ELSE @]
          /\ opened' = [opened EXCEPT ![f].currentOffset = end]
          /\ UNCHANGED <<vars, map, table, at>>
      BY <1>5, <2>3 DEF Write_Syscall
    <3>2. f \in 1 .. Len(opened)
      BY <2>3, Slots, SMT
    <3>3. opened[f] \in FileType
      BY <1>0, <3>2, SMT
    <3>4. end \in Nat /\ opened[f].name \in Names
      BY <3>3, SMT DEF FileType
    <3>5. length' \in [Names -> Int]
      <4>1. PICK k : k = IF end > length[opened[f].name] THEN end ELSE length[opened[f].name]
        OBVIOUS
      <4>2. k \in Int
        BY <1>0, <3>4, <4>1, SMT
      <4>3. length' = [length EXCEPT ![opened[f].name] = k]
        BY <3>1, <4>1
      <4> QED BY <1>0, <3>4, <4>2, <4>3
    <3>6. /\ opened' \in Seq(FileType) /\ Len(opened') = Len(opened)
          /\ \A g \in 1 .. Len(opened) : opened'[g].live = opened[g].live
      BY <1>0, <3>1, <3>2, <3>4, MoveOffset
    <3> QED BY <3>1, <3>5, <3>6 DEF Keeps
  <2> QED BY <2>1, <2>2, <2>3
<1>6. ASSUME NEW id \in -1 .. TableSize, NEW len \in Sizes, NEW good \in Pointers,
             Read_Syscall(id, len, good)
      PROVE  FileStep /\ KernelStep
  <2> DEFINE f == Get(id)
             n == ReadPartial(f, len)
  <2>1. CASE id = ConsoleInput /\ ReadKeyboard(len, good)
    BY <1>1, <1>2, <2>1 DEF ReadKeyboard
  <2>2. CASE id = ConsoleOutput /\ UNCHANGED allVars
    BY <1>2, <2>2
  <2>3. CASE ReadFile(id, len, good)
    <3>1. CASE f = 0
      BY <1>2, <2>3, <3>1 DEF ReadFile
    <3>2. CASE f # 0 /\ n > 0 /\ ~good
      BY <1>1, <2>3, <3>2 DEF ReadFile
    <3>3. CASE f # 0 /\ ~(n > 0 /\ ~good)
      <4>1. /\ opened' = [opened EXCEPT ![f].currentOffset = opened[f].currentOffset + n]
            /\ UNCHANGED <<vars, map, table, diskVars, at>>
        BY <2>3, <3>3 DEF ReadFile
      <4>2. f \in 1 .. Len(opened)
        BY <3>3, Slots, SMT
      <4>3. opened[f] \in FileType
        BY <1>0, <4>2, SMT
      <4>4. opened[f].currentOffset \in Nat /\ opened[f].name \in Names
        BY <4>3 DEF FileType
      <4>5. n \in Nat
        <5>1. length[opened[f].name] - opened[f].currentOffset \in Int
          BY <1>0, <4>4, SMT
        <5>2. ASSUME NEW left \in Int, left > 0 PROVE Min({left, len}) \in Nat
          <6>1. {left, len} \in SUBSET Nat /\ {left, len} # {}
            BY <5>2, SMT
          <6> QED BY <6>1, LeastOf
        <5> QED BY <5>1, <5>2, SMT DEF ReadPartial
      <4>6. opened[f].currentOffset + n \in Nat
        BY <4>4, <4>5, SMT
      <4>7. /\ opened' \in Seq(FileType) /\ Len(opened') = Len(opened)
            /\ \A g \in 1 .. Len(opened) : opened'[g].live = opened[g].live
        BY <1>0, <4>1, <4>2, <4>6, MoveOffset
      <4> QED BY <1>0, <4>1, <4>7 DEF Keeps, diskVars
    <3> QED BY <3>1, <3>2, <3>3
  <2> QED BY <1>6, <2>1, <2>2, <2>3 DEF Read_Syscall
<1>7. ASSUME NEW id \in -1 .. TableSize, Close_Syscall(id) PROVE FileStep /\ KernelStep
  <2>1. CASE id \notin Ids
    BY <1>2, <1>7, <2>1 DEF Close_Syscall
  <2>2. CASE id \in Ids
    <3>1. /\ Acquire(tableLock)
          /\ Goto("Close", id)
          /\ UNCHANGED <<map, table, opened, diskVars>>
          /\ at[currentThread].call = "user"
      BY <1>7, <2>2 DEF Close_Syscall, Syscall, InUser
    <3>2. Next
      BY <3>1 DEF Next, LockStep
    <3> QED BY <2>2, <3>1, <3>2 DEF BeginsClose, Begins, diskVars
  <2> QED BY <2>1, <2>2
<1> HIDE DEF FileStep, KernelStep
<1> QED
  BY <1>3, <1>4, <1>5, <1>6, <1>7 DEF AnyCall

LEMMA StepKinds ==
    ASSUME TypeOK, FileTypes, [Next_FileCalls]_allVars PROVE FileStep /\ KernelStep
<1>0. /\ length \in [Names -> Int] /\ opened \in Seq(FileType)
  BY DEF FileTypes
<1>1. ASSUME UNCHANGED fileVars PROVE FileStep
  BY <1>0, <1>1 DEF FileStep, fileVars, diskVars, Keeps
<1>2. CASE AnyCall
  BY <1>2, CallKinds
<1>3. ASSUME NEW t \in Thread, Spawn(t) PROVE FileStep /\ KernelStep
  BY <1>1, <1>3 DEF Spawn, KernelStep
<1>4. CASE Put
  <2>1. In("Open") /\ Release(tableLock) /\ Goto("user", 0) /\ UNCHANGED diskVars
    BY <1>4 DEF Put
  <2>2. Next
    BY <2>1 DEF Next, LockStep
  <2>3. Ends("Open")
    BY <2>1 DEF Ends, In, diskVars
  <2>4. CASE Find = -1
    BY <1>4, <2>3, <2>4, <2>2 DEF Put, GivesUp, FileStep, KernelStep
  <2>5. CASE Find # -1
    <3>1. Find \in Ids \ map
      BY <2>5, FindSlot
    <3>2. map' = map \cup {Find} /\ table' = [table EXCEPT ![Find] = Argument] /\ UNCHANGED opened
      BY <1>4, <2>5 DEF Put
    <3> QED BY <2>2, <2>3, <3>1, <3>2 DEF Stores, FileStep, KernelStep
  <2> QED BY <2>4, <2>5
<1>5. CASE Remove
  <2>1. In("Close") /\ Release(tableLock) /\ Goto("user", 0) /\ UNCHANGED diskVars
    BY <1>5 DEF Remove
  <2>2. Next
    BY <2>1 DEF Next, LockStep
  <2>3. Ends("Close")
    BY <2>1 DEF Ends, In, diskVars
  <2> QED BY <1>5, <2>2, <2>3 DEF Remove, Removes, FileStep, KernelStep
<1>6. CASE Switch
  BY <1>1, <1>6 DEF Switch, KernelStep, SchedNext
<1>7. CASE Kernel
  <2>1. CASE UserInstruction /\ UNCHANGED synchVars
    BY <1>1, <1>7, <2>1 DEF Kernel, KernelStep, SchedNext
  <2>2. CASE AcquireWoken
    BY <1>1, <1>7, <2>2 DEF Kernel, KernelStep, Next, LockStep
  <2> QED BY <1>7, <2>1, <2>2 DEF Kernel
<1>8. CASE Dead \/ UNCHANGED allVars
  <2>1. UNCHANGED vars /\ UNCHANGED fileVars
    BY <1>8 DEF Dead, allVars
  <2> QED BY <1>1, <2>1 DEF KernelStep
<1> QED
  BY <1>2, <1>3, <1>4, <1>5, <1>6, <1>7, <1>8 DEF Next_FileCalls, Handler

----------------------------------------------------------------------------
(* What the caller's own call becomes; the others stay where they are.     *)
LEMMA GotoCall ==
    ASSUME at \in [Thread -> AtType], currentThread \in Thread,
           NEW call \in {"user", "Open", "Close"}, NEW arg \in Nat, Goto(call, arg)
    PROVE  /\ at' \in [Thread -> AtType]
           /\ at'[currentThread].call = call /\ at'[currentThread].arg = arg
           /\ \A t \in Thread \ {currentThread} : at'[t] = at[t]
<1>1. [call |-> call, arg |-> arg] \in AtType
  BY DEF AtType
<1> QED BY <1>1 DEF Goto

(* delete of an OpenFile.                                                  *)
LEMMA Deleted ==
    ASSUME opened \in Seq(FileType), NEW f \in 1 .. Len(opened),
           opened' = [opened EXCEPT ![f].live = FALSE]
    PROVE  /\ opened' \in Seq(FileType) /\ Len(opened') = Len(opened)
           /\ ~opened'[f].live
           /\ \A g \in 1 .. Len(opened) \ {f} : opened'[g] = opened[g]
<1>1. opened[f] \in FileType
  BY SMT
<1>2. [opened[f] EXCEPT !.live = FALSE] \in FileType
  BY <1>1 DEF FileType
<1>3. opened' = [opened EXCEPT ![f] = [opened[f] EXCEPT !.live = FALSE]]
  OBVIOUS
<1>4. ~[opened[f] EXCEPT !.live = FALSE].live
  BY <1>1 DEF FileType
<1> QED BY <1>2, <1>3, <1>4, SMT

(* One step per kind of step.                                              *)
LEMMA StepFiles ==
    ASSUME currentThread \in Thread, FileInv, FileStep PROVE FileInv'
<1>0. /\ map \subseteq Ids /\ opened \in Seq(FileType) /\ table \in [Ids -> 0 .. Len(opened)]
      /\ length \in [Names -> Int] /\ at \in [Thread -> AtType] /\ Len(opened) \in Nat
  BY SMT DEF FileInv, FileTypes
<1>a. PICK me \in Thread : me = currentThread
  OBVIOUS
<1>1. CASE Keeps
  <2>1. FileTypes'
    BY <1>0, <1>1 DEF FileTypes, Keeps
  <2>2. Arguments' /\ OneOpener'
    BY <1>1 DEF FileInv, Arguments, OneOpener, Opens, Keeps
  <2>3. Accounts'
    BY <1>1 DEF FileInv, Accounts, Opens, Keeps
  <2> QED BY <2>1, <2>2, <2>3 DEF FileInv
<1>2. CASE BeginsOpen
  <2>1. PICK name \in Names :
            opened' = Append(opened, [name |-> name, currentOffset |-> 0, live |-> TRUE])
    BY <1>2 DEF BeginsOpen
  <2>2. [name |-> name, currentOffset |-> 0, live |-> TRUE] \in FileType
    BY DEF FileType
  <2>3. /\ opened' \in Seq(FileType) /\ Len(opened') = Len(opened) + 1
        /\ opened'[Len(opened) + 1].live
        /\ \A f \in 1 .. Len(opened) : opened'[f] = opened[f]
    <3>1. opened' \in Seq(FileType) /\ Len(opened') = Len(opened) + 1
      BY <1>0, <2>1, <2>2, SMT
    <3>2. opened'[Len(opened) + 1] = [name |-> name, currentOffset |-> 0, live |-> TRUE]
      BY <1>0, <2>1, SMT
    <3>3. \A f \in 1 .. Len(opened) : opened'[f] = opened[f]
      BY <1>0, <2>1, SMT
    <3> QED BY <3>1, <3>2, <3>3, SMT
  <2>4. /\ at[me].call = "user" /\ UNCHANGED <<map, table, length>>
        /\ at' \in [Thread -> AtType]
        /\ at'[me].call = "Open" /\ at'[me].arg = Len(opened) + 1
        /\ \A t \in Thread \ {me} : at'[t] = at[t]
    <3>1. Len(opened) + 1 \in Nat
      BY <1>0, SMT
    <3> QED BY <1>0, <1>a, <1>2, <3>1, GotoCall DEF BeginsOpen, Begins
  <2>5. FileTypes'
    BY <1>0, <2>3, <2>4, SMT DEF FileTypes
  <2>6. Arguments'
    BY <1>0, <2>3, <2>4, SMT DEF FileInv, Arguments
  <2>7. \A t \in Thread : at[t].call = "Open" => at[t].arg \in 1 .. Len(opened)
    BY DEF FileInv, Arguments
  <2>8. OneOpener'
    BY <1>0, <2>4, <2>7, SMT DEF FileInv, OneOpener, Opens
  <2>9. \A t \in Thread, f \in 1 .. Len(opened) : Opens(t, f) <=> Opens(t, f)'
    BY <1>0, <2>4, SMT DEF Opens
  <2>10. Accounts'
    <3>1. /\ \A i \in Ids \ map : table[i] = 0
          /\ \A i, j \in Ids : table[i] # 0 /\ table[i] = table[j] => i = j
          /\ \A i \in Ids, t \in Thread : table[i] # 0 => ~Opens(t, table[i])
          /\ \A f \in 1 .. Len(opened) :
               opened[f].live <=> (\E i \in Ids : table[i] = f) \/ (\E t \in Thread : Opens(t, f))
      BY DEF FileInv, Accounts
    <3>2. \A i \in Ids, t \in Thread : table[i] # 0 => ~(Opens(t, table[i])')
      BY <1>0, <2>4, <2>9, <3>1, SMT
    <3>3. ASSUME NEW f \in 1 .. Len(opened)
          PROVE  opened'[f].live <=> (\E i \in Ids : table[i] = f) \/ (\E t \in Thread : Opens(t, f)')
      BY <2>3, <2>9, <3>1
    <3>4. \A f \in 1 .. Len(opened) + 1 : f = Len(opened) + 1 => Opens(me, f)'
      BY <1>0, <2>4 DEF Opens
    <3> QED BY <1>0, <2>3, <2>4, <3>1, <3>2, <3>3, <3>4, SMT DEF Accounts
  <2> QED BY <2>5, <2>6, <2>8, <2>10 DEF FileInv
<1>3. CASE BeginsClose
  <2>1. PICK id \in Ids : Begins("Close", id) /\ UNCHANGED opened
    BY <1>3 DEF BeginsClose
  <2>2. /\ at[me].call = "user" /\ UNCHANGED <<map, table, length, opened>>
        /\ at' \in [Thread -> AtType]
        /\ at'[me].call = "Close" /\ at'[me].arg = id
        /\ \A t \in Thread \ {me} : at'[t] = at[t]
    <3>1. id \in Nat
      BY SMT DEF Ids
    <3> QED BY <1>0, <1>a, <2>1, <3>1, GotoCall DEF Begins
  <2>3. FileTypes'
    BY <1>0, <2>2 DEF FileTypes
  <2>4. Arguments'
    BY <1>0, <2>2 DEF FileInv, Arguments
  <2>5. \A t \in Thread, f \in Nat : Opens(t, f) <=> Opens(t, f)'
    BY <1>0, <2>2 DEF Opens
  <2>6. OneOpener'
    BY <2>5 DEF FileInv, OneOpener
  <2>7. Accounts'
    BY <1>0, <2>2, <2>5, SMT DEF FileInv, Accounts
  <2> QED BY <2>3, <2>4, <2>6, <2>7 DEF FileInv
<1>4. ASSUME NEW call \in {"Open", "Close"}, Ends(call)
      PROVE  /\ at[me].call = call /\ UNCHANGED length
             /\ at' \in [Thread -> AtType]
             /\ at'[me].call = "user"
             /\ \A t \in Thread \ {me} : at'[t] = at[t]
  BY <1>0, <1>a, <1>4, GotoCall DEF Ends
<1>5. CASE GivesUp \/ Stores
  <2>1. /\ at[me].call = "Open" /\ UNCHANGED length
        /\ at' \in [Thread -> AtType]
        /\ at'[me].call = "user"
        /\ \A t \in Thread \ {me} : at'[t] = at[t]
    BY <1>4, <1>5 DEF GivesUp, Stores
  <2>2. PICK f \in 1 .. Len(opened) : f = Argument /\ Opens(me, f)
    BY <1>a, <2>1 DEF FileInv, Arguments, Argument, Opens
  <2>3. \A t \in Thread, g \in Nat : Opens(t, g)' <=> Opens(t, g) /\ t # me
    BY <1>0, <2>1 DEF Opens
  <2>4. OneOpener'
    BY <2>3 DEF FileInv, OneOpener
  <2>5. \A t \in Thread : Opens(t, f) => t = me
    BY <1>0, <2>2, SMT DEF FileInv, OneOpener
  <2>6. \A i \in Ids : table[i] # f
    BY <1>0, <2>2, SMT DEF FileInv, Accounts
  <2>7. CASE GivesUp
    <3>1. opened' = [opened EXCEPT ![f].live = FALSE] /\ UNCHANGED <<map, table>>
      BY <2>2, <2>7 DEF GivesUp
    <3>2. /\ opened' \in Seq(FileType) /\ Len(opened') = Len(opened)
          /\ ~opened'[f].live
          /\ \A g \in 1 .. Len(opened) \ {f} : opened'[g] = opened[g]
      BY <1>0, <3>1, Deleted
    <3>3. FileTypes'
      BY <1>0, <2>1, <3>1, <3>2 DEF FileTypes
    <3>4. Arguments'
      BY <1>0, <2>1, <3>2 DEF FileInv, Arguments
    <3>5. ASSUME NEW g \in 1 .. Len(opened)
          PROVE  opened'[g].live <=> (\E i \in Ids : table[i] = g) \/ (\E t \in Thread : Opens(t, g)')
      <4>1. CASE g = f
        <5>1. \A t \in Thread : ~(Opens(t, g)')
          <6>1. f \in Nat
            BY <2>2, SMT
          <6> QED BY <2>3, <2>5, <4>1, <6>1
        <5> QED BY <2>6, <3>2, <4>1, <5>1
      <4>2. CASE g # f
        <5>1. \A t \in Thread : Opens(t, g)' <=> Opens(t, g)
          <6>1. ~Opens(me, g)
            BY <2>2, <4>2 DEF Opens
          <6> QED BY <1>0, <2>3, <6>1, SMT
        <5> QED BY <1>0, <3>2, <4>2, <5>1 DEF FileInv, Accounts
      <4> QED BY <4>1, <4>2
    <3>6. \A i \in Ids, t \in Thread : table[i] # 0 => ~(Opens(t, table[i])')
      BY <1>0, <2>3, <3>1, SMT DEF FileInv, Accounts
    <3>7. Accounts'
      BY <1>0, <3>1, <3>2, <3>5, <3>6 DEF FileInv, Accounts
    <3> QED BY <2>4, <3>3, <3>4, <3>7 DEF FileInv
  <2>8. CASE Stores
    <3>1. PICK i \in Ids \ map : map' = map \cup {i} /\ table' = [table EXCEPT ![i] = f]
      BY <2>2, <2>8 DEF Stores
    <3>2. UNCHANGED opened
      BY <2>8 DEF Stores
    <3>3. table[i] = 0
      BY <3>1 DEF FileInv, Accounts
    <3>4. /\ table' \in [Ids -> 0 .. Len(opened)] /\ table'[i] = f
          /\ \A j \in Ids \ {i} : table'[j] = table[j]
      BY <1>0, <3>1, SMT
    <3>5. FileTypes'
      BY <1>0, <2>1, <3>1, <3>2, <3>4 DEF FileTypes
    <3>6. Arguments'
      BY <1>0, <2>1, <3>2 DEF FileInv, Arguments
    <3>7. ASSUME NEW g \in 1 .. Len(opened)
          PROVE  opened'[g].live <=> (\E j \in Ids : table'[j] = g) \/ (\E t \in Thread : Opens(t, g)')
      <4>0. opened[g].live <=> (\E j \in Ids : table[j] = g) \/ (\E t \in Thread : Opens(t, g))
        BY DEF FileInv, Accounts
      <4>1. CASE g = f
        BY <2>2, <3>1, <3>2, <3>4, <4>0, <4>1
      <4>2. CASE g # f
        <5>1. \A t \in Thread : Opens(t, g)' <=> Opens(t, g)
          <6>1. ~Opens(me, g)
            BY <2>2, <4>2 DEF Opens
          <6> QED BY <1>0, <2>3, <6>1, SMT
        <5>2. \A j \in Ids : table'[j] = g <=> table[j] = g
          BY <3>3, <3>4, <4>2, SMT
        <5> QED BY <3>2, <4>0, <5>1, <5>2
      <4> QED BY <4>1, <4>2
    <3>8. ASSUME NEW j \in Ids, NEW t \in Thread, table'[j] # 0
          PROVE  ~(at'[t].call = "Open" /\ at'[t].arg = table'[j])
      <4>1. PICK g \in Nat : g = table'[j]
        BY <1>0, <3>4, SMT
      <4>2. ~(Opens(t, g)')
        <5>1. CASE j = i
          BY <2>2, <2>3, <2>5, <3>4, <4>1, <5>1
        <5>2. CASE j # i
          <6>1. ~Opens(t, g)
            BY <3>4, <3>8, <4>1, <5>2 DEF FileInv, Accounts
          <6> QED BY <2>3, <6>1
        <5> QED BY <5>1, <5>2
      <4> QED BY <4>1, <4>2 DEF Opens
    <3>9. \A j, k \in Ids : table'[j] # 0 /\ table'[j] = table'[k] => j = k
      <4>1. \A j, k \in Ids : table[j] # 0 /\ table[j] = table[k] => j = k
        BY DEF FileInv, Accounts
      <4> QED BY <2>6, <3>4, <4>1
    <3>10. \A j \in Ids \ map' : table'[j] = 0
      BY <3>1, <3>4 DEF FileInv, Accounts
    <3>11. Accounts'
      BY <3>2, <3>7, <3>8, <3>9, <3>10 DEF Accounts, Opens
    <3> QED BY <2>4, <3>5, <3>6, <3>11 DEF FileInv
  <2> QED BY <1>5, <2>7, <2>8
<1>6. CASE Removes
  <2>1. /\ at[me].call = "Close" /\ UNCHANGED length
        /\ at' \in [Thread -> AtType]
        /\ at'[me].call = "user"
        /\ \A t \in Thread \ {me} : at'[t] = at[t]
    BY <1>4, <1>6 DEF Removes
  <2>2. PICK i \in Ids : i = Argument
    BY <1>a, <2>1 DEF FileInv, Arguments, Argument
  <2>3. \A t \in Thread, g \in Nat : Opens(t, g)' <=> Opens(t, g)
    BY <1>0, <2>1 DEF Opens
  <2>4. OneOpener'
    BY <2>3 DEF FileInv, OneOpener
  <2>5. /\ \A j \in Ids \ map : table[j] = 0
        /\ \A j, k \in Ids : table[j] # 0 /\ table[j] = table[k] => j = k
        /\ \A j \in Ids, t \in Thread : table[j] # 0 => ~Opens(t, table[j])
        /\ \A f \in 1 .. Len(opened) :
             opened[f].live <=> (\E j \in Ids : table[j] = f) \/ (\E t \in Thread : Opens(t, f))
    BY DEF FileInv, Accounts
  <2>6. /\ map' = map \ {i} /\ table' = [table EXCEPT ![i] = 0]
        /\ opened' = IF table[i] = 0 THEN opened ELSE [opened EXCEPT ![table[i]].live = FALSE]
    <3>1. CASE i \in map
      BY <1>6, <2>2, <3>1 DEF Removes, Get
    <3>2. CASE i \notin map
      <4>1. table[i] = 0
        BY <2>5, <3>2
      <4>2. [table EXCEPT ![i] = 0] = table
        BY <1>0, <4>1
      <4> QED BY <1>6, <2>2, <3>2, <4>1, <4>2 DEF Removes, Get
    <3> QED BY <3>1, <3>2
  <2>7. /\ table'[i] = 0 /\ table' \in [Ids -> 0 .. Len(opened)]
        /\ \A j \in Ids \ {i} : table'[j] = table[j]
    BY <1>0, <2>6, SMT
  <2>8. /\ opened' \in Seq(FileType) /\ Len(opened') = Len(opened)
        /\ table[i] # 0 => ~opened'[table[i]].live
        /\ \A g \in 1 .. Len(opened) : g # table[i] => opened'[g] = opened[g]
    <3>1. CASE table[i] = 0
      BY <1>0, <2>6, <3>1
    <3>2. CASE table[i] # 0
      <4>1. table[i] \in 1 .. Len(opened)
        BY <1>0, <3>2, SMT
      <4>2. opened' = [opened EXCEPT ![table[i]].live = FALSE]
        BY <2>6, <3>2
      <4> QED BY <1>0, <4>1, <4>2, Deleted
    <3> QED BY <3>1, <3>2
  <2>9. FileTypes'
    BY <1>0, <2>1, <2>6, <2>7, <2>8 DEF FileTypes
  <2>10. Arguments'
    BY <1>0, <2>1, <2>8 DEF FileInv, Arguments
  <2>11. ASSUME NEW g \in 1 .. Len(opened)
         PROVE  opened'[g].live <=> (\E j \in Ids : table'[j] = g) \/ (\E t \in Thread : Opens(t, g)')
    <3>1. CASE g = table[i]
      <4>1. \A j \in Ids : table'[j] # g
        BY <1>0, <2>5, <2>7, <3>1, SMT
      <4>2. \A t \in Thread : ~Opens(t, g)
        BY <2>5, <3>1, SMT
      <4> QED BY <1>0, <2>3, <2>8, <3>1, <4>1, <4>2, SMT
    <3>2. CASE g # table[i]
      <4>1. \A j \in Ids : table'[j] = g <=> table[j] = g
        BY <2>7, <3>2, SMT
      <4> QED BY <1>0, <2>3, <2>5, <2>8, <3>2, <4>1, SMT
    <3> QED BY <3>1, <3>2
  <2>12. ASSUME NEW j \in Ids, NEW t \in Thread, table'[j] # 0
         PROVE  ~(at'[t].call = "Open" /\ at'[t].arg = table'[j])
    <3>1. j # i /\ table'[j] = table[j]
      BY <2>7, <2>12
    <3>2. PICK g \in Nat : g = table[j]
      BY <1>0, SMT
    <3>3. ~(Opens(t, g)')
      BY <2>3, <2>5, <2>12, <3>1, <3>2
    <3> QED BY <3>1, <3>2, <3>3 DEF Opens
  <2>13. \A j, k \in Ids : table'[j] # 0 /\ table'[j] = table'[k] => j = k
    BY <2>5, <2>7, SMT
  <2>14. \A j \in Ids \ map' : table'[j] = 0
    BY <2>5, <2>6, <2>7
  <2>15. Accounts'
    BY <2>8, <2>11, <2>12, <2>13, <2>14 DEF Accounts, Opens
  <2> QED BY <2>4, <2>9, <2>10, <2>15 DEF FileInv
<1> QED BY <1>1, <1>2, <1>3, <1>5, <1>6 DEF FileStep

----------------------------------------------------------------------------
LEMMA InitFiles == ASSUME Init_FileCalls PROVE TypeOK /\ FileInv
<1>1. TypeOK
  BY InitType DEF Init_FileCalls
<1>2. /\ map = {ConsoleInput, ConsoleOutput} /\ table = [i \in Ids |-> 0]
      /\ opened = <<>>
      /\ length = [n \in Names |-> -1]
      /\ at = [t \in Thread |-> [call |-> "user", arg |-> 0]]
  BY DEF Init_FileCalls
<1>3. opened \in Seq(FileType) /\ Len(opened) = 0
  BY <1>2, SMT
<1>4. at \in [Thread -> AtType] /\ \A t \in Thread : at[t].call = "user"
  BY <1>2 DEF AtType
<1>5. map \subseteq Ids /\ table \in [Ids -> 0 .. Len(opened)] /\ length \in [Names -> Int]
  BY <1>2, <1>3, SMT DEF Ids, ConsoleInput, ConsoleOutput
<1>6. FileTypes
  BY <1>3, <1>4, <1>5 DEF FileTypes
<1>7. Arguments /\ OneOpener
  BY <1>4 DEF Arguments, OneOpener, Opens
<1>8. Accounts
  BY <1>2, <1>3, <1>4, SMT DEF Accounts, Opens
<1> QED BY <1>1, <1>6, <1>7, <1>8 DEF FileInv

(* Slot by slot and file by file is what FilesAccounted says of the sets.  *)
LEMMA AccountsMean == ASSUME FileInv PROVE FilesAccounted
<1> DEFINE inTable == [i \in {j \in map : table[j] # 0} |-> table[i]]
<1>0. /\ map \subseteq Ids /\ opened \in Seq(FileType) /\ table \in [Ids -> 0 .. Len(opened)]
      /\ Len(opened) \in Nat /\ DOMAIN opened = 1 .. Len(opened)
      /\ \A t \in Thread : at[t].call = "Open" => at[t].arg \in 1 .. Len(opened)
  BY SMT DEF FileInv, FileTypes, Arguments
<1>1. /\ \A j \in Ids \ map : table[j] = 0
      /\ \A j, k \in Ids : table[j] # 0 /\ table[j] = table[k] => j = k
      /\ \A j \in Ids, t \in Thread : table[j] # 0 => ~Opens(t, table[j])
      /\ \A f \in 1 .. Len(opened) :
           opened[f].live <=> (\E j \in Ids : table[j] = f) \/ (\E t \in Thread : Opens(t, f))
  BY DEF FileInv, Accounts
<1>2. IsInjective(inTable)
  BY <1>0, <1>1 DEF IsInjective
<1>3. ASSUME NEW f PROVE f \in Range(inTable) <=> f # 0 /\ \E j \in Ids : table[j] = f
  BY <1>0, <1>1 DEF Range
<1>4. ASSUME NEW f PROVE f \in OpeningNow <=> \E t \in Thread : Opens(t, f)
  BY DEF OpeningNow, Opens
<1>5. ASSUME NEW f PROVE f \in Live <=> f \in 1 .. Len(opened) /\ opened[f].live
  BY <1>0 DEF Live
<1> HIDE DEF inTable
<1>6. Range(inTable) \cap OpeningNow = {}
  BY <1>1, <1>3, <1>4, SMT
<1>7. Live = Range(inTable) \cup OpeningNow
  <2>1. ASSUME NEW f PROVE f \in Live <=> f \in Range(inTable) \cup OpeningNow
    <3>1. CASE f \in 1 .. Len(opened)
      BY <1>1, <1>3, <1>4, <1>5, <3>1, SMT
    <3>2. CASE f \notin 1 .. Len(opened)
      <4>1. \A j \in Ids : table[j] = f => f = 0
        BY <1>0, <3>2, SMT
      <4>2. \A t \in Thread : ~Opens(t, f)
        BY <1>0, <3>2 DEF Opens
      <4> QED BY <1>3, <1>4, <1>5, <3>2, <4>1, <4>2
    <3> QED BY <3>1, <3>2
  <2> QED BY <2>1
<1> QED BY <1>2, <1>6, <1>7 DEF FilesAccounted, inTable

(* Spec_FileCalls implies that the OpenFiles that Open created and nobody  *)
(* deleted are exactly those in one slot of the file table or in the hands *)
(* of one thread inside Open: none is lost when the table is full, closed  *)
(* twice, or left in the table when it is deleted, however the threads'    *)
(* calls interleave.                                                       *)
THEOREM FilesAreAccounted == Spec_FileCalls => []FilesAccounted
<1> DEFINE Inv == TypeOK /\ FileInv
<1>1. Init_FileCalls => Inv
  BY InitFiles
<1>2. Inv /\ [Next_FileCalls]_allVars => Inv'
  <2> SUFFICES ASSUME TypeOK, FileInv, [Next_FileCalls]_allVars PROVE TypeOK' /\ FileInv'
    OBVIOUS
  <2>1. FileStep /\ KernelStep
    BY StepKinds DEF FileInv
  <2>2. currentThread \in Thread
    BY DEF TypeOK, SchedTypeOK
  <2> QED BY <2>1, <2>2, KernelType, StepFiles
<1>3. Inv => FilesAccounted
  BY AccountsMean
<1> QED BY <1>1, <1>2, <1>3, PTL DEF Spec_FileCalls
==============================================================================
