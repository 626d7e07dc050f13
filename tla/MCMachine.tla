----------------------------- MODULE MCMachine ------------------------------
(***************************************************************************)
(* The simulated hardware, each part in an instance of its own for TLC:    *)
(* interrupts, timer and clock; the timing of the disk; user memory and its*)
(* translation; and the linked list the interrupts are kept in.  A         *)
(* behaviour is one of one part, chosen in the initial state; the variables*)
(* of the others do not take part.                                         *)
(***************************************************************************)
EXTENDS Interrupts

VARIABLES
    part,
    totalTicks, lastSector, bufferInit, active, request, arrived,
    first, last, heap, returned, sorted,
    current, pageTables, mainMemory, bigEndian, faulted, stores

diskOnly == <<totalTicks, lastSector, bufferInit, active, request, arrived>>
listOnly == <<first, last, heap, returned, sorted>>
memoryOnly == <<current, pageTables, mainMemory, bigEndian, faulted, stores>>

----------------------------------------------------------------------------
(* Three sectors a track, three tracks.                                    *)
Disk == INSTANCE DiskTiming WITH
    SectorsPerTrack <- 3, NumTracks <- 3, SeekTime <- 4, RotationTime <- 4,
    IntRange <- 1000, MaxTime <- 36

(* Up to four elements, addresses re-used.                                 *)
List == INSTANCE LinkedList WITH
    Address <- {"a1", "a2", "a3", "a4"}, Item <- {"x", "y"}, Key <- {1, 2}

(* Two address spaces, of two pages and of one, on a machine of four pages.*)
MCPages(s) == IF s = 1 THEN 2 ELSE 1

Memory == INSTANCE UserMemory WITH
    Spaces <- {1, 2}, Pages <- MCPages, PageSize <- 4, NumPhysPages <- 4, Byte <- {0, 1},
    Values <- {<<1>>, <<0, 1>>, <<1, 0>>, <<1, 1, 0, 0>>, <<0, 1, 0, 1>>},
    Addresses <- 0 .. 8, MaxStores <- 2, halted <- faulted

----------------------------------------------------------------------------
machineVars == <<part, vars, diskOnly, listOnly, memoryOnly>>

(* A part that does not run stays in one of its initial states.            *)
Init_Machine ==
    /\ part \in {"interrupts", "disk", "list", "memory"}
    /\ Init /\ (part # "interrupts" => pending[1].when = Min(TimerDelay))
    /\ Disk!Init
    /\ List!Init /\ (part # "list" => ~sorted)
    /\ Memory!Init /\ (part # "memory" => current = 1 /\ ~bigEndian)

InterruptsNext ==
    part = "interrupts" /\ Next /\ UNCHANGED <<part, diskOnly, listOnly, memoryOnly>>

DiskNext == part = "disk" /\ Disk!Next /\ UNCHANGED <<part, vars, listOnly, memoryOnly>>

ListNext == part = "list" /\ List!Next /\ UNCHANGED <<part, vars, diskOnly, memoryOnly>>

(* An exception has halted the machine.                                    *)
MemoryEnd == part = "memory" /\ faulted /\ UNCHANGED machineVars

MemoryNext == part = "memory" /\ Memory!Next /\ UNCHANGED <<part, vars, diskOnly, listOnly>>

Spec_Machine ==
    Init_Machine
    /\ [][InterruptsNext \/ DiskNext \/ ListNext \/ MemoryNext \/ MemoryEnd]_machineVars

----------------------------------------------------------------------------
(* Disk: "Latency = seek time + rotational latency + transfer time", with  *)
(* the track buffer: a request is done at the first moment its sector has  *)
(* passed the head since the seek ended, or since the track was reached.   *)
LatencyExact == Disk!LatencyExact

(* List: the pointers implement a sequence, for every mix of calls.        *)
ImplementsQueue == List!ImplementsQueue

(* Machine: user memory implements FlatMemory, an array of bytes per       *)
(* address space: stores of any size go to the right bytes in the order of *)
(* the simulated machine, and neither another address space nor the byte   *)
(* order of the host is seen (Translate, WriteMem, WordToHost).            *)
ImplementsFlat ==
    /\ part = "memory" => Memory!Flat!FlatInit
    /\ [][part = "memory" => [Memory!Flat!FlatNext]_(Memory!Flat!flatVars)]_memoryOnly

(* Machine: an access raises an exception exactly if it is not aligned or  *)
(* not within the address space, and a ReadMem that succeeds returns the   *)
(* bytes that single reads return, within main memory.                     *)
ReadsAgree == part = "memory" => Memory!ReadsAgree
=============================================================================
