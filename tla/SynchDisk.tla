------------------------------ MODULE SynchDisk ------------------------------
(***************************************************************************)
(* The synchronous disk (filesys/synchdisk.cc) on the disk device          *)
(* (machine/disk.cc): ReadSector and WriteSector give the device one       *)
(* request and wait for its interrupt, on the locks and semaphores of      *)
(* module Synch.  The device transfers the data when it takes the request  *)
(* and interrupts later, after the latency module DiskTiming computes.     *)
(***************************************************************************)
EXTENDS Synch

CONSTANTS
    lock, semaphore,    \* SynchDisk's lock and semaphore
    Sector, Data,
    MaxRequests         \* bound: requests in a behaviour

VARIABLES
    active,         \* Disk::active
    contents,       \* the UNIX file that stands for the disk
    at,             \* how far each thread is in its operation
    job,            \* the request of each thread: what it writes, or reads
    device,         \* the thread whose request the device works on, or NULL
    requests        \* requests made

diskVars == <<active, contents, at, job, device, requests>>

Goto(step) == at' = [at EXCEPT ![currentThread] = step]

At(step) == InCaller /\ at[currentThread] = step

----------------------------------------------------------------------------
(* ReadSector or WriteSector: lock->Acquire().                             *)
CallDisk(j) ==
    /\ At("idle")
    /\ requests < MaxRequests
    /\ Acquire(lock)
    /\ requests' = requests + 1
    /\ job' = [job EXCEPT ![currentThread] = j]
    /\ Goto("request")
    /\ UNCHANGED <<active, contents, device>>

(* Disk::ReadRequest and Disk::WriteRequest, which assert !active.         *)
Request ==
    LET j == job[currentThread] IN
    /\ At("request")
    /\ IF j.op = "write"
       THEN contents' = [contents EXCEPT ![j.sector] = j.data] /\ UNCHANGED job
       ELSE job' = [job EXCEPT ![currentThread].data = contents[j.sector]]
            /\ UNCHANGED contents
    /\ active' = TRUE
    /\ device' = currentThread
    /\ DeviceRequest(semaphore)
    /\ Goto("wait")
    /\ UNCHANGED requests

(* Mutant of AwaitDisk: the interrupt is not waited for.                   *)
AwaitDiskNot ==
    At("wait") /\ Goto("release") /\ UNCHANGED <<vars, active, contents, job, device, requests>>

(* semaphore->P().                                                         *)
AwaitDisk ==
    /\ At("wait")
    /\ P(semaphore)
    /\ Goto("release")
    /\ UNCHANGED <<active, contents, job, device, requests>>

(* Mutant of ReturnFromDisk: the lock is kept.                             *)
ReturnFromDiskLocked ==
    /\ At("release")
    /\ Goto("idle")
    /\ UNCHANGED <<vars, active, contents, job, device, requests>>

(* lock->Release(), and the call returns.                                  *)
ReturnFromDisk ==
    /\ At("release")
    /\ IF owner[lock] = currentThread THEN Release(lock) ELSE UNCHANGED vars
    /\ Goto("idle")
    /\ UNCHANGED <<active, contents, job, device, requests>>

(* Disk::HandleInterrupt, DiskRequestDone, SynchDisk::RequestDone.         *)
DiskInterrupt ==
    /\ DeviceInterrupt(semaphore)
    /\ active' = FALSE
    /\ device' = NULL
    /\ UNCHANGED <<contents, at, job, requests>>

Spawn(t) ==
    /\ At("idle")
    /\ status[t] = "FREE"
    /\ status' = [status EXCEPT ![t] = "READY"]
    /\ frame' = [frame EXCEPT ![t] = Plain("ThreadRoot")]
    /\ readyList' = Append(readyList, t)
    /\ UNCHANGED <<cpuVars, saved, level, synchVars, diskVars>>

Job ==
    [op : {"write"}, sector : Sector, data : Data] \cup [op : {"read"}, sector : Sector, data : {NULL}]

DiskStep ==
    \/ \E j \in Job : CallDisk(j)
    \/ Request \/ AwaitDisk \/ ReturnFromDisk
    \/ \E t \in Thread : Spawn(t)

DiskResume == (AcquireWoken \/ PWoken) /\ UNCHANGED diskVars

DiskSwitch == (TimeSlice \/ Dispatch \/ UserInstruction) /\ UNCHANGED <<synchVars, diskVars>>

(* A thread may also be done: main() or the thread's function returns.     *)
DiskFinish == At("idle") /\ Finish /\ UNCHANGED <<synchVars, diskVars>>

DiskHalt == (IdleHalt \/ Halted) /\ UNCHANGED diskVars

Init_SynchDisk ==
    /\ Init
    /\ active = FALSE
    /\ contents \in [Sector -> Data]
    /\ at = [t \in Thread |-> "idle"]
    /\ job = [t \in Thread |-> NULL]
    /\ device = NULL
    /\ requests = 0

Next_SynchDisk ==
    DiskStep \/ DiskResume \/ DiskSwitch \/ DiskFinish \/ DiskInterrupt \/ DiskHalt

Spec_SynchDisk == Init_SynchDisk /\ [][Next_SynchDisk]_<<vars, diskVars>>

InCall(t) == at[t] # "idle"

Continue == DiskResume \/ Request \/ AwaitDisk \/ ReturnFromDisk

----------------------------------------------------------------------------
(* "Return only after the data has been read": a call returns only when the*)
(* device is through with that call's own request, and the data a read     *)
(* returns is still what the disk holds.                                   *)
OwnCompletion ==
    \A t \in Thread :
        at[t] = "release" /\ frame[t].op # "P" =>
            device # t /\ ~active /\ contents[job[t].sector] = job[t].data
=============================================================================
