----------------------------- MODULE DiskProofs -----------------------------
(***************************************************************************)
(* SynchDisk on the proved locks and semaphores: for any number of threads,*)
(* sectors and requests, ReadSector and WriteSector return after the       *)
(* interrupt of their own request.                                         *)
(***************************************************************************)
EXTENDS SynchDisk, SynchProofs

USE Zenon
USE SchedulerAssumption, SynchAssumption DEF SchedulerAssumption, SynchAssumption

(* What SynchDisk::SynchDisk makes: a lock whose owner field holds no      *)
(* thread's address, and a semaphore of value 0.                           *)
DiskMade ==
    /\ CleanHeap
    /\ lock \in Lock
    /\ semaphore \in Sem
    /\ InitialValue[semaphore] = 0

Requests == [op : {"read", "write"}, sector : Sector, data : Data \cup {NULL}]

DiskTypes ==
    /\ active \in BOOLEAN
    /\ contents \in [Sector -> Data \cup {NULL}]
    /\ at \in [Thread -> {"idle", "request", "wait", "release"}]
    /\ job \in [Thread -> Requests \cup {NULL}]
    /\ \A t \in Thread : at[t] # "idle" => job[t] \in Requests

(* A thread is inside Acquire or P only for SynchDisk's own calls, and a   *)
(* thread that has not started or is over is in no call of it.             *)
InsideAt(t) ==
    /\ frame[t].op \in {"run", "ThreadRoot", "Finish", "P", "Acquire"}
    /\ frame[t].op = "Acquire" => at[t] = "request" /\ frame[t].obj = lock
    /\ frame[t].op = "P" => at[t] = "release" /\ frame[t].obj = semaphore
    /\ frame[t].op \in {"ThreadRoot", "Finish"} => at[t] = "idle"
    /\ status[t] = "FREE" => frame[t].op \in {"ThreadRoot", "Finish"}

Inside == \A t \in Thread : InsideAt(t)

(* The thread is past lock->Acquire(); it still has to get past P().       *)
Using(t) ==
    at[t] \in {"wait", "release"} \/ (at[t] = "request" /\ frame[t].op # "Acquire")

Waiting(t) == at[t] = "wait" \/ (at[t] = "release" /\ frame[t].op = "P")

Locked == \A t \in Thread : Using(t) => owner[lock] = t

(* The semaphore has one unit, or one to come, exactly while a thread waits*)
(* for it; the device works exactly while the unit is to come.             *)
Units ==
    /\ (\E t \in Thread : Waiting(t)) =>
           \/ value[semaphore] = 0 /\ pending[semaphore] = 1
           \/ value[semaphore] = 1 /\ pending[semaphore] = 0
    /\ (\A t \in Thread : ~Waiting(t)) => value[semaphore] = 0 /\ pending[semaphore] = 0
    /\ active <=> pending[semaphore] # 0
    /\ device # NULL => active

(* What the thread in the device's hands wrote, or read, is on the disk.   *)
Transferred ==
    \A t \in Thread :
        at[t] \in {"wait", "release"} => contents[job[t].sector] = job[t].data

DiskInv == DiskTypes /\ Inside /\ Locked /\ Units /\ Transferred

SynchInv == TypeOK /\ Places /\ LockConsistent

----------------------------------------------------------------------------
(* Synch's invariants hold under SynchDisk: its steps are Synch's, but for *)
(* a thread's end, which keeps the history of locks, and Spawn, which does *)
(* new Thread and Fork in one.                                             *)
LEMMA SpawnKeeps ==
    ASSUME SynchInv, NEW t \in Thread, Spawn(t) PROVE SynchInv'
<1>1. /\ status[t] = "FREE"
      /\ status' = [status EXCEPT ![t] = "READY"]
      /\ frame' = [frame EXCEPT ![t] = Plain("ThreadRoot")]
      /\ readyList' = Append(readyList, t)
      /\ UNCHANGED <<currentThread, machineStatus, threadToBeDestroyed, halted, saved, level>>
      /\ UNCHANGED <<value, queue, available, owner, waitingThreads, waitingLock, waitingCV,
                     pending, held>>
  BY DEF Spawn, cpuVars, synchVars, semVars, lockVars, cvVars
<1>2. TypeOK'
  <2>1. frame' \in [Thread -> FrameType] /\ FrameOK'
    BY <1>1, SetFrame, ProperFrames DEF SynchInv, TypeOK, SchedTypeOK
  <2>2. readyList' \in Seq(Thread)
    BY <1>1, SMT DEF SynchInv, TypeOK, SchedTypeOK
  <2> QED
    BY <1>1, <2>1, <2>2 DEF SynchInv, TypeOK, SchedTypeOK, SynchTypeOK, ThreadStatus
<1>3. Places'
  <2>1. \A u \in Thread \ {t} : frame'[u] = frame[u]
    BY <1>1 DEF SynchInv, TypeOK, SchedTypeOK
  <2> QED BY <1>1, <2>1, ReadiedPlaces DEF SynchInv
<1>4. LockConsistent'
  <2>1. \A u \in Thread : Awake(u)' /\ frame'[u].op = "Acquire" => Awake(u) /\ frame'[u] = frame[u]
    BY <1>1, PlainFrame DEF SynchInv, TypeOK, SchedTypeOK, Awake
  <2> QED
    BY <1>1, <2>1, LockStays DEF SynchInv, lockVars
<1> QED BY <1>2, <1>3, <1>4 DEF SynchInv

LEMMA SwitchKeeps ==
    ASSUME SynchInv, SchedNext, UNCHANGED synchVars PROVE SynchInv'
<1>1. /\ UNCHANGED <<value, queue, available, owner, waitingThreads, waitingLock, waitingCV,
                     pending, held>>
      /\ UNCHANGED lockVars
  BY DEF synchVars, semVars, lockVars, cvVars
<1>2. TypeOK'
  BY <1>1, SchedType DEF SynchInv, TypeOK, SynchTypeOK
<1>3. Places'
  BY <1>1, SchedPlaces DEF SynchInv
<1>4. LockConsistent'
  BY <1>1, SchedAwake, LockStays DEF SynchInv
<1> QED BY <1>2, <1>3, <1>4 DEF SynchInv

LEMMA StepSynch ==
    ASSUME DiskMade, SynchInv, [Next_SynchDisk]_<<vars, diskVars>> PROVE SynchInv'
<1> USE DEF DiskMade
<1>1. CASE \E t \in Thread : Spawn(t)
  BY <1>1, SpawnKeeps
<1>2. CASE DiskSwitch \/ DiskFinish
  BY <1>2, SwitchKeeps DEF DiskSwitch, DiskFinish, SchedNext
<1>3. ASSUME [Next]_vars PROVE SynchInv'
  BY <1>3, NextType, NextPlaces, NextLocks DEF SynchInv
<1>4. CASE \E j \in Job : CallDisk(j)
  <2>1. Acquire(lock)
    BY <1>4 DEF CallDisk
  <2> QED BY <1>3, <2>1 DEF Next, LockStep
<1>5. CASE Request
  <2>1. DeviceRequest(semaphore)
    BY <1>5 DEF Request
  <2> QED BY <1>3, <2>1 DEF Next, SemStep
<1>6. CASE AwaitDisk
  <2>1. P(semaphore)
    BY <1>6 DEF AwaitDisk
  <2> QED BY <1>3, <2>1 DEF Next, SemStep
<1>7. CASE ReturnFromDisk
  <2>1. Release(lock) \/ UNCHANGED vars
    BY <1>7 DEF ReturnFromDisk
  <2> QED BY <1>3, <2>1 DEF Next, LockStep
<1>8. CASE DiskResume
  <2>1. AcquireWoken \/ PWoken
    BY <1>8 DEF DiskResume
  <2> QED BY <1>3, <2>1 DEF Next, LockStep, SemStep
<1>9. CASE DiskInterrupt
  <2>1. DeviceInterrupt(semaphore)
    BY <1>9 DEF DiskInterrupt
  <2> QED BY <1>3, <2>1 DEF Next, SemStep
<1>10. CASE DiskHalt
  <2>1. IdleHalt \/ Halted
    BY <1>10 DEF DiskHalt
  <2> QED BY <1>3, <2>1 DEF Next
<1>11. CASE UNCHANGED <<vars, diskVars>>
  BY <1>3, <1>11
<1> QED
  BY <1>1, <1>2, <1>4, <1>5, <1>6, <1>7, <1>8, <1>9, <1>10, <1>11
  DEF Next_SynchDisk, DiskStep

----------------------------------------------------------------------------
(* The step of one thread: how it leaves the invariant for the others.     *)
LEMMA CallerMoves ==
    ASSUME Inside, NEW c \in Thread, InsideAt(c)',
           \A u \in Thread \ {c} : frame'[u] = frame[u] /\ at'[u] = at[u],
           \A u \in Thread : status'[u] = "FREE" => status[u] = "FREE"
    PROVE  /\ Inside'
           /\ \A u \in Thread \ {c} : (Using(u)' <=> Using(u)) /\ (Waiting(u)' <=> Waiting(u))
<1>1. ASSUME NEW u \in Thread \ {c}
      PROVE  InsideAt(u)' /\ (Using(u)' <=> Using(u)) /\ (Waiting(u)' <=> Waiting(u))
  <2>1. frame'[u] = frame[u] /\ at'[u] = at[u] /\ (status'[u] = "FREE" => status[u] = "FREE")
    BY <1>1
  <2>2. (Using(u)' <=> Using(u)) /\ (Waiting(u)' <=> Waiting(u))
    BY <2>1 DEF Using, Waiting
  <2>3. InsideAt(u)
    BY <1>1 DEF Inside
  <2>4. InsideAt(u)'
    BY <2>1, <2>3, SMT DEF InsideAt
  <2> QED BY <2>2, <2>4
<1> QED BY <1>1 DEF Inside

(* One thread at a time is past the lock.                                  *)
LEMMA UsesAlone ==
    ASSUME Locked, NEW c \in Thread, Using(c)
    PROVE  \A u \in Thread \ {c} : ~Using(u) /\ ~Waiting(u)
BY DEF Locked, Using, Waiting

LEMMA UnitsStay ==
    ASSUME Units, \A u \in Thread : Waiting(u)' <=> Waiting(u),
           UNCHANGED <<active, device>>,
           value'[semaphore] = value[semaphore], pending'[semaphore] = pending[semaphore]
    PROVE  Units'
BY DEF Units

(* A step of the scheduler, or of a thread that is in no call.             *)
LEMMA QuietStep ==
    ASSUME DiskInv, UNCHANGED <<active, contents, at, job, device, value, pending, owner>>,
           \A t \in Thread :
               /\ frame'[t] = frame[t] \/ (/\ at[t] = "idle"
                                           /\ frame'[t].op \in {"run", "ThreadRoot", "Finish"})
               /\ status'[t] = "FREE" => frame'[t].op \in {"ThreadRoot", "Finish"}
               /\ frame'[t].op \in {"ThreadRoot", "Finish"} => at[t] = "idle"
    PROVE  DiskInv'
<1>1. ASSUME NEW t \in Thread
      PROVE  InsideAt(t)' /\ (Using(t)' <=> Using(t)) /\ (Waiting(t)' <=> Waiting(t))
  BY <1>1 DEF DiskInv, Inside, InsideAt, Using, Waiting
<1>2. Inside' /\ Locked'
  BY <1>1 DEF DiskInv, Inside, Locked
<1>3. Units'
  BY <1>1, UnitsStay DEF DiskInv
<1>4. DiskTypes' /\ Transferred'
  BY DEF DiskInv, DiskTypes, Transferred
<1> QED BY <1>2, <1>3, <1>4 DEF DiskInv
----------------------------------------------------------------------------
(* The actions of SynchDisk, one lemma each.                               *)
LEMMA StartCall ==
    ASSUME DiskMade, SynchInv, DiskInv, NEW j \in Job, CallDisk(j) PROVE DiskInv'
<1>1. PICK c \in Thread : c = currentThread
  BY DEF SynchInv, TypeOK, SchedTypeOK
<1>2. /\ at[c] = "idle" /\ frame[c].op = "run" /\ status[c] = "RUNNING"
      /\ at' = [at EXCEPT ![c] = "request"] /\ job' = [job EXCEPT ![c] = j]
      /\ Acquire(lock) /\ UNCHANGED <<active, contents, device, value, pending>>
  BY <1>1 DEF CallDisk, At, InCaller, CpuBusy, Goto, Acquire, semVars
<1>3. /\ at'[c] = "request" /\ job'[c] = j
      /\ \A u \in Thread \ {c} : at'[u] = at[u] /\ job'[u] = job[u]
  BY <1>2 DEF DiskInv, DiskTypes
<1>4. DiskTypes' /\ Transferred'
  <2>1. j \in Requests
    BY DEF Job, Requests
  <2> QED
    BY <1>2, <1>3, <2>1 DEF DiskInv, DiskTypes, Transferred
<1>5. frame \in [Thread -> FrameType] /\ status \in [Thread -> ThreadStatus \cup {"FREE"}]
  BY DEF SynchInv, TypeOK, SchedTypeOK
<1>6. CASE CanTake(lock)
  <2>1. UNCHANGED <<status, frame>> /\ owner'[lock] = c
    BY <1>1, <1>2, <1>6 DEF Acquire, TakeNow, DiskMade, SynchInv, TypeOK, SynchTypeOK
  <2>2. \A u \in Thread : ~Using(u)
    BY <1>1, <1>2, <1>6 DEF CanTake, DiskMade, SynchInv, LockConsistent, DiskInv, Locked, Using
  <2>3. InsideAt(c)'
    BY <1>2, <1>3, <2>1 DEF InsideAt
  <2>4. /\ Inside'
        /\ \A u \in Thread \ {c} : (Using(u)' <=> Using(u)) /\ (Waiting(u)' <=> Waiting(u))
    BY <1>3, <2>1, <2>3, CallerMoves DEF DiskInv
  <2>5. ~Waiting(c) /\ ~Waiting(c)'
    BY <1>2, <1>3 DEF Waiting
  <2>6. Locked' /\ Units'
    BY <1>2, <2>1, <2>2, <2>4, <2>5, UnitsStay DEF Locked, DiskInv
  <2> QED BY <1>4, <2>4, <2>6 DEF DiskInv
<1>7. CASE ~CanTake(lock)
  <2>1. /\ status' = [status EXCEPT ![c] = "BLOCKED"] /\ owner' = owner
        /\ frame' = [frame EXCEPT ![c] = Frame("Acquire", lock, NULL)]
    BY <1>1, <1>2, <1>7 DEF Acquire, SleepIn, Sleeping
  <2>2. /\ frame'[c].op = "Acquire" /\ frame'[c].obj = lock /\ status'[c] = "BLOCKED"
        /\ \A u \in Thread \ {c} : frame'[u] = frame[u] /\ status'[u] = status[u]
    <3>1. Frame("Acquire", lock, NULL).op = "Acquire" /\ Frame("Acquire", lock, NULL).obj = lock
      BY DEF Frame
    <3>2. /\ frame'[c] = Frame("Acquire", lock, NULL) /\ status'[c] = "BLOCKED"
          /\ \A u \in Thread \ {c} : frame'[u] = frame[u] /\ status'[u] = status[u]
      BY <1>5, <2>1
    <3> QED BY <3>1, <3>2
  <2>3. InsideAt(c)'
    BY <1>3, <2>2 DEF InsideAt
  <2>4. /\ Inside'
        /\ \A u \in Thread \ {c} : (Using(u)' <=> Using(u)) /\ (Waiting(u)' <=> Waiting(u))
    BY <1>3, <2>2, <2>3, CallerMoves DEF DiskInv
  <2>5. ~Waiting(c) /\ ~Waiting(c)' /\ ~Using(c)'
    BY <1>2, <1>3, <2>2 DEF Waiting, Using
  <2>6. Locked' /\ Units'
    BY <1>2, <2>1, <2>4, <2>5, UnitsStay DEF Locked, DiskInv
  <2> QED BY <1>4, <2>4, <2>6 DEF DiskInv
<1> QED BY <1>6, <1>7

(* The transfer itself: nobody else is past the lock, so the semaphore is  *)
(* at 0 with nothing to come, and no other call has data at stake.         *)
LEMMA StartTransfer ==
    ASSUME DiskMade, SynchInv, DiskInv, Request PROVE DiskInv'
<1>1. PICK c \in Thread : c = currentThread
  BY DEF SynchInv, TypeOK, SchedTypeOK
<1>2. /\ at[c] = "request" /\ frame[c].op = "run"
      /\ at' = [at EXCEPT ![c] = "wait"]
      /\ active' = TRUE /\ device' = c
      /\ pending' = [pending EXCEPT ![semaphore] = @ + 1]
      /\ UNCHANGED <<value, frame, status, owner>>
  BY <1>1 DEF Request, At, InCaller, Goto, DeviceRequest, schedVars, semVars, lockVars
<1>3. at'[c] = "wait" /\ \A u \in Thread \ {c} : at'[u] = at[u]
  BY <1>2 DEF DiskInv, DiskTypes
<1>4. Using(c) /\ \A u \in Thread \ {c} : ~Using(u) /\ ~Waiting(u)
  BY <1>2, UsesAlone DEF DiskInv, Using
<1>5. ~Waiting(c) /\ Waiting(c)'
  BY <1>2, <1>3 DEF Waiting
<1>6. /\ Inside'
      /\ \A u \in Thread \ {c} : (Using(u)' <=> Using(u)) /\ (Waiting(u)' <=> Waiting(u))
  <2>1. InsideAt(c)'
    BY <1>2, <1>3 DEF InsideAt, DiskInv, Inside
  <2> QED BY <1>2, <1>3, <2>1, CallerMoves DEF DiskInv
<1>7. Locked'
  BY <1>2, <1>4, <1>6 DEF DiskInv, Locked
<1>8. Units'
  <2>1. value[semaphore] = 0 /\ pending[semaphore] = 0
    BY <1>4, <1>5 DEF DiskInv, Units
  <2>2. pending \in [Sem -> Nat] /\ semaphore \in Sem
    BY DEF DiskMade, SynchInv, TypeOK, SynchTypeOK
  <2>3. value'[semaphore] = 0 /\ pending'[semaphore] = 1 /\ 1 # 0
    BY <1>2, <2>1, <2>2, SMT
  <2> QED BY <1>2, <1>5, <2>3 DEF Units
<1>9. DiskTypes' /\ Transferred'
  <2>1. /\ job[c] \in Requests /\ job \in [Thread -> Requests \cup {NULL}]
        /\ contents \in [Sector -> Data \cup {NULL}]
    BY <1>2 DEF DiskInv, DiskTypes
  <2>2. job[c].sector \in Sector /\ job[c].data \in Data \cup {NULL} /\ DOMAIN job[c] = {"op", "sector", "data"}
    BY <2>1, SMT DEF Requests
  <2>3. /\ contents' \in [Sector -> Data \cup {NULL}] /\ job'[c] \in Requests
        /\ job' \in [Thread -> Requests \cup {NULL}]
        /\ contents'[job'[c].sector] = job'[c].data
        /\ \A u \in Thread \ {c} : job'[u] = job[u]
    <3>1. CASE job[c].op = "write"
      <4>1. contents' = [contents EXCEPT ![job[c].sector] = job[c].data] /\ job' = job
        BY <1>1, <3>1 DEF Request
      <4> QED BY <2>1, <2>2, <4>1
    <3>2. CASE job[c].op # "write"
      <4>1. job' = [job EXCEPT ![c].data = contents[job[c].sector]] /\ contents' = contents
        BY <1>1, <3>2 DEF Request
      <4>2. /\ job'[c] = [job[c] EXCEPT !.data = contents[job[c].sector]]
            /\ DOMAIN job' = Thread /\ \A u \in Thread \ {c} : job'[u] = job[u]
            /\ job' = [t \in Thread |-> job'[t]]
        BY <2>1, <4>1
      <4>3. job'[c] \in Requests /\ job'[c].sector = job[c].sector /\ job'[c].data = contents[job[c].sector]
        BY <2>1, <2>2, <4>2, SMT DEF Requests
      <4> QED BY <2>1, <4>1, <4>2, <4>3
    <3> QED BY <3>1, <3>2
  <2>4. \A u \in Thread \ {c} : at'[u] \notin {"wait", "release"}
    BY <1>3, <1>4 DEF Using
  <2> QED
    BY <1>2, <1>3, <2>3, <2>4 DEF DiskInv, DiskTypes, Transferred
<1> QED BY <1>6, <1>7, <1>8, <1>9 DEF DiskInv

(* The caller of P consumes the unit, at once or when it is woken; then it *)
(* is past the interrupt, and nothing is to come.                          *)
LEMMA PassP ==
    ASSUME DiskMade, SynchInv, DiskInv, NEW c \in Thread, Waiting(c), value[semaphore] # 0,
           value' = [value EXCEPT ![semaphore] = @ - 1],
           at' = [at EXCEPT ![c] = "release"], frame'[c].op = "run", status'[c] = "RUNNING",
           \A u \in Thread \ {c} : frame'[u] = frame[u] /\ status'[u] = status[u],
           UNCHANGED <<active, contents, job, device, owner, pending>>
    PROVE  DiskInv'
<1>1. at'[c] = "release" /\ at[c] \in {"wait", "release"} /\ \A u \in Thread \ {c} : at'[u] = at[u]
  BY DEF DiskInv, DiskTypes, Waiting
<1>2. Using(c) /\ \A u \in Thread \ {c} : ~Using(u) /\ ~Waiting(u)
  BY <1>1, UsesAlone DEF DiskInv, Using
<1>3. /\ Inside'
      /\ \A u \in Thread \ {c} : (Using(u)' <=> Using(u)) /\ (Waiting(u)' <=> Waiting(u))
  <2>1. InsideAt(c)'
    BY <1>1 DEF InsideAt
  <2> QED BY <1>1, <2>1, CallerMoves DEF DiskInv
<1>4. Locked'
  BY <1>2, <1>3 DEF DiskInv, Locked
<1>5. Units'
  <2>1. value[semaphore] = 1 /\ pending[semaphore] = 0
    BY DEF DiskInv, Units
  <2>2. value'[semaphore] = 0 /\ pending'[semaphore] = 0
    BY <2>1, SMT DEF DiskMade, SynchInv, TypeOK, SynchTypeOK
  <2>3. \A u \in Thread : ~Waiting(u)'
    <3>1. ~Waiting(c)'
      BY <1>1 DEF Waiting
    <3> QED BY <1>2, <1>3, <3>1
  <2> QED BY <2>1, <2>2, <2>3 DEF DiskInv, Units
<1>6. DiskTypes' /\ Transferred'
  BY <1>1 DEF DiskInv, DiskTypes, Transferred
<1> QED BY <1>3, <1>4, <1>5, <1>6 DEF DiskInv

LEMMA AwaitInterrupt ==
    ASSUME DiskMade, SynchInv, DiskInv, AwaitDisk PROVE DiskInv'
<1>1. PICK c \in Thread : c = currentThread
  BY DEF SynchInv, TypeOK, SchedTypeOK
<1>2. /\ at[c] = "wait" /\ frame[c].op = "run" /\ status[c] = "RUNNING"
      /\ at' = [at EXCEPT ![c] = "release"]
      /\ P(semaphore) /\ UNCHANGED <<active, contents, job, device, owner, pending>>
  BY <1>1 DEF AwaitDisk, At, InCaller, CpuBusy, Goto, P, lockVars
<1>3. Waiting(c)
  BY <1>2 DEF Waiting
<1>4. CASE value[semaphore] # 0
  <2>1. value' = [value EXCEPT ![semaphore] = @ - 1] /\ UNCHANGED <<status, frame>>
    BY <1>2, <1>4 DEF P
  <2> QED BY <1>2, <1>3, <1>4, <2>1, PassP
<1>5. CASE value[semaphore] = 0
  <2>1. /\ status' = [status EXCEPT ![c] = "BLOCKED"] /\ value' = value
        /\ frame' = [frame EXCEPT ![c] = Frame("P", semaphore, NULL)]
    BY <1>1, <1>2, <1>5 DEF P, SleepIn, Sleeping
  <2>2. /\ frame'[c].op = "P" /\ frame'[c].obj = semaphore /\ status'[c] = "BLOCKED"
        /\ \A u \in Thread \ {c} : frame'[u] = frame[u] /\ status'[u] = status[u]
    <3>1. Frame("P", semaphore, NULL).op = "P" /\ Frame("P", semaphore, NULL).obj = semaphore
      BY DEF Frame
    <3>2. /\ frame'[c] = Frame("P", semaphore, NULL) /\ status'[c] = "BLOCKED"
          /\ \A u \in Thread \ {c} : frame'[u] = frame[u] /\ status'[u] = status[u]
      BY <2>1 DEF SynchInv, TypeOK, SchedTypeOK
    <3> QED BY <3>1, <3>2
  <2>3. at'[c] = "release" /\ \A u \in Thread \ {c} : at'[u] = at[u]
    BY <1>2 DEF DiskInv, DiskTypes
  <2>4. InsideAt(c)' /\ Waiting(c)' /\ Using(c)
    BY <1>2, <2>2, <2>3 DEF InsideAt, Waiting, Using
  <2>5. /\ Inside'
        /\ \A u \in Thread \ {c} : (Using(u)' <=> Using(u)) /\ (Waiting(u)' <=> Waiting(u))
    BY <2>2, <2>3, <2>4, CallerMoves DEF DiskInv
  <2>6. Locked' /\ Units'
    BY <1>2, <1>3, <2>1, <2>4, <2>5, UnitsStay DEF DiskInv, Locked
  <2>7. DiskTypes' /\ Transferred'
    BY <1>2, <2>3 DEF DiskInv, DiskTypes, Transferred
  <2> QED BY <2>5, <2>6, <2>7 DEF DiskInv
<1> QED BY <1>4, <1>5

(* lock->Release() by its owner: after it nobody is past the lock.         *)
LEMMA EndCall ==
    ASSUME DiskMade, SynchInv, DiskInv, ReturnFromDisk PROVE DiskInv'
<1>1. PICK c \in Thread : c = currentThread
  BY DEF SynchInv, TypeOK, SchedTypeOK
<1>2. /\ at[c] = "release" /\ frame[c].op = "run"
      /\ at' = [at EXCEPT ![c] = "idle"]
      /\ UNCHANGED <<active, contents, job, device>>
  BY <1>1 DEF ReturnFromDisk, At, InCaller, Goto
<1>3. at'[c] = "idle" /\ \A u \in Thread \ {c} : at'[u] = at[u]
  BY <1>2 DEF DiskInv, DiskTypes
<1>4. Using(c) /\ \A u \in Thread \ {c} : ~Using(u) /\ ~Waiting(u)
  BY <1>2, UsesAlone DEF DiskInv, Using
<1>5. Release(lock)
  BY <1>1, <1>4 DEF ReturnFromDisk, DiskInv, Locked
<1>6. /\ frame' = frame /\ UNCHANGED <<value, pending>>
      /\ status' = Woken(waitingThreads[lock], status)
  BY <1>5 DEF Release, semVars
<1>7. \A u \in Thread : status'[u] = "FREE" => status[u] = "FREE"
  BY <1>6 DEF Woken, SynchInv, TypeOK, SchedTypeOK
<1>8. /\ Inside'
      /\ \A u \in Thread \ {c} : (Using(u)' <=> Using(u)) /\ (Waiting(u)' <=> Waiting(u))
  <2>1. status[c] # "FREE"
    BY <1>2 DEF DiskInv, Inside, InsideAt
  <2>2. InsideAt(c)'
    BY <1>2, <1>3, <1>6, <1>7, <2>1 DEF InsideAt
  <2> QED BY <1>3, <1>6, <1>7, <2>2, CallerMoves DEF DiskInv
<1>9. ~Waiting(c) /\ ~Waiting(c)' /\ ~Using(c)'
  BY <1>2, <1>3 DEF Waiting, Using
<1>10. Locked' /\ Units'
  BY <1>2, <1>4, <1>6, <1>8, <1>9, UnitsStay DEF DiskInv, Locked
<1>11. DiskTypes' /\ Transferred'
  BY <1>2, <1>3 DEF DiskInv, DiskTypes, Transferred
<1> QED BY <1>8, <1>10, <1>11 DEF DiskInv

(* A thread goes on in Acquire, as the owner Release made it, or in P.     *)
LEMMA Resumes ==
    ASSUME DiskMade, SynchInv, DiskInv, DiskResume PROVE DiskInv'
<1>1. PICK c \in Thread : c = currentThread
  BY DEF SynchInv, TypeOK, SchedTypeOK
<1>2. UNCHANGED <<active, contents, at, job, device>> /\ status[c] = "RUNNING"
  BY <1>1 DEF DiskResume, diskVars, AcquireWoken, PWoken, CpuBusy
<1>3. /\ frame \in [Thread -> FrameType]
      /\ at \in [Thread -> {"idle", "request", "wait", "release"}]
  BY DEF SynchInv, TypeOK, SchedTypeOK, DiskInv, DiskTypes
<1>4. Plain("run").op = "run"
  BY PlainFrame
<1>5. CASE AcquireWoken
  <2>1. /\ frame[c].op = "Acquire" /\ frame' = [frame EXCEPT ![c] = Plain("run")]
        /\ UNCHANGED <<status, value, pending, owner>>
    BY <1>1, <1>5 DEF AcquireWoken, ReturnToCaller, semVars, lockVars
  <2>2. frame'[c].op = "run" /\ \A u \in Thread \ {c} : frame'[u] = frame[u]
    BY <1>3, <1>4, <2>1
  <2>3. at[c] = "request" /\ frame[c].obj = lock
    BY <2>1 DEF DiskInv, Inside, InsideAt
  <2>4. owner[lock] = c
    BY <1>2, <2>1, <2>3 DEF DiskMade, SynchInv, LockConsistent, Awake
  <2>5. InsideAt(c)' /\ ~Waiting(c) /\ ~Waiting(c)'
    BY <1>2, <2>1, <2>2, <2>3 DEF InsideAt, Waiting
  <2>6. /\ Inside'
        /\ \A u \in Thread \ {c} : (Using(u)' <=> Using(u)) /\ (Waiting(u)' <=> Waiting(u))
    BY <1>2, <2>1, <2>2, <2>5, CallerMoves DEF DiskInv
  <2>7. Locked' /\ Units'
    BY <1>2, <2>1, <2>4, <2>5, <2>6, UnitsStay DEF DiskInv, Locked
  <2>8. DiskTypes' /\ Transferred'
    BY <1>2 DEF DiskInv, DiskTypes, Transferred
  <2> QED BY <2>6, <2>7, <2>8 DEF DiskInv
<1>6. CASE PWoken
  <2>1. frame[c].op = "P" /\ UNCHANGED <<pending, owner>>
    BY <1>1, <1>6 DEF PWoken, lockVars
  <2>2. at[c] = "release" /\ frame[c].obj = semaphore
    BY <2>1 DEF DiskInv, Inside, InsideAt
  <2>3. CASE value[semaphore] = 0
    <3>1. UNCHANGED <<value, frame>> /\ status' = [status EXCEPT ![c] = "BLOCKED"]
      BY <1>1, <1>6, <2>2, <2>3 DEF PWoken, Sleeping
    <3>2. \A t \in Thread : status'[t] = "FREE" => status[t] = "FREE"
      BY <3>1 DEF SynchInv, TypeOK, SchedTypeOK
    <3>3. \A t \in Thread : /\ status[t] = "FREE" => frame[t].op \in {"ThreadRoot", "Finish"}
                            /\ frame[t].op \in {"ThreadRoot", "Finish"} => at[t] = "idle"
      BY DEF DiskInv, Inside, InsideAt
    <3> QED BY <1>2, <2>1, <3>1, <3>2, <3>3, QuietStep
  <2>4. CASE value[semaphore] # 0
    <3>1. /\ value' = [value EXCEPT ![semaphore] = @ - 1] /\ status' = status
          /\ frame' = [frame EXCEPT ![c] = Plain("run")]
      BY <1>1, <1>6, <2>2, <2>4 DEF PWoken, ReturnToCaller
    <3>2. frame'[c].op = "run" /\ \A u \in Thread \ {c} : frame'[u] = frame[u]
      BY <1>3, <1>4, <3>1
    <3>3. Waiting(c)
      BY <2>1, <2>2 DEF Waiting
    <3>4. at' = [at EXCEPT ![c] = "release"]
      BY <1>2, <1>3, <2>2
    <3> QED BY <1>2, <2>1, <2>4, <3>1, <3>2, <3>3, <3>4, PassP
  <2> QED BY <2>3, <2>4
<1> QED BY <1>5, <1>6 DEF DiskResume

(* The interrupt: the unit that was to come is there.                      *)
LEMMA EndTransfer ==
    ASSUME DiskMade, SynchInv, DiskInv, DiskInterrupt PROVE DiskInv'
<1>1. /\ UNCHANGED <<contents, at, job, frame, owner>> /\ active' = FALSE /\ device' = NULL
      /\ pending[semaphore] > 0
      /\ pending' = [pending EXCEPT ![semaphore] = @ - 1]
      /\ value' = [value EXCEPT ![semaphore] = @ + 1]
      /\ status' = Woken(queue[semaphore], status)
  BY DEF DiskInterrupt, DeviceInterrupt, DoV, lockVars
<1>2. \A u \in Thread : status'[u] = "FREE" => status[u] = "FREE"
  BY <1>1 DEF Woken, SynchInv, TypeOK, SchedTypeOK
<1>3. ASSUME NEW t \in Thread
      PROVE  InsideAt(t)' /\ (Using(t)' <=> Using(t)) /\ (Waiting(t)' <=> Waiting(t))
  BY <1>1, <1>2, <1>3 DEF DiskInv, Inside, InsideAt, Using, Waiting
<1>4. Inside' /\ Locked'
  BY <1>1, <1>3 DEF DiskInv, Inside, Locked
<1>5. Units'
  <2>1. pending[semaphore] # 0
    BY <1>1, SMT DEF DiskMade, SynchInv, TypeOK, SynchTypeOK
  <2>2. (\E t \in Thread : Waiting(t)) /\ value[semaphore] = 0 /\ pending[semaphore] = 1
    BY <2>1 DEF DiskInv, Units
  <2>3. value'[semaphore] = 1 /\ pending'[semaphore] = 0
    BY <1>1, <2>2, SMT DEF DiskMade, SynchInv, TypeOK, SynchTypeOK
  <2>4. \E t \in Thread : Waiting(t)'
    BY <1>3, <2>2
  <2> QED BY <1>1, <2>3, <2>4 DEF Units
<1>6. DiskTypes' /\ Transferred'
  BY <1>1 DEF DiskInv, DiskTypes, Transferred
<1> QED BY <1>4, <1>5, <1>6 DEF DiskInv

(* Switching threads: the next one may leave ThreadRoot, and the carcass,  *)
(* which is over, may be deleted.                                          *)
LEMMA SwitchQuiet ==
    ASSUME SynchInv, DiskInv, DiskSwitch PROVE DiskInv'
<1>1. UNCHANGED <<active, contents, at, job, device, value, pending, owner>>
  BY DEF DiskSwitch, diskVars, synchVars, semVars, lockVars
<1>2. /\ status \in [Thread -> ThreadStatus \cup {"FREE"}] /\ frame \in [Thread -> FrameType]
      /\ currentThread \in Thread
  BY DEF SynchInv, TypeOK, SchedTypeOK
<1>3. \A t \in Thread : /\ status[t] = "FREE" => frame[t].op \in {"ThreadRoot", "Finish"}
                        /\ frame[t].op \in {"ThreadRoot", "Finish"} => at[t] = "idle"
  BY DEF DiskInv, Inside, InsideAt
<1>4. ASSUME NEW next \in Thread, NEW st \in [Thread -> ThreadStatus \cup {"FREE"}],
             \A t \in Thread : st[t] = "FREE" => status[t] = "FREE", Run(next, st)
      PROVE  DiskInv'
  <2>1. ASSUME NEW t \in Thread
        PROVE  /\ frame'[t] = frame[t] \/ (at[t] = "idle" /\ frame'[t].op = "run")
               /\ status'[t] = "FREE" => frame'[t].op \in {"ThreadRoot", "Finish"}
    <3>1. CASE t = next
      BY <1>2, <1>3, <1>4, <2>1, <3>1, PlainFrame DEF Run
    <3>2. CASE t # next
      <4>1. frame'[t] = frame[t]
        BY <1>2, <1>4, <2>1, <3>2 DEF Run
      <4>2. status'[t] = "FREE" => st[t] = "FREE" \/ t = threadToBeDestroyed
        BY <1>4, <2>1, <3>2 DEF Run
      <4>3. t = threadToBeDestroyed => frame[t].op = "Finish"
        BY <2>1 DEF SynchInv, Places, CarcassIsDead, Finished
      <4> QED BY <1>3, <1>4, <2>1, <4>1, <4>2, <4>3
    <3> QED BY <3>1, <3>2
  <2>2. \A t \in Thread : frame'[t].op \in {"ThreadRoot", "Finish"} => at[t] = "idle"
    BY <1>3, <2>1
  <2> QED BY <1>1, <2>1, <2>2, QuietStep
<1>5. ASSUME SwitchAway PROVE DiskInv'
  <2> DEFINE st == [status EXCEPT ![currentThread] = "READY"]
  <2>1. Head(readyList) \in Thread /\ Run(Head(readyList), st)
    BY <1>5, FirstReady DEF SwitchAway, SynchInv
  <2>2. /\ st \in [Thread -> ThreadStatus \cup {"FREE"}]
        /\ \A t \in Thread : st[t] = "FREE" => status[t] = "FREE"
    BY <1>2 DEF ThreadStatus
  <2> QED BY <1>4, <2>1, <2>2
<1>6. CASE Dispatch
  <2>1. Head(readyList) \in Thread /\ Run(Head(readyList), status)
    BY <1>6, FirstReady DEF Dispatch, SynchInv
  <2> QED BY <1>2, <1>4, <2>1
<1>7. CASE UserInstruction
  <2>1. UNCHANGED <<status, frame>>
    BY <1>7 DEF UserInstruction
  <2> QED BY <1>1, <1>3, <2>1, QuietStep
<1> QED BY <1>5, <1>6, <1>7 DEF DiskSwitch, TimeSlice

(* The end of a thread, the start of one, and the end of the machine.      *)
LEMMA BetweenCalls ==
    ASSUME SynchInv, DiskInv,
           DiskFinish \/ (\E t \in Thread : Spawn(t)) \/ DiskHalt \/ UNCHANGED <<vars, diskVars>>
    PROVE  DiskInv'
<1>1. UNCHANGED <<active, contents, at, job, device, value, pending, owner>>
  <2>1. CASE DiskFinish
    BY <2>1 DEF DiskFinish, diskVars, synchVars, semVars, lockVars
  <2>2. CASE \E t \in Thread : Spawn(t)
    BY <2>2 DEF Spawn, diskVars, synchVars, semVars, lockVars
  <2>3. CASE DiskHalt
    BY <2>3 DEF DiskHalt, IdleHalt, Halted, vars, diskVars, synchVars, semVars, lockVars
  <2>4. CASE UNCHANGED <<vars, diskVars>>
    BY <2>4 DEF vars, diskVars, synchVars, semVars, lockVars
  <2> QED BY <2>1, <2>2, <2>3, <2>4
<1>2. /\ status \in [Thread -> ThreadStatus \cup {"FREE"}] /\ frame \in [Thread -> FrameType]
      /\ currentThread \in Thread
  BY DEF SynchInv, TypeOK, SchedTypeOK
<1>3. \A t \in Thread : /\ status[t] = "FREE" => frame[t].op \in {"ThreadRoot", "Finish"}
                        /\ frame[t].op \in {"ThreadRoot", "Finish"} => at[t] = "idle"
  BY DEF DiskInv, Inside, InsideAt
<1>4. ASSUME NEW u \in Thread, NEW op \in {"ThreadRoot", "Finish"}, at[u] = "idle",
             frame' = [frame EXCEPT ![u] = Plain(op)],
             \A t \in Thread : status'[t] = "FREE" => status[t] = "FREE"
      PROVE  DiskInv'
  <2>1. frame'[u].op = op /\ \A t \in Thread \ {u} : frame'[t] = frame[t]
    BY <1>2, <1>4, PlainFrame
  <2> QED BY <1>1, <1>3, <1>4, <2>1, QuietStep
<1>5. CASE DiskFinish
  <2>1. /\ at[currentThread] = "idle"
        /\ frame' = [frame EXCEPT ![currentThread] = Plain("Finish")]
        /\ status' = [status EXCEPT ![currentThread] = "BLOCKED"]
    BY <1>5 DEF DiskFinish, At, Finish, SleepIn
  <2> QED BY <1>2, <1>4, <2>1
<1>6. CASE \E t \in Thread : Spawn(t)
  <2>1. PICK t \in Thread : Spawn(t)
    BY <1>6
  <2>2. /\ status[t] = "FREE" /\ frame' = [frame EXCEPT ![t] = Plain("ThreadRoot")]
        /\ status' = [status EXCEPT ![t] = "READY"]
    BY <2>1 DEF Spawn
  <2> QED BY <1>2, <1>3, <1>4, <2>2
<1>7. ASSUME UNCHANGED <<status, frame>> PROVE DiskInv'
  BY <1>1, <1>3, <1>7, QuietStep
<1>8. CASE DiskHalt \/ UNCHANGED <<vars, diskVars>>
  BY <1>7, <1>8 DEF DiskHalt, IdleHalt, Halted, vars, schedVars
<1> QED BY <1>5, <1>6, <1>8

LEMMA StepDisk ==
    ASSUME DiskMade, SynchInv, DiskInv, [Next_SynchDisk]_<<vars, diskVars>> PROVE DiskInv'
BY StartCall, StartTransfer, AwaitInterrupt, EndCall, Resumes, EndTransfer, SwitchQuiet,
   BetweenCalls
DEF Next_SynchDisk, DiskStep

LEMMA InitDisk ==
    ASSUME DiskMade, Init_SynchDisk PROVE SynchInv /\ DiskInv
<1>1. SynchInv
  BY InitType, InitPlaces, InitLocks DEF Init_SynchDisk, DiskMade, SynchInv
<1>2. \A t \in Thread : /\ at[t] = "idle" /\ frame[t].op \in {"run", "ThreadRoot"}
                        /\ status[t] = "FREE" => frame[t].op = "ThreadRoot"
  BY PlainFrame DEF Init_SynchDisk, Init, SchedInit
<1>3. Inside /\ Locked /\ Transferred
  BY <1>2 DEF Inside, InsideAt, Locked, Using, Transferred
<1>4. Units
  <2>1. value[semaphore] = 0 /\ pending[semaphore] = 0 /\ active = FALSE /\ device = NULL
    BY DEF Init_SynchDisk, Init, DiskMade
  <2> QED BY <1>2, <2>1 DEF Units, Waiting
<1>5. DiskTypes
  BY <1>2 DEF DiskTypes, Init_SynchDisk
<1> QED BY <1>1, <1>3, <1>4, <1>5 DEF DiskInv

(* ReadSector and WriteSector return only when the device is through with  *)
(* their own request, and what a read returns is still what the disk holds:*)
(* for any threads, sectors and data, and with the time slices and the     *)
(* interrupts anywhere, on the lock and the semaphore SynchDisk::SynchDisk *)
(* makes.                                                                  *)
THEOREM OwnInterruptAwaited ==
    ASSUME DiskMade PROVE Spec_SynchDisk => []OwnCompletion
<1>1. Init_SynchDisk => SynchInv /\ DiskInv
  BY InitDisk
<1>2. SynchInv /\ DiskInv /\ [Next_SynchDisk]_<<vars, diskVars>> => (SynchInv /\ DiskInv)'
  BY StepSynch, StepDisk
<1>3. DiskInv => OwnCompletion
  <2> SUFFICES ASSUME DiskInv, NEW t \in Thread, at[t] = "release", frame[t].op # "P"
               PROVE  device # t /\ ~active /\ contents[job[t].sector] = job[t].data
    BY DEF OwnCompletion
  <2>1. Using(t) /\ ~Waiting(t)
    BY DEF Using, Waiting
  <2>2. \A u \in Thread : ~Waiting(u)
    BY <2>1, UsesAlone DEF DiskInv
  <2>3. ~active /\ device = NULL
    BY <2>2 DEF DiskInv, DiskTypes, Units
  <2> QED
    BY <2>3 DEF DiskInv, Transferred
<1> QED
  BY <1>1, <1>2, <1>3, PTL DEF Spec_SynchDisk
=============================================================================
