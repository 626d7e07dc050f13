---------------------------- MODULE SyscallProofs ----------------------------
(***************************************************************************)
(* Proofs about Syscalls: every step of a handler is a step of Synch or    *)
(* leaves it alone, so Synch's theorems hold under system calls too; and   *)
(* the table locks protect the tables.                                     *)
(***************************************************************************)
EXTENDS Syscalls, SynchProofs

USE Zenon
USE SyscallsAssumption DEF SyscallsAssumption

TableGuards == {LockTableLock, CVTableLock}

(* The entries that exist or are about to be made fit into the bounds.     *)
Bounded ==
    /\ Len(LockTable) + Creating("CreateLock") <= MaxLocks
    /\ Len(CVTable) + Creating("CreateCV") <= MaxCVs

(* The inductive invariant behind TableLocks and CheckedIsLive: a thread   *)
(* queued for a table's lock is about to check, no thread waits on a       *)
(* condition with a table's lock, and a thread that goes on with an entry  *)
(* after it has unlocked the table, in Wait_Syscall or Release_Syscall,    *)
(* cannot lose the CPU; no other is in the middle of using LockTable then. *)
LocksGuard ==
    \A t \in Thread, l \in TableGuards :
        /\ owner[l] = t => Inside(t, l)
        /\ Inside(t, l) /\ t \notin Range(waitingThreads[l]) => owner[l] = t
        /\ t \in Range(waitingThreads[l]) => Inside(t, l) /\ call[t].pc = "check"

NoGuardWait == \A t \in Thread : frame[t].op = "Wait" => frame[t].obj \notin TableGuards

Poised ==
    \A t \in Thread :
        /\ call[t].pc \in {"wait", "delete"} => t = currentThread /\ InCaller /\ level = "IntOff"
        /\ call[t].pc = "delete" =>
                \A u \in Thread : call[u].pc = "unlock" => call[u].op \notin {"Acquire", "Release"}

Guarded == LocksGuard /\ NoGuardWait /\ Poised /\ CheckedIsLive
----------------------------------------------------------------------------
(* What the tables hold.                                                   *)
LEMMA EntryType ==
    ASSUME TypeOK_Syscalls, NEW n \in Int
    PROVE  /\ LockAt(n) # NULL => LockAt(n) \in Lock \ TableGuards
           /\ CVAt(n) # NULL => CVAt(n) \in CV
<1>1. ASSUME n \in 0 .. Len(LockTable) - 1 PROVE LockTable[n + 1] \in Entry
  BY <1>1, SMT DEF TypeOK_Syscalls
<1>2. ASSUME n \in 0 .. Len(CVTable) - 1 PROVE CVTable[n + 1] \in CVEntry
  BY <1>2, SMT DEF TypeOK_Syscalls
<1>3. LockAt(n) # NULL => LockAt(n) \in 0 .. MaxLocks - 1
  BY <1>1 DEF LockAt, Entry
<1>4. CVAt(n) # NULL => CVAt(n) \in 0 .. MaxCVs - 1
  BY <1>2 DEF CVAt, CVEntry
<1> QED
  BY <1>3, <1>4 DEF TableGuards

LEMMA CallInt ==
    ASSUME TypeOK_Syscalls, NEW t \in Thread PROVE call[t].n \in Int /\ call[t].m \in Int
<1>1. call[t] \in CallType
  BY DEF TypeOK_Syscalls
<1>2. call[t].n \in LockArg \cup CVArg \cup {0} /\ call[t].m \in LockArg \cup {0}
  BY <1>1 DEF CallType
<1>3. 0 \in Int /\ LockArg \subseteq Int /\ CVArg \subseteq Int
  BY SMT
<1> QED BY <1>2, <1>3

LEMMA TableLockType == \A op : TableLock(op) \in TableGuards /\ TableGuards \subseteq Lock
BY DEF TableLock, TableGuards

(* Synch's routines, with or without effect.                               *)
LEMMA RoutineStep ==
    /\ \A l \in Lock : Acquire(l) \/ ReleaseLock(l) => [Next]_vars
    /\ \A c \in CV, l \in Lock :
            SignalCV(c, l) \/ WaitCV(c, l) \/ Broadcast(c, l) => [Next]_vars
BY DEF ReleaseLock, SignalCV, WaitCV, Next, LockStep, CVStep

(* Every step of a handler is a step of Synch or stutters in it.           *)
LEMMA StepIsSynch ==
    ASSUME TypeOK, TypeOK_Syscalls, Guarded, [Next_Syscalls]_allVars PROVE [Next]_vars
<1>0. currentThread \in Thread
  BY DEF TypeOK, SchedTypeOK
<1>1. Arg \in Int /\ Arg2 \in Int
  BY <1>0, CallInt DEF Arg, Arg2
<1>2. /\ LockAt(Arg) # NULL => LockAt(Arg) \in Lock
      /\ LockAt(Arg2) # NULL => LockAt(Arg2) \in Lock
      /\ CVAt(Arg) # NULL => CVAt(Arg) \in CV
  BY <1>1, EntryType
<1>3. CASE EnterAny
  <2>1. \E op : Acquire(TableLock(op))
    BY <1>3 DEF EnterAny, Enter
  <2> QED BY <2>1, TableLockType, RoutineStep
<1>4. ASSUME NEW op, Leave(op) PROVE [Next]_vars
  BY <1>4, TableLockType, RoutineStep DEF Leave
<1>5. CASE Acquire_Syscall
  BY <1>2, <1>4, <1>5, RoutineStep DEF Acquire_Syscall
<1>6. CASE Release_Syscall
  BY <1>2, <1>4, <1>6, RoutineStep DEF Release_Syscall
<1>7. CASE ReleaseArg(Arg2)
  BY <1>2, <1>7, RoutineStep DEF ReleaseArg
<1>8. ASSUME NEW op, BadArgs(op) PROVE [Next]_vars
  BY <1>7, <1>8, RoutineStep DEF BadArgs
<1>9. CASE Wait_Syscall
  <2>1. CASE ReleaseLock(CVTableLock)
    BY <2>1, TableLockType, RoutineStep DEF TableGuards
  <2>2. CASE At("Wait", "wait") /\ WaitCV(CVAt(Arg), LockAt(Arg2))
    <3>1. CVAt(Arg) # NULL /\ LockAt(Arg2) # NULL
      BY <1>0, <2>2 DEF At, Guarded, CheckedIsLive, Arg, Arg2
    <3> QED BY <1>2, <2>2, <3>1, RoutineStep
  <2> QED
    BY <1>7, <1>8, <1>9, <2>1, <2>2 DEF Wait_Syscall
<1>10. CASE Signal_Syscall
  BY <1>2, <1>4, <1>8, <1>10, RoutineStep DEF Signal_Syscall, ArgsOK
<1>11. CASE Broadcast_Syscall
  BY <1>2, <1>4, <1>8, <1>11, RoutineStep DEF Broadcast_Syscall, ArgsOK
<1>12. CASE CreateLock_Syscall \/ DestroyLock_Syscall \/ CreateCV_Syscall \/ DestroyCV_Syscall
  BY <1>4, <1>12 DEF CreateLock_Syscall, DestroyLock_Syscall, CreateCV_Syscall, DestroyCV_Syscall
<1>13. CASE Kernel
  BY <1>13 DEF Kernel, UserStep, Switch, Resume, Next, LockStep, CVStep
<1>14. CASE Dead \/ UNCHANGED allVars
  BY <1>14 DEF Dead, allVars
<1> QED
  BY <1>3, <1>5, <1>6, <1>9, <1>10, <1>11, <1>12, <1>13, <1>14 DEF Next_Syscalls, Handler
----------------------------------------------------------------------------
(* How a step changes call.                                                *)
LEMMA CallMoves ==
    ASSUME TypeOK_Syscalls, currentThread \in Thread
    PROVE  /\ \A pc \in {"unlock", "delete", "wait", "woken", "error"} :
                Goto(pc) => /\ call' \in [Thread -> CallType]
                            /\ \A t \in Thread \ {currentThread} : call'[t] = call[t]
                            /\ call'[currentThread].pc = pc
                            /\ call'[currentThread].op = call[currentThread].op
                            /\ call'[currentThread].n = call[currentThread].n
                            /\ call'[currentThread].m = call[currentThread].m
           /\ Return => /\ call' \in [Thread -> CallType]
                        /\ \A t \in Thread \ {currentThread} : call'[t] = call[t]
                        /\ call'[currentThread] = User
<1>1. call \in [Thread -> CallType]
  BY DEF TypeOK_Syscalls
<1>2. User \in CallType
  BY DEF User, Call, CallType
<1>3. ASSUME NEW pc \in {"unlock", "delete", "wait", "woken", "error"}
      PROVE  [call[currentThread] EXCEPT !.pc = pc] \in CallType
  BY <1>1, <1>3, SMT DEF CallType
<1>4. ASSUME NEW pc \in {"unlock", "delete", "wait", "woken", "error"}, Goto(pc)
      PROVE  /\ call' \in [Thread -> CallType]
             /\ \A t \in Thread \ {currentThread} : call'[t] = call[t]
             /\ call'[currentThread].pc = pc
             /\ call'[currentThread].op = call[currentThread].op
             /\ call'[currentThread].n = call[currentThread].n
             /\ call'[currentThread].m = call[currentThread].m
  <2>1. call' = [call EXCEPT ![currentThread] = [@ EXCEPT !.pc = pc]]
    BY <1>4 DEF Goto
  <2>2. call'[currentThread] = [call[currentThread] EXCEPT !.pc = pc]
    BY <1>1, <2>1
  <2>3. DOMAIN call[currentThread] = {"op", "pc", "n", "m"}
    BY <1>1 DEF CallType
  <2>4. call' \in [Thread -> CallType] /\ \A t \in Thread \ {currentThread} : call'[t] = call[t]
    BY <1>1, <1>3, <2>1
  <2> QED BY <2>2, <2>3, <2>4
<1>5. ASSUME Return
      PROVE  /\ call' \in [Thread -> CallType]
             /\ \A t \in Thread \ {currentThread} : call'[t] = call[t]
             /\ call'[currentThread] = User
  BY <1>1, <1>2, <1>5 DEF Return
<1> QED
  BY <1>4, <1>5

LEMMA EnterCall ==
    ASSUME TypeOK_Syscalls, currentThread \in Thread, EnterAny
    PROVE  /\ call' \in [Thread -> CallType]
           /\ \A t \in Thread \ {currentThread} : call'[t] = call[t]
           /\ call'[currentThread].pc = "check"
           /\ InUser
           /\ Acquire(TableLock(call'[currentThread].op))
           /\ UNCHANGED tableVars
           /\ call'[currentThread].op = "CreateLock"
                => Len(LockTable) + Creating("CreateLock") < MaxLocks
           /\ call'[currentThread].op = "CreateCV"
                => Len(CVTable) + Creating("CreateCV") < MaxCVs
<1> DEFINE Ops9 == {"Acquire", "Release", "Wait", "Signal", "Broadcast",
                    "CreateLock", "DestroyLock", "CreateCV", "DestroyCV"}
<1>1. PICK op \in Ops9, n \in LockArg \cup CVArg \cup {0}, m \in LockArg \cup {0} :
            /\ Enter(op, n, m)
            /\ op = "CreateLock" => Len(LockTable) + Creating("CreateLock") < MaxLocks
            /\ op = "CreateCV" => Len(CVTable) + Creating("CreateCV") < MaxCVs
  BY DEF EnterAny
<1>2. Call(op, "check", n, m) \in CallType
  BY DEF Call, CallType
<1>3. call \in [Thread -> CallType]
  BY DEF TypeOK_Syscalls
<1>4. /\ call' = [call EXCEPT ![currentThread] = Call(op, "check", n, m)]
      /\ InUser /\ Acquire(TableLock(op)) /\ UNCHANGED tableVars
  BY <1>1 DEF Enter
<1>5. call'[currentThread] = Call(op, "check", n, m)
  BY <1>3, <1>4
<1>6. call'[currentThread].op = op /\ call'[currentThread].pc = "check"
  BY <1>5, SMT DEF Call
<1> QED
  BY <1>1, <1>2, <1>3, <1>4, <1>6
----------------------------------------------------------------------------
(* A thread in its own code is queued nowhere; queues hold threads.        *)
LEMMA QueuedThreads ==
    ASSUME TypeOK, OnePlace, NEW l \in Lock
    PROVE  /\ waitingThreads[l] \in Seq(Thread)
           /\ Range(waitingThreads[l]) \subseteq Thread
           /\ currentThread \in Thread
           /\ InCaller => currentThread \notin Range(waitingThreads[l])
<1>1. waitingThreads[l] \in Seq(Thread) /\ currentThread \in Thread
  BY DEF TypeOK, SchedTypeOK, SynchTypeOK
<1>2. Range(waitingThreads[l]) = AsleepInAcquire(l)
  BY DEF OnePlace, LockQueuesOK, Lists
<1> QED
  BY <1>1, <1>2 DEF AsleepInAcquire, InCaller, CpuBusy

(* A handler between its Acquire and its Release of the table's lock has   *)
(* that lock, so the Release is the owner's.                               *)
LEMMA OwnsGuard ==
    ASSUME TypeOK, OnePlace, LocksGuard, NEW op, NEW pc \in {"check", "unlock"}, At(op, pc)
    PROVE  /\ owner[TableLock(op)] = currentThread
           /\ ReleaseLock(TableLock(op)) => Release(TableLock(op))
<1>1. TableLock(op) \in TableGuards /\ TableLock(op) \in Lock
  BY TableLockType
<1>2. InCaller /\ Inside(currentThread, TableLock(op))
  BY DEF At, Inside
<1>3. currentThread \in Thread \ Range(waitingThreads[TableLock(op)])
  BY <1>1, <1>2, QueuedThreads
<1>4. owner[TableLock(op)] = currentThread
  BY <1>1, <1>2, <1>3 DEF LocksGuard
<1> QED
  BY <1>4 DEF ReleaseLock

(* A step that leaves the table locks alone and does not take the running  *)
(* thread into or out of their reach.                                      *)
GuardsKept == \A l \in TableGuards : owner'[l] = owner[l] /\ waitingThreads'[l] = waitingThreads[l]

LEMMA GuardStays ==
    ASSUME TypeOK, OnePlace, LocksGuard, InCaller, GuardsKept,
           \A t \in Thread \ {currentThread} : call'[t] = call[t],
           \A t \in Thread, l \in TableGuards : t = currentThread => (Inside(t, l)' <=> Inside(t, l))
    PROVE  LocksGuard'
<1>1. TableGuards \subseteq Lock /\ TableGuards' = TableGuards
  BY TableLockType DEF TableGuards
<1> SUFFICES ASSUME NEW t \in Thread, NEW l \in TableGuards
             PROVE  /\ owner'[l] = t => Inside(t, l)'
                    /\ Inside(t, l)' /\ t \notin Range(waitingThreads'[l]) => owner'[l] = t
                    /\ t \in Range(waitingThreads'[l]) => Inside(t, l)' /\ call'[t].pc = "check"
  BY <1>1 DEF LocksGuard
<1>2. owner'[l] = owner[l] /\ waitingThreads'[l] = waitingThreads[l]
  BY DEF GuardsKept
<1>3. CASE t = currentThread
  <2>1. t \notin Range(waitingThreads[l]) /\ (Inside(t, l)' <=> Inside(t, l))
    BY <1>1, <1>3, QueuedThreads
  <2> QED BY <1>2, <2>1, SMT DEF LocksGuard
<1>4. CASE t # currentThread
  <2>1. call'[t] = call[t] /\ (Inside(t, l)' <=> Inside(t, l))
    BY <1>4 DEF Inside, TableLock
  <2> QED BY <1>2, <2>1, SMT DEF LocksGuard
<1> QED BY <1>3, <1>4

(* The handler unlocks the table and leaves the stretch that needs it: the *)
(* lock passes to the first handler in the queue.                          *)
LEMMA GuardPasses ==
    ASSUME TypeOK, OnePlace, LocksGuard, NEW g \in TableGuards, Release(g),
           \A t \in Thread \ {currentThread} : call'[t] = call[t],
           call'[currentThread].pc \notin {"check", "unlock"}
    PROVE  LocksGuard'
<1>1. TableGuards \subseteq Lock /\ TableGuards' = TableGuards /\ g \in Lock
  BY TableLockType DEF TableGuards
<1>2. /\ owner' = [owner EXCEPT ![g] = First(waitingThreads[g])]
      /\ waitingThreads' = [waitingThreads EXCEPT ![g] = Rest(@)]
      /\ owner[g] = currentThread /\ InCaller
  BY DEF Release, PassOn
<1>3. /\ owner \in [Lock -> Thread \cup StaleOwner \cup {NULL}]
      /\ waitingThreads \in [Lock -> Seq(Thread)]
      /\ currentThread \in Thread
  BY DEF TypeOK, SchedTypeOK, SynchTypeOK
<1> DEFINE q == waitingThreads[g]
<1>4. /\ owner'[g] = First(q) /\ waitingThreads'[g] = Rest(q)
      /\ \A x \in TableGuards \ {g} : owner'[x] = owner[x] /\ waitingThreads'[x] = waitingThreads[x]
  BY <1>1, <1>2, <1>3
<1>5. /\ Range(Rest(q)) = Range(q) \ {First(q)}
      /\ First(q) \in Thread => First(q) \in Range(q)
  <2>1. q \in Seq(Thread) /\ Lists(q, Range(q))
    BY <1>1, <1>3 DEF OnePlace, LockQueuesOK, Lists
  <2>2. Range(Rest(q)) = Range(q) \ {First(q)}
    BY <2>1, ListsRest DEF Lists
  <2>3. q # <<>> => Head(q) \in Range(q)
    BY <2>1, ListsTail
  <2>4. First(q) \in Thread => First(q) \in Range(q)
    BY <2>3, SchedulerAssumption DEF First, SchedulerAssumption
  <2> QED
    BY <2>2, <2>4
<1>6. Inside(currentThread, g)
  BY <1>2, <1>3 DEF LocksGuard
<1> HIDE DEF q
<1> SUFFICES ASSUME NEW t \in Thread, NEW l \in TableGuards
             PROVE  /\ owner'[l] = t => Inside(t, l)'
                    /\ Inside(t, l)' /\ t \notin Range(waitingThreads'[l]) => owner'[l] = t
                    /\ t \in Range(waitingThreads'[l]) => Inside(t, l)' /\ call'[t].pc = "check"
  BY <1>1 DEF LocksGuard
<1>7. CASE t = currentThread
  <2>1. ~Inside(t, l)'
    BY <1>7 DEF Inside
  <2>2. t \notin Range(waitingThreads[l]) /\ t \notin Range(q)
    BY <1>1, <1>2, <1>7, QueuedThreads DEF q
  <2>3. CASE l = g
    BY <1>4, <1>5, <2>1, <2>2, <2>3
  <2>4. CASE l # g
    <3>1. owner[l] # t
      BY <1>6, <1>7, <2>4 DEF LocksGuard, Inside
    <3> QED BY <1>4, <2>1, <2>2, <2>4, <3>1
  <2> QED BY <2>3, <2>4
<1>8. CASE t # currentThread
  <2>1. call'[t] = call[t] /\ (Inside(t, l)' <=> Inside(t, l))
    BY <1>8 DEF Inside, TableLock
  <2>2. /\ owner[l] = t => Inside(t, l)
        /\ Inside(t, l) /\ t \notin Range(waitingThreads[l]) => owner[l] = t
        /\ t \in Range(waitingThreads[l]) => Inside(t, l) /\ call[t].pc = "check"
    BY DEF LocksGuard
  <2>3. CASE l = g
    BY <1>2, <1>4, <1>5, <1>8, <2>1, <2>2, <2>3 DEF q
  <2>4. CASE l # g
    BY <1>4, <2>1, <2>2, <2>4
  <2> QED BY <2>3, <2>4
<1> QED BY <1>7, <1>8

(* A handler starts: it gets its table's lock or queues up for it.         *)
LEMMA GuardEntered ==
    ASSUME TypeOK, OnePlace, LockConsistent, LocksGuard, NEW g \in TableGuards, Acquire(g),
           call[currentThread] = User,
           \A t \in Thread \ {currentThread} : call'[t] = call[t],
           call'[currentThread].pc = "check", TableLock(call'[currentThread].op) = g
    PROVE  LocksGuard'
<1>1. TableGuards \subseteq Lock /\ TableGuards' = TableGuards /\ g \in Lock
  BY TableLockType DEF TableGuards
<1>2. /\ owner \in [Lock -> Thread \cup StaleOwner \cup {NULL}]
      /\ waitingThreads \in [Lock -> Seq(Thread)]
      /\ currentThread \in Thread /\ InCaller
  BY DEF TypeOK, SchedTypeOK, SynchTypeOK, Acquire
<1>3. \A x \in TableGuards : ~Inside(currentThread, x)
  BY SMT DEF Inside, User, Call
<1>4. \A x \in TableGuards : owner[x] # currentThread /\ currentThread \notin Range(waitingThreads[x])
  BY <1>2, <1>3 DEF LocksGuard
<1>5. /\ \A x \in TableGuards \ {g} : owner'[x] = owner[x] /\ waitingThreads'[x] = waitingThreads[x]
      /\ \/ /\ owner'[g] = currentThread /\ owner[g] \notin Thread
            /\ waitingThreads'[g] = waitingThreads[g] /\ waitingThreads[g] = <<>>
         \/ /\ owner'[g] = owner[g] /\ owner[g] \in Thread
            /\ waitingThreads'[g] = Append(waitingThreads[g], currentThread)
  <2>1. CASE CanTake(g)
    <3>1. available[g] /\ owner' = [owner EXCEPT ![g] = currentThread] /\ UNCHANGED waitingThreads
      BY <1>4, <2>1 DEF CanTake, Acquire, TakeNow
    <3> QED BY <1>1, <1>2, <3>1 DEF LockConsistent
  <2>2. CASE ~CanTake(g)
    <3>1. /\ ~available[g] /\ UNCHANGED owner
          /\ waitingThreads' = [waitingThreads EXCEPT ![g] = Append(@, currentThread)]
      BY <2>2 DEF CanTake, Acquire
    <3> QED BY <1>1, <1>2, <3>1 DEF LockConsistent
  <2> QED BY <2>1, <2>2
<1>6. Range(Append(waitingThreads[g], currentThread)) = Range(waitingThreads[g]) \cup {currentThread}
  <2>1. waitingThreads[g] \in Seq(Thread) /\ Lists(waitingThreads[g], Range(waitingThreads[g]))
    BY <1>1, <1>2 DEF OnePlace, LockQueuesOK, Lists
  <2> QED
    BY <1>2, <1>4, <2>1, ListsAppend, SMT DEF Lists
<1> SUFFICES ASSUME NEW t \in Thread, NEW l \in TableGuards
             PROVE  /\ owner'[l] = t => Inside(t, l)'
                    /\ Inside(t, l)' /\ t \notin Range(waitingThreads'[l]) => owner'[l] = t
                    /\ t \in Range(waitingThreads'[l]) => Inside(t, l)' /\ call'[t].pc = "check"
  BY <1>1 DEF LocksGuard
<1>7. CASE t = currentThread
  <2>1. (Inside(t, l)' <=> l = g) /\ call'[t].pc = "check"
    BY <1>7 DEF Inside, TableLock
  <2>2. CASE l = g
    BY <1>5, <1>6, <1>7, <2>1, <2>2
  <2>3. CASE l # g
    BY <1>4, <1>5, <1>7, <2>1, <2>3
  <2> QED BY <2>2, <2>3
<1>8. CASE t # currentThread
  <2>1. call'[t] = call[t] /\ (Inside(t, l)' <=> Inside(t, l))
    BY <1>8 DEF Inside, TableLock
  <2>2. /\ owner[l] = t => Inside(t, l)
        /\ Inside(t, l) /\ t \notin Range(waitingThreads[l]) => owner[l] = t
        /\ t \in Range(waitingThreads[l]) => Inside(t, l) /\ call[t].pc = "check"
    BY DEF LocksGuard
  <2>3. CASE l = g
    BY <1>5, <1>6, <1>8, <2>1, <2>2, <2>3, SMT DEF Range
  <2>4. CASE l # g
    BY <1>5, <2>1, <2>2, <2>4
  <2> QED BY <2>3, <2>4
<1> QED BY <1>7, <1>8
----------------------------------------------------------------------------
(* A routine called on a user's lock leaves the table locks alone.         *)
LEMMA UserLocks ==
    ASSUME TypeOK, NEW l \in Lock \ TableGuards,
           Acquire(l) \/ ReleaseLock(l) \/ \E c \in CV : WaitCV(c, l)
    PROVE  GuardsKept
<1>1. TableGuards \subseteq Lock
  BY TableLockType
<1>2. owner \in [Lock -> Thread \cup StaleOwner \cup {NULL}] /\ waitingThreads \in [Lock -> Seq(Thread)]
  BY DEF TypeOK, SynchTypeOK
<1>3. /\ \E x : owner' = owner \/ owner' = [owner EXCEPT ![l] = x]
      /\ \E x : waitingThreads' = waitingThreads \/ waitingThreads' = [waitingThreads EXCEPT ![l] = x]
  <2>1. CASE Acquire(l)
    BY <2>1 DEF Acquire, TakeNow
  <2>2. CASE PassOn(l)
    BY <2>2 DEF PassOn
  <2>3. CASE UNCHANGED lockVars
    BY <2>3 DEF lockVars
  <2>4. ReleaseLock(l) => PassOn(l) \/ UNCHANGED lockVars
    BY DEF ReleaseLock, Release, vars, synchVars
  <2>5. ASSUME NEW c \in CV, WaitCV(c, l) PROVE PassOn(l) \/ UNCHANGED lockVars
    BY <2>5 DEF WaitCV, Wait, vars, synchVars
  <2> QED BY <2>1, <2>2, <2>3, <2>4, <2>5
<1> QED
  BY <1>1, <1>2, <1>3 DEF GuardsKept

(* Only Condition::Wait makes a frame of that name.                        *)
LEMMA WaitFrames ==
    ASSUME TypeOK, NoGuardWait,
           \/ \E l \in Lock : Acquire(l) \/ ReleaseLock(l)
           \/ \E c \in CV, l \in Lock : SignalCV(c, l) \/ Broadcast(c, l)
           \/ \E c \in CV, l \in Lock \ TableGuards : WaitCV(c, l)
           \/ Kernel
    PROVE  NoGuardWait'
<1>1. frame \in [Thread -> FrameType] /\ currentThread \in Thread /\ readyList \in Seq(Thread)
  BY DEF TypeOK, SchedTypeOK
<1>0. TableGuards' = TableGuards
  BY DEF TableGuards
<1>a. ASSUME NEW t \in Thread, NEW f, frame' = [frame EXCEPT ![t] = f],
             f.op # "Wait" \/ f.obj \notin TableGuards
      PROVE  NoGuardWait'
  BY <1>0, <1>1, <1>a DEF NoGuardWait
<1>b. ASSUME frame' = frame PROVE NoGuardWait'
  BY <1>0, <1>b DEF NoGuardWait
<1>2. ASSUME NEW l \in Lock, Acquire(l) PROVE NoGuardWait'
  <2>1. frame' = frame \/ frame' = [frame EXCEPT ![currentThread] = Frame("Acquire", l, NULL)]
    BY <1>2 DEF Acquire, SleepIn
  <2>2. Frame("Acquire", l, NULL).op # "Wait"
    BY DEF Frame
  <2> QED BY <1>1, <1>a, <1>b, <2>1, <2>2
<1>3. ASSUME NEW l \in Lock, ReleaseLock(l) PROVE NoGuardWait'
  <2>1. frame' = frame
    BY <1>3 DEF ReleaseLock, Release, vars, schedVars
  <2> QED BY <1>b, <2>1
<1>4. ASSUME NEW c \in CV, NEW l \in Lock, SignalCV(c, l) PROVE NoGuardWait'
  <2>1. frame' = frame
    BY <1>4 DEF SignalCV, Signal, vars, schedVars
  <2> QED BY <1>b, <2>1
<1>5. ASSUME NEW c \in CV, NEW l \in Lock, Broadcast(c, l) PROVE NoGuardWait'
  <2>1. frame' = [frame EXCEPT ![currentThread] = Frame("Broadcast", l, c)]
    BY <1>5 DEF Broadcast
  <2>2. Frame("Broadcast", l, c).op # "Wait"
    BY DEF Frame
  <2> QED BY <1>1, <1>a, <2>1, <2>2
<1>6. ASSUME NEW c \in CV, NEW l \in Lock \ TableGuards, WaitCV(c, l) PROVE NoGuardWait'
  <2>1. frame' = frame \/ frame' = [frame EXCEPT ![currentThread] = Frame("Wait", l, c)]
    BY <1>6 DEF WaitCV, Wait, SleepIn, vars, schedVars
  <2>2. Frame("Wait", l, c).obj \notin TableGuards
    BY DEF Frame
  <2> QED BY <1>1, <1>a, <1>b, <2>1, <2>2
<1>7. \A op \in {"run", "ThreadRoot", "Finish"} : Plain(op).op # "Wait"
  BY DEF Plain, Frame
<1>8. ASSUME SchedNext PROVE NoGuardWait'
  <2>1. ASSUME NEW next \in Thread, NEW st, Run(next, st) PROVE NoGuardWait'
    <3>1. frame' = frame \/ frame' = [frame EXCEPT ![next] = Plain("run")]
      BY <2>1 DEF Run
    <3> QED BY <1>7, <1>a, <1>b, <3>1
  <2>2. ASSUME SwitchAway \/ Dispatch PROVE NoGuardWait'
    <3>1. Head(readyList) \in Thread
      BY <1>1, <2>2, SMT DEF SwitchAway, Dispatch
    <3> QED BY <2>1, <2>2, <3>1 DEF SwitchAway, Dispatch
  <2>3. ASSUME NEW t \in Thread, NewThread(t) \/ Fork(t) PROVE NoGuardWait'
    <3>1. frame' = frame \/ frame' = [frame EXCEPT ![t] = Plain("ThreadRoot")]
      BY <2>3 DEF NewThread, Fork
    <3> QED BY <1>7, <1>a, <1>b, <3>1
  <2>4. ASSUME Finish PROVE NoGuardWait'
    <3>1. frame' = [frame EXCEPT ![currentThread] = Plain("Finish")]
      BY <2>4 DEF Finish, SleepIn
    <3> QED BY <1>1, <1>7, <1>a, <3>1
  <2>5. ASSUME UserInstruction PROVE NoGuardWait'
    BY <1>b, <2>5 DEF UserInstruction
  <2> QED
    BY <1>8, <2>2, <2>3, <2>4, <2>5 DEF SchedNext, Yield, TimeSlice
<1>9. ASSUME Resume PROVE NoGuardWait'
  <2>1. \/ frame' = frame \/ frame' = [frame EXCEPT ![currentThread] = Plain("run")]
        \/ \E l : frame' = [frame EXCEPT ![currentThread] = Frame("Acquire", l, NULL)]
    BY <1>9 DEF Resume, AcquireWoken, WaitWoken, ReturnToCaller, BroadcastSignal, BroadcastDone,
                BroadcastSpin, vars, schedVars
  <2>2. \A l : Frame("Acquire", l, NULL).op # "Wait"
    BY DEF Frame
  <2> QED BY <1>1, <1>7, <1>a, <1>b, <2>1, <2>2
<1>10. ASSUME IdleHalt PROVE NoGuardWait'
  BY <1>b, <1>10 DEF IdleHalt
<1>11. ASSUME Kernel PROVE NoGuardWait'
  BY <1>8, <1>9, <1>10, <1>11 DEF Kernel, UserStep, Switch, SchedStep
<1> QED
  BY <1>2, <1>3, <1>4, <1>5, <1>6, <1>11
----------------------------------------------------------------------------
(* The stretches of the handlers, by what they do with the table's lock:   *)
(* the last one inside it, the one that unlocks and goes on, the one that  *)
(* calls a routine inside it, and the ones outside, one of which changes   *)
(* the table.                                                              *)
Pc == call[currentThread].pc

Op == call[currentThread].op

Leaves ==
    /\ Pc \in {"check", "unlock"} /\ Release(TableLock(Op)) /\ Return
    /\ TableLock(Op) = LockTableLock => UNCHANGED CVTable
    /\ TableLock(Op) = CVTableLock => UNCHANGED LockTable

Unlocks ==
    /\ Release(TableLock(Op)) /\ UNCHANGED <<LockTable, CVTable>>
    /\ \/ Pc = "check" /\ Goto("error")
       \/ Pc = "check" /\ Goto("wait") /\ ArgsOK
       \/ Pc = "unlock" /\ Goto("delete") /\ Op = "Release"

Uses ==
    /\ Pc = "check" /\ Goto("unlock") /\ GuardsKept /\ UNCHANGED <<LockTable, CVTable>>
    /\ Op \in {"Acquire", "Release"} => LockAt(Arg) # NULL
    /\ Op \in {"Signal", "Broadcast"} => CVAt(Arg) # NULL

Outside ==
    /\ Pc \in {"error", "wait", "woken"} /\ GuardsKept /\ UNCHANGED <<LockTable, CVTable>>
    /\ Return \/ Goto("woken")

Deletes == Pc = "delete" /\ GuardsKept /\ Return /\ UNCHANGED CVTable

LEMMA HandlerKinds ==
    ASSUME TypeOK, OnePlace, TypeOK_Syscalls, Guarded, Handler
    PROVE  InCaller /\ NoGuardWait' /\ (Leaves \/ Unlocks \/ Uses \/ Outside \/ Deletes)
<1>0. currentThread \in Thread
  BY DEF TypeOK, SchedTypeOK
<1>1. Arg \in Int /\ Arg2 \in Int
  BY <1>0, CallInt DEF Arg, Arg2
<1>2. /\ LockAt(Arg) # NULL => LockAt(Arg) \in Lock \ TableGuards
      /\ LockAt(Arg2) # NULL => LockAt(Arg2) \in Lock \ TableGuards
      /\ CVAt(Arg) # NULL => CVAt(Arg) \in CV
  BY <1>1, EntryType
<1>3. NoGuardWait /\ LocksGuard /\ CheckedIsLive
  BY DEF Guarded
<1>g. LockTableLock \in TableGuards /\ CVTableLock \in TableGuards /\ TableGuards \subseteq Lock
  BY TableLockType DEF TableGuards
<1>n. LockTableLock # CVTableLock
  OBVIOUS
<1>u. ASSUME UNCHANGED vars PROVE GuardsKept /\ NoGuardWait'
  BY <1>3, <1>u DEF vars, schedVars, synchVars, lockVars, GuardsKept, NoGuardWait, TableGuards
<1>4. ASSUME NEW op, NEW pc \in {"check", "unlock"}, At(op, pc), Leave(op),
             TableLock(op) = LockTableLock => UNCHANGED CVTable,
             TableLock(op) = CVTableLock => UNCHANGED LockTable
      PROVE  Leaves /\ NoGuardWait'
  <2>1. Release(TableLock(op)) /\ ReleaseLock(TableLock(op)) /\ Return
    BY <1>3, <1>4, OwnsGuard DEF Leave
  <2>2. NoGuardWait'
    BY <1>3, <2>1, TableLockType, WaitFrames
  <2>3. Pc = pc /\ Op = op
    BY <1>4 DEF At, Pc, Op
  <2> QED BY <1>4, <2>1, <2>2, <2>3 DEF Leaves
<1>5. ASSUME NEW op \in {"Wait", "Signal", "Broadcast"}, At(op, "check"), ReleaseLock(CVTableLock),
             UNCHANGED tableVars, Goto("error") \/ (Goto("wait") /\ ArgsOK)
      PROVE  Unlocks /\ NoGuardWait'
  <2>1. TableLock(op) = CVTableLock
    BY DEF TableLock
  <2>2. Release(CVTableLock)
    BY <1>3, <1>5, <2>1, OwnsGuard
  <2>3. NoGuardWait'
    BY <1>3, <1>5, <1>g, WaitFrames
  <2> QED BY <1>5, <2>1, <2>2, <2>3 DEF Unlocks, At, Pc, Op, tableVars
<1>6. ASSUME NEW pc \in {"error", "woken"}, At("Wait", pc) \/ At("Signal", pc) \/ At("Broadcast", pc),
             ReleaseArg(Arg2)
      PROVE  Outside /\ NoGuardWait'
  <2>1. Return /\ UNCHANGED <<LockTable, CVTable>> /\ Pc = pc
    BY <1>6 DEF ReleaseArg, At, Pc
  <2>2. CASE LockAt(Arg2) # NULL
    <3>1. ReleaseLock(LockAt(Arg2)) /\ LockAt(Arg2) \in Lock \ TableGuards
      BY <1>2, <1>6, <2>2 DEF ReleaseArg
    <3>2. GuardsKept /\ NoGuardWait'
      BY <1>3, <3>1, UserLocks, WaitFrames
    <3> QED BY <1>6, <2>1, <3>2 DEF Outside
  <2>3. CASE LockAt(Arg2) = NULL
    <3>1. UNCHANGED vars
      BY <1>6, <2>3 DEF ReleaseArg
    <3> QED BY <1>6, <1>u, <2>1, <3>1 DEF Outside
  <2> QED BY <2>2, <2>3
<1>7. ASSUME NEW op \in {"Wait", "Signal", "Broadcast"}, BadArgs(op)
      PROVE  InCaller /\ NoGuardWait' /\ (Unlocks \/ Outside)
  <2>1. InCaller
    BY <1>7 DEF BadArgs, At
  <2> QED
    BY <1>5, <1>6, <1>7, <2>1 DEF BadArgs
<1>8. CASE Acquire_Syscall
  <2>1. CASE At("Acquire", "check") /\ LockAt(Arg) # NULL /\ Acquire(LockAt(Arg)) /\ Goto("unlock")
             /\ UNCHANGED <<LockTable, CVTable>>
    <3>1. GuardsKept /\ NoGuardWait'
      BY <1>2, <1>3, <2>1, UserLocks, WaitFrames
    <3>2. Pc = "check" /\ Op = "Acquire" /\ InCaller
      BY <2>1 DEF At, Pc, Op
    <3> QED BY <2>1, <3>1, <3>2 DEF Uses
  <2>2. CASE \E pc \in {"check", "unlock"} : At("Acquire", pc) /\ Leave("Acquire")
             /\ UNCHANGED <<LockTable, CVTable>>
    BY <1>4, <2>2 DEF At
  <2> QED BY <1>8, <2>1, <2>2 DEF Acquire_Syscall
<1>9. CASE Release_Syscall
  <2>1. CASE At("Release", "check") /\ LockAt(Arg) # NULL /\ ReleaseLock(LockAt(Arg)) /\ Goto("unlock")
             /\ UNCHANGED <<LockTable, CVTable>>
    <3>1. GuardsKept /\ NoGuardWait'
      BY <1>2, <1>3, <2>1, UserLocks, WaitFrames
    <3>2. Pc = "check" /\ Op = "Release" /\ InCaller
      BY <2>1 DEF At, Pc, Op
    <3> QED BY <2>1, <3>1, <3>2 DEF Uses
  <2>2. CASE At("Release", "check") /\ Leave("Release") /\ UNCHANGED <<LockTable, CVTable>>
    BY <1>4, <2>2 DEF At
  <2>3. CASE At("Release", "unlock") /\ ReleaseLock(LockTableLock) /\ Goto("delete")
             /\ UNCHANGED tableVars
    <3>1. TableLock("Release") = LockTableLock
      BY DEF TableLock
    <3>2. Release(LockTableLock) /\ NoGuardWait'
      BY <1>3, <1>g, <2>3, <3>1, OwnsGuard, WaitFrames
    <3> QED BY <2>3, <3>1, <3>2 DEF Unlocks, At, Pc, Op, tableVars
  <2>4. CASE At("Release", "delete") /\ Return /\ UNCHANGED <<vars, CVTable>>
    BY <1>u, <2>4 DEF Deletes, At, Pc
  <2> QED BY <1>9, <2>1, <2>2, <2>3, <2>4 DEF Release_Syscall
<1>10. CASE Wait_Syscall
  <2>1. CASE At("Wait", "check") /\ ArgsOK /\ ReleaseLock(CVTableLock) /\ Goto("wait") /\ UNCHANGED tableVars
    BY <1>5, <2>1 DEF At
  <2>2. CASE At("Wait", "wait") /\ WaitCV(CVAt(Arg), LockAt(Arg2)) /\ Goto("woken") /\ UNCHANGED tableVars
    <3>1. CVAt(Arg) # NULL /\ LockAt(Arg2) # NULL
      BY <1>0, <1>3, <2>2 DEF At, CheckedIsLive, Arg, Arg2
    <3>2. GuardsKept /\ NoGuardWait'
      BY <1>2, <1>3, <2>2, <3>1, UserLocks, WaitFrames
    <3> QED BY <2>2, <3>2 DEF Outside, At, Pc, tableVars
  <2>3. CASE At("Wait", "woken") /\ ReleaseArg(Arg2)
    BY <1>6, <2>3 DEF At
  <2> QED BY <1>7, <1>10, <2>1, <2>2, <2>3 DEF Wait_Syscall
<1>11. CASE Signal_Syscall
  <2>0. TableLock("Signal") = CVTableLock
    BY DEF TableLock
  <2>1. CASE At("Signal", "check") /\ ArgsOK /\ SignalCV(CVAt(Arg), LockAt(Arg2)) /\ Goto("unlock")
             /\ UNCHANGED tableVars
    <3>1. NoGuardWait'
      BY <1>2, <1>3, <2>1, WaitFrames DEF ArgsOK
    <3>2. GuardsKept
      BY <2>1 DEF SignalCV, Signal, GuardsKept, vars, synchVars, lockVars
    <3>3. Pc = "check" /\ Op = "Signal" /\ InCaller
      BY <2>1 DEF At, Pc, Op
    <3> QED BY <2>1, <3>1, <3>2, <3>3 DEF Uses, ArgsOK, tableVars
  <2>2. CASE At("Signal", "unlock") /\ Leave("Signal") /\ UNCHANGED LockTable
    BY <1>4, <1>n, <2>0, <2>2 DEF At
  <2> QED BY <1>7, <1>11, <2>1, <2>2 DEF Signal_Syscall
<1>12. CASE Broadcast_Syscall
  <2>1. CASE At("Broadcast", "check") /\ ArgsOK /\ Broadcast(CVAt(Arg), LockAt(Arg2)) /\ Goto("unlock")
             /\ UNCHANGED tableVars
    <3>1. NoGuardWait'
      BY <1>2, <1>3, <2>1, WaitFrames DEF ArgsOK
    <3>2. GuardsKept
      BY <2>1 DEF Broadcast, GuardsKept, synchVars, lockVars
    <3>3. Pc = "check" /\ Op = "Broadcast" /\ InCaller
      BY <2>1 DEF At, Pc, Op
    <3> QED BY <2>1, <3>1, <3>2, <3>3 DEF Uses, ArgsOK, tableVars
  <2>2. CASE At("Broadcast", "unlock") /\ Leave("Broadcast") /\ UNCHANGED <<LockTable, CVTable>>
    BY <1>4, <2>2 DEF At
  <2> QED BY <1>7, <1>12, <2>1, <2>2 DEF Broadcast_Syscall
<1>13. CASE CreateLock_Syscall \/ DestroyLock_Syscall
  <2>1. PICK op \in {"CreateLock", "DestroyLock"} : At(op, "check") /\ Leave(op) /\ UNCHANGED CVTable
    BY <1>13 DEF CreateLock_Syscall, DestroyLock_Syscall
  <2>2. TableLock(op) # CVTableLock
    BY <1>n DEF TableLock
  <2> QED BY <1>4, <2>1, <2>2 DEF At
<1>14. CASE CreateCV_Syscall \/ DestroyCV_Syscall
  <2>1. PICK op \in {"CreateCV", "DestroyCV"} : At(op, "check") /\ Leave(op) /\ UNCHANGED LockTable
    BY <1>14 DEF CreateCV_Syscall, DestroyCV_Syscall
  <2>2. TableLock(op) # LockTableLock
    BY <1>n DEF TableLock
  <2> QED BY <1>4, <2>1, <2>2 DEF At
<1> QED
  BY <1>8, <1>9, <1>10, <1>11, <1>12, <1>13, <1>14 DEF Handler

(* The kernel's own steps do not touch the table locks, and there are none *)
(* while a thread is poised.                                               *)
LEMMA KernelKinds ==
    ASSUME TypeOK, TypeOK_Syscalls, Guarded, Kernel
    PROVE  GuardsKept /\ NoGuardWait' /\ \A t \in Thread : call[t].pc \notin {"wait", "delete"}
<1>0. currentThread \in Thread /\ NoGuardWait
  BY DEF TypeOK, SchedTypeOK, Guarded
<1>1. NoGuardWait'
  BY <1>0, WaitFrames
<1>2. GuardsKept
  <2>1. CASE UNCHANGED lockVars
    BY <2>1 DEF lockVars, GuardsKept
  <2>2. CASE WaitWoken
    <3> DEFINE l == frame[currentThread].obj
    <3>1. l \notin TableGuards
      BY <1>0, <2>2 DEF WaitWoken, NoGuardWait
    <3>2. /\ owner' = owner \/ owner' = [owner EXCEPT ![l] = currentThread]
          /\ \/ waitingThreads' = waitingThreads
             \/ waitingThreads' = [waitingThreads EXCEPT ![l] = Append(@, currentThread)]
      BY <2>2 DEF WaitWoken, TakeNow
    <3>3. /\ owner \in [Lock -> Thread \cup StaleOwner \cup {NULL}]
          /\ waitingThreads \in [Lock -> Seq(Thread)] /\ TableGuards \subseteq Lock
      BY TableLockType DEF TypeOK, SynchTypeOK
    <3> HIDE DEF l
    <3> QED BY <3>1, <3>2, <3>3 DEF GuardsKept
  <2>3. Kernel => UNCHANGED lockVars \/ WaitWoken
    BY DEF Kernel, UserStep, Switch, Resume, SchedStep, AcquireWoken, BroadcastSignal, BroadcastDone,
           BroadcastSpin, IdleHalt, vars, synchVars
  <2> QED BY <2>1, <2>2, <2>3
<1>3. ASSUME call[currentThread].pc \in {"wait", "delete"} PROVE FALSE
  <2>1. InCaller /\ level = "IntOff"
    BY <1>0, <1>3 DEF Guarded, Poised
  <2>2. call[currentThread] # User
    BY <1>3, SMT DEF User, Call
  <2>3. ~UserStep /\ ~Switch
    BY <2>1, <2>2 DEF UserStep, InUser, Switch, TimeSlice, Ticking, Dispatch, Asleep, InCaller, CpuBusy
  <2>4. ~Resume /\ ~IdleHalt
    BY <2>1 DEF Resume, AcquireWoken, WaitWoken, BroadcastSignal, BroadcastDone, BroadcastSpin,
                InBroadcast, IdleHalt, Asleep, InCaller, CpuBusy
  <2> QED BY <2>3, <2>4 DEF Kernel
<1> QED
  BY <1>1, <1>2, <1>3 DEF Guarded, Poised

(* What CheckedIsLive says of one thread.                                  *)
Live(t) ==
    LET c == call[t]
    IN  /\ c.pc = "unlock" /\ c.op \in {"Acquire", "Release"} => LockAt(c.n) # NULL
        /\ c.pc = "unlock" /\ c.op \in {"Signal", "Broadcast"} => CVAt(c.n) # NULL
        /\ c.pc = "delete" => LockAt(c.n) # NULL
        /\ c.pc = "wait" => CVAt(c.n) # NULL /\ LockAt(c.m) # NULL

\* A step that leaves the calls and both table locks alone leaves the guard as it was.
LEMMA UntouchedGuard ==
    ASSUME LocksGuard, GuardsKept, UNCHANGED call
    PROVE  LocksGuard'
<1> SUFFICES ASSUME NEW t \in Thread, NEW l \in TableGuards
             PROVE  /\ owner'[l] = t => Inside(t, l)'
                    /\ Inside(t, l)' /\ t \notin Range(waitingThreads'[l]) => owner'[l] = t
                    /\ t \in Range(waitingThreads'[l]) => Inside(t, l)' /\ call'[t].pc = "check"
  BY DEF LocksGuard
<1>1. Inside(t, l)' <=> Inside(t, l)
  BY DEF Inside, TableLock
<1>2. owner'[l] = owner[l] /\ waitingThreads'[l] = waitingThreads[l] /\ call'[t] = call[t]
  BY DEF GuardsKept
<1>3. /\ owner[l] = t => Inside(t, l)
      /\ Inside(t, l) /\ t \notin Range(waitingThreads[l]) => owner[l] = t
      /\ t \in Range(waitingThreads[l]) => Inside(t, l) /\ call[t].pc = "check"
  BY DEF LocksGuard
<1> QED BY <1>1, <1>2, <1>3

LEMMA LiveStays ==
    ASSUME Guarded, UNCHANGED <<LockTable, CVTable>>, NEW t \in Thread, call'[t] = call[t]
    PROVE  Live(t)'
<1>1. Live(t)
  BY DEF Guarded, CheckedIsLive, Live
<1>2. \A n : LockAt(n)' = LockAt(n) /\ CVAt(n)' = CVAt(n)
  BY DEF LockAt, CVAt
<1> QED
  BY <1>1, <1>2 DEF Live

(* A handler's stretch, after which the thread is not poised.              *)
LEMMA NotPoised ==
    ASSUME Guarded, \A t \in Thread \ {currentThread} : call'[t] = call[t],
           call'[currentThread].pc \notin {"wait", "delete"}
    PROVE  Poised'
<1>1. \A t \in Thread : call'[t].pc \notin {"wait", "delete"}
  BY DEF Guarded, Poised
<1> QED
  BY <1>1 DEF Poised

LEMMA LeavesGuarded ==
    ASSUME TypeOK, OnePlace, TypeOK_Syscalls, Guarded, NoGuardWait', Leaves
    PROVE  Guarded'
<1>0. currentThread \in Thread
  BY DEF TypeOK, SchedTypeOK
<1>1. /\ \A t \in Thread \ {currentThread} : call'[t] = call[t]
      /\ call'[currentThread] = User
  BY <1>0, CallMoves DEF Leaves
<1>2. call'[currentThread].pc = "user"
  BY <1>1, SMT DEF User, Call
<1>3. LocksGuard'
  BY <1>1, <1>2, TableLockType, GuardPasses DEF Leaves, Guarded
<1>4. Poised'
  BY <1>1, <1>2, NotPoised
<1>5. ASSUME NEW t \in Thread PROVE Live(t)'
  <2>1. CASE t = currentThread
    BY <1>2, <2>1 DEF Live
  <2>2. CASE t # currentThread
    <3>1. call'[t] = call[t] /\ call[t].pc \notin {"wait", "delete"}
      BY <1>1, <2>2 DEF Guarded, Poised
    <3>2. owner[TableLock(Op)] # t
      BY <2>2 DEF Leaves, Release
    <3>3. call[t].pc = "unlock" => TableLock(call[t].op) # TableLock(Op)
      BY <3>2, TableLockType DEF Guarded, LocksGuard, Inside
    <3>4. Live(t)
      BY DEF Guarded, CheckedIsLive, Live
    <3>5. \A n : /\ TableLock(Op) = LockTableLock => CVAt(n)' = CVAt(n)
                 /\ TableLock(Op) = CVTableLock => LockAt(n)' = LockAt(n)
      BY DEF Leaves, LockAt, CVAt
    <3>6. /\ call[t].op \in {"Acquire", "Release"} => TableLock(call[t].op) = LockTableLock
          /\ call[t].op \in {"Signal", "Broadcast"} => TableLock(call[t].op) = CVTableLock
          /\ TableLock(Op) \in {LockTableLock, CVTableLock}
      BY DEF TableLock
    <3> QED BY <3>1, <3>3, <3>4, <3>5, <3>6 DEF Live
  <2> QED BY <2>1, <2>2
<1>6. CheckedIsLive'
  BY <1>5 DEF CheckedIsLive, Live
<1> QED
  BY <1>3, <1>4, <1>6 DEF Guarded

LEMMA UnlocksGuarded ==
    ASSUME TypeOK, OnePlace, TypeOK_Syscalls, Guarded, NoGuardWait', InCaller, Unlocks
    PROVE  Guarded'
<1> DEFINE g == TableLock(Op)
<1>0. currentThread \in Thread /\ g \in TableGuards /\ g \in Lock
  BY TableLockType DEF TypeOK, SchedTypeOK
<1>1. /\ \A t \in Thread \ {currentThread} : call'[t] = call[t]
      /\ call'[currentThread].op = Op
      /\ call'[currentThread].n = call[currentThread].n
      /\ call'[currentThread].m = call[currentThread].m
      /\ \/ call'[currentThread].pc = "error"
         \/ call'[currentThread].pc = "wait" /\ ArgsOK
         \/ call'[currentThread].pc = "delete" /\ Pc = "unlock" /\ Op = "Release"
  BY <1>0, CallMoves DEF Unlocks, Op
<1>2. LocksGuard'
  BY <1>0, <1>1, GuardPasses DEF Unlocks, Guarded
<1>3. Poised'
  <2>1. /\ status' = Woken(waitingThreads[g], status) /\ level' = "IntOff"
        /\ UNCHANGED <<currentThread, halted, frame>> /\ owner[g] = currentThread
    BY DEF Unlocks, Release, cpuVars
  <2>2. status'[currentThread] = status[currentThread]
    <3>1. currentThread \notin Range(waitingThreads[g])
      BY <1>0, QueuedThreads
    <3>2. waitingThreads[g] # <<>> => Head(waitingThreads[g]) \in Range(waitingThreads[g])
      BY <1>0, ListsTail DEF TypeOK, SynchTypeOK, OnePlace, LockQueuesOK, Lists
    <3>3. status \in [Thread -> ThreadStatus \cup {"FREE"}]
      BY DEF TypeOK, SchedTypeOK
    <3> HIDE DEF g
    <3> QED BY <1>0, <2>1, <3>1, <3>2, <3>3 DEF Woken
  <2>3. InCaller'
    BY <2>1, <2>2 DEF InCaller, CpuBusy
  <2>4. \A t \in Thread \ {currentThread} : call'[t].pc \notin {"wait", "delete"}
    BY <1>1 DEF Guarded, Poised
  <2>5. ASSUME call'[currentThread].pc = "delete", NEW u \in Thread, call'[u].pc = "unlock"
        PROVE  call'[u].op \notin {"Acquire", "Release"}
    <3>1. u # currentThread /\ call'[u] = call[u] /\ g = LockTableLock
      BY <1>1, <2>5 DEF TableLock
    <3>2. u \notin Range(waitingThreads[g]) /\ owner[g] # u
      BY <1>0, <2>1, <2>5, <3>1 DEF Guarded, LocksGuard
    <3>3. ~Inside(u, g)
      BY <1>0, <3>2 DEF Guarded, LocksGuard
    <3> QED BY <2>5, <3>1, <3>3 DEF Inside, TableLock
  <2> QED BY <2>1, <2>3, <2>4, <2>5 DEF Poised
<1>4. ASSUME NEW t \in Thread PROVE Live(t)'
  <2>1. CASE t = currentThread
    <3>1. \A n : LockAt(n)' = LockAt(n) /\ CVAt(n)' = CVAt(n)
      BY DEF Unlocks, LockAt, CVAt
    <3>2. Pc = "unlock" /\ Op = "Release" => LockAt(Arg) # NULL
      BY <1>0 DEF Guarded, CheckedIsLive, Pc, Op, Arg
    <3> QED BY <1>1, <2>1, <3>1, <3>2 DEF Live, ArgsOK, Arg, Arg2
  <2>2. CASE t # currentThread
    BY <1>1, <2>2, LiveStays DEF Unlocks
  <2> QED BY <2>1, <2>2
<1>5. CheckedIsLive'
  BY <1>4 DEF CheckedIsLive, Live
<1> QED
  BY <1>2, <1>3, <1>5 DEF Guarded

LEMMA UsesGuarded ==
    ASSUME TypeOK, OnePlace, TypeOK_Syscalls, Guarded, NoGuardWait', InCaller, Uses
    PROVE  Guarded'
<1>0. currentThread \in Thread
  BY DEF TypeOK, SchedTypeOK
<1>1. /\ \A t \in Thread \ {currentThread} : call'[t] = call[t]
      /\ call'[currentThread].pc = "unlock"
      /\ call'[currentThread].op = call[currentThread].op
      /\ call'[currentThread].n = call[currentThread].n
  BY <1>0, CallMoves DEF Uses
<1>2. LocksGuard'
  <2>1. \A t \in Thread, l \in TableGuards : t = currentThread => (Inside(t, l)' <=> Inside(t, l))
    BY <1>1 DEF Inside, TableLock, Uses, Pc
  <2> QED BY <1>1, <2>1, GuardStays DEF Uses, Guarded
<1>3. Poised'
  BY <1>1, NotPoised
<1>4. ASSUME NEW t \in Thread PROVE Live(t)'
  <2>1. CASE t = currentThread
    <3>1. \A n : LockAt(n)' = LockAt(n) /\ CVAt(n)' = CVAt(n)
      BY DEF Uses, LockAt, CVAt
    <3> QED BY <1>1, <2>1, <3>1 DEF Live, Uses, Op, Arg
  <2>2. CASE t # currentThread
    BY <1>1, <2>2, LiveStays DEF Uses
  <2> QED BY <2>1, <2>2
<1>5. CheckedIsLive'
  BY <1>4 DEF CheckedIsLive, Live
<1> QED
  BY <1>2, <1>3, <1>5 DEF Guarded

LEMMA OutsideGuarded ==
    ASSUME TypeOK, OnePlace, TypeOK_Syscalls, Guarded, NoGuardWait', InCaller, Outside
    PROVE  Guarded'
<1>0. currentThread \in Thread
  BY DEF TypeOK, SchedTypeOK
<1>1. /\ \A t \in Thread \ {currentThread} : call'[t] = call[t]
      /\ call'[currentThread].pc \in {"user", "woken"}
  BY <1>0, CallMoves, SMT DEF Outside, User, Call
<1>2. LocksGuard'
  <2>1. \A t \in Thread, l \in TableGuards : t = currentThread => (Inside(t, l)' <=> Inside(t, l))
    BY <1>1 DEF Inside, Outside, Pc
  <2> QED BY <1>1, <2>1, GuardStays DEF Outside, Guarded
<1>3. Poised'
  BY <1>1, NotPoised
<1>4. ASSUME NEW t \in Thread PROVE Live(t)'
  <2>1. CASE t = currentThread
    BY <1>1, <2>1 DEF Live
  <2>2. CASE t # currentThread
    BY <1>1, <2>2, LiveStays DEF Outside
  <2> QED BY <2>1, <2>2
<1>5. CheckedIsLive'
  BY <1>4 DEF CheckedIsLive, Live
<1> QED
  BY <1>2, <1>3, <1>5 DEF Guarded

(* The deletion that was put off: no other handler has found the entry.    *)
LEMMA DeletesGuarded ==
    ASSUME TypeOK, OnePlace, TypeOK_Syscalls, Guarded, NoGuardWait', InCaller, Deletes
    PROVE  Guarded'
<1>0. currentThread \in Thread
  BY DEF TypeOK, SchedTypeOK
<1>1. /\ \A t \in Thread \ {currentThread} : call'[t] = call[t]
      /\ call'[currentThread].pc = "user"
  BY <1>0, CallMoves, SMT DEF Deletes, User, Call
<1>2. LocksGuard'
  <2>1. \A t \in Thread, l \in TableGuards : t = currentThread => (Inside(t, l)' <=> Inside(t, l))
    BY <1>1 DEF Inside, Deletes, Pc
  <2> QED BY <1>1, <2>1, GuardStays DEF Deletes, Guarded
<1>3. Poised'
  BY <1>1, NotPoised
<1>4. ASSUME NEW t \in Thread PROVE Live(t)'
  <2>1. CASE t = currentThread
    BY <1>1, <2>1 DEF Live
  <2>2. CASE t # currentThread
    <3>1. /\ call'[t] = call[t] /\ call[t].pc \notin {"wait", "delete"}
          /\ call[t].pc = "unlock" => call[t].op \notin {"Acquire", "Release"}
      BY <1>0, <1>1, <2>2 DEF Guarded, Poised, Deletes, Pc
    <3>2. Live(t)
      BY DEF Guarded, CheckedIsLive, Live
    <3>3. \A n : CVAt(n)' = CVAt(n)
      BY DEF Deletes, CVAt
    <3> QED BY <3>1, <3>2, <3>3 DEF Live
  <2> QED BY <2>1, <2>2
<1>5. CheckedIsLive'
  BY <1>4 DEF CheckedIsLive, Live
<1> QED
  BY <1>2, <1>3, <1>5 DEF Guarded

LEMMA StepGuarded ==
    ASSUME TypeOK, OnePlace, LockConsistent, TypeOK_Syscalls, Guarded, [Next_Syscalls]_allVars
    PROVE  Guarded'
<1>0. currentThread \in Thread /\ NoGuardWait
  BY DEF TypeOK, SchedTypeOK, Guarded
<1>1. CASE EnterAny
  <2>1. /\ \A t \in Thread \ {currentThread} : call'[t] = call[t]
        /\ call'[currentThread].pc = "check"
        /\ call[currentThread] = User
        /\ Acquire(TableLock(call'[currentThread].op))
        /\ UNCHANGED <<LockTable, CVTable>>
    BY <1>0, <1>1, EnterCall DEF InUser, tableVars
  <2>2. TableLock(call'[currentThread].op) \in TableGuards /\ TableGuards \subseteq Lock
    BY TableLockType
  <2>3. LocksGuard'
    BY <2>1, <2>2, GuardEntered DEF Guarded
  <2>4. NoGuardWait'
    BY <1>0, <2>1, <2>2, WaitFrames
  <2>5. Poised'
    BY <2>1, NotPoised
  <2>6. ASSUME NEW t \in Thread PROVE Live(t)'
    <3>1. CASE t = currentThread
      BY <2>1, <3>1 DEF Live
    <3>2. CASE t # currentThread
      BY <2>1, <3>2, LiveStays
    <3> QED BY <3>1, <3>2
  <2>7. CheckedIsLive'
    BY <2>6 DEF CheckedIsLive, Live
  <2> QED
    BY <2>3, <2>4, <2>5, <2>7 DEF Guarded
<1>2. CASE Handler
  BY <1>2, HandlerKinds, LeavesGuarded, UnlocksGuarded, UsesGuarded, OutsideGuarded,
     DeletesGuarded
<1>3. CASE Kernel /\ UNCHANGED <<tableVars, call>>
  <2>1. GuardsKept /\ NoGuardWait' /\ \A t \in Thread : call[t].pc \notin {"wait", "delete"}
    BY <1>3, KernelKinds
  <2>2. UNCHANGED <<LockTable, CVTable, call>>
    BY <1>3 DEF tableVars
  <2>3. LocksGuard'
    BY <2>1, <2>2, UntouchedGuard DEF Guarded
  <2>4. Poised'
    BY <2>1, <2>2 DEF Poised
  <2>5. \A t \in Thread : Live(t)'
    BY <2>2, LiveStays
  <2>6. CheckedIsLive'
    BY <2>5 DEF CheckedIsLive, Live
  <2> QED
    BY <2>1, <2>3, <2>4, <2>6 DEF Guarded
<1>4. CASE UNCHANGED allVars
  <2>1. UNCHANGED <<LockTable, CVTable, call, owner, waitingThreads, frame, currentThread, level,
                    status, halted>>
    BY <1>4 DEF allVars, tableVars, vars, schedVars, synchVars, lockVars
  <2>2. LocksGuard' /\ NoGuardWait' /\ Poised'
    <3>1. LocksGuard'
      BY <2>1, UntouchedGuard DEF Guarded, GuardsKept
    <3>2. NoGuardWait'
      BY <2>1 DEF Guarded, NoGuardWait
    <3>3. Poised'
      BY <2>1 DEF Guarded, Poised, InCaller, CpuBusy
    <3> QED BY <3>1, <3>2, <3>3
  <2>3. \A t \in Thread : Live(t)'
    BY <2>1, LiveStays
  <2>4. CheckedIsLive'
    BY <2>3 DEF CheckedIsLive, Live
  <2> QED
    BY <2>2, <2>4 DEF Guarded
<1> QED
  BY <1>1, <1>2, <1>3, <1>4 DEF Next_Syscalls, Dead
----------------------------------------------------------------------------
(* The tables.                                                             *)
LEMMA SetEntry ==
    ASSUME NEW S, NEW T \in Seq(S), NEW i \in 1 .. Len(T), NEW e \in S
    PROVE  [T EXCEPT ![i] = e] \in Seq(S) /\ Len([T EXCEPT ![i] = e]) = Len(T)
<1>1. [T EXCEPT ![i] = e] \in [1 .. Len(T) -> S]
  BY SMT
<1> QED
  BY <1>1, SMT

(* How many threads are in a Create, when only the running thread moves;   *)
(* CountedAll shows it from the theorems about finite sets.                *)
Counted(op) ==
    /\ Creating(op) \in Nat
    /\ call[currentThread].op = op => Creating(op) >= 1
    /\ (\A t \in Thread \ {currentThread} : call'[t] = call[t]) =>
          Creating(op)' = IF call[currentThread].op = op
                          THEN IF call'[currentThread].op = op THEN Creating(op) ELSE Creating(op) - 1
                          ELSE IF call'[currentThread].op = op THEN Creating(op) + 1 ELSE Creating(op)

Counting == Counted("CreateLock") /\ Counted("CreateCV")

(* A Create that is about to append has room.                              *)
LEMMA CreateFits ==
    ASSUME TypeOK_Syscalls, Bounded, Counting
    PROVE  /\ Op = "CreateLock" => Len(LockTable) \in 0 .. MaxLocks - 1
           /\ Op = "CreateCV" => Len(CVTable) \in 0 .. MaxCVs - 1
<1>1. \A op \in {"CreateLock", "CreateCV"} :
            Creating(op) \in Nat /\ (Op = op => Creating(op) >= 1)
  BY DEF Counting, Counted, Op
<1>2. Len(LockTable) \in Nat /\ Len(CVTable) \in Nat
  BY SMT DEF TypeOK_Syscalls
<1> QED
  BY <1>1, <1>2, SMT DEF Bounded

(* A handler gives the tables entries of their type, and only a Create     *)
(* makes its table longer.                                                 *)
LEMMA LockTableStep ==
    ASSUME TypeOK, TypeOK_Syscalls, Bounded, Counting, Guarded, Handler
    PROVE  /\ LockTable' \in Seq(Entry)
           /\ IF Op = "CreateLock" THEN Return /\ Len(LockTable') = Len(LockTable) + 1
              ELSE Len(LockTable') = Len(LockTable)
<1>0. currentThread \in Thread /\ LockTable \in Seq(Entry) /\ Arg \in Int
  <2>1. currentThread \in Thread
    BY DEF TypeOK, SchedTypeOK
  <2> QED BY <2>1, CallInt DEF TypeOK_Syscalls, Arg
<1>1. ASSUME LockAt(Arg) # NULL PROVE Arg + 1 \in 1 .. Len(LockTable) /\ LockTable[Arg + 1] \in Entry
  BY <1>0, <1>1, SMT DEF LockAt
<1>2. CASE CreateLock_Syscall
  <2>1. /\ Op = "CreateLock" /\ Return
        /\ LockTable' = Append(LockTable, [Kernel_Lock |-> Len(LockTable), IsDeleted |-> FALSE])
    BY <1>2 DEF CreateLock_Syscall, At, Op, Leave
  <2>2. Len(LockTable) \in 0 .. MaxLocks - 1
    BY <1>0, <2>1, CreateFits
  <2>3. [Kernel_Lock |-> Len(LockTable), IsDeleted |-> FALSE] \in Entry
    BY <2>2 DEF Entry
  <2> QED BY <1>0, <2>1, <2>3, SMT
<1>3. CASE DestroyLock_Syscall
  <2>1. /\ Op = "DestroyLock"
        /\ \/ LockTable' = LockTable
           \/ /\ LockAt(Arg) # NULL
              /\ \E k \in {NULL, LockTable[Arg + 1].Kernel_Lock} :
                    LockTable' = [LockTable EXCEPT ![Arg + 1] = [Kernel_Lock |-> k, IsDeleted |-> TRUE]]
    BY <1>3 DEF DestroyLock_Syscall, At, Op
  <2>2. ASSUME LockAt(Arg) # NULL, NEW k \in {NULL, LockTable[Arg + 1].Kernel_Lock}
        PROVE  [Kernel_Lock |-> k, IsDeleted |-> TRUE] \in Entry
    BY <1>1, <2>2 DEF Entry
  <2> QED BY <1>0, <1>1, <2>1, <2>2, SetEntry, SMT
<1>4. CASE Release_Syscall
  <2>1. Op = "Release" /\ (LockTable' = LockTable \/
            (Pc = "delete" /\ LockTable' = [LockTable EXCEPT ![Arg + 1].Kernel_Lock = NULL]))
    BY <1>4 DEF Release_Syscall, At, Op, Pc, tableVars
  <2>2. CASE LockTable' = LockTable
    BY <1>0, <2>1, <2>2
  <2>3. CASE Pc = "delete" /\ LockTable' = [LockTable EXCEPT ![Arg + 1].Kernel_Lock = NULL]
    <3>1. LockAt(Arg) # NULL
      BY <1>0, <2>1, <2>3 DEF Guarded, CheckedIsLive, Pc, Op, Arg
    <3>2. [LockTable[Arg + 1] EXCEPT !.Kernel_Lock = NULL] \in Entry
      BY <1>1, <3>1 DEF Entry
    <3>3. LockTable' = [LockTable EXCEPT ![Arg + 1] = [LockTable[Arg + 1] EXCEPT !.Kernel_Lock = NULL]]
      BY <2>3
    <3> QED BY <1>0, <1>1, <2>1, <3>1, <3>2, <3>3, SetEntry, SMT
  <2> QED BY <2>1, <2>2, <2>3
<1>5. ASSUME Op # "CreateLock", UNCHANGED LockTable
      PROVE  LockTable' \in Seq(Entry) /\ Len(LockTable') = Len(LockTable)
  BY <1>0, <1>5
<1>6. CASE Acquire_Syscall \/ Broadcast_Syscall
  BY <1>5, <1>6 DEF Acquire_Syscall, Broadcast_Syscall, BadArgs, ReleaseArg, At, Op, tableVars
<1>7. CASE Wait_Syscall \/ Signal_Syscall
  BY <1>5, <1>7 DEF Wait_Syscall, Signal_Syscall, BadArgs, ReleaseArg, At, Op, tableVars
<1>8. CASE CreateCV_Syscall \/ DestroyCV_Syscall
  BY <1>5, <1>8 DEF CreateCV_Syscall, DestroyCV_Syscall, At, Op
<1> QED
  BY <1>2, <1>3, <1>4, <1>6, <1>7, <1>8 DEF Handler
LEMMA CVTableStep ==
    ASSUME TypeOK, TypeOK_Syscalls, Bounded, Counting, Guarded, Handler
    PROVE  /\ CVTable' \in Seq(CVEntry)
           /\ IF Op = "CreateCV" THEN Return /\ Len(CVTable') = Len(CVTable) + 1
              ELSE Len(CVTable') = Len(CVTable)
<1>0. currentThread \in Thread /\ CVTable \in Seq(CVEntry) /\ Arg \in Int
  <2>1. currentThread \in Thread
    BY DEF TypeOK, SchedTypeOK
  <2> QED BY <2>1, CallInt DEF TypeOK_Syscalls, Arg
<1>1. ASSUME CVAt(Arg) # NULL PROVE Arg + 1 \in 1 .. Len(CVTable) /\ CVTable[Arg + 1] \in CVEntry
  BY <1>0, <1>1, SMT DEF CVAt
<1>2. CASE CreateCV_Syscall
  <2>1. /\ Op = "CreateCV" /\ Return
        /\ CVTable' = Append(CVTable, [CV |-> Len(CVTable), IsDeleted |-> FALSE])
    BY <1>2 DEF CreateCV_Syscall, At, Op, Leave
  <2>2. Len(CVTable) \in 0 .. MaxCVs - 1
    BY <1>0, <2>1, CreateFits
  <2>3. [CV |-> Len(CVTable), IsDeleted |-> FALSE] \in CVEntry
    BY <2>2 DEF CVEntry
  <2> QED BY <1>0, <2>1, <2>3, SMT
<1>3. CASE DestroyCV_Syscall
  <2>1. /\ Op = "DestroyCV"
        /\ \/ CVTable' = CVTable
           \/ /\ CVAt(Arg) # NULL
              /\ \E k \in {NULL, CVTable[Arg + 1].CV} :
                    CVTable' = [CVTable EXCEPT ![Arg + 1] = [CV |-> k, IsDeleted |-> TRUE]]
    BY <1>3 DEF DestroyCV_Syscall, At, Op
  <2>2. ASSUME CVAt(Arg) # NULL, NEW k \in {NULL, CVTable[Arg + 1].CV}
        PROVE  [CV |-> k, IsDeleted |-> TRUE] \in CVEntry
    BY <1>1, <2>2 DEF CVEntry
  <2> QED BY <1>0, <1>1, <2>1, <2>2, SetEntry, SMT
<1>4. ASSUME Op # "CreateCV", UNCHANGED CVTable
      PROVE  CVTable' \in Seq(CVEntry) /\ Len(CVTable') = Len(CVTable)
  BY <1>0, <1>4
<1>5. CASE Signal_Syscall
  <2>1. Op = "Signal" /\ (CVTable' = CVTable \/
            (Pc = "unlock" /\ CVTable' = [CVTable EXCEPT ![Arg + 1].CV = NULL]))
    BY <1>5 DEF Signal_Syscall, BadArgs, ReleaseArg, At, Op, Pc, tableVars
  <2>2. CASE Pc = "unlock" /\ CVTable' = [CVTable EXCEPT ![Arg + 1].CV = NULL]
    <3>1. CVAt(Arg) # NULL
      BY <1>0, <2>1, <2>2 DEF Guarded, CheckedIsLive, Pc, Op, Arg
    <3>2. [CVTable[Arg + 1] EXCEPT !.CV = NULL] \in CVEntry
      BY <1>1, <3>1 DEF CVEntry
    <3>3. CVTable' = [CVTable EXCEPT ![Arg + 1] = [CVTable[Arg + 1] EXCEPT !.CV = NULL]]
      BY <2>2
    <3> QED BY <1>0, <1>1, <2>1, <3>1, <3>2, <3>3, SetEntry, SMT
  <2> QED BY <1>4, <2>1, <2>2
<1>6. CASE Acquire_Syscall \/ Release_Syscall
  BY <1>4, <1>6 DEF Acquire_Syscall, Release_Syscall, At, Op, tableVars
<1>7. CASE Wait_Syscall \/ Broadcast_Syscall
  BY <1>4, <1>7 DEF Wait_Syscall, Broadcast_Syscall, BadArgs, ReleaseArg, At, Op, tableVars
<1>8. CASE CreateLock_Syscall \/ DestroyLock_Syscall
  BY <1>4, <1>8 DEF CreateLock_Syscall, DestroyLock_Syscall, At, Op
<1> QED
  BY <1>2, <1>3, <1>5, <1>6, <1>7, <1>8 DEF Handler

(* Every handler step ends in a Goto or in the user program.               *)
LEMMA HandlerMoves ==
    ASSUME Handler
    PROVE  /\ Return \/ \E pc \in {"unlock", "delete", "wait", "woken", "error"} : Goto(pc)
           /\ fault' \in BOOLEAN \cup {fault}
<1>1. CASE Acquire_Syscall \/ Release_Syscall
  BY <1>1 DEF Acquire_Syscall, Release_Syscall, Leave, tableVars
<1>2. CASE Wait_Syscall
  BY <1>2 DEF Wait_Syscall, BadArgs, ReleaseArg, tableVars
<1>3. CASE Signal_Syscall \/ Broadcast_Syscall
  BY <1>3 DEF Signal_Syscall, Broadcast_Syscall, BadArgs, ReleaseArg, Leave, tableVars
<1>4. CASE CreateLock_Syscall \/ DestroyLock_Syscall
  BY <1>4 DEF CreateLock_Syscall, DestroyLock_Syscall, Leave
<1>5. CASE CreateCV_Syscall \/ DestroyCV_Syscall
  BY <1>5 DEF CreateCV_Syscall, DestroyCV_Syscall, Leave
<1> QED
  BY <1>1, <1>2, <1>3, <1>4, <1>5 DEF Handler

LEMMA StepType ==
    ASSUME TypeOK, TypeOK_Syscalls, Bounded, Counting, Guarded, [Next_Syscalls]_allVars
    PROVE  TypeOK_Syscalls' /\ Bounded'
<1>0. /\ currentThread \in Thread /\ fault \in BOOLEAN
      /\ LockTable \in Seq(Entry) /\ CVTable \in Seq(CVEntry)
      /\ Len(LockTable) \in Nat /\ Len(CVTable) \in Nat
  BY SMT DEF TypeOK, SchedTypeOK, TypeOK_Syscalls
<1>1. CASE EnterAny
  <2>1. /\ call' \in [Thread -> CallType]
        /\ \A t \in Thread \ {currentThread} : call'[t] = call[t]
        /\ UNCHANGED <<LockTable, CVTable, fault>>
        /\ InUser
        /\ call'[currentThread].op = "CreateLock" => Len(LockTable) + Creating("CreateLock") < MaxLocks
        /\ call'[currentThread].op = "CreateCV" => Len(CVTable) + Creating("CreateCV") < MaxCVs
    BY <1>0, <1>1, EnterCall DEF tableVars
  <2>2. TypeOK_Syscalls'
    BY <1>0, <2>1 DEF TypeOK_Syscalls, Entry, CVEntry, CallType
  <2>3. call[currentThread].op = "user"
    BY <2>1, SMT DEF InUser, User, Call
  <2>4. /\ Creating("CreateLock") \in Nat /\ Creating("CreateCV") \in Nat
        /\ Creating("CreateLock")' = IF call'[currentThread].op = "CreateLock"
                                     THEN Creating("CreateLock") + 1 ELSE Creating("CreateLock")
        /\ Creating("CreateCV")' = IF call'[currentThread].op = "CreateCV"
                                   THEN Creating("CreateCV") + 1 ELSE Creating("CreateCV")
    BY <2>1, <2>3 DEF Counting, Counted
  <2>5. Bounded'
    BY <1>0, <2>1, <2>4, SMT DEF Bounded
  <2> QED BY <2>2, <2>5
<1>2. CASE Handler
  <2>1. /\ call' \in [Thread -> CallType]
        /\ \A t \in Thread \ {currentThread} : call'[t] = call[t]
        /\ call'[currentThread].op \in {Op, "user"}
        /\ Return => call'[currentThread].op = "user"
        /\ fault' \in BOOLEAN
    BY <1>0, <1>2, HandlerMoves, CallMoves, SMT DEF Op, User, Call
  <2>2. LockTable' \in Seq(Entry) /\ CVTable' \in Seq(CVEntry)
    BY <1>2, LockTableStep, CVTableStep
  <2>3. TypeOK_Syscalls'
    BY <2>1, <2>2 DEF TypeOK_Syscalls, Entry, CVEntry, CallType
  <2>4. ASSUME NEW op \in {"CreateLock", "CreateCV"}
        PROVE  /\ Creating(op) \in Nat
               /\ Creating(op)' = IF Op = op /\ call'[currentThread].op # op
                                  THEN Creating(op) - 1 ELSE Creating(op)
    BY <2>1, <2>4 DEF Counting, Counted, Op
  <2>5. Len(LockTable') + Creating("CreateLock")' <= MaxLocks
    <3>1. /\ Creating("CreateLock") \in Nat
          /\ Creating("CreateLock")' = IF Op = "CreateLock" /\ call'[currentThread].op # "CreateLock"
                                       THEN Creating("CreateLock") - 1 ELSE Creating("CreateLock")
      BY <2>4
    <3>2. IF Op = "CreateLock" THEN Return /\ Len(LockTable') = Len(LockTable) + 1
          ELSE Len(LockTable') = Len(LockTable)
      BY <1>2, LockTableStep
    <3> QED BY <1>0, <2>1, <3>1, <3>2, SMT DEF Bounded
  <2>6. Len(CVTable') + Creating("CreateCV")' <= MaxCVs
    <3>1. /\ Creating("CreateCV") \in Nat
          /\ Creating("CreateCV")' = IF Op = "CreateCV" /\ call'[currentThread].op # "CreateCV"
                                     THEN Creating("CreateCV") - 1 ELSE Creating("CreateCV")
      BY <2>4
    <3>2. IF Op = "CreateCV" THEN Return /\ Len(CVTable') = Len(CVTable) + 1
          ELSE Len(CVTable') = Len(CVTable)
      BY <1>2, CVTableStep
    <3> QED BY <1>0, <2>1, <3>1, <3>2, SMT DEF Bounded
  <2> QED BY <2>3, <2>5, <2>6 DEF Bounded
<1>3. CASE UNCHANGED <<tableVars, call>>
  BY <1>3 DEF TypeOK_Syscalls, Bounded, Creating, tableVars, Entry, CVEntry, CallType
<1> QED
  BY <1>1, <1>2, <1>3 DEF Next_Syscalls, Dead, allVars

----------------------------------------------------------------------------
(* A cleared entry is marked: Release and Signal clear only marked ones.   *)
LocksMarked == \A i \in DOMAIN LockTable : LockTable[i].Kernel_Lock = NULL => LockTable[i].IsDeleted

CVsMarked == \A i \in DOMAIN CVTable : CVTable[i].CV = NULL => CVTable[i].IsDeleted

(* What EntriesOnlyDie allows a step to do to each table.                  *)
LocksDie ==
    \A i \in DOMAIN LockTable :
        /\ LockTable'[i].Kernel_Lock \in {LockTable[i].Kernel_Lock, NULL}
        /\ LockTable[i].IsDeleted \/ LockTable'[i].Kernel_Lock = NULL => LockTable'[i].IsDeleted

CVsDie ==
    \A i \in DOMAIN CVTable :
        /\ CVTable'[i].CV \in {CVTable[i].CV, NULL}
        /\ CVTable[i].IsDeleted \/ CVTable'[i].CV = NULL => CVTable'[i].IsDeleted

LEMMA LocksOnlyDie ==
    ASSUME TypeOK, TypeOK_Syscalls, Bounded, Counting, LocksMarked, Handler
    PROVE  LocksDie /\ LocksMarked'
<1>0. /\ LockTable \in Seq(Entry) /\ currentThread \in Thread
      /\ NULL \notin 0 .. MaxLocks - 1
  BY SynchAssumption DEF TypeOK_Syscalls, SynchAssumption, TypeOK, SchedTypeOK
<1>1. CASE UNCHANGED LockTable
  BY <1>0, <1>1 DEF LocksDie, LocksMarked
<1>2. ASSUME NEW e, LockTable' = Append(LockTable, e), e.Kernel_Lock # NULL
      PROVE  LocksDie /\ LocksMarked'
  <2>1. /\ DOMAIN LockTable = 1 .. Len(LockTable) /\ DOMAIN LockTable' = 1 .. Len(LockTable) + 1
        /\ \A i \in DOMAIN LockTable : LockTable'[i] = LockTable[i]
        /\ LockTable'[Len(LockTable) + 1] = e
        /\ \A i \in DOMAIN LockTable' : i \in DOMAIN LockTable \/ i = Len(LockTable) + 1
        /\ \A i \in DOMAIN LockTable : i \in DOMAIN LockTable'
    BY <1>0, <1>2, SMT
  <2> QED BY <1>2, <2>1 DEF LocksDie, LocksMarked
<1>3. ASSUME NEW j, NEW e, LockTable' = [LockTable EXCEPT ![j] = e],
             j \in DOMAIN LockTable => e.IsDeleted /\ e.Kernel_Lock \in {LockTable[j].Kernel_Lock, NULL}
      PROVE  LocksDie /\ LocksMarked'
  BY <1>0, <1>3 DEF LocksDie, LocksMarked
<1>4. CASE CreateLock_Syscall
  <2>1. /\ LockTable' = Append(LockTable, [Kernel_Lock |-> Len(LockTable), IsDeleted |-> FALSE])
        /\ Op = "CreateLock" /\ Return
    BY <1>4 DEF CreateLock_Syscall, Leave, At, Op
  <2>2. Len(LockTable) # NULL
    BY <1>0, <2>1, CreateFits
  <2> QED BY <1>2, <2>1, <2>2, SMT
<1>5. CASE DestroyLock_Syscall
  <2>1. \/ UNCHANGED LockTable
        \/ \E k \in {NULL, LockTable[Arg + 1].Kernel_Lock} :
                LockTable' = [LockTable EXCEPT ![Arg + 1] = [Kernel_Lock |-> k, IsDeleted |-> TRUE]]
    BY <1>5 DEF DestroyLock_Syscall
  <2> QED BY <1>1, <1>3, <2>1
<1>6. CASE Release_Syscall
  <2>1. \/ UNCHANGED LockTable
        \/ /\ LockTable[Arg + 1].IsDeleted
           /\ LockTable' = [LockTable EXCEPT ![Arg + 1] = [LockTable[Arg + 1] EXCEPT !.Kernel_Lock = NULL]]
    BY <1>6 DEF Release_Syscall, tableVars
  <2>2. ASSUME LockTable[Arg + 1].IsDeleted, Arg + 1 \in DOMAIN LockTable
        PROVE  LET e == [LockTable[Arg + 1] EXCEPT !.Kernel_Lock = NULL] IN e.IsDeleted /\ e.Kernel_Lock = NULL
    <3>1. LockTable[Arg + 1] \in Entry
      BY <1>0, <2>2, SMT
    <3> QED BY <2>2, <3>1 DEF Entry
  <2> QED BY <1>1, <1>3, <2>1, <2>2
<1>7. CASE Wait_Syscall \/ Signal_Syscall \/ Broadcast_Syscall
  BY <1>1, <1>7 DEF Wait_Syscall, Signal_Syscall, Broadcast_Syscall, BadArgs, ReleaseArg, tableVars
<1>8. CASE Acquire_Syscall \/ CreateCV_Syscall \/ DestroyCV_Syscall
  BY <1>1, <1>8 DEF Acquire_Syscall, CreateCV_Syscall, DestroyCV_Syscall
<1> QED
  BY <1>4, <1>5, <1>6, <1>7, <1>8 DEF Handler

LEMMA CVsOnlyDie ==
    ASSUME TypeOK, TypeOK_Syscalls, Bounded, Counting, CVsMarked, Handler
    PROVE  CVsDie /\ CVsMarked'
<1>0. /\ CVTable \in Seq(CVEntry) /\ currentThread \in Thread
      /\ NULL \notin 0 .. MaxCVs - 1
  BY SynchAssumption DEF TypeOK_Syscalls, SynchAssumption, TypeOK, SchedTypeOK
<1>1. CASE UNCHANGED CVTable
  BY <1>0, <1>1 DEF CVsDie, CVsMarked
<1>2. ASSUME NEW e, CVTable' = Append(CVTable, e), e.CV # NULL
      PROVE  CVsDie /\ CVsMarked'
  <2>1. /\ DOMAIN CVTable = 1 .. Len(CVTable) /\ DOMAIN CVTable' = 1 .. Len(CVTable) + 1
        /\ \A i \in DOMAIN CVTable : CVTable'[i] = CVTable[i]
        /\ CVTable'[Len(CVTable) + 1] = e
        /\ \A i \in DOMAIN CVTable' : i \in DOMAIN CVTable \/ i = Len(CVTable) + 1
        /\ \A i \in DOMAIN CVTable : i \in DOMAIN CVTable'
    BY <1>0, <1>2, SMT
  <2> QED BY <1>2, <2>1 DEF CVsDie, CVsMarked
<1>3. ASSUME NEW j, NEW e, CVTable' = [CVTable EXCEPT ![j] = e],
             j \in DOMAIN CVTable => e.IsDeleted /\ e.CV \in {CVTable[j].CV, NULL}
      PROVE  CVsDie /\ CVsMarked'
  BY <1>0, <1>3 DEF CVsDie, CVsMarked
<1>4. CASE CreateCV_Syscall
  <2>1. /\ CVTable' = Append(CVTable, [CV |-> Len(CVTable), IsDeleted |-> FALSE])
        /\ Op = "CreateCV" /\ Return
    BY <1>4 DEF CreateCV_Syscall, Leave, At, Op
  <2>2. Len(CVTable) # NULL
    BY <1>0, <2>1, CreateFits
  <2> QED BY <1>2, <2>1, <2>2, SMT
<1>5. CASE DestroyCV_Syscall
  <2>1. \/ UNCHANGED CVTable
        \/ \E k \in {NULL, CVTable[Arg + 1].CV} :
                CVTable' = [CVTable EXCEPT ![Arg + 1] = [CV |-> k, IsDeleted |-> TRUE]]
    BY <1>5 DEF DestroyCV_Syscall
  <2> QED BY <1>1, <1>3, <2>1
<1>6. CASE Signal_Syscall
  <2>1. \/ UNCHANGED CVTable
        \/ /\ CVTable[Arg + 1].IsDeleted
           /\ CVTable' = [CVTable EXCEPT ![Arg + 1] = [CVTable[Arg + 1] EXCEPT !.CV = NULL]]
    BY <1>6 DEF Signal_Syscall, BadArgs, ReleaseArg, tableVars
  <2>2. ASSUME CVTable[Arg + 1].IsDeleted, Arg + 1 \in DOMAIN CVTable
        PROVE  LET e == [CVTable[Arg + 1] EXCEPT !.CV = NULL] IN e.IsDeleted /\ e.CV = NULL
    <3>1. CVTable[Arg + 1] \in CVEntry
      BY <1>0, <2>2, SMT
    <3> QED BY <2>2, <3>1 DEF CVEntry
  <2> QED BY <1>1, <1>3, <2>1, <2>2
<1>7. CASE Wait_Syscall \/ Broadcast_Syscall
  BY <1>1, <1>7 DEF Wait_Syscall, Broadcast_Syscall, BadArgs, ReleaseArg, tableVars
<1>8. CASE Acquire_Syscall \/ Release_Syscall \/ CreateLock_Syscall \/ DestroyLock_Syscall
  BY <1>1, <1>8 DEF Acquire_Syscall, Release_Syscall, CreateLock_Syscall, DestroyLock_Syscall,
                    tableVars
<1> QED
  BY <1>4, <1>5, <1>6, <1>7, <1>8 DEF Handler

----------------------------------------------------------------------------
(* Threads are finitely many, and the running one is all that changes.     *)
LEMMA CountedAll == ASSUME currentThread \in Thread, NEW op PROVE Counted(op)
<1> DEFINE S == {t \in Thread : call[t].op = op}
           T == {t \in Thread : call'[t].op = op}
<1>1. /\ IsFiniteSet(S) /\ IsFiniteSet(T)
      /\ Cardinality(S) \in Nat /\ Cardinality(T) \in Nat
  BY SynchAssumption, FS_Subset, FS_CardinalityType DEF SynchAssumption
<1>2. Creating(op) = Cardinality(S) /\ Creating(op)' = Cardinality(T)
  BY DEF Creating
<1> DEFINE Others == \A t \in Thread \ {currentThread} : call'[t] = call[t]
<1>3. CASE call[currentThread].op = op
  <2>1. Cardinality(S \ {currentThread}) = Cardinality(S) - 1 /\ Cardinality(S) # 0
    BY <1>1, <1>3, FS_RemoveElement, FS_EmptySet
  <2>2. Others => T = IF call'[currentThread].op = op THEN S ELSE S \ {currentThread}
    BY <1>3, SMT
  <2> HIDE DEF S, T
  <2>3. Creating(op) \in Nat /\ Creating(op) >= 1
    BY <1>1, <1>2, <2>1, SMT
  <2>4. Others => Creating(op)' = IF call'[currentThread].op = op THEN Creating(op) ELSE Creating(op) - 1
    BY <1>2, <2>1, <2>2
  <2> QED BY <1>3, <2>3, <2>4 DEF Counted
<1>4. CASE call[currentThread].op # op
  <2>1. Cardinality(S \cup {currentThread}) = Cardinality(S) + 1
    <3>1. currentThread \notin S
      BY <1>4
    <3> HIDE DEF S
    <3> QED BY <1>1, <3>1, FS_AddElement
  <2>2. Others => T = IF call'[currentThread].op = op THEN S \cup {currentThread} ELSE S
    BY <1>4
  <2> HIDE DEF S, T
  <2> QED BY <1>1, <1>2, <1>4, <2>1, <2>2 DEF Counted
<1> QED BY <1>3, <1>4

----------------------------------------------------------------------------
(* The invariant of the system calls, on top of Synch's.                   *)
IInv ==
    /\ TypeOK /\ Places /\ LockConsistent
    /\ TypeOK_Syscalls /\ Bounded /\ Guarded

LEMMA InitIInv == ASSUME CleanHeap, Init_Syscalls PROVE IInv
<1>0. /\ Init /\ LockTable = <<>> /\ CVTable = <<>> /\ fault = FALSE
      /\ call = [t \in Thread |-> User]
  BY DEF Init_Syscalls
<1>1. TypeOK /\ Places /\ LockConsistent
  BY <1>0, InitType, InitPlaces, InitLocks
<1>2. TypeOK_Syscalls
  <2>1. User \in CallType
    BY DEF User, Call, CallType
  <2>2. LockTable \in Seq(Entry) /\ CVTable \in Seq(CVEntry)
    BY <1>0, SMT
  <2>3. call \in [Thread -> CallType]
    BY <1>0, <2>1
  <2> QED BY <1>0, <2>2, <2>3 DEF TypeOK_Syscalls
<1>3. \A t \in Thread : call[t] = User
  BY <1>0
<1>4. User.op = "user" /\ User.pc = "user"
  BY DEF User, Call
<1>5. Bounded
  <2>1. ASSUME NEW op, op # "user" PROVE Creating(op) = 0
    <3>1. {t \in Thread : call[t].op = op} = {}
      BY <1>3, <1>4, <2>1
    <3> QED BY <3>1, FS_EmptySet DEF Creating
  <2>2. Creating("CreateLock") = 0 /\ Creating("CreateCV") = 0
    BY <2>1
  <2> QED BY <1>0, <2>2, SMT DEF Bounded
<1>6. /\ \A l \in TableGuards : owner[l] \notin Thread /\ waitingThreads[l] = <<>>
      /\ \A t \in Thread : frame[t].op # "Wait"
  <2>1. TableGuards \subseteq Lock
    BY TableLockType
  <2>2. \A l \in Lock : owner[l] \notin Thread /\ waitingThreads[l] = <<>>
    BY <1>0 DEF Init, CleanHeap
  <2>3. \A t \in Thread : frame[t].op # "Wait"
    BY <1>0 DEF Init, SchedInit, Plain, Frame
  <2> QED BY <2>1, <2>2, <2>3
<1>7. LocksGuard
  <2>1. Range(<<>>) = {}
    BY SMT DEF Range
  <2> QED BY <1>3, <1>4, <1>6, <2>1 DEF LocksGuard, Inside
<1>8. NoGuardWait /\ Poised /\ CheckedIsLive
  BY <1>3, <1>4, <1>6 DEF NoGuardWait, Poised, CheckedIsLive
<1> QED
  BY <1>1, <1>2, <1>5, <1>7, <1>8 DEF IInv, Guarded

LEMMA NextIInv == IInv /\ [Next_Syscalls]_allVars => IInv' /\ [Next]_vars
<1> SUFFICES ASSUME IInv, [Next_Syscalls]_allVars PROVE IInv' /\ [Next]_vars
  OBVIOUS
<1>1. [Next]_vars
  BY StepIsSynch DEF IInv
<1>2. TypeOK' /\ Places' /\ LockConsistent'
  BY <1>1, NextType, NextPlaces, NextLocks DEF IInv
<1>3. TypeOK_Syscalls' /\ Bounded'
  <2>1. Counting
    BY CountedAll DEF IInv, TypeOK, SchedTypeOK, Counting
  <2> QED BY <2>1, StepType DEF IInv
<1>4. Guarded'
  BY StepGuarded DEF IInv, Places
<1> QED
  BY <1>1, <1>2, <1>3, <1>4 DEF IInv

(* The tables and the handlers' positions stay of their type: the entry a  *)
(* Create appends points to the object made for it, and the lookups that   *)
(* follow a check are within the vector.                                   *)
THEOREM SyscallTypes == ASSUME CleanHeap PROVE Spec_Syscalls => []TypeOK_Syscalls
<1>1. Spec_Syscalls => []IInv
  BY InitIInv, NextIInv, PTL DEF Spec_Syscalls
<1>2. IInv => TypeOK_Syscalls
  BY DEF IInv
<1> QED
  BY <1>1, <1>2, PTL

(* Whatever the user programs call, with whatever arguments: the handlers  *)
(* of exception.cc call Lock and Condition only as module Synch does, so   *)
(* every property of Synch holds of the kernel under system calls.         *)
THEOREM SyscallsUseSynch == ASSUME CleanHeap PROVE Spec_Syscalls => Spec
<1>1. Init_Syscalls => Init
  BY DEF Init_Syscalls
<1>2. Spec_Syscalls => []IInv
  BY InitIInv, NextIInv, PTL DEF Spec_Syscalls
<1> QED
  BY <1>1, <1>2, NextIInv, PTL DEF Spec_Syscalls, Spec

(* Every path through a handler gives the table's lock back and none uses  *)
(* the table without it; and an entry a handler checked is still there when*)
(* it uses it, also in Release_Syscall and Wait_Syscall, which unlock the  *)
(* table first: up to the Wait, not after it has slept (see CheckedIsLive).*)
THEOREM TablesProtected ==
    ASSUME CleanHeap PROVE Spec_Syscalls => [](TableLocks /\ CheckedIsLive)
<1>1. Spec_Syscalls => []IInv
  BY InitIInv, NextIInv, PTL DEF Spec_Syscalls
<1>2. IInv => TableLocks /\ CheckedIsLive
  <2> SUFFICES ASSUME IInv PROVE TableLocks /\ CheckedIsLive
    OBVIOUS
  <2>1. \A l \in TableGuards : Range(waitingThreads[l]) = AsleepInAcquire(l)
    BY TableLockType DEF IInv, Places, OnePlace, LockQueuesOK, Lists
  <2>2. TableLocks
    BY <2>1 DEF IInv, Guarded, LocksGuard, TableLocks, TableGuards
  <2> QED BY <2>2 DEF IInv, Guarded
<1> QED
  BY <1>1, <1>2, PTL

(* Create, Destroy and the pending deletions of Release and Signal, in any *)
(* order: no number is recycled, a cleared entry is marked deleted and no  *)
(* mark is taken back.                                                     *)
THEOREM NumbersNotRecycled == ASSUME CleanHeap PROVE Spec_Syscalls => EntriesOnlyDie
<1>1. Spec_Syscalls => []IInv
  BY InitIInv, NextIInv, PTL DEF Spec_Syscalls
<1>2. Init_Syscalls => LocksMarked /\ CVsMarked
  BY SMT DEF Init_Syscalls, LocksMarked, CVsMarked
<1>3. ASSUME IInv, LocksMarked, CVsMarked, [Next_Syscalls]_allVars
      PROVE  LocksMarked' /\ CVsMarked' /\ LocksDie /\ CVsDie
  <2>1. CASE Handler
    <3>1. Counting
      BY <1>3, CountedAll DEF IInv, TypeOK, SchedTypeOK, Counting
    <3> QED BY <1>3, <2>1, <3>1, LocksOnlyDie, CVsOnlyDie DEF IInv
  <2>2. CASE UNCHANGED <<LockTable, CVTable>>
    BY <1>3, <2>2 DEF LocksMarked, CVsMarked, LocksDie, CVsDie
  <2>3. EnterAny => UNCHANGED <<LockTable, CVTable>>
    BY DEF EnterAny, Enter, tableVars
  <2> QED
    BY <1>3, <2>1, <2>2, <2>3 DEF Next_Syscalls, Dead, allVars, tableVars
<1>4. Spec_Syscalls => [](LocksMarked /\ CVsMarked)
  BY <1>1, <1>2, <1>3, PTL DEF Spec_Syscalls
<1> DEFINE Die == LocksDie /\ CVsDie
<1>5. IInv /\ LocksMarked /\ CVsMarked /\ [Next_Syscalls]_allVars => [Die]_<<LockTable, CVTable>>
  BY <1>3
<1>6. Spec_Syscalls => [][Die]_<<LockTable, CVTable>>
  BY <1>1, <1>4, <1>5, PTL DEF Spec_Syscalls
<1> QED
  BY <1>6, PTL DEF EntriesOnlyDie, LocksDie, CVsDie
==============================================================================
