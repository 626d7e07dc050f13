---------------------------- MODULE ProcessProofs ----------------------------
(***************************************************************************)
(* Proofs about module Process, for any number of threads, processes and   *)
(* pages: the process table counts the threads of every process, a marked  *)
(* slot has its pointer, user code runs with its own program counters,     *)
(* stack and page table, and the kernel below keeps every thread in one    *)
(* place.                                                                  *)
(***************************************************************************)
EXTENDS ProcessSteps, FiniteSetTheorems, WellFoundedInduction

USE Zenon
USE ProcessAssumption DEF ProcessAssumption

----------------------------------------------------------------------------
(* BitMap::Find: a clear bit, the first one of an empty map.               *)
LEMMA LeastSlot ==
    ASSUME NEW S \in SUBSET Nat, S # {}
    PROVE  Min(S) \in S /\ \A y \in S : Min(S) <= y
<1>1. OpToRel(<, Nat) = {ss \in Nat \X Nat : ss[1] < ss[2]}
  BY DEF OpToRel
<1>2. \E x \in S : \A y \in S : ~(<<y, x>> \in OpToRel(<, Nat))
  BY NatLessThanWellFounded, WFMin
<1>3. \E x \in S : \A y \in S : ~(<<y, x>> \in {ss \in Nat \X Nat : ss[1] < ss[2]})
  BY <1>1, <1>2
<1>4. PICK x \in S : \A y \in S : ~(<<y, x>> \in {ss \in Nat \X Nat : ss[1] < ss[2]})
  BY <1>3
<1>5. ASSUME NEW y \in S PROVE x <= y
  <2>1. x \in Nat /\ y \in Nat
    OBVIOUS
  <2>2. y < x => <<y, x>> \in {ss \in Nat \X Nat : ss[1] < ss[2]}
    BY <2>1
  <2>3. ~(y < x)
    BY <1>4, <2>2
  <2> QED BY <2>1, <2>3, SMT
<1> QED BY <1>5 DEF Min

LEMMA FindSlot ==
    ASSUME map \subseteq Slot
    PROVE  /\ Find(map, TableSize) \in (Slot \ map) \cup {-1}
           /\ map = {} => Find(map, TableSize) = 0
<1>1. CASE Slot \subseteq map
  <2>1. 0 \in Slot
    BY SMT DEF Slot
  <2> QED
    BY <1>1, <2>1 DEF Find, Slot
<1>2. CASE ~(Slot \subseteq map)
  <2>1. Slot \ map \in SUBSET Nat /\ Slot \ map # {}
    BY <1>2, SMT DEF Slot
  <2>2. Min(Slot \ map) \in Slot \ map /\ \A y \in Slot \ map : Min(Slot \ map) <= y
    BY <2>1, LeastSlot
  <2>3. Find(map, TableSize) = Min(Slot \ map)
    BY <1>2 DEF Find, Slot
  <2>4. ASSUME map = {} PROVE Min(Slot \ map) = 0
    <3>1. 0 \in Slot \ map
      BY <2>4, SMT DEF Slot
    <3>2. Min(Slot \ map) \in Nat /\ Min(Slot \ map) <= 0
      BY <2>1, <2>2, <3>1
    <3> QED BY <3>2, SMT
  <2> QED BY <2>2, <2>3, <2>4
<1> QED BY <1>1, <1>2

(* An entry Table::Get returns to a caller that is not in Put is stored.   *)
Stored == [activeThreadCount : Int, inactiveThreadCount : Nat]

LEMMA StoredEntry ==
    /\ Entry = {Junk} \cup Stored /\ Junk \notin Stored
    /\ NULL \notin Entry
    /\ \A a \in Int, i \in Nat : Process(a, i) \in Stored
    /\ \A e \in Stored : e.activeThreadCount \in Int /\ e.inactiveThreadCount \in Nat
BY SMT DEF Entry, Stored, Junk, Process

LEMMA ProcessFields ==
    \A a, i : Process(a, i).activeThreadCount = a /\ Process(a, i).inactiveThreadCount = i
BY DEF Process

LEMMA KnownProcess ==
    ASSUME ProcessTypes, Marks, Here.pc # "store", NEW p, Get(p) # NULL
    PROVE  p \in map /\ p \in Slot /\ table[p] \in Stored /\ Get(p) = table[p]
<1>1. p \in map /\ p \in Slot /\ Get(p) = table[p] /\ table[p] \in Entry
  BY DEF Get, ProcessTypes
<1>2. table[p] # Junk
  BY <1>1 DEF Marks
<1> QED BY <1>1, <1>2, StoredEntry

(* No thread is at the store of a Put before or after most steps.          *)
LEMMA NotStoring ==
    ASSUME Poised, Here.pc # "store" PROVE \A t \in Thread : call[t].pc # "store"
BY DEF Poised, Here

LEMMA Settled ==
    ASSUME currentThread' \in Thread, \A t \in Thread : call'[t].pc # "store",
           \A i \in Slot \ map' : table'[i] = Junk,
           \A i \in map' : table'[i] # Junk
    PROVE  Poised' /\ Marks'
BY DEF Poised, Marks, Here

LEMMA StepMarks ==
    ASSUME KernelOK, KernelOK', ProcessTypes, LivesOK, Poised, Marks, StepKind
    PROVE  Poised' /\ Marks'
<1>0. /\ currentThread \in Thread /\ currentThread' \in Thread
      /\ call \in [Thread -> CallType]
      /\ map \subseteq Slot /\ table \in [Slot -> Entry]
  BY DEF KernelOK, TypeOK, SchedTypeOK, ProcessTypes
<1>s. -1 \notin Slot
  BY SMT DEF Slot
<1>1. Here.pc # "store" =>
        (\A i \in Slot \ map : table[i] = Junk) /\ (\A i \in map : table[i] # Junk)
  BY DEF Marks
<1>2. ASSUME Here.pc # "store", CallerOnly, After.pc # "store", UNCHANGED tableVars
      PROVE  Poised' /\ Marks'
  <2>1. \A t \in Thread : call'[t].pc # "store"
    BY <1>2, NotStoring DEF CallerOnly, After
  <2> QED BY <1>0, <1>1, <1>2, <2>1, Settled DEF tableVars
<1>3. CASE Idles
  <2>1. UNCHANGED <<map, table, call, currentThread>>
    BY <1>3 DEF Idles, Kept, tableVars
  <2>2. CASE Here.pc = "store"
    <3>1. UNCHANGED <<status, frame, level, halted>>
      BY <1>3, <2>2 DEF Idles, vars, schedVars
    <3> QED
      BY <2>1, <3>1 DEF Poised, Marks, Here, CpuBusy
  <2>3. CASE Here.pc # "store"
    BY <1>2, <2>1, <2>3 DEF CallerOnly, After, Here, tableVars
  <2> QED BY <2>2, <2>3
<1>4. ASSUME NEW op, NEW pc, NEW op2, NEW pc2, Moves(op, pc, op2, pc2), pc # "store", pc2 # "store"
      PROVE  Poised' /\ Marks'
  BY <1>2, <1>4 DEF Moves, At
<1>5. CASE MovesOn \/ LeavesLast
  BY <1>4, <1>5 DEF MovesOn, LeavesLast
<1>6. CASE TurnedAway
  <2>1. /\ CallerOnly /\ After.pc = "user" /\ Here.slot = -1 /\ Here.pc = "store" /\ UNCHANGED <<map, table>>
    BY <1>6 DEF TurnedAway, Moves, At, tableVars
  <2>2. \A t \in Thread : call'[t].pc # "store"
    BY <2>1 DEF Poised, CallerOnly, After
  <2>3. (\A i \in Slot \ map : table[i] = Junk) /\ (\A i \in map : table[i] # Junk)
    BY <1>0, <1>s, <2>1 DEF Marks
  <2> QED BY <1>0, <2>1, <2>2, <2>3, Settled
<1>7. CASE LeavesOthers
  <2> DEFINE p == pid[currentThread]
  <2>1. /\ Here.pc = "get" /\ Get(p) # NULL /\ Goto("finish") /\ map' = map
        /\ table' = [table EXCEPT ![p] = Process(table[p].activeThreadCount - 1,
                                                 table[p].inactiveThreadCount + 1)]
    BY <1>7 DEF LeavesOthers, At
  <2> HIDE DEF p
  <2>2. p \in map /\ p \in Slot /\ table[p] \in Stored
    BY <2>1, KnownProcess
  <2>3. table'[p] \in Stored
    BY <1>0, <2>1, <2>2, StoredEntry, SMT
  <2>4. \A t \in Thread : call'[t].pc # "store"
    BY <1>0, <2>1, NotStoring, CallMove, SMT DEF CallerOnly, After
  <2>5. (\A i \in Slot \ map : table'[i] = Junk) /\ (\A i \in map : table'[i] # Junk)
    BY <1>0, <1>1, <2>1, <2>2, <2>3, StoredEntry
  <2> QED BY <1>0, <2>1, <2>4, <2>5, Settled
<1>8. CASE Clears
  <2> DEFINE p == pid[currentThread]
  <2>1. /\ Here.pc = "clear" /\ Goto("finish") /\ map' = map \ {p}
        /\ table' = [table EXCEPT ![p] = Junk]
    BY <1>8 DEF Clears, At
  <2> HIDE DEF p
  <2>2. \A t \in Thread : call'[t].pc # "store"
    BY <1>0, <2>1, NotStoring, CallMove, SMT DEF CallerOnly, After
  <2>3. (\A i \in Slot \ map' : table'[i] = Junk) /\ (\A i \in map' : table'[i] # Junk)
    BY <1>0, <1>1, <2>1
  <2> QED BY <1>0, <2>2, <2>3, Settled
<1>9. CASE Ends
  BY <1>0, <1>2, <1>9, CallMove, CallFields DEF Ends, At
<1>10. CASE StartLoads
  BY <1>0, <1>2, <1>10, CallMove, SMT DEF StartLoads, At
<1>11. CASE Marked("Start") \/ Marked("Exec")
  <2>1. PICK i : i = Find(map, TableSize)
    OBVIOUS
  <2>2. /\ Here.pc = "find" /\ Kept /\ InCaller' /\ level' = "IntOff"
        /\ map' = IF i = -1 THEN map ELSE map \cup {i}
        /\ call' = [call EXCEPT ![currentThread].pc = "store", ![currentThread].slot = i]
        /\ table' = table
    BY <1>11, <2>1 DEF Marked, At
  <2>3. i \in (Slot \ map) \cup {-1}
    BY <1>0, <2>1, FindSlot
  <2>4. CallerOnly /\ After.pc = "store" /\ After.slot = i /\ currentThread' = currentThread
    <3>1. currentThread' = currentThread
      BY <2>2 DEF Kept
    <3>2. call' = [call EXCEPT ![currentThread].pc = "store", ![currentThread].slot = i]
      BY <2>2
    <3> QED BY <1>0, <3>1, <3>2, CallMove
  <2>5. Poised'
    BY <2>2, <2>4, NotStoring DEF Poised, CallerOnly, InCaller
  <2>6. Here'.pc = "store" /\ Here'.slot = i
    BY <2>4 DEF Here, After
  <2>7. Marks'
    <3>1. CASE i = -1
      BY <1>0, <1>s, <1>1, <2>2, <2>6, <3>1 DEF Marks
    <3>2. CASE i # -1
      BY <1>0, <1>1, <2>2, <2>3, <2>6, <3>2 DEF Marks
    <3> QED BY <3>1, <3>2
  <2> QED BY <2>5, <2>7
<1>12. CASE StartStores \/ ExecStores
  <2>1. /\ Here.pc = "store" /\ map' = map
        /\ table' = [table EXCEPT ![Here.slot] = Process(1, 0)]
    BY <1>12 DEF StartStores, ExecStores, At
  <2>2. \A t \in Thread : call'[t].pc # "store"
    <3>1. CASE StartStores
      BY <1>0, <3>1, CallMove, CallFields, SMT DEF StartStores, CallerOnly, After, Poised
    <3>2. CASE ExecStores
      <4>1. /\ \A t \in Thread \ {currentThread, Here.new} : call'[t] = call[t]
            /\ After.pc = "fork" /\ call'[Here.new] = Call("newProcess", "start", NULL, -1)
        BY <3>2, ExecChild
      <4> QED
        BY <4>1, CallFields, SMT DEF After, Poised
    <3> QED BY <1>12, <3>1, <3>2
  <2>3. Process(1, 0) # Junk
    BY StoredEntry, SMT
  <2>4. (\A i \in Slot \ map : table'[i] = Junk) /\ (\A i \in map : table'[i] # Junk)
    BY <1>0, <1>s, <2>1, <2>3 DEF Marks
  <2> QED BY <1>0, <2>1, <2>2, <2>4, Settled
<1>13. CASE Forks
  BY <1>0, <1>2, <1>13, CallMove, CallFields, SMT DEF Forks, At
<1>14. CASE Begins
  BY <1>0, <1>2, <1>14, CallMove, CallFields DEF Begins, At
<1>15. CASE Switch
  <2>1. UNCHANGED <<map, table, call>>
    BY <1>15 DEF Switch, tableVars
  <2>2. \A t \in Thread : call[t].pc # "store"
    BY <1>15, CallFields DEF Switch, TimeSlice, Ticking, Dispatch, Asleep, InUser, Poised, CpuBusy, Here
  <2>3. Here.pc # "store"
    BY <1>0, <2>2 DEF Here
  <2> QED BY <1>0, <1>1, <2>1, <2>2, <2>3, Settled
<1>16. ASSUME NEW t \in Thread, ExecLoads(t) PROVE Poised' /\ Marks'
  <2>1. CallerOnly /\ After = Call("Exec", "put", t, -1) /\ Here.pc = "load" /\ UNCHANGED tableVars
    BY <1>0, <1>16, CallMove DEF ExecLoads, At
  <2> QED BY <1>2, <2>1, CallFields, SMT
<1>17. ASSUME NEW t \in Thread, ForkGets(t) PROVE Poised' /\ Marks'
  <2>1. PICK p : p = pid[currentThread]
    OBVIOUS
  <2>2. /\ Here.pc = "get" /\ Get(p) # NULL /\ map' = map /\ InCaller /\ Create(t)
        /\ table' = [table EXCEPT ![p].activeThreadCount = @ + 1]
    BY <1>17, <2>1 DEF ForkGets, At
  <2>3. p \in map /\ p \in Slot /\ table[p] \in Stored
    BY <2>2, KnownProcess
  <2>4. table'[p] \in Stored
    BY <1>0, <2>2, <2>3, SMT DEF Stored
  <2>5. t # currentThread
    BY <2>2, Newborn
  <2>6. /\ \A u \in Thread \ {currentThread, t} : call'[u] = call[u]
        /\ After = Call("Fork", "fork", t, -1) /\ call'[t] = Call("kernelRun", "start", NULL, -1)
    BY <1>0, <1>17, <2>5, PairMove DEF ForkGets
  <2>7. \A u \in Thread : call'[u].pc # "store"
    BY <2>2, <2>6, NotStoring, CallFields, SMT DEF After
  <2>8. (\A i \in Slot \ map : table'[i] = Junk) /\ (\A i \in map : table'[i] # Junk)
    BY <1>0, <1>1, <2>2, <2>3, <2>4, StoredEntry
  <2> QED BY <1>0, <2>2, <2>7, <2>8, Settled
<1> QED
  BY <1>3, <1>5, <1>6, <1>7, <1>8, <1>9, <1>10, <1>11, <1>12, <1>13, <1>14, <1>15, <1>16, <1>17 DEF StepKind

----------------------------------------------------------------------------
(* The main thread starts the first process alone.                         *)
LEMMA StepFirst ==
    ASSUME KernelOK, ProcessTypes, LivesOK, FirstProcess, StepKind
    PROVE  FirstProcess'
<1>0. /\ currentThread \in Thread /\ call \in [Thread -> CallType] /\ map \subseteq Slot
  BY DEF KernelOK, TypeOK, SchedTypeOK, ProcessTypes
<1>1. CASE Idles \/ Switch
  <2>1. UNCHANGED <<map, call>>
    BY <1>1 DEF Idles, Switch, tableVars
  <2> QED BY <2>1 DEF FirstProcess, Gone, Call
<1>2. ASSUME Here.op \notin {"Start", "gone"},
             \A t \in Thread : call'[t].op = "Start" => t # currentThread /\ call[t].op = "Start"
      PROVE  FirstProcess'
  <2>1. \A t \in Thread : call[t].op # "Start"
    BY <1>0, <1>2, CallFields DEF FirstProcess, Here
  <2> QED BY <1>2, <2>1 DEF FirstProcess
<1>3. ASSUME Here.op \notin {"Start", "gone"}, CallerOnly, After.op # "Start" PROVE FirstProcess'
  BY <1>2, <1>3 DEF CallerOnly, After
<1>4. Here.op = "Start" =>
        /\ currentThread = Main
        /\ \A t \in Thread \ {currentThread} : call[t] = Gone
        /\ Here.pc # "store" => map = {}
        /\ Here.pc = "store" => Here.slot = 0
  BY <1>0 DEF FirstProcess, Here
<1>5. ASSUME Here.op = "Start", CallerOnly,
             After.op = "Start" =>
                /\ After.pc # "store" => map' = {}
                /\ After.pc = "store" => After.slot = 0
      PROVE  FirstProcess'
  <2>1. \A t \in Thread \ {currentThread} : call'[t] = Gone /\ call'[t].op = "gone"
    BY <1>4, <1>5, CallFields DEF CallerOnly
  <2> QED
    BY <1>0, <1>4, <1>5, <2>1 DEF FirstProcess, After, Gone, Call
<1>6. ASSUME NEW op, NEW pc, NEW op2, NEW pc2, Moves(op, pc, op2, pc2),
             op \notin {"Start", "gone"}, op2 # "Start"
      PROVE  FirstProcess'
  BY <1>3, <1>6 DEF Moves, At
<1>7. CASE MovesOn \/ TurnedAway \/ LeavesLast
  <2>1. CASE Moves("Start", "put", "Start", "find")
    BY <1>4, <1>5, <2>1 DEF Moves, At, tableVars
  <2> QED
    BY <1>6, <1>7, <2>1, SMT DEF MovesOn, TurnedAway, LeavesLast
<1>8. CASE LeavesOthers \/ Clears
  BY <1>0, <1>3, <1>8, CallMove DEF LeavesOthers, Clears, At
<1>9. CASE Ends
  BY <1>0, <1>3, <1>5, <1>9, CallMove, CallFields DEF Ends, At
<1>10. CASE StartLoads
  <2>1. Here.op = "Start" /\ Here.pc = "load" /\ CallerOnly /\ After.pc = "put" /\ map' = map
    BY <1>0, <1>10, CallMove DEF StartLoads, At, tableVars
  <2> QED BY <1>4, <1>5, <2>1
<1>11. CASE Marked("Start")
  <2>1. /\ Here.op = "Start" /\ Here.pc = "find" /\ CallerOnly
        /\ After.pc = "store" /\ After.slot = Find(map, TableSize)
    BY <1>0, <1>11, CallMove DEF Marked, At
  <2> QED BY <1>0, <1>4, <1>5, <2>1, FindSlot
<1>12. CASE Marked("Exec")
  BY <1>0, <1>3, <1>12, CallMove DEF Marked, At
<1>13. CASE StartStores
  BY <1>0, <1>5, <1>13, CallMove, CallFields DEF StartStores, At
<1>14. CASE ExecStores
  <2>1. /\ Here.op = "Exec" /\ Here.new \in Thread
        /\ \A t \in Thread \ {currentThread, Here.new} : call'[t] = call[t]
        /\ After.op = "Exec" /\ call'[Here.new] = Call("newProcess", "start", NULL, -1)
    BY <1>14, ExecChild DEF ExecStores, At
  <2>2. call'[Here.new].op = "newProcess"
    BY <2>1, CallFields, SMT
  <2> QED BY <1>2, <2>1, <2>2 DEF After
<1>15. CASE Forks
  <2>1. Here.op \in {"Exec", "Fork"} /\ CallerOnly /\ After.op \in {"user", "Fork"}
    BY <1>0, <1>15, CallMove, CallFields DEF Forks, At
  <2> QED BY <1>3, <2>1
<1>16. CASE Begins
  BY <1>0, <1>3, <1>16, CallMove, CallFields DEF Begins, At
<1>17. ASSUME NEW t \in Thread, ExecLoads(t) PROVE FirstProcess'
  <2>1. Here.op = "Exec" /\ CallerOnly /\ After = Call("Exec", "put", t, -1)
    BY <1>0, <1>17, CallMove DEF ExecLoads, At
  <2> QED BY <1>3, <2>1, CallFields
<1>18. ASSUME NEW t \in Thread, ForkGets(t) PROVE FirstProcess'
  <2>1. Here.op = "Fork" /\ InCaller /\ Create(t)
    BY <1>18 DEF ForkGets, At
  <2>2. t # currentThread
    BY <2>1, Newborn
  <2>3. /\ \A u \in Thread \ {currentThread, t} : call'[u] = call[u]
        /\ After = Call("Fork", "fork", t, -1) /\ call'[t] = Call("kernelRun", "start", NULL, -1)
    BY <1>0, <1>18, <2>2, PairMove DEF ForkGets
  <2>4. After.op = "Fork" /\ call'[t].op = "kernelRun"
    BY <2>3, CallFields, SMT
  <2> QED BY <1>2, <2>1, <2>3, <2>4 DEF After
<1> QED
  BY <1>1, <1>7, <1>8, <1>9, <1>10, <1>11, <1>12, <1>13, <1>14, <1>15, <1>16, <1>17, <1>18 DEF StepKind

----------------------------------------------------------------------------
(* Types.                                                                  *)
LEMMA StepTypes ==
    ASSUME KernelOK, KernelOK', ProcessTypes, LivesOK, Marks, StepKind, astray' \in BOOLEAN
    PROVE  ProcessTypes'
<1>0. /\ currentThread \in Thread /\ currentThread' \in Thread /\ call \in [Thread -> CallType]
      /\ map \subseteq Slot /\ table \in [Slot -> Entry]
      /\ space \in [Thread -> Nat] /\ pid \in [Thread -> Int]
      /\ IsSequence(pageTables) /\ Len(pageTables) \in Nat
      /\ userRegisters \in [Thread -> Thread] /\ regs \in Thread
      /\ Here \in CallType
  BY SequenceGrows DEF KernelOK, TypeOK, SchedTypeOK, ProcessTypes, Here
<1>1. /\ "user" \in CallOps /\ "gone" \in CallOps /\ "Exec" \in CallOps /\ "Fork" \in CallOps
      /\ "newProcess" \in CallOps /\ "kernelRun" \in CallOps
      /\ "user" \in CallPcs /\ "gone" \in CallPcs /\ "put" \in CallPcs /\ "fork" \in CallPcs
      /\ "start" \in CallPcs /\ "store" \in CallPcs /\ "finish" \in CallPcs /\ "unlock" \in CallPcs
  BY DEF CallOps, CallPcs
<1>2. /\ \A pc \in CallPcs : Goto(pc) => call' \in [Thread -> CallType]
      /\ \A c \in CallType : call' = [call EXCEPT ![currentThread] = c] => call' \in [Thread -> CallType]
      /\ Return => call' \in [Thread -> CallType]
      /\ \A pc \in CallPcs, i \in Slot \cup {-1} :
            call' = [call EXCEPT ![currentThread].pc = pc, ![currentThread].slot = i] =>
                call' \in [Thread -> CallType]
  <2>1. ASSUME NEW pc \in CallPcs, Goto(pc) PROVE call' \in [Thread -> CallType]
    BY <1>0, <2>1 DEF Goto, CallType
  <2>2. ASSUME NEW c \in CallType, call' = [call EXCEPT ![currentThread] = c]
        PROVE  call' \in [Thread -> CallType]
    BY <1>0, <2>2
  <2>3. User \in CallType
    BY <1>1 DEF User, Call, CallType
  <2>4. ASSUME NEW pc \in CallPcs, NEW i \in Slot \cup {-1},
               call' = [call EXCEPT ![currentThread].pc = pc, ![currentThread].slot = i]
        PROVE  call' \in [Thread -> CallType]
    BY <1>0, <2>4 DEF CallType
  <2> QED BY <2>1, <2>2, <2>3, <2>4 DEF Return
<1>3. \A op \in CallOps, pc \in CallPcs, new \in Thread \cup {NULL} : Call(op, pc, new, -1) \in CallType
  BY DEF Call, CallType
<1>4. ASSUME call' \in [Thread -> CallType], UNCHANGED <<tableVars, pageTables, space, pid, contextVars>>
      PROVE  ProcessTypes'
  BY <1>0, <1>4 DEF ProcessTypes, tableVars, contextVars
<1>5. CASE Idles
  BY <1>0, <1>4, <1>5 DEF Idles
<1>6. CASE MovesOn \/ TurnedAway \/ LeavesLast
  BY <1>4, <1>6 DEF MovesOn, TurnedAway, LeavesLast, Moves
<1>7. CASE LeavesOthers
  <2>1. PICK p : p = pid[currentThread]
    OBVIOUS
  <2>2. /\ Here.pc = "get" /\ Get(p) # NULL /\ Goto("finish")
        /\ UNCHANGED <<map, pageTables, space, pid, contextVars>>
        /\ table' = [table EXCEPT ![p] = Process(table[p].activeThreadCount - 1,
                                                 table[p].inactiveThreadCount + 1)]
    BY <1>7, <2>1 DEF LeavesOthers, At
  <2>3. p \in Slot /\ table[p] \in Stored
    BY <2>2, KnownProcess
  <2>4. table' \in [Slot -> Entry]
    <3>1. PICK e : e = Process(table[p].activeThreadCount - 1, table[p].inactiveThreadCount + 1)
      OBVIOUS
    <3>2. e \in Entry
      BY <2>3, <3>1, StoredEntry, SMT
    <3> QED BY <1>0, <2>2, <3>1, <3>2
  <2> QED
    BY <1>0, <1>1, <1>2, <2>2, <2>4 DEF ProcessTypes, contextVars
<1>8. CASE Clears
  <2>1. /\ map' \subseteq Slot /\ Goto("finish")
        /\ UNCHANGED <<pageTables, space, pid, contextVars>>
    BY <1>0, <1>8 DEF Clears
  <2>2. table' \in [Slot -> Entry]
    BY <1>0, <1>8, StoredEntry DEF Clears
  <2> QED
    BY <1>0, <1>1, <1>2, <2>1, <2>2 DEF ProcessTypes, contextVars
<1>9. CASE Ends
  BY <1>1, <1>2, <1>3, <1>4, <1>9 DEF Ends, Gone
<1>10. CASE StartLoads
  <2>1. PICK e : pageTables' = Append(pageTables, e)
    BY <1>10 DEF StartLoads
  <2>2. IsSequence(pageTables')
    BY <1>0, <2>1, SequenceGrows
  <2>3. space' \in [Thread -> Nat]
    BY <1>0, <1>10, SMT DEF StartLoads
  <2> QED
    BY <1>0, <1>1, <1>2, <1>10, <2>2, <2>3 DEF StartLoads, ProcessTypes, tableVars, contextVars
<1>11. CASE Marked("Start") \/ Marked("Exec")
  <2>1. PICK i : i = Find(map, TableSize)
    OBVIOUS
  <2>2. /\ map' = IF i = -1 THEN map ELSE map \cup {i}
        /\ call' = [call EXCEPT ![currentThread].pc = "store", ![currentThread].slot = i]
        /\ UNCHANGED <<table, pageTables, space, pid, contextVars>>
    BY <1>11, <2>1 DEF Marked
  <2>3. i \in Slot \cup {-1}
    BY <1>0, <2>1, FindSlot
  <2>4. call' \in [Thread -> CallType] /\ map' \subseteq Slot
    BY <1>0, <1>1, <1>2, <2>2, <2>3
  <2> QED
    BY <1>0, <2>2, <2>4 DEF ProcessTypes, contextVars
<1>12. ASSUME table' = [table EXCEPT ![Here.slot] = Process(1, 0)] PROVE table' \in [Slot -> Entry]
  <2>1. Process(1, 0) \in Entry
    BY StoredEntry, SMT
  <2> QED BY <1>0, <1>12, <2>1
<1>13. CASE StartStores
  BY <1>0, <1>2, <1>12, <1>13 DEF StartStores, ProcessTypes
<1>14. CASE ExecStores
  <2>1. PICK n \in Thread : n = Here.new
    BY <1>14, ExecChild
  <2>2. call' = [call EXCEPT ![currentThread].pc = "fork", ![n] = Call("newProcess", "start", NULL, -1)]
    BY <1>14, <2>1 DEF ExecStores
  <2>3. call' \in [Thread -> CallType]
    <3>1. PICK b \in CallType : b = Call("newProcess", "start", NULL, -1)
      BY <1>1, <1>3
    <3>2. call' = [call EXCEPT ![currentThread].pc = "fork", ![n] = b]
      BY <2>2, <3>1
    <3> QED BY <1>0, <1>1, <3>2 DEF CallType
  <2>4. Here.slot \in Int
    BY <1>0, SMT DEF CallType, Slot
  <2>5. pid' \in [Thread -> Int]
    BY <1>0, <1>14, <2>4 DEF ExecStores
  <2> QED
    BY <1>0, <1>12, <1>14, <2>3, <2>5 DEF ExecStores, ProcessTypes, contextVars
<1>15. CASE Forks
  <2>1. call' \in [Thread -> CallType]
    BY <1>1, <1>2, <1>15 DEF Forks
  <2> QED BY <1>4, <1>15, <2>1 DEF Forks
<1>16. CASE Begins
  BY <1>0, <1>2, <1>16 DEF Begins, ProcessTypes, tableVars
<1>17. CASE Switch
  <2>1. UNCHANGED <<tableVars, pageTables, space, pid, call>>
    BY <1>17 DEF Switch, memoryVars
  <2>2. userRegisters' \in [Thread -> Thread]
    BY <1>0, <1>17 DEF Switch, SwitchContext
  <2>3. regs' \in Thread
    BY <1>0, <1>17, <2>2 DEF Switch, SwitchContext
  <2> QED
    BY <1>0, <2>1, <2>2, <2>3 DEF ProcessTypes, tableVars
<1>18. ASSUME NEW t \in Thread, ExecLoads(t) PROVE ProcessTypes'
  <2>1. PICK e : pageTables' = Append(pageTables, e)
    BY <1>18 DEF ExecLoads
  <2>2. IsSequence(pageTables')
    BY <1>0, <2>1, SequenceGrows
  <2>3. space' \in [Thread -> Nat]
    BY <1>0, <1>18, SMT DEF ExecLoads
  <2>4. call' \in [Thread -> CallType]
    BY <1>1, <1>2, <1>3, <1>18 DEF ExecLoads
  <2> QED
    BY <1>0, <1>18, <2>2, <2>3, <2>4 DEF ExecLoads, ProcessTypes, tableVars, contextVars
<1>19. ASSUME NEW t \in Thread, ForkGets(t) PROVE ProcessTypes'
  <2>1. PICK p : p = pid[currentThread]
    OBVIOUS
  <2>2. /\ Here.pc = "get" /\ Get(p) # NULL
        /\ table' = [table EXCEPT ![p].activeThreadCount = @ + 1]
    BY <1>19, <2>1 DEF ForkGets, At
  <2>3. p \in Slot /\ table[p] \in Stored
    BY <2>2, KnownProcess
  <2>4. [table[p] EXCEPT !.activeThreadCount = @ + 1] \in Stored
    BY <2>3, SMT DEF Stored
  <2>5. table' \in [Slot -> Entry]
    BY <1>0, <2>2, <2>4, StoredEntry
  <2>6. space' \in [Thread -> Nat] /\ pid' \in [Thread -> Int]
    BY <1>0, <1>19 DEF ForkGets
  <2>7. call' \in [Thread -> CallType]
    BY <1>0, <1>1, <1>3, <1>19 DEF ForkGets
  <2> QED
    BY <1>0, <1>19, <2>5, <2>6, <2>7 DEF ForkGets, ProcessTypes, contextVars
<1> QED
  BY <1>5, <1>6, <1>7, <1>8, <1>9, <1>10, <1>11, <1>13, <1>14, <1>15, <1>16, <1>17, <1>18, <1>19 DEF StepKind

----------------------------------------------------------------------------
(* The counts.                                                             *)
Counted(t) == call[t].pc \notin {"gone", "finish"} /\ call[t].op # "Start"

Leaving(t) == call[t].op = "Exit" /\ call[t].pc \in {"remove", "clear"}

(* ThreadCounts for process i, without arithmetic where there is none.     *)
Accounted(i) ==
    /\ Members(i) = {} <=> Get(i) \in {NULL, Junk}
    /\ Members(i) # {} => Get(i).activeThreadCount = Cardinality(Members(i))

LEMMA SomeThreads ==
    ASSUME NEW S \in SUBSET Thread
    PROVE  IsFiniteSet(S) /\ Cardinality(S) \in Nat /\ (Cardinality(S) > 0 <=> S # {})
<1>1. IsFiniteSet(S)
  BY FS_Subset, SynchAssumption DEF SynchAssumption
<1> QED BY <1>1, FS_CardinalityType, FS_EmptySet, SMT

LEMMA CountsMean ==
    Counts <=> (~astray => /\ \A i \in Slot : Accounted(i)
                           /\ LastOut
                           /\ call[Main].op = "Start" => pid[Main] = 0)
<1>1. ASSUME NEW i \in Slot
      PROVE  Accounted(i) <=>
                LET n == Cardinality({t \in Thread : Member(t, i)})
                IN  /\ n > 0 <=> Get(i) \notin {NULL, Junk}
                    /\ n > 0 => Get(i).activeThreadCount = n
  <2>1. Members(i) = {t \in Thread : Member(t, i)} /\ Members(i) \in SUBSET Thread
    BY DEF Members
  <2>2. Cardinality(Members(i)) \in Nat /\ (Cardinality(Members(i)) > 0 <=> Members(i) # {})
    BY <2>1, SomeThreads
  <2> QED BY <2>1, <2>2 DEF Accounted
<1>2. ThreadCounts <=> (~astray => \A i \in Slot : Accounted(i))
  BY <1>1 DEF ThreadCounts
<1> QED BY <1>2 DEF Counts

LEMMA CountsMeanNext ==
    Counts' <=> (~astray' => /\ \A i \in Slot : Accounted(i)'
                             /\ LastOut'
                             /\ call'[Main].op = "Start" => pid'[Main] = 0)
<1>1. ASSUME NEW i \in Slot
      PROVE  Accounted(i)' <=>
                LET n == Cardinality({t \in Thread : Member(t, i)'})
                IN  /\ n > 0 <=> Get(i)' \notin {NULL, Junk}
                    /\ n > 0 => Get(i)'.activeThreadCount = n
  <2>1. Members(i)' = {t \in Thread : Member(t, i)'} /\ Members(i)' \in SUBSET Thread
    BY DEF Members
  <2>2. Cardinality(Members(i)') \in Nat /\ (Cardinality(Members(i)') > 0 <=> Members(i)' # {})
    BY <2>1, SomeThreads
  <2> QED BY <2>1, <2>2 DEF Accounted
<1>2. ThreadCounts' <=> (~astray' => \A i \in Slot : Accounted(i)')
  BY <1>1 DEF ThreadCounts
<1> QED BY <1>2 DEF Counts

(* Most steps change neither the table nor who is counted.                 *)
LEMMA SameCounts ==
    ASSUME Counts, astray => astray', UNCHANGED <<map, table, pid>>,
           \A t \in Thread : Counted(t)' <=> Counted(t),
           \A t \in Thread : Leaving(t)' => Leaving(t) \/ astray \/ Members(pid[t]) = {t},
           call'[Main].op = "Start" => call[Main].op = "Start"
    PROVE  Counts'
<1>1. \A i : Members(i)' = Members(i)
  BY DEF Members, Member, Counted
<1>2. \A i \in Slot : Get(i)' = Get(i)
  BY DEF Get
<1> SUFFICES ASSUME ~astray'
             PROVE  /\ \A i \in Slot : Accounted(i)'
                    /\ LastOut'
                    /\ call'[Main].op = "Start" => pid'[Main] = 0
  BY CountsMeanNext
<1>3. /\ \A i \in Slot : Accounted(i)
      /\ LastOut
      /\ call[Main].op = "Start" => pid[Main] = 0
      /\ ~astray
  BY CountsMean
<1>4. \A i \in Slot : Accounted(i)'
  BY <1>1, <1>2, <1>3 DEF Accounted
<1>5. LastOut'
  BY <1>1, <1>3 DEF LastOut, Leaving
<1> QED BY <1>3, <1>4, <1>5

(* A process in the table is one whose members are counted.                *)
LEMMA CountedProcess ==
    ASSUME ProcessTypes, Marks, Counts, ~astray, Here.pc # "store", NEW p, Get(p) # NULL
    PROVE  /\ p \in map /\ p \in Slot /\ table[p] \in Stored /\ Get(p) = table[p]
           /\ Members(p) # {} /\ IsFiniteSet(Members(p)) /\ Cardinality(Members(p)) \in Nat
           /\ table[p].activeThreadCount = Cardinality(Members(p))
<1>1. p \in map /\ p \in Slot /\ table[p] \in Stored /\ Get(p) = table[p]
  BY KnownProcess
<1>2. Accounted(p)
  BY <1>1, CountsMean
<1>3. table[p] \notin {NULL, Junk}
  BY <1>1, StoredEntry
<1>4. Members(p) \in SUBSET Thread
  BY DEF Members
<1> QED
  BY <1>1, <1>2, <1>3, <1>4, SomeThreads DEF Accounted

LEMMA StepCounts ==
    ASSUME KernelOK, ProcessTypes, LivesOK, Marks, FirstProcess, Counts, StepKind,
           astray => astray'
    PROVE  Counts'
<1>0. /\ currentThread \in Thread /\ call \in [Thread -> CallType] /\ Main \in Thread
      /\ map \subseteq Slot /\ table \in [Slot -> Entry] /\ pid \in [Thread -> Int]
      /\ -1 \notin Slot
  BY SchedulerAssumption, SMT DEF KernelOK, TypeOK, SchedTypeOK, ProcessTypes, Slot, SchedulerAssumption
<1>1. ASSUME UNCHANGED <<tableVars, pid>>, CallerOnly,
             After.pc \notin {"gone", "finish"} /\ After.op # "Start"
                <=> Here.pc \notin {"gone", "finish"} /\ Here.op # "Start",
             Leaving(currentThread) \/ ~(After.op = "Exit" /\ After.pc \in {"remove", "clear"}),
             After.op = "Start" => Here.op = "Start"
      PROVE  Counts'
  <2>1. \A t \in Thread : /\ Counted(t)' <=> Counted(t)
                          /\ Leaving(t)' => Leaving(t)
                          /\ call'[t].op = "Start" => call[t].op = "Start"
    BY <1>0, <1>1 DEF CallerOnly, After, Here, Counted, Leaving
  <2> QED
    BY <1>0, <1>1, <2>1, SameCounts DEF tableVars
<1>2. CASE Idles \/ Switch
  <2>1. UNCHANGED <<map, table, pid, call>>
    BY <1>2 DEF Idles, Switch, tableVars
  <2>2. \A t \in Thread : (Counted(t)' <=> Counted(t)) /\ (Leaving(t)' <=> Leaving(t))
    BY <2>1 DEF Counted, Leaving
  <2> QED
    BY <2>1, <2>2, SameCounts
<1>3. ASSUME NEW op, NEW pc, NEW op2, NEW pc2, Moves(op, pc, op2, pc2),
             pc \notin {"gone", "finish"}, pc2 \notin {"gone", "finish"},
             op = "Start" <=> op2 = "Start",
             op2 = "Exit" /\ pc2 \in {"remove", "clear"} => op = "Exit" /\ pc = "remove"
      PROVE  Counts'
  <2>1. /\ Here.op = op /\ Here.pc = pc /\ After.op = op2 /\ After.pc = pc2 /\ CallerOnly
        /\ UNCHANGED <<tableVars, pid>>
    BY <1>3 DEF Moves, At
  <2>2. op = "Exit" /\ pc = "remove" => Leaving(currentThread)
    BY <2>1 DEF Leaving, Here
  <2> QED BY <1>1, <1>3, <2>1, <2>2
<1>4. CASE MovesOn \/ TurnedAway
  BY <1>3, <1>4, SMT DEF MovesOn, TurnedAway
<1>5. CASE LeavesLast
  <2>1. PICK p : p = pid[currentThread]
    OBVIOUS
  <2>2. /\ Here.op = "Exit" /\ Here.pc = "get" /\ After.op = "Exit" /\ After.pc = "remove"
        /\ CallerOnly /\ UNCHANGED <<map, table, pid>>
        /\ Get(p) # NULL /\ Get(p).activeThreadCount = 1
    BY <1>5, <2>1 DEF LeavesLast, Moves, At, tableVars, LastThread
  <2>3. currentThread \in Members(p)
    BY <1>0, <2>1, <2>2 DEF Members, Member, Here
  <2>4. ASSUME ~astray PROVE Members(p) = {currentThread}
    <3>1. /\ Cardinality(Members(p)) = 1 /\ IsFiniteSet(Members(p))
      BY <2>2, <2>4, CountedProcess
    <3>2. PICK x : Members(p) = {x}
      BY <3>1, FS_Singleton
    <3> QED BY <2>3, <3>2
  <2>5. \A t \in Thread : /\ Counted(t)' <=> Counted(t)
                          /\ t # currentThread => (Leaving(t)' <=> Leaving(t))
                          /\ call'[t].op = "Start" => call[t].op = "Start"
    BY <1>0, <2>2 DEF CallerOnly, After, Here, Counted, Leaving
  <2>6. \A t \in Thread : Leaving(t)' => Leaving(t) \/ astray \/ Members(pid[t]) = {t}
    BY <2>1, <2>4, <2>5
  <2> QED
    BY <1>0, <2>2, <2>5, <2>6, SameCounts
<1>6. CASE Ends
  <2>1. /\ UNCHANGED <<tableVars, pid>> /\ CallerOnly /\ After = Gone
        /\ Here.pc = "finish" \/ Here.op = "Start"
    BY <1>0, <1>6, CallMove DEF Ends, At
  <2> QED BY <1>1, <2>1, CallFields
<1>7. CASE StartLoads
  BY <1>0, <1>1, <1>7, CallMove DEF StartLoads, At
<1>8. CASE Forks
  <2>1. /\ UNCHANGED <<tableVars, pid>> /\ CallerOnly
        /\ Here.op \in {"Exec", "Fork"} /\ Here.pc = "fork"
        /\ After = User \/ (After.op = "Fork" /\ After.pc = "unlock")
    BY <1>0, <1>8, CallMove DEF Forks, At
  <2> QED BY <1>1, <2>1, CallFields
<1>9. CASE Begins
  <2>1. /\ UNCHANGED <<tableVars, pid>> /\ CallerOnly /\ After = User
        /\ Here.op \in {"newProcess", "kernelRun"} /\ Here.pc = "start"
    BY <1>0, <1>9, CallMove DEF Begins, At
  <2> QED BY <1>1, <2>1, CallFields
<1>10. ASSUME NEW t \in Thread, ExecLoads(t) PROVE Counts'
  <2>1. /\ UNCHANGED <<tableVars, pid>> /\ CallerOnly /\ After = Call("Exec", "put", t, -1)
        /\ Here.op = "Exec" /\ Here.pc = "load"
    BY <1>0, <1>10, CallMove DEF ExecLoads, At
  <2> QED BY <1>1, <2>1, CallFields, SMT
<1>11. ASSUME Marked("Start") \/ Marked("Exec"), ~astray' PROVE Counts'
  <2>1. PICK i : i = Find(map, TableSize)
    OBVIOUS
  <2>2. /\ Here.pc = "find" /\ Here.op \in {"Start", "Exec"}
        /\ map' = IF i = -1 THEN map ELSE map \cup {i}
        /\ call' = [call EXCEPT ![currentThread].pc = "store", ![currentThread].slot = i]
        /\ UNCHANGED <<table, pid>> /\ i # -1
    BY <1>11, <2>1 DEF Marked, At
  <2>3. i \in Slot \ map
    BY <1>0, <2>1, <2>2, FindSlot
  <2>4. CallerOnly /\ After.pc = "store" /\ After.op = Here.op
    BY <1>0, <2>2, CallMove
  <2>5. \A t \in Thread : /\ Counted(t)' <=> Counted(t)
                          /\ Leaving(t)' => Leaving(t)
                          /\ call'[t].op = "Start" => call[t].op = "Start"
    BY <1>0, <2>2, <2>4 DEF CallerOnly, After, Here, Counted, Leaving
  <2>6. \A j : Members(j)' = Members(j)
    BY <2>2, <2>5 DEF Members, Member, Counted
  <2>7. \A j \in Slot : Get(j)' = IF j = i THEN Junk ELSE Get(j)
    BY <2>2, <2>3 DEF Get, Marks
  <2>8. Get(i) = NULL
    BY <2>3 DEF Get
  <2>9. /\ \A j \in Slot : Accounted(j)
        /\ LastOut /\ (call[Main].op = "Start" => pid[Main] = 0)
    BY <1>11, CountsMean
  <2>10. \A j \in Slot : Accounted(j)'
    BY <2>3, <2>6, <2>7, <2>8, <2>9 DEF Accounted
  <2>11. LastOut'
    BY <2>2, <2>5, <2>6, <2>9 DEF LastOut, Leaving
  <2> QED
    BY <1>0, <2>2, <2>5, <2>9, <2>10, <2>11, CountsMeanNext
<1>12. ASSUME StartStores, ~astray' PROVE Counts'
  <2>1. /\ Here.op = "Start" /\ Here.pc = "store" /\ UNCHANGED <<map, pid>>
        /\ table' = [table EXCEPT ![Here.slot] = Process(1, 0)]
        /\ CallerOnly /\ After = User
    BY <1>0, <1>12, CallMove DEF StartStores, At
  <2>2. /\ currentThread = Main /\ Here.slot = 0
        /\ \A t \in Thread \ {currentThread} : call[t] = Gone
    BY <1>0, <2>1 DEF FirstProcess, Here
  <2>3. ~astray /\ (\A j \in Slot : Accounted(j)) /\ pid[Main] = 0
    BY <1>12, <2>1, <2>2, CountsMean DEF Here
  <2>4. 0 \in map
    BY <2>1, <2>2, SMT DEF Marks
  <2>5. \A j : Members(j) = {}
    BY <2>1, <2>2, CallFields, SMT DEF Members, Member, Here
  <2>6. Members(0)' = {Main} /\ \A j \in Slot \ {0} : Members(j)' = {}
    BY <1>0, <2>1, <2>2, <2>3, CallFields, SMT DEF Members, Member, CallerOnly, After
  <2>7. Get(0)' = Process(1, 0) /\ \A j \in Slot \ {0} : Get(j)' = Get(j)
    BY <1>0, <2>1, <2>2, <2>4 DEF Get
  <2>8. Process(1, 0) \notin {NULL, Junk} /\ Process(1, 0).activeThreadCount = 1
    BY StoredEntry, SMT DEF Process
  <2>9. \A j \in Slot : Accounted(j)'
    <3>1. Cardinality({Main}) = 1
      BY FS_Singleton
    <3> QED
      BY <2>3, <2>5, <2>6, <2>7, <2>8, <3>1 DEF Accounted
  <2>10. LastOut' /\ call'[Main].op # "Start"
    BY <1>0, <2>1, <2>2, CallFields, SMT DEF LastOut, CallerOnly, After
  <2> QED
    BY <2>9, <2>10, CountsMeanNext
<1>13. ASSUME ExecStores, ~astray' PROVE Counts'
  <2>0. PICK s : s = Here.slot
    OBVIOUS
  <2>1. PICK n \in Thread : n = Here.new
    BY <1>13, ExecChild
  <2>2. /\ n # currentThread /\ call[n] = Gone
        /\ \A t \in Thread \ {currentThread, n} : call'[t] = call[t]
        /\ After.op = "Exec" /\ After.pc = "fork"
        /\ call'[n] = Call("newProcess", "start", NULL, -1)
        /\ Here.op = "Exec" /\ Here.pc = "store" /\ s # -1
        /\ table' = [table EXCEPT ![s] = Process(1, 0)] /\ pid' = [pid EXCEPT ![n] = s]
        /\ map' = map
    BY <1>13, <2>0, <2>1, ExecChild DEF ExecStores, At
  <2>3. ~astray /\ (\A j \in Slot : Accounted(j)) /\ LastOut
    BY <1>13, CountsMean
  <2>4. s \in map /\ table[s] = Junk /\ s \in Slot
    BY <1>0, <2>0, <2>2 DEF Marks
  <2>5. Members(s) = {}
    BY <2>3, <2>4 DEF Accounted, Get
  <2>6. /\ \A t \in Thread \ {n} : (Counted(t)' <=> Counted(t)) /\ pid'[t] = pid[t]
        /\ Counted(n)' /\ pid'[n] = s /\ ~Counted(n)
    BY <1>0, <2>2, CallFields, SMT DEF Counted, After, Here
  <2>7. \A j : Members(j) = {t \in Thread : pid[t] = j /\ Counted(t)}
    BY DEF Members, Member, Counted
  <2>8. \A j : Members(j)' = {t \in Thread : pid'[t] = j /\ Counted(t)'}
    BY DEF Members, Member, Counted
  <2>9. Members(s)' = {n} /\ \A j \in Slot \ {s} : Members(j)' = Members(j)
    <3>1. Members(s)' = {n}
      BY <2>5, <2>6, <2>7, <2>8
    <3>2. ASSUME NEW j \in Slot \ {s} PROVE Members(j)' = Members(j)
      BY <2>6, <2>7, <2>8, <3>2
    <3> QED BY <3>1, <3>2
  <2>10. Get(s)' = Process(1, 0) /\ \A j \in Slot \ {s} : Get(j)' = Get(j)
    BY <1>0, <2>2, <2>4 DEF Get
  <2>11. Process(1, 0) \notin {NULL, Junk} /\ Process(1, 0).activeThreadCount = 1
    BY StoredEntry, SMT DEF Process
  <2>12. \A j \in Slot : Accounted(j)'
    <3>1. Cardinality({n}) = 1
      BY FS_Singleton
    <3> QED
      BY <2>3, <2>9, <2>10, <2>11, <3>1 DEF Accounted
  <2>13. LastOut'
    <3> SUFFICES ASSUME NEW t \in Thread, Leaving(t)' PROVE Members(pid[t])' = {t}
      BY DEF LastOut, Leaving
    <3>1. t \notin {n, currentThread} /\ Leaving(t)
      BY <2>2, CallFields, SMT DEF Leaving, After
    <3>2. Members(pid[t]) = {t} /\ pid'[t] = pid[t]
      BY <2>3, <2>6, <3>1 DEF LastOut, Leaving
    <3>3. pid[t] # s
      BY <2>5, <3>2
    <3>4. PICK j : j = pid[t]
      OBVIOUS
    <3>5. Members(j)' = {t}
      BY <2>6, <2>7, <2>8, <3>1, <3>2, <3>3, <3>4
    <3> QED BY <3>2, <3>4, <3>5 DEF Members, Member
  <2>14. call'[Main].op = "Start" => pid'[Main] = 0
    <3>1. \A t \in Thread : call[t].op # "Start"
      BY <1>0, <2>2, CallFields, SMT DEF FirstProcess, Here
    <3> QED BY <1>0, <2>2, <3>1, CallFields, SMT DEF After
  <2> QED
    BY <2>12, <2>13, <2>14, CountsMeanNext
<1>14. ASSUME NEW n \in Thread, ForkGets(n), ~astray' PROVE Counts'
  <2>1. PICK p : p = pid[currentThread]
    OBVIOUS
  <2>2. /\ Here.op = "Fork" /\ Here.pc = "get" /\ Get(p) # NULL /\ InCaller /\ Create(n)
        /\ map' = map /\ pid' = [pid EXCEPT ![n] = p]
        /\ table' = [table EXCEPT ![p].activeThreadCount = @ + 1]
    BY <1>14, <2>1 DEF ForkGets, At
  <2>3. n # currentThread /\ call[n] = Gone
    BY <2>2, Newborn
  <2>4. /\ \A t \in Thread \ {currentThread, n} : call'[t] = call[t]
        /\ After = Call("Fork", "fork", n, -1) /\ call'[n] = Call("kernelRun", "start", NULL, -1)
    BY <1>0, <1>14, <2>3, PairMove DEF ForkGets
  <2>5. ~astray /\ (\A j \in Slot : Accounted(j)) /\ LastOut
    BY <1>14, CountsMean
  <2>6. /\ p \in map /\ p \in Slot /\ table[p] \in Stored
        /\ IsFiniteSet(Members(p)) /\ Cardinality(Members(p)) \in Nat
        /\ table[p].activeThreadCount = Cardinality(Members(p))
    BY <2>2, <2>5, CountedProcess
  <2>7. /\ \A t \in Thread \ {n} : (Counted(t)' <=> Counted(t)) /\ pid'[t] = pid[t]
        /\ Counted(n)' /\ pid'[n] = p /\ ~Counted(n) /\ Counted(currentThread)
    BY <1>0, <2>2, <2>3, <2>4, CallFields, SMT DEF Counted, After, Here
  <2>8. \A j : /\ Members(j) = {t \in Thread : pid[t] = j /\ Counted(t)}
              /\ Members(j)' = {t \in Thread : pid'[t] = j /\ Counted(t)'}
    BY DEF Members, Member, Counted
  <2>9. /\ Members(p)' = Members(p) \cup {n} /\ n \notin Members(p)
        /\ \A j : j # p => Members(j)' = Members(j)
        /\ currentThread \in Members(p)
    BY <1>0, <2>1, <2>7, <2>8
  <2>10. /\ table'[p] \in Stored /\ table'[p].activeThreadCount = table[p].activeThreadCount + 1
         /\ \A j \in Slot \ {p} : table'[j] = table[j]
    BY <1>0, <2>2, <2>6, SMT DEF Stored
  <2>11. Get(p)' = table'[p] /\ \A j \in Slot \ {p} : Get(j)' = Get(j)
    BY <2>2, <2>6, <2>10 DEF Get
  <2>12. Accounted(p)'
    <3>1. Cardinality(Members(p)') = Cardinality(Members(p)) + 1
      <4>1. Cardinality(Members(p) \cup {n}) = Cardinality(Members(p)) + 1
        BY <2>6, <2>9, FS_AddElement
      <4> QED BY <2>9, <4>1
    <3>2. Members(p)' # {} /\ Get(p)' \notin {NULL, Junk}
      BY <2>9, <2>10, <2>11, StoredEntry
    <3> QED
      BY <2>6, <2>10, <2>11, <3>1, <3>2 DEF Accounted
  <2>13. \A j \in Slot : Accounted(j)'
    BY <2>5, <2>9, <2>11, <2>12 DEF Accounted
  <2>14. LastOut'
    <3> SUFFICES ASSUME NEW t \in Thread, Leaving(t)' PROVE Members(pid[t])' = {t}
      BY DEF LastOut, Leaving
    <3>1. t \notin {n, currentThread} /\ Leaving(t)
      BY <2>4, CallFields, SMT DEF Leaving, After
    <3>2. Members(pid[t]) = {t} /\ pid'[t] = pid[t]
      BY <2>5, <2>7, <3>1 DEF LastOut, Leaving
    <3>3. pid[t] # p
      BY <2>9, <3>1, <3>2
    <3>4. PICK j : j = pid[t]
      OBVIOUS
    <3>5. Members(j)' = {t}
      BY <2>9, <3>2, <3>3, <3>4
    <3> QED BY <3>2, <3>4, <3>5 DEF Members, Member
  <2>15. call'[Main].op = "Start" => pid'[Main] = 0
    <3>1. \A t \in Thread : call[t].op # "Start"
      BY <1>0, <2>2, CallFields, SMT DEF FirstProcess, Here
    <3> QED BY <1>0, <2>4, <3>1, CallFields, SMT DEF After
  <2> QED
    BY <2>13, <2>14, <2>15, CountsMeanNext
<1>15. ASSUME LeavesOthers \/ Clears, ~astray' PROVE Counts'
  <2>0. PICK c \in Thread : c = currentThread
    BY <1>0
  <2>1. PICK p : p = pid[c]
    OBVIOUS
  <2>2. /\ Here.op = "Exit" /\ Here.pc \in {"get", "clear"} /\ pid' = pid
        /\ CallerOnly /\ After.op = "Exit" /\ After.pc = "finish"
    <3>1. Goto("finish") /\ Here.op = "Exit" /\ Here.pc \in {"get", "clear"} /\ pid' = pid
      BY <1>15 DEF LeavesOthers, Clears, At
    <3> QED BY <1>0, <3>1, CallMove
  <2>3. ~astray /\ (\A j \in Slot : Accounted(j)) /\ LastOut
    BY <1>15, CountsMean
  <2>4. /\ \A t \in Thread \ {c} : (Counted(t)' <=> Counted(t)) /\ (Leaving(t)' <=> Leaving(t))
        /\ ~Counted(c)' /\ ~Leaving(c)' /\ Counted(c)
    BY <1>0, <2>0, <2>2 DEF Counted, Leaving, CallerOnly, After, Here
  <2>5. \A j : /\ Members(j) = {t \in Thread : pid[t] = j /\ Counted(t)}
              /\ Members(j)' = {t \in Thread : pid[t] = j /\ Counted(t)'}
    BY <2>2 DEF Members, Member, Counted
  <2>6. /\ Members(p)' = Members(p) \ {c} /\ c \in Members(p)
        /\ \A j : j # p => Members(j)' = Members(j)
    BY <1>0, <2>1, <2>4, <2>5
  <2>7. Accounted(p)' \/ p \notin Slot
    <3>1. CASE LeavesOthers
      <4>1. /\ Get(p) # NULL /\ Get(p).activeThreadCount # 1 /\ map' = map /\ Here.pc = "get"
            /\ table' = [table EXCEPT ![p] = Process(table[p].activeThreadCount - 1,
                                                     table[p].inactiveThreadCount + 1)]
        BY <2>0, <2>1, <3>1 DEF LeavesOthers, LastThread, At
      <4>2. /\ p \in map /\ p \in Slot /\ table[p] \in Stored /\ Get(p) = table[p]
            /\ IsFiniteSet(Members(p)) /\ Cardinality(Members(p)) \in Nat
            /\ table[p].activeThreadCount = Cardinality(Members(p))
        BY <2>3, <4>1, CountedProcess
      <4>3. Cardinality(Members(p)') = Cardinality(Members(p)) - 1
        <5>1. Cardinality(Members(p) \ {c}) = Cardinality(Members(p)) - 1
          BY <2>6, <4>2, FS_RemoveElement
        <5> QED BY <2>6, <5>1
      <4>4. Members(p)' # {}
        <5>1. Members(p)' = {} => Members(p) = {c}
          BY <2>6
        <5> QED BY <4>1, <4>2, <5>1, FS_Singleton
      <4>5. /\ table'[p] = Process(table[p].activeThreadCount - 1, table[p].inactiveThreadCount + 1)
            /\ table'[p] \in Stored /\ Get(p)' = table'[p]
        BY <1>0, <4>1, <4>2, StoredEntry, SMT DEF Get
      <4>6. table'[p].activeThreadCount = Cardinality(Members(p)')
        <5>1. table'[p].activeThreadCount = table[p].activeThreadCount - 1
          BY <4>5, ProcessFields, SMT
        <5> QED BY <4>2, <4>3, <5>1, ZenonT(30)
      <4> QED
        BY <4>4, <4>5, <4>6, StoredEntry DEF Accounted
    <3>2. CASE Clears
      <4>1. p \notin map' /\ Leaving(c)
        BY <2>0, <2>1, <3>2 DEF Clears, At, Leaving, Here
      <4>2. Members(p) = {c}
        BY <1>0, <2>1, <2>3, <4>1 DEF LastOut, Leaving
      <4>3. Get(p)' = NULL /\ Members(p)' = {}
        BY <2>6, <4>1, <4>2 DEF Get
      <4> QED BY <4>3 DEF Accounted
    <3> QED BY <1>15, <3>1, <3>2
  <2>8. \A j \in Slot \ {p} : Get(j)' = Get(j)
    BY <1>0, <1>15, <2>0, <2>1 DEF LeavesOthers, Clears, Get
  <2>9. \A j \in Slot : Accounted(j)'
    BY <2>3, <2>6, <2>7, <2>8 DEF Accounted
  <2>10. LastOut'
    <3> SUFFICES ASSUME NEW t \in Thread, Leaving(t)' PROVE Members(pid[t])' = {t}
      BY DEF LastOut, Leaving
    <3>1. t # c /\ Leaving(t)
      BY <2>4
    <3>2. Members(pid[t]) = {t}
      BY <2>3, <3>1 DEF LastOut, Leaving
    <3>3. pid[t] # p
      BY <2>6, <3>1, <3>2, ZenonT(30)
    <3>4. PICK j : j = pid[t]
      OBVIOUS
    <3>5. Members(j)' = {t}
      BY <2>6, <3>2, <3>3, <3>4, ZenonT(30)
    <3> QED BY <2>2, <3>4, <3>5 DEF Members, Member
  <2>11. call'[Main].op = "Start" => pid'[Main] = 0
    <3>1. \A t \in Thread : call[t].op # "Start"
      BY <1>0, <2>2, CallFields, SMT DEF FirstProcess, Here
    <3> QED BY <1>0, <2>2, <3>1 DEF CallerOnly, After
  <2> QED
    BY <2>9, <2>10, <2>11, CountsMeanNext
<1>16. CASE astray'
  BY <1>16, CountsMeanNext
<1> QED
  BY <1>2, <1>4, <1>5, <1>6, <1>7, <1>8, <1>9, <1>10, <1>11, <1>12, <1>13, <1>14, <1>15, <1>16 DEF StepKind

----------------------------------------------------------------------------
(* The invariant.                                                          *)
LEMMA InitInv == ASSUME Init_Process PROVE IInv
<1>1. KernelOK
  BY InitType, InitPlaces DEF Init_Process, KernelOK
<1>2. /\ Main \in Thread /\ currentThread = Main
      /\ map = {} /\ table = [i \in Slot |-> Junk] /\ pageTables = <<>>
      /\ space = [t \in Thread |-> 0]
      /\ astray = (pid[Main] # 0) /\ astray \in BOOLEAN
      /\ regs = Main /\ userRegisters = [t \in Thread |-> Main]
      /\ call = [t \in Thread |-> IF t = Main THEN Call("Start", "load", NULL, -1) ELSE Gone]
  BY SchedulerAssumption DEF Init_Process, Init, SchedInit, SchedulerAssumption
<1>3. /\ call[Main] = Call("Start", "load", NULL, -1)
      /\ \A t \in Thread \ {Main} : call[t] = Gone
  BY <1>2
<1>4. /\ call[Main].op = "Start" /\ call[Main].pc = "load"
      /\ \A t \in Thread \ {Main} : call[t].op = "gone" /\ call[t].pc = "gone"
  BY <1>3, CallFields, SMT
<1>5. ProcessTypes
  <2>1. /\ "Start" \in CallOps /\ "gone" \in CallOps /\ "load" \in CallPcs /\ "gone" \in CallPcs
    BY DEF CallOps, CallPcs
  <2>2. call \in [Thread -> CallType]
    BY <1>2, <2>1 DEF Gone, Call, CallType
  <2>3. PICK p \in StalePid : pid = [t \in Thread |-> p]
    BY DEF Init_Process
  <2>4. table \in [Slot -> Entry]
    BY <1>2, StoredEntry
  <2>5. pid \in [Thread -> Int]
    BY <2>3
  <2>6. IsSequence(pageTables)
    <3>1. pageTables \in Seq({})
      BY <1>2, SMT
    <3> QED BY <3>1 DEF IsSequence
  <2> QED
    BY <1>2, <2>2, <2>4, <2>5, <2>6 DEF ProcessTypes
<1>6. status = [t \in Thread |-> IF t = Main THEN "RUNNING" ELSE "FREE"]
      /\ frame[Main].op = "run"
  BY <1>2, PlainFrame DEF Init_Process, Init, SchedInit
<1>7. Lives
  BY <1>2, <1>3, <1>4, <1>6, SMT DEF Lives, Unborn, Begun
<1>8. Children /\ Poised
  BY <1>2, <1>4, SMT DEF Children, Holding, Poised
<1>9. Marks
  BY <1>2, <1>4 DEF Marks, Here
<1>10. Contexts /\ FirstProcess
  BY <1>2, <1>3, <1>4 DEF Contexts, FirstProcess
<1>11. Counts
  <2>1. \A i : Members(i) = {}
    BY <1>4 DEF Members, Member
  <2>2. \A i \in Slot : Accounted(i)
    BY <1>2, <2>1 DEF Accounted, Get
  <2>3. LastOut
    BY <1>4 DEF LastOut
  <2> QED BY <1>2, <2>2, <2>3, CountsMean
<1> QED
  BY <1>1, <1>5, <1>7, <1>8, <1>9, <1>10, <1>11 DEF IInv

LEMMA StepInv == ASSUME IInv, [Next_Process]_allVars PROVE IInv'
<1>1. StepKind /\ (astray => astray') /\ astray' \in BOOLEAN
  BY StepEffect, StepAstray DEF IInv, ProcessTypes
<1>2. KernelOK'
  BY StepKernel DEF IInv
<1>3. LivesOK /\ LivesOK'
  BY <1>1, StepLives DEF IInv, LivesOK
<1>4. ProcessTypes'
  BY <1>1, <1>2, <1>3, StepTypes DEF IInv
<1>5. Poised' /\ Marks'
  BY <1>1, <1>2, <1>3, StepMarks DEF IInv
<1>6. Contexts'
  BY <1>1, <1>2, <1>3, StepContexts DEF IInv
<1>7. FirstProcess'
  BY <1>1, <1>3, StepFirst DEF IInv
<1>8. Counts'
  BY <1>1, <1>3, StepCounts DEF IInv
<1> QED
  BY <1>2, <1>3, <1>4, <1>5, <1>6, <1>7, <1>8 DEF IInv, LivesOK

(* The process table counts the threads of every process: Exec, Fork and   *)
(* Exit, however interleaved, for any number of threads and slots, as long *)
(* as the main thread's pid is its process's and the table is not full.    *)
THEOREM ThreadsAreCounted == Spec_Process => []ThreadCounts
<1>1. IInv => ThreadCounts
  BY DEF IInv, Counts
<1> QED
  BY <1>1, InitInv, StepInv, PTL DEF Spec_Process

(* Table::Put: a marked slot whose pointer is not stored yet is seen by no *)
(* thread but the one that stores it next, with interrupts off.            *)
THEOREM MarksAreStored == Spec_Process => []MarkedIsStored
<1>1. IInv => MarkedIsStored
  <2> SUFFICES ASSUME IInv, NEW i \in map, table[i] = Junk
               PROVE  Here.pc = "store" /\ Here.slot = i /\ level = "IntOff"
    BY DEF MarkedIsStored
  <2>1. Here.pc = "store" /\ Here.slot = i
    BY DEF IInv, Marks
  <2>2. currentThread \in Thread
    BY DEF IInv, KernelOK, TypeOK, SchedTypeOK
  <2> QED BY <2>1, <2>2 DEF IInv, Poised, Here
<1> QED
  BY <1>1, InitInv, StepInv, PTL DEF Spec_Process

(* Scheduler::Run, newProcess and kernelRun: user code executes at its own *)
(* place, on its own stack and in its own page table, whenever the switches*)
(* fall.  (Its other registers need not be its own: see OwnContext.)       *)
THEOREM ContextsAreOwn == Spec_Process => []OwnContext
<1>1. IInv => OwnContext
  <2> SUFFICES ASSUME IInv, InUser PROVE regs = currentThread /\ pageTable = space[currentThread]
    BY DEF OwnContext
  <2>1. currentThread \in Thread /\ call[currentThread].op = "user"
    BY CallFields DEF IInv, KernelOK, TypeOK, SchedTypeOK, InUser, Here
  <2> QED BY <2>1 DEF IInv, Contexts
<1> QED
  BY <1>1, InitInv, StepInv, PTL DEF Spec_Process

(* The kernel below the handlers: a thread is on one list at a time, and   *)
(* what Run deletes is a finished thread, although the handlers leave      *)
(* interrupts off, create threads and keep them, and halt.                 *)
THEOREM ProcessesKeepPlaces == Spec_Process => [](OnePlace /\ CarcassIsDead)
<1>1. IInv => OnePlace /\ CarcassIsDead
  BY DEF IInv, KernelOK, Places
<1> QED
  BY <1>1, InitInv, StepInv, PTL DEF Spec_Process
==============================================================================
