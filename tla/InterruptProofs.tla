--------------------------- MODULE InterruptProofs ---------------------------
(***************************************************************************)
(* Proofs about the interrupt hardware, for any number of threads, any     *)
(* delays and any length of a tick: the statistics account for all of the  *)
(* time, every thread runs in its own mode, no request for a yield is kept,*)
(* and nothing is due while interrupts are on.                             *)
(***************************************************************************)
EXTENDS Interrupts, FiniteSetTheorems, SequenceTheorems, WellFoundedInduction, TLAPS

USE Zenon

Entry ==
    [type : {"Timer"}, when : Nat, arg : {NULL}] \cup [type : {"Device"}, when : Nat, arg : Thread]

Stats == [totalTicks : Nat, idleTicks : Nat, systemTicks : Nat, userTicks : Nat]

Sorted(q) == \A i, j \in DOMAIN q : i <= j => q[i].when <= q[j].when

(* Where a thread is when interrupts are off whatever it did before.       *)
OffPlaces == {"tick", "resume", "asleep", "finished", "idle", "idle finished"}

Types ==
    /\ currentThread \in Thread
    /\ readyList \in Seq(Thread)
    /\ stats \in Stats
    /\ where \in [Thread -> OffPlaces \cup {"kernel", "user", "yield"}]
    /\ code \in [Thread -> {"user", "kernel"}]
    /\ old \in [Thread -> {"SystemMode", "UserMode"}]
    /\ oldLevel \in [Thread -> {"IntOn", "IntOff"}]
    /\ level \in {"IntOn", "IntOff"}
    /\ halted \in BOOLEAN /\ yieldOnReturn \in BOOLEAN

(* The status and the level at each place, and that a machine that halted  *)
(* stays where it was.                                                     *)
Modes ==
    /\ Where = "user" => status = "UserMode"
    /\ Where \in {"kernel", "resume", "yield"} => status = "SystemMode"
    /\ Where \in {"asleep", "finished"} /\ ~halted => status = "SystemMode"
    /\ Where \in OffPlaces => level = "IntOff"
    /\ halted => Where \in {"asleep", "finished"}

(* A thread that is not executing its code has saved the mode of that code,*)
(* and only the current thread executes its code.                          *)
ModeOf(c) == IF c = "user" THEN "UserMode" ELSE "SystemMode"

Saved ==
    \A t \in Thread :
        /\ IF where[t] \in {"user", "kernel"} THEN code[t] = where[t]
           ELSE old[t] = ModeOf(code[t])
        /\ t # currentThread => where[t] \notin {"user", "kernel"}
----------------------------------------------------------------------------
LEMMA LeastPlace ==
    ASSUME NEW S \in SUBSET Nat, S # {}
    PROVE  Min(S) \in S /\ \A y \in S : Min(S) <= y
<1>1. OpToRel(<, Nat) = {ss \in Nat \X Nat : ss[1] < ss[2]}
  BY DEF OpToRel
<1>2. \E x \in S : \A y \in S : ~(<<y, x>> \in OpToRel(<, Nat))
  BY NatLessThanWellFounded, WFMin
<1>3. \E x \in S : \A y \in S : ~(<<y, x>> \in {ss \in Nat \X Nat : ss[1] < ss[2]})
  BY <1>1, <1>2
<1>4. PICK x \in S : \A y \in S : ~(<<y, x>> \in {ss \in Nat \X Nat : ss[1] < ss[2]})
  BY <1>3
<1>5. ASSUME NEW y \in S PROVE x <= y
  <2>1. x \in Nat /\ y \in Nat
    OBVIOUS
  <2>2. y < x => <<y, x>> \in {ss \in Nat \X Nat : ss[1] < ss[2]}
    BY <2>1
  <2>3. ~(y < x)
    BY <1>4, <2>2
  <2> QED BY <2>1, <2>3, SMT
<1> QED BY <1>5 DEF Min

LEMMA EntryWhen == \A e \in Entry : e.when \in Nat
BY DEF Entry

(* What SortedInsert returns: the new element between two parts of the old *)
(* list, none of the first due later and none of the second due no later.  *)
LEMMA InsertPlace ==
    ASSUME NEW q \in Seq(Entry), NEW e \in Entry, Sorted(q)
    PROVE  \E p \in 1 .. Len(q) + 1 :
              /\ SortedInsert(q, e) = [i \in 1 .. Len(q) + 1 |->
                    IF i < p THEN q[i] ELSE IF i = p THEN e ELSE q[i - 1]]
              /\ \A i \in 1 .. p - 1 : q[i].when <= e.when
              /\ \A i \in p .. Len(q) : e.when < q[i].when
<1>1. e.when \in Nat /\ \A i \in 1 .. Len(q) : q[i] \in Entry /\ q[i].when \in Nat
  BY EntryWhen, SMT
<1> DEFINE later == {i \in DOMAIN q : e.when < q[i].when}
           p == IF later = {} THEN Len(q) + 1 ELSE Min(later)
<1>2. later \in SUBSET Nat
  BY SMT
<1>3. CASE later = {}
  <2>1. p = Len(q) + 1 /\ \A i \in 1 .. Len(q) : q[i].when <= e.when
    BY <1>1, <1>3, SMT
  <2>2. SortedInsert(q, e) = InsertAt(q, p, e)
    BY DEF SortedInsert
  <2> HIDE DEF p, later
  <2>3. InsertAt(q, p, e) = [i \in 1 .. Len(q) + 1 |->
            IF i < p THEN q[i] ELSE IF i = p THEN e ELSE q[i - 1]]
    BY <2>1, SMT DEF InsertAt
  <2>4. p \in 1 .. Len(q) + 1 /\ \A i \in 1 .. p - 1 : q[i].when <= e.when
    BY <2>1, SMT
  <2>5. \A i \in p .. Len(q) : e.when < q[i].when
    BY <2>1, SMT
  <2> QED BY <2>2, <2>3, <2>4, <2>5
<1>4. CASE later # {}
  <2>1. p \in later /\ \A i \in later : p <= i
    BY <1>2, <1>4, LeastPlace
  <2>2. p \in 1 .. Len(q) /\ \A i \in 1 .. p - 1 : q[i].when <= e.when
    <3>1. p \in 1 .. Len(q) /\ \A i \in 1 .. Len(q) : e.when < q[i].when => p <= i
      BY <2>1, SMT
    <3> HIDE DEF p, later
    <3> QED BY <1>1, <3>1, SMT
  <2>3. \A i \in p .. Len(q) : e.when < q[i].when
    BY <1>1, <2>1, <2>2, SMT DEF Sorted
  <2>4. SortedInsert(q, e) = InsertAt(q, p, e)
    BY DEF SortedInsert
  <2> HIDE DEF p, later
  <2>5. InsertAt(q, p, e) = [i \in 1 .. Len(q) + 1 |->
            IF i < p THEN q[i] ELSE IF i = p THEN e ELSE q[i - 1]]
    BY <2>2, SMT DEF InsertAt
  <2>6. p \in 1 .. Len(q) + 1
    BY <2>2, SMT
  <2> QED BY <2>2, <2>3, <2>4, <2>5, <2>6
<1> QED BY <1>3, <1>4

(* SortedInsert keeps a list sorted and adds one element.                  *)
LEMMA InsertSorted ==
    ASSUME NEW q \in Seq(Entry), NEW e \in Entry, Sorted(q)
    PROVE  /\ SortedInsert(q, e) \in Seq(Entry)
           /\ Sorted(SortedInsert(q, e))
<1>1. PICK p \in 1 .. Len(q) + 1 :
              /\ SortedInsert(q, e) = [i \in 1 .. Len(q) + 1 |->
                    IF i < p THEN q[i] ELSE IF i = p THEN e ELSE q[i - 1]]
              /\ \A i \in 1 .. p - 1 : q[i].when <= e.when
              /\ \A i \in p .. Len(q) : e.when < q[i].when
  BY InsertPlace
<1>2. e.when \in Nat /\ \A i \in 1 .. Len(q) : q[i] \in Entry /\ q[i].when \in Nat
  BY EntryWhen, SMT
<1>3. \A i, j \in 1 .. Len(q) : i <= j => q[i].when <= q[j].when
  BY SMT DEF Sorted
<1>4. SortedInsert(q, e) \in Seq(Entry)
  BY <1>1, <1>2, SMT
<1>5. \A i, j \in 1 .. Len(q) + 1 : i <= j =>
            SortedInsert(q, e)[i].when <= SortedInsert(q, e)[j].when
  <2> SUFFICES ASSUME NEW i \in 1 .. Len(q) + 1, NEW j \in 1 .. Len(q) + 1, i <= j
               PROVE  SortedInsert(q, e)[i].when <= SortedInsert(q, e)[j].when
    OBVIOUS
  <2> DEFINE s == SortedInsert(q, e)
  <2>1. \A k \in 1 .. Len(q) + 1 :
            s[k] = IF k < p THEN q[k] ELSE IF k = p THEN e ELSE q[k - 1]
    BY <1>1
  <2> HIDE DEF s
  <2>2. CASE j < p
    <3>1. s[i] = q[i] /\ s[j] = q[j] /\ i \in 1 .. Len(q) /\ j \in 1 .. Len(q)
      BY <2>1, <2>2, SMT
    <3> QED BY <1>3, <3>1 DEF s
  <2>3. CASE j = p
    <3>1. s[j] = e /\ (i < p => s[i] = q[i] /\ i \in 1 .. p - 1) /\ (i = p => s[i] = e)
      BY <2>1, <2>3, SMT
    <3> QED BY <1>1, <1>2, <2>3, <3>1, SMT DEF s
  <2>4. CASE j > p
    <3>1. s[j] = q[j - 1] /\ j - 1 \in p .. Len(q) /\ j - 1 \in 1 .. Len(q)
      BY <2>1, <2>4, SMT
    <3>2. CASE i < p
      <4>1. s[i] = q[i] /\ i \in 1 .. Len(q) /\ i <= j - 1
        BY <2>1, <2>4, <3>2, SMT
      <4> QED BY <1>3, <3>1, <4>1 DEF s
    <3>3. CASE i = p
      <4>1. s[i] = e /\ e.when < q[j - 1].when
        BY <1>1, <2>1, <3>1, <3>3, SMT
      <4> QED BY <1>2, <3>1, <4>1, SMT DEF s
    <3>4. CASE i > p
      <4>1. s[i] = q[i - 1] /\ i - 1 \in 1 .. Len(q) /\ i - 1 <= j - 1
        BY <2>1, <3>4, SMT
      <4> QED BY <1>3, <3>1, <4>1 DEF s
    <3> QED BY <3>2, <3>3, <3>4, SMT
  <2> QED BY <2>2, <2>3, <2>4, SMT
<1>6. DOMAIN SortedInsert(q, e) = 1 .. Len(q) + 1
  BY <1>1
<1> QED BY <1>4, <1>5, <1>6 DEF Sorted

(* ... and adds nothing else and loses nothing.                            *)
LEMMA InsertKeeps ==
    ASSUME NEW q \in Seq(Entry), NEW e \in Entry, Sorted(q)
    PROVE  ToSet(q) \cup {e} \subseteq ToSet(SortedInsert(q, e))
<1>0. PICK p \in 1 .. Len(q) + 1 :
              /\ SortedInsert(q, e) = [i \in 1 .. Len(q) + 1 |->
                    IF i < p THEN q[i] ELSE IF i = p THEN e ELSE q[i - 1]]
              /\ \A i \in 1 .. p - 1 : q[i].when <= e.when
              /\ \A i \in p .. Len(q) : e.when < q[i].when
  BY InsertPlace
<1> DEFINE s == SortedInsert(q, e)
<1>1. s = [i \in 1 .. Len(q) + 1 |->
            IF i < p THEN q[i] ELSE IF i = p THEN e ELSE q[i - 1]]
  BY <1>0
<1> HIDE DEF s
<1>2. s[p] = e /\ DOMAIN s = 1 .. Len(q) + 1
  BY <1>1, SMT
<1>3. ASSUME NEW i \in 1 .. Len(q) PROVE \E j \in DOMAIN s : s[j] = q[i]
  <2>1. CASE i < p
    <3>1. i \in DOMAIN s /\ s[i] = q[i]
      BY <1>1, <2>1, SMT
    <3> QED BY <3>1
  <2>2. CASE ~(i < p)
    <3>1. i + 1 \in DOMAIN s /\ ~(i + 1 < p) /\ i + 1 # p
      BY <1>1, <2>2, SMT
    <3>2. s[i + 1] = q[(i + 1) - 1]
      BY <1>1, <3>1
    <3>3. s[i + 1] = q[i]
      BY <3>2, SMT
    <3> QED BY <3>1, <3>3
  <2> QED BY <2>1, <2>2
<1> QED BY <1>2, <1>3, SMT DEF ToSet, s

LEMMA InsertElements ==
    ASSUME NEW q \in Seq(Entry), NEW e \in Entry, Sorted(q)
    PROVE  ToSet(SortedInsert(q, e)) \subseteq ToSet(q) \cup {e}
<1>1. PICK p \in 1 .. Len(q) + 1 :
              /\ SortedInsert(q, e) = [i \in 1 .. Len(q) + 1 |->
                    IF i < p THEN q[i] ELSE IF i = p THEN e ELSE q[i - 1]]
              /\ \A i \in 1 .. p - 1 : q[i].when <= e.when
              /\ \A i \in p .. Len(q) : e.when < q[i].when
  BY InsertPlace
<1> SUFFICES ASSUME NEW i \in 1 .. Len(q) + 1
             PROVE  SortedInsert(q, e)[i] \in ToSet(q) \cup {e}
  BY <1>1 DEF ToSet
<1>2. CASE i < p
  <2>1. SortedInsert(q, e)[i] = q[i] /\ i \in DOMAIN q
    BY <1>1, <1>2, SMT
  <2> QED BY <2>1 DEF ToSet
<1>3. CASE i = p
  BY <1>1, <1>3, SMT
<1>4. CASE i > p
  <2>1. SortedInsert(q, e)[i] = q[i - 1] /\ i - 1 \in DOMAIN q
    BY <1>1, <1>4, SMT
  <2> QED BY <2>1 DEF ToSet
<1> QED BY <1>2, <1>3, <1>4, SMT

LEMMA TailSorted ==
    ASSUME NEW q \in Seq(Entry), q # <<>>, Sorted(q)
    PROVE  Tail(q) \in Seq(Entry) /\ Sorted(Tail(q)) /\ q[1] \in Entry
BY SMT DEF Sorted
----------------------------------------------------------------------------
(* The list of pending interrupts.                                         *)
PendingOK == pending \in Seq(Entry) /\ Sorted(pending)

LEMMA PutBackOK == PendingOK /\ PutBack => PendingOK'
<1> SUFFICES ASSUME PendingOK, PutBack PROVE PendingOK'
  OBVIOUS
<1>1. CASE pending = <<>>
  BY <1>1 DEF PendingOK, PutBack
<1>2. CASE pending # <<>>
  <2>1. pending' = SortedInsert(Tail(pending), pending[1])
    BY <1>2 DEF PutBack
  <2> QED BY <1>2, <2>1, TailSorted, InsertSorted DEF PendingOK
<1> QED BY <1>1, <1>2

(* The handler CheckIfDue calls.                                           *)
LEMMA FireOK ==
    ASSUME PendingOK, pending # <<>>, stats' \in Stats, readyList \in Seq(Thread),
           yieldOnReturn \in BOOLEAN, Fire
    PROVE  PendingOK' /\ readyList' \in Seq(Thread) /\ yieldOnReturn' \in BOOLEAN
<1>1. Tail(pending) \in Seq(Entry) /\ Sorted(Tail(pending)) /\ pending[1] \in Entry
  BY TailSorted DEF PendingOK
<1>2. CASE pending[1].type = "Timer"
  <2>1. PICK d \in TimerDelay :
            pending' = SortedInsert(Tail(pending),
                [type |-> "Timer", when |-> stats'.totalTicks + d, arg |-> NULL])
    BY <1>2 DEF Fire, YieldOnReturn
  <2>2. stats'.totalTicks \in Nat /\ d \in Nat
    BY InterruptsAssumption DEF InterruptsAssumption, Stats
  <2>3. [type |-> "Timer", when |-> stats'.totalTicks + d, arg |-> NULL] \in Entry
    BY <2>2, SMT DEF Entry
  <2>4. PendingOK'
    BY <1>1, <2>1, <2>3, InsertSorted DEF PendingOK
  <2> QED BY <1>2, <2>4 DEF Fire, YieldOnReturn
<1>3. CASE pending[1].type # "Timer"
  <2>1. pending[1].arg \in Thread
    BY <1>1, <1>3 DEF Entry
  <2>2. /\ pending' = Tail(pending)
        /\ readyList' = Append(readyList, pending[1].arg)
        /\ yieldOnReturn' = yieldOnReturn
    BY <1>3 DEF Fire
  <2>3. readyList' \in Seq(Thread)
    BY <2>1, <2>2, SMT
  <2>4. PendingOK'
    BY <1>1, <2>2 DEF PendingOK
  <2> QED BY <2>2, <2>3, <2>4
<1> QED BY <1>2, <1>3

(* The fields of the statistics after some of them were assigned.          *)
LEMMA StatsFields ==
    ASSUME NEW s \in Stats, NEW t \in Nat, NEW n \in Nat
    PROVE  /\ [s EXCEPT !.totalTicks = t, !.systemTicks = n] \in Stats
           /\ [s EXCEPT !.totalTicks = t, !.userTicks = n] \in Stats
           /\ [s EXCEPT !.totalTicks = t, !.idleTicks = n] \in Stats
BY DEF Stats

(* The clock, in OneTick and in Idle.                                      *)
LEMMA ClockOK ==
    ASSUME stats \in Stats
    PROVE  /\ Advance \in Stats /\ (TicksAddUp => (stats' = Advance => TicksAddUp'))
           /\ pending # <<>> /\ pending[1] \in Entry =>
                IdleClock \in Stats /\ (TicksAddUp => (stats' = IdleClock => TicksAddUp'))
<1>1. /\ stats.totalTicks \in Nat /\ stats.idleTicks \in Nat
      /\ stats.systemTicks \in Nat /\ stats.userTicks \in Nat
  BY DEF Stats
<1>2. SystemTick \in Nat /\ UserTick \in Nat
  BY InterruptsAssumption DEF InterruptsAssumption
<1>3. Advance \in Stats
  <2>1. /\ stats.totalTicks + SystemTick \in Nat /\ stats.totalTicks + UserTick \in Nat
        /\ stats.systemTicks + SystemTick \in Nat /\ stats.userTicks + UserTick \in Nat
    BY <1>1, <1>2, SMT
  <2> QED BY <2>1, StatsFields DEF Advance
<1>4. TicksAddUp /\ stats' = Advance => TicksAddUp'
  BY <1>1, <1>2, SMT DEF Advance, Stats, TicksAddUp
<1>5. ASSUME pending # <<>>, pending[1] \in Entry
      PROVE  IdleClock \in Stats /\ (TicksAddUp => (stats' = IdleClock => TicksAddUp'))
  <2> DEFINE skipped == IF pending[1].when > stats.totalTicks
                        THEN pending[1].when - stats.totalTicks ELSE 0
  <2>1. skipped \in Nat
    BY <1>1, <1>5, EntryWhen, SMT
  <2>2. IdleClock = [stats EXCEPT !.totalTicks = @ + skipped, !.idleTicks = @ + skipped]
    BY DEF IdleClock
  <2> HIDE DEF skipped
  <2>3. stats.totalTicks + skipped \in Nat /\ stats.idleTicks + skipped \in Nat
    BY <1>1, <2>1, SMT
  <2>4. IdleClock \in Stats
    BY <2>2, <2>3, StatsFields
  <2>5. TicksAddUp /\ stats' = IdleClock => TicksAddUp'
    BY <1>1, <2>1, <2>2, SMT DEF Stats, TicksAddUp
  <2> QED BY <2>4, <2>5
<1> QED BY <1>3, <1>4, <1>5
----------------------------------------------------------------------------
(* The inductive invariant.                                                *)
Inv == Types /\ Modes /\ Saved /\ PendingOK /\ TicksAddUp /\ YieldNotKept /\ NothingDueWhileOn

LEMMA InitInv == Init => Inv
<1> SUFFICES ASSUME Init PROVE Inv
  OBVIOUS
<1>1. readyList \in Seq(Thread)
  <2>1. IsFiniteSet(Thread \ {Main})
    BY InterruptsAssumption, FS_Difference DEF InterruptsAssumption
  <2>2. Cardinality(Thread \ {Main}) \in Nat
    BY <2>1, FS_CardinalityType
  <2>3. readyList \in [1 .. Cardinality(Thread \ {Main}) -> Thread \ {Main}]
    BY DEF Init, SetToSeqs
  <2>4. readyList \in [1 .. Cardinality(Thread \ {Main}) -> Thread]
    BY <2>3
  <2> QED BY <2>2, <2>4, SeqDef
<1>2. PendingOK
  <2>1. CASE pending = <<>>
    BY <2>1, SMT DEF PendingOK, Sorted
  <2>2. CASE pending # <<>>
    <3>1. PICK d \in TimerDelay : pending = <<[type |-> "Timer", when |-> d, arg |-> NULL]>>
      BY <2>2 DEF Init
    <3>2. [type |-> "Timer", when |-> d, arg |-> NULL] \in Entry
      BY InterruptsAssumption DEF InterruptsAssumption, Entry
    <3>3. pending \in Seq(Entry) /\ DOMAIN pending = {1}
      BY <3>1, <3>2, SMT
    <3>4. pending[1].when \in Nat
      BY <3>3, EntryWhen, SMT
    <3> QED BY <3>3, <3>4, SMT DEF PendingOK, Sorted
  <2> QED BY <2>1, <2>2
<1>3. stats \in Stats /\ TicksAddUp
  BY SMT DEF Init, Stats, TicksAddUp
<1>4. Types
  BY <1>1, <1>3, InterruptsAssumption DEF Types, Init, InterruptsAssumption, OffPlaces
<1>5. Modes /\ YieldNotKept /\ NothingDueWhileOn
  BY InterruptsAssumption
  DEF Init, Modes, YieldNotKept, NothingDueWhileOn, Where, InterruptsAssumption, OffPlaces
<1>6. Saved
  BY DEF Init, Saved, ModeOf
<1> QED BY <1>2, <1>3, <1>4, <1>5, <1>6 DEF Inv

LEMMA GotoWhere ==
    ASSUME Types, NEW step, Goto(step), UNCHANGED currentThread
    PROVE  Where' = step
BY DEF Types, Goto, Where

(* A step of the current thread leaves what the others have saved alone.   *)
LEMMA GotoSaved ==
    ASSUME Types, Saved, NEW step, Goto(step), UNCHANGED currentThread,
           \A t \in Thread \ {currentThread} : code'[t] = code[t] /\ old'[t] = old[t],
           IF step \in {"user", "kernel"} THEN code'[currentThread] = step
           ELSE old'[currentThread] = ModeOf(code'[currentThread])
    PROVE  Saved'
<1>1. PICK c \in Thread : c = currentThread
  BY DEF Types
<1>2. where'[c] = step /\ \A t \in Thread \ {c} : where'[t] = where[t]
  BY <1>1 DEF Types, Goto
<1>3. c = currentThread'
  BY <1>1
<1> QED BY <1>1, <1>2, <1>3 DEF Saved, ModeOf

(* The status OneTick saves is that of the code which called it.           *)
LEMMA StatusSaved ==
    ASSUME Inv, Where \in {"user", "kernel"}, SaveStatus
    PROVE  /\ old' \in [Thread -> {"SystemMode", "UserMode"}]
           /\ \A t \in Thread \ {currentThread} : old'[t] = old[t]
           /\ old'[currentThread] = ModeOf(code[currentThread])
           /\ code[currentThread] = Where
<1>1. code[currentThread] = Where /\ status = ModeOf(Where) /\ currentThread \in Thread
  BY DEF Inv, Types, Modes, Saved, ModeOf, Where
<1>2. status \in {"SystemMode", "UserMode"}
  BY <1>1 DEF ModeOf
<1> QED BY <1>1, <1>2 DEF SaveStatus, Inv, Types

(* OneTick up to its loop: time passes, with interrupts off from then on.  *)
LEMMA OneTickInv ==
    ASSUME Inv, OneTick, ~halted, old' \in [Thread -> {"SystemMode", "UserMode"}],
           \A t \in Thread \ {currentThread} : old'[t] = old[t],
           old'[currentThread] = ModeOf(code[currentThread]), yieldOnReturn = FALSE
    PROVE  Inv'
<1>1. /\ stats' = Advance /\ level' = "IntOff" /\ Goto("tick")
      /\ UNCHANGED <<status, yieldOnReturn, pending, cpuVars, code, oldLevel, halted>>
  BY DEF OneTick
<1>2. Where' = "tick"
  BY <1>1, GotoWhere DEF Inv, cpuVars
<1>3. stats' \in Stats /\ TicksAddUp'
  BY <1>1, ClockOK DEF Inv, Types
<1>4. Types'
  BY <1>1, <1>3 DEF Inv, Types, Goto, cpuVars, OffPlaces
<1>5. PendingOK'
  BY <1>1 DEF Inv, PendingOK
<1>6. Modes' /\ YieldNotKept' /\ NothingDueWhileOn'
  BY <1>1, <1>2 DEF Modes, YieldNotKept, NothingDueWhileOn, OffPlaces
<1>7. Saved'
  BY <1>1, GotoSaved DEF Inv, cpuVars
<1> QED BY <1>3, <1>4, <1>5, <1>6, <1>7 DEF Inv

(* Steps that leave the clock and the list of pending interrupts alone.    *)
LEMMA QuietInv ==
    ASSUME Inv, UNCHANGED <<stats, pending>>, Types', Modes', Saved', YieldNotKept',
           level' = "IntOn" => level = "IntOn"
    PROVE  Inv'
BY DEF Inv, PendingOK, TicksAddUp, NothingDueWhileOn

LEMMA SetLevelInv == ASSUME Inv, ~halted, NEW now \in {"IntOn", "IntOff"}, SetLevel(now) PROVE Inv'
<1>1. Where = "kernel" /\ status = "SystemMode" /\ yieldOnReturn = FALSE
  BY DEF Inv, Modes, SetLevel, YieldNotKept, Idling, Types
<1>2. CASE now = "IntOn" /\ level = "IntOff"
  <2>1. OneTick /\ SaveStatus
    BY <1>2 DEF SetLevel
  <2> QED BY <1>1, <2>1, StatusSaved, OneTickInv
<1>3. CASE ~(now = "IntOn" /\ level = "IntOff")
  <2>1. /\ level' = now
        /\ UNCHANGED <<status, yieldOnReturn, pending, stats, cpuVars, threadVars, halted>>
    BY <1>3 DEF SetLevel
  <2>2. Where' = "kernel"
    BY <1>1, <2>1 DEF Where, cpuVars, threadVars
  <2>3. Types'
    BY <2>1 DEF Inv, Types, cpuVars, threadVars
  <2>4. Modes' /\ Saved' /\ YieldNotKept'
    BY <1>1, <2>1, <2>2 DEF Modes, Saved, YieldNotKept, OffPlaces, Inv, cpuVars, threadVars
  <2>5. CASE level = "IntOn" \/ now = "IntOff"
    BY <2>1, <2>3, <2>4, <2>5, QuietInv
  <2>6. CASE level # "IntOn" /\ now = "IntOn"
    BY <1>3, <2>6 DEF Inv, Types
  <2> QED BY <2>5, <2>6
<1> QED BY <1>2, <1>3

(* A device is asked for something, and the thread is about to sleep.      *)
LEMMA RequestInv == ASSUME Inv, ~halted, NEW d \in DeviceDelay, RequestAndSleep(d) PROVE Inv'
<1>1. /\ pending' = SortedInsert(pending, ToOccur("Device", d, currentThread))
      /\ oldLevel' = [oldLevel EXCEPT ![currentThread] = level]
      /\ level' = "IntOff" /\ Goto("asleep") /\ Where = "kernel" /\ SaveStatus
      /\ UNCHANGED <<status, yieldOnReturn, stats, cpuVars, code, halted>>
  BY DEF RequestAndSleep
<1>2. Where' = "asleep" /\ status = "SystemMode" /\ yieldOnReturn = FALSE
  BY <1>1, GotoWhere DEF Inv, cpuVars, Modes, YieldNotKept, Idling, Types
<1>3. ToOccur("Device", d, currentThread) \in Entry
  <2>1. stats.totalTicks + d \in Nat
    BY InterruptsAssumption, SMT DEF InterruptsAssumption, Inv, Types, Stats
  <2> QED BY <2>1 DEF ToOccur, Entry, Inv, Types
<1>4. PendingOK'
  BY <1>1, <1>3, InsertSorted DEF Inv, PendingOK
<1>5. Types'
  BY <1>1, StatusSaved DEF Inv, Types, Goto, cpuVars, OffPlaces
<1>6. Modes' /\ YieldNotKept' /\ NothingDueWhileOn' /\ TicksAddUp'
  BY <1>1, <1>2 DEF Inv, Modes, YieldNotKept, NothingDueWhileOn, OffPlaces, TicksAddUp
<1>7. Saved'
  BY <1>1, StatusSaved, GotoSaved DEF Inv, cpuVars
<1> QED BY <1>4, <1>5, <1>6, <1>7 DEF Inv

(* Kernel code and user code call each other, and a thread finishes.       *)
LEMMA MoveInv == ASSUME Inv, ~halted, Finish \/ ToUserCode \/ SystemCall PROVE Inv'
<1>1. UNCHANGED <<yieldOnReturn, pending, stats, cpuVars, oldLevel, halted>>
  BY DEF Finish, ToUserCode, SystemCall
<1>2. yieldOnReturn = FALSE
  BY DEF Inv, YieldNotKept, Idling, Types, Finish, ToUserCode, SystemCall
<1>3. CASE Finish
  <2>1. Where' = "finished" /\ level' = "IntOff" /\ status' = "SystemMode"
    BY <1>1, <1>3, GotoWhere DEF Finish, Inv, Modes, cpuVars
  <2>2. Types' /\ Saved'
    <3>1. Where = "kernel" /\ Goto("finished") /\ SaveStatus /\ UNCHANGED code
      BY <1>3 DEF Finish
    <3>2. Types'
      BY <1>1, <2>1, <3>1, StatusSaved DEF Inv, Types, Goto, cpuVars, OffPlaces
    <3> QED BY <1>1, <3>1, <3>2, StatusSaved, GotoSaved DEF Inv, cpuVars
  <2>3. Modes' /\ YieldNotKept'
    BY <1>1, <1>2, <2>1 DEF Modes, YieldNotKept, OffPlaces
  <2> QED BY <1>1, <2>1, <2>2, <2>3, QuietInv
<1>4. CASE ToUserCode
  <2>1. Where' = "user" /\ status' = "UserMode" /\ level' = level
    BY <1>1, <1>4, GotoWhere DEF ToUserCode, Inv, cpuVars
  <2>2. Types' /\ Saved'
    <3>1. /\ Goto("user") /\ UNCHANGED old
          /\ code' = [code EXCEPT ![currentThread] = "user"]
      BY <1>4 DEF ToUserCode
    <3>2. Types'
      BY <1>1, <2>1, <3>1 DEF Inv, Types, Goto, cpuVars, OffPlaces
    <3>3. code'[currentThread] = "user" /\ \A t \in Thread \ {currentThread} : code'[t] = code[t]
      BY <3>1 DEF Inv, Types
    <3> QED BY <1>1, <3>1, <3>2, <3>3, GotoSaved DEF Inv, cpuVars
  <2>3. Modes' /\ YieldNotKept'
    BY <1>1, <1>2, <2>1 DEF Modes, YieldNotKept, OffPlaces
  <2> QED BY <1>1, <2>1, <2>2, <2>3, QuietInv
<1>5. CASE SystemCall
  <2>1. Where' = "kernel" /\ status' = "SystemMode" /\ level' = level
    BY <1>1, <1>5, GotoWhere DEF SystemCall, Inv, cpuVars
  <2>2. Types' /\ Saved'
    <3>1. /\ Goto("kernel") /\ UNCHANGED old
          /\ code' = [code EXCEPT ![currentThread] = "kernel"]
      BY <1>5 DEF SystemCall
    <3>2. Types'
      BY <1>1, <2>1, <3>1 DEF Inv, Types, Goto, cpuVars, OffPlaces
    <3>3. code'[currentThread] = "kernel" /\ \A t \in Thread \ {currentThread} : code'[t] = code[t]
      BY <3>1 DEF Inv, Types
    <3> QED BY <1>1, <3>1, <3>2, <3>3, GotoSaved DEF Inv, cpuVars
  <2>3. Modes' /\ YieldNotKept'
    BY <1>1, <1>2, <2>1 DEF Modes, YieldNotKept, OffPlaces
  <2> QED BY <1>1, <2>1, <2>2, <2>3, QuietInv
<1> QED BY <1>3, <1>4, <1>5

LEMMA InstructionInv == ASSUME Inv, Instruction PROVE Inv'
<1>1. /\ Where = "user" /\ OneTick /\ SaveStatus
      /\ ~halted /\ yieldOnReturn = FALSE
  BY DEF Instruction, Inv, Modes, YieldNotKept, Idling, Types
<1> QED BY <1>1, StatusSaved, OneTickInv

(* A handler is called from a loop that runs with interrupts off.          *)
LEMMA FiresInv == ASSUME Inv, TickFires \/ IdleFires PROVE Inv'
<1>1. /\ pending # <<>> /\ Fire /\ UNCHANGED <<stats, level, status, currentThread, threadVars, halted>>
      /\ Where = "tick" \/ Idling
  BY DEF TickFires, IdleFires, Due
<1>2. PendingOK' /\ readyList' \in Seq(Thread) /\ yieldOnReturn' \in BOOLEAN
  BY <1>1, FireOK DEF Inv, Types
<1>3. Where' = Where /\ level' = "IntOff"
  BY <1>1 DEF Where, threadVars, Inv, Modes, Idling, OffPlaces
<1>4. Types'
  BY <1>1, <1>2 DEF Inv, Types, threadVars
<1>5. Modes' /\ YieldNotKept' /\ NothingDueWhileOn' /\ TicksAddUp'
  BY <1>1, <1>3 DEF Inv, Modes, YieldNotKept, NothingDueWhileOn, Idling, TicksAddUp
<1>6. Saved'
  BY <1>1 DEF Inv, Saved, threadVars
<1> QED BY <1>2, <1>4, <1>5, <1>6 DEF Inv

(* The end of OneTick: what is still pending is in the future.             *)
LEMMA TickEndsInv == ASSUME Inv, TickEnds PROVE Inv'
<1>1. /\ Where = "tick" /\ ~Due(stats.totalTicks) /\ PutBack /\ level' = "IntOn"
      /\ yieldOnReturn' = FALSE
      /\ \/ status' = "SystemMode" /\ Goto("yield")
         \/ status' = "UserMode" /\ Goto("user") /\ code[currentThread] = "user"
         \/ status' = "SystemMode" /\ Goto("kernel") /\ code[currentThread] = "kernel"
      /\ UNCHANGED <<stats, cpuVars, code, old, oldLevel, halted>>
  <2>1. code[currentThread] \in {"user", "kernel"}
    BY DEF Inv, Types
  <2>2. old[currentThread] = ModeOf(code[currentThread])
    BY DEF TickEnds, Inv, Types, Saved, Where
  <2> QED BY <2>1, <2>2 DEF TickEnds, RestoreStatus, ModeOf
<1>2. PendingOK'
  BY <1>1, PutBackOK DEF Inv
<1>3. Types'
  BY <1>1 DEF Inv, Types, Goto, cpuVars, OffPlaces
<1>4. ~halted
  BY <1>1 DEF Inv, Modes
<1>5. \/ status' = "SystemMode" /\ Where' \in {"yield", "kernel"}
      \/ status' = "UserMode" /\ Where' = "user"
  BY <1>1, GotoWhere DEF Inv, cpuVars
<1>6. Modes' /\ YieldNotKept' /\ TicksAddUp'
  BY <1>1, <1>4, <1>5 DEF Modes, YieldNotKept, OffPlaces, Inv, TicksAddUp
<1>7. NothingDueWhileOn'
  <2>1. CASE pending = <<>>
    BY <1>1, <2>1, SMT DEF PutBack, NothingDueWhileOn, ToSet
  <2>2. CASE pending # <<>>
    <3>1. pending' = SortedInsert(Tail(pending), pending[1])
      BY <1>1, <2>2 DEF PutBack
    <3>2. Tail(pending) \in Seq(Entry) /\ Sorted(Tail(pending)) /\ pending[1] \in Entry
      BY <2>2, TailSorted DEF Inv, PendingOK
    <3>3. ToSet(pending') \subseteq ToSet(Tail(pending)) \cup {pending[1]}
      BY <3>1, <3>2, InsertElements
    <3>4. ToSet(Tail(pending)) \cup {pending[1]} \subseteq ToSet(pending)
      BY <2>2, SMT DEF ToSet, Inv, PendingOK
    <3>5. stats.totalTicks \in Nat /\ \A i \in DOMAIN pending : pending[i].when \in Nat
      BY EntryWhen, SMT DEF Inv, PendingOK, Types, Stats
    <3>6. ~(pending[1].when <= stats.totalTicks)
      BY <1>1, <2>2 DEF Due
    <3>7. \A i \in DOMAIN pending : pending[1].when <= pending[i].when
      BY <2>2, SMT DEF Inv, PendingOK, Sorted
    <3>8. 1 \in DOMAIN pending
      BY <2>2, SMT DEF Inv, PendingOK
    <3>9. \A i \in ToSet(pending) : i.when > stats.totalTicks
      BY <3>5, <3>6, <3>7, <3>8, SMT DEF ToSet
    <3> QED BY <1>1, <3>3, <3>4, <3>9 DEF NothingDueWhileOn
  <2> QED BY <2>1, <2>2
<1>8. Saved'
  <2>1. old[currentThread] = ModeOf(code[currentThread])
    BY <1>1 DEF Inv, Types, Saved, Where
  <2> QED BY <1>1, <2>1, GotoSaved DEF Inv, cpuVars
<1> QED BY <1>2, <1>3, <1>6, <1>7, <1>8 DEF Inv

(* The CPU goes to another thread, or the same, which resumes.             *)
LEMMA SwitchInv == ASSUME Inv, YieldCalled \/ (~halted /\ Dispatch) PROVE Inv'
<1>0. UNCHANGED <<status, yieldOnReturn, pending, stats, halted>> /\ ~halted
  BY DEF YieldCalled, Dispatch, Inv, Modes
<1>1. CASE YieldCalled
  <2> DEFINE q == Append(readyList, currentThread)
  <2>1. /\ Where \in {"yield", "kernel"} /\ level' = "IntOff"
        /\ IF Where = "kernel" THEN SaveStatus ELSE UNCHANGED old
        /\ UNCHANGED code
        /\ oldLevel' = [oldLevel EXCEPT ![currentThread] = level]
        /\ currentThread' = Head(q) /\ readyList' = Tail(q)
        /\ where' = [where EXCEPT ![currentThread] = "resume", ![Head(q)] = "resume"]
    BY <1>1 DEF YieldCalled
  <2>2. q \in Seq(Thread) /\ q # <<>>
    BY SMT DEF Inv, Types
  <2>3. Head(q) \in Thread /\ Tail(q) \in Seq(Thread)
    BY <2>2, SMT
  <2> HIDE DEF q
  <2>4. status = "SystemMode" /\ yieldOnReturn = FALSE
    BY <2>1 DEF Inv, Modes, YieldNotKept, Idling, Types
  <2>5. /\ old' \in [Thread -> {"SystemMode", "UserMode"}]
        /\ \A t \in Thread \ {currentThread} : old'[t] = old[t]
        /\ old'[currentThread] = ModeOf(code[currentThread])
    <3>1. CASE Where = "kernel"
      BY <2>1, <3>1, StatusSaved
    <3>2. CASE Where = "yield"
      BY <2>1, <3>2 DEF Inv, Types, Saved, Where
    <3> QED BY <2>1, <3>1, <3>2
  <2>6. Types'
    BY <1>0, <2>1, <2>3, <2>5 DEF Inv, Types, OffPlaces
  <2>7. Where' = "resume"
    BY <2>1, <2>3 DEF Inv, Types, Where
  <2>8. Modes' /\ YieldNotKept'
    BY <1>0, <2>1, <2>4, <2>7 DEF Modes, YieldNotKept
  <2>9. Saved'
    <3>1. PICK c \in Thread : c = currentThread
      BY DEF Inv, Types
    <3>2. PICK n \in Thread : n = Head(q)
      BY <2>3
    <3>3. where'[c] = "resume" /\ where'[n] = "resume"
      BY <2>1, <3>1, <3>2 DEF Inv, Types
    <3>4. \A t \in Thread \ {c, n} : where'[t] = where[t]
      BY <2>1, <3>1, <3>2 DEF Inv, Types
    <3>5. \A t \in Thread \ {c} : old'[t] = ModeOf(code[t])
      BY <2>5, <3>1 DEF Inv, Saved
    <3>6. n = currentThread'
      BY <2>1, <3>2
    <3> QED BY <2>1, <2>5, <3>1, <3>3, <3>4, <3>5, <3>6 DEF Inv, Saved, ModeOf
  <2> QED BY <1>0, <2>1, <2>6, <2>8, <2>9, QuietInv
<1>2. CASE Dispatch
  <2>1. /\ Where \in {"asleep", "finished"} /\ readyList # <<>>
        /\ currentThread' = Head(readyList) /\ readyList' = Tail(readyList)
        /\ where' = [where EXCEPT ![Head(readyList)] = "resume"]
        /\ UNCHANGED <<level, code, old, oldLevel>>
    BY <1>2 DEF Dispatch
  <2>2. Head(readyList) \in Thread /\ Tail(readyList) \in Seq(Thread)
    BY <2>1, SMT DEF Inv, Types
  <2>3. status = "SystemMode" /\ yieldOnReturn = FALSE /\ level = "IntOff"
    BY <1>0, <2>1 DEF Inv, Modes, YieldNotKept, Idling, Types, OffPlaces
  <2>4. Types'
    BY <1>0, <2>1, <2>2 DEF Inv, Types, OffPlaces
  <2>5. Where' = "resume"
    BY <2>1, <2>2 DEF Inv, Types, Where
  <2>6. Modes' /\ YieldNotKept'
    BY <1>0, <2>1, <2>3, <2>5 DEF Modes, YieldNotKept
  <2>7. Saved'
    <3>1. PICK n \in Thread : n = Head(readyList)
      BY <2>2
    <3>2. \A t \in Thread : where[t] \notin {"user", "kernel"} /\ old[t] = ModeOf(code[t])
      BY <2>1 DEF Inv, Types, Saved, Where
    <3>3. where'[n] = "resume" /\ \A t \in Thread \ {n} : where'[t] = where[t]
      BY <2>1, <3>1 DEF Inv, Types
    <3> QED BY <2>1, <3>2, <3>3 DEF Saved, ModeOf
  <2> QED BY <1>0, <2>1, <2>4, <2>6, <2>7, QuietInv
<1> QED BY <1>1, <1>2

LEMMA ResumeInv == ASSUME Inv, Resume PROVE Inv'
<1>1. /\ Where = "resume" /\ UNCHANGED old /\ ~halted /\ yieldOnReturn = FALSE
      /\ status = "SystemMode" /\ level = "IntOff"
  BY DEF Resume, Inv, Modes, YieldNotKept, Idling, Types, OffPlaces
<1>2. CASE oldLevel[currentThread] = "IntOn"
  <2>1. OneTick /\ old' \in [Thread -> {"SystemMode", "UserMode"}]
    BY <1>1, <1>2 DEF Resume, Inv, Types
  <2>2. old'[currentThread] = ModeOf(code[currentThread])
    BY <1>1 DEF Inv, Types, Saved, Where
  <2> QED BY <1>1, <2>1, <2>2, OneTickInv
<1>3. CASE oldLevel[currentThread] # "IntOn"
  <2>1. /\ RestoreStatus
        /\ UNCHANGED <<level, yieldOnReturn, pending, stats, cpuVars, code, oldLevel, halted>>
    BY <1>3 DEF Resume
  <2>2. PICK c \in {"user", "kernel"} : c = code[currentThread]
    BY DEF Inv, Types
  <2>3. Goto(c) /\ status' = ModeOf(c)
    BY <1>1, <2>1, <2>2 DEF RestoreStatus, Inv, Types, Saved, Where
  <2>4. Where' = c
    BY <2>1, <2>3, GotoWhere DEF Inv, cpuVars
  <2>5. Types'
    BY <1>1, <2>1, <2>2, <2>3 DEF Inv, Types, Goto, cpuVars, OffPlaces, ModeOf
  <2>6. Modes' /\ YieldNotKept'
    BY <1>1, <2>1, <2>2, <2>3, <2>4 DEF Modes, YieldNotKept, OffPlaces, ModeOf
  <2>7. Saved'
    BY <1>1, <2>1, <2>2, <2>3, GotoSaved DEF Inv, cpuVars
  <2> QED BY <1>1, <2>1, <2>5, <2>6, <2>7, QuietInv
<1> QED BY <1>2, <1>3

(* Idle: time is skipped with interrupts off.                              *)
LEMMA IdleInv == ASSUME Inv, Idle PROVE Inv'
<1>1. /\ Where \in {"asleep", "finished"} /\ ~halted /\ status' = "IdleMode"
      /\ stats' = IF pending = <<>> THEN stats ELSE IdleClock
      /\ UNCHANGED <<level, currentThread, code, old, oldLevel>>
  BY DEF Idle
<1>2. level = "IntOff" /\ yieldOnReturn = FALSE
  BY <1>1 DEF Inv, Modes, YieldNotKept, Idling, Types, OffPlaces
<1>3. stats' \in Stats /\ TicksAddUp'
  <2>1. CASE pending = <<>>
    BY <1>1, <2>1 DEF Inv, Types, TicksAddUp
  <2>2. CASE pending # <<>>
    <3>1. pending[1] \in Entry
      BY <2>2, TailSorted DEF Inv, PendingOK
    <3>2. stats' = IdleClock /\ stats \in Stats /\ TicksAddUp
      BY <1>1, <2>2 DEF Inv, Types
    <3> QED BY <2>2, <3>1, <3>2, ClockOK
  <2> QED BY <2>1, <2>2
<1>4. CASE NothingToDo
  <2>1. halted' = TRUE /\ UNCHANGED <<pending, readyList, yieldOnReturn, where>>
    BY <1>4 DEF Idle
  <2>2. Where' = Where
    BY <1>1, <2>1 DEF Where
  <2>3. Types' /\ PendingOK'
    BY <1>1, <1>3, <2>1 DEF Inv, Types, PendingOK
  <2>4. Modes' /\ YieldNotKept' /\ NothingDueWhileOn'
    BY <1>1, <1>2, <2>1, <2>2 DEF Modes, YieldNotKept, NothingDueWhileOn, OffPlaces
  <2>5. Saved'
    BY <1>1, <2>1 DEF Inv, Saved
  <2> QED BY <1>3, <2>3, <2>4, <2>5 DEF Inv
<1>5. CASE ~NothingToDo
  <2>1. /\ Fire /\ UNCHANGED halted /\ pending # <<>>
        /\ Goto(IF Where = "asleep" THEN "idle" ELSE "idle finished")
    BY <1>5 DEF Idle, NothingToDo
  <2>2. PendingOK' /\ readyList' \in Seq(Thread) /\ yieldOnReturn' \in BOOLEAN
    BY <1>3, <2>1, FireOK DEF Inv, Types
  <2>3. Where' \in {"idle", "idle finished"}
    BY <1>1, <2>1, GotoWhere DEF Inv
  <2>4. Types'
    BY <1>1, <1>3, <2>1, <2>2 DEF Inv, Types, Goto, OffPlaces
  <2>5. Modes' /\ YieldNotKept' /\ NothingDueWhileOn'
    BY <1>1, <1>2, <2>1, <2>3 DEF Modes, YieldNotKept, NothingDueWhileOn, OffPlaces, Idling
  <2>6. Saved'
    <3>1. old[currentThread] = ModeOf(code[currentThread])
      BY <1>1 DEF Inv, Types, Saved, Where
    <3> QED BY <1>1, <2>1, <3>1, GotoSaved DEF Inv
  <2> QED BY <1>3, <2>2, <2>4, <2>5, <2>6 DEF Inv
<1> QED BY <1>4, <1>5

LEMMA IdleEndsInv == ASSUME Inv, IdleEnds PROVE Inv'
<1>1. /\ Idling /\ PutBack /\ yieldOnReturn' = FALSE /\ status' = "SystemMode"
      /\ Goto(IF Where = "idle" THEN "asleep" ELSE "finished")
      /\ UNCHANGED <<level, stats, cpuVars, code, old, oldLevel, halted>>
  BY DEF IdleEnds
<1>2. level = "IntOff" /\ ~halted
  BY <1>1 DEF Inv, Modes, Idling, OffPlaces
<1>3. Where' \in {"asleep", "finished"}
  BY <1>1, GotoWhere DEF Inv, cpuVars
<1>4. PendingOK'
  BY <1>1, PutBackOK DEF Inv
<1>5. Types'
  BY <1>1 DEF Inv, Types, Goto, cpuVars, OffPlaces
<1>6. Modes' /\ YieldNotKept' /\ NothingDueWhileOn' /\ TicksAddUp'
  BY <1>1, <1>2, <1>3 DEF Inv, Modes, YieldNotKept, NothingDueWhileOn, OffPlaces, TicksAddUp
<1>7. Saved'
  <2>1. old[currentThread] = ModeOf(code[currentThread])
    BY <1>1 DEF Idling, Inv, Types, Saved, Where
  <2> QED BY <1>1, <2>1, GotoSaved DEF Inv, cpuVars
<1> QED BY <1>4, <1>5, <1>6, <1>7 DEF Inv

LEMMA StepInv == Inv /\ [Next]_vars => Inv'
<1> SUFFICES ASSUME Inv, [Next]_vars PROVE Inv'
  OBVIOUS
<1>1. CASE UNCHANGED vars
  BY <1>1 DEF vars, cpuVars, threadVars, Inv, Types, Modes, Saved, PendingOK, TicksAddUp,
              YieldNotKept, NothingDueWhileOn, Where, Idling
<1>2. CASE ~halted /\ KernelStep
  BY <1>2, SetLevelInv, RequestInv, MoveInv DEF KernelStep
<1>3. CASE SystemCall
  <2>1. ~halted
    BY <1>3 DEF SystemCall, Inv, Modes
  <2> QED BY <1>3, <2>1, MoveInv
<1> QED
  BY <1>1, <1>2, <1>3, InstructionInv, FiresInv, TickEndsInv, SwitchInv, ResumeInv, IdleInv,
     IdleEndsInv DEF Next, End

(* The simulated clock is the sum of the idle, system and user time, for   *)
(* any tick lengths and delays (OneTick, CheckIfDue).                      *)
THEOREM TimeAccounted == Spec => []TicksAddUp
<1>1. Inv => TicksAddUp
  BY DEF Inv
<1> QED BY <1>1, InitInv, StepInv, PTL DEF Spec

(* A thread that was preempted or slept goes on in the mode of the code on *)
(* its stack, user or kernel: the status OneTick restores is the one that  *)
(* code ran in, whatever other threads and Idle have set since.            *)
THEOREM ModeKept == Spec => []OwnMode
<1>1. Inv => OwnMode
  BY DEF Inv, Modes, OwnMode
<1> QED BY <1>1, InitInv, StepInv, PTL DEF Spec

(* A request of the timer handler for a yield does not outlive the OneTick *)
(* or the Idle in which it was made.                                       *)
THEOREM YieldAtOnce == Spec => []YieldNotKept
<1>1. Inv => YieldNotKept
  BY DEF Inv
<1> QED BY <1>1, InitInv, StepInv, PTL DEF Spec

(* With interrupts enabled no interrupt is due: SortedInsert keeps the list*)
(* of pending interrupts in the order in which CheckIfDue looks at them.   *)
THEOREM NoneDue == Spec => []NothingDueWhileOn
<1>1. Inv => NothingDueWhileOn
  BY DEF Inv
<1> QED BY <1>1, InitInv, StepInv, PTL DEF Spec
----------------------------------------------------------------------------
(* Where a thread that does not run is found again: one that can run is on *)
(* the ready list, and one that sleeps is there or has an interrupt coming.*)
Answer(t) == \E i \in ToSet(pending) : i.type = "Device" /\ i.arg = t

Found ==
    \A t \in Thread :
        /\ t # currentThread => where[t] \in {"resume", "asleep", "finished"}
        /\ t # currentThread /\ where[t] = "resume" => t \in ToSet(readyList)
        /\ where[t] \in {"asleep", "idle"} => t \in ToSet(readyList) \/ Answer(t)

LEMMA InitFound == Init => Found
<1> SUFFICES ASSUME Init PROVE Found
  OBVIOUS
<1> DEFINE S == Thread \ {Main}
           n == Cardinality(S)
<1>1. IsFiniteSet(S)
  BY InterruptsAssumption, FS_Difference DEF InterruptsAssumption
<1>2. n \in Nat
  BY <1>1, FS_CardinalityType
<1>3. readyList \in [1 .. n -> S] /\ \A i, j \in 1 .. n : i # j => readyList[i] # readyList[j]
  BY DEF Init, SetToSeqs
<1>4. readyList \in Injection(1 .. n, S)
  BY <1>3 DEF Injection, IsInjective
<1>5. IsFiniteSet(1 .. n) /\ Cardinality(1 .. n) = n
  BY <1>2, FS_Interval, SMT
<1>6. readyList \in Surjection(1 .. n, S)
  BY <1>1, <1>4, <1>5, FS_Injection
<1>7. S \subseteq ToSet(readyList)
  <2>1. \A t \in S : \E i \in 1 .. n : readyList[i] = t
    BY <1>6 DEF Surjection
  <2>2. DOMAIN readyList = 1 .. n
    BY <1>3
  <2> HIDE DEF S, n
  <2> QED BY <2>1, <2>2 DEF ToSet
<1> QED BY <1>7 DEF Init, Found

(* What stays on a list when its first element is taken or one is added.   *)
LEMMA ListElements ==
    ASSUME NEW T, NEW q \in Seq(T), NEW e \in T
    PROVE  /\ ToSet(Append(q, e)) = ToSet(q) \cup {e}
           /\ q # <<>> => ToSet(q) \subseteq ToSet(Tail(q)) \cup {Head(q)}
<1>1. ToSet(Append(q, e)) \subseteq ToSet(q) \cup {e}
  BY SMT DEF ToSet
<1>2. ToSet(q) \subseteq ToSet(Append(q, e))
  <2> SUFFICES ASSUME NEW i \in DOMAIN q PROVE q[i] \in ToSet(Append(q, e))
    BY DEF ToSet
  <2>1. i \in DOMAIN Append(q, e) /\ Append(q, e)[i] = q[i]
    BY SMT
  <2> QED BY <2>1 DEF ToSet
<1>3. e \in ToSet(Append(q, e))
  <2>1. Len(q) + 1 \in DOMAIN Append(q, e) /\ Append(q, e)[Len(q) + 1] = e
    BY SMT
  <2> QED BY <2>1 DEF ToSet
<1>4. ASSUME q # <<>>, NEW i \in DOMAIN q PROVE q[i] \in ToSet(Tail(q)) \cup {Head(q)}
  <2>1. CASE i = 1
    BY <1>4, <2>1, SMT
  <2>2. CASE i # 1
    <3>1. i - 1 \in DOMAIN Tail(q) /\ Tail(q)[i - 1] = q[i]
      BY <1>4, <2>2, SMT
    <3> QED BY <3>1 DEF ToSet
  <2> QED BY <2>1, <2>2
<1>5. q # <<>> => ToSet(q) \subseteq ToSet(Tail(q)) \cup {Head(q)}
  BY <1>4 DEF ToSet
<1> QED BY <1>1, <1>2, <1>3, <1>5

(* PutBack loses no interrupt; a handler loses only its own, and readies   *)
(* the thread the interrupt was for.                                       *)
LEMMA AnswersKept ==
    ASSUME PendingOK, stats' \in Stats, readyList \in Seq(Thread), NEW t \in Thread
    PROVE  /\ PutBack /\ Answer(t) => Answer(t)'
           /\ pending # <<>> /\ Fire => /\ ToSet(readyList) \subseteq ToSet(readyList')
                                        /\ Answer(t) => Answer(t)' \/ t \in ToSet(readyList')
<1>1. ASSUME pending # <<>>
      PROVE  /\ Tail(pending) \in Seq(Entry) /\ Sorted(Tail(pending)) /\ pending[1] \in Entry
             /\ ToSet(pending) \subseteq ToSet(Tail(pending)) \cup {pending[1]}
  <2>1. Tail(pending) \in Seq(Entry) /\ Sorted(Tail(pending)) /\ pending[1] \in Entry
    BY <1>1, TailSorted DEF PendingOK
  <2>2. ToSet(pending) \subseteq ToSet(Tail(pending)) \cup {Head(pending)}
    BY <1>1, <2>1, ListElements DEF PendingOK
  <2> QED BY <2>1, <2>2, SMT
<1>2. ASSUME PutBack, Answer(t) PROVE Answer(t)'
  <2>1. pending # <<>>
    BY <1>2, SMT DEF Answer, ToSet
  <2>2. pending' = SortedInsert(Tail(pending), pending[1])
    BY <1>2, <2>1 DEF PutBack
  <2>3. ToSet(pending) \subseteq ToSet(pending')
    BY <1>1, <2>1, <2>2, InsertKeeps
  <2> QED BY <1>2, <2>3 DEF Answer
<1>3. ASSUME pending # <<>>, Fire, pending[1].type = "Timer"
      PROVE  readyList' = readyList /\ (Answer(t) => Answer(t)')
  <2>1. PICK d \in TimerDelay :
            pending' = SortedInsert(Tail(pending),
                [type |-> "Timer", when |-> stats'.totalTicks + d, arg |-> NULL])
    BY <1>3 DEF Fire
  <2>2. stats'.totalTicks \in Nat /\ d \in Nat
    BY InterruptsAssumption DEF InterruptsAssumption, Stats
  <2>3. [type |-> "Timer", when |-> stats'.totalTicks + d, arg |-> NULL] \in Entry
    BY <2>2, SMT DEF Entry
  <2>4. ToSet(Tail(pending)) \subseteq ToSet(pending')
    BY <1>1, <1>3, <2>1, <2>3, InsertKeeps
  <2> QED BY <1>1, <1>3, <2>4 DEF Answer, Fire
<1>4. ASSUME pending # <<>>, Fire, pending[1].type # "Timer"
      PROVE  /\ ToSet(readyList) \subseteq ToSet(readyList')
             /\ Answer(t) => Answer(t)' \/ t \in ToSet(readyList')
  <2>1. pending' = Tail(pending) /\ readyList' = Append(readyList, pending[1].arg)
    BY <1>4 DEF Fire
  <2>2. pending[1].arg \in Thread
    BY <1>1, <1>4 DEF Entry
  <2>3. ToSet(readyList') = ToSet(readyList) \cup {pending[1].arg}
    BY <2>1, <2>2, ListElements, SMT
  <2> QED BY <1>1, <1>4, <2>1, <2>3 DEF Answer
<1> QED BY <1>2, <1>3, <1>4

(* A step of the thread that has the CPU and keeps it.                     *)
LEMMA LocalFound ==
    ASSUME Types, Found, NEW step, UNCHANGED currentThread, Goto(step),
           ToSet(readyList) \subseteq ToSet(readyList'),
           \A t \in Thread : Answer(t) => Answer(t)' \/ t \in ToSet(readyList'),
           step \in {"asleep", "idle"} =>
               currentThread \in ToSet(readyList') \/ Answer(currentThread)'
    PROVE  Found'
BY DEF Types, Found, Goto

LEMMA SwitchFound ==
    ASSUME Inv, Found, YieldCalled \/ (~halted /\ Dispatch) PROVE Found'
<1>1. \A t \in Thread : Answer(t)' <=> Answer(t)
  BY DEF YieldCalled, Dispatch, Answer
<1>2. /\ where \in [Thread -> OffPlaces \cup {"kernel", "user", "yield"}]
      /\ currentThread \in Thread /\ readyList \in Seq(Thread)
  BY DEF Inv, Types
<1>3. CASE YieldCalled
  <2> DEFINE q == Append(readyList, currentThread)
  <2>1. /\ currentThread' = Head(q) /\ readyList' = Tail(q)
        /\ where' = [where EXCEPT ![currentThread] = "resume", ![Head(q)] = "resume"]
    BY <1>3 DEF YieldCalled
  <2>2. q \in Seq(Thread) /\ q # <<>>
    BY <1>2, SMT
  <2>3. ToSet(q) = ToSet(readyList) \cup {currentThread}
    BY <1>2, ListElements
  <2> HIDE DEF q
  <2>4. ToSet(q) \subseteq ToSet(readyList') \cup {currentThread'}
    BY <1>2, <2>1, <2>2, ListElements
  <2>5. Head(q) \in Thread
    BY <2>2, SMT
  <2>6. /\ where'[currentThread] = "resume" /\ where'[currentThread'] = "resume"
        /\ \A t \in Thread \ {currentThread, currentThread'} : where'[t] = where[t]
    BY <1>2, <2>1, <2>5
  <2> QED BY <1>1, <1>2, <2>3, <2>4, <2>6 DEF Found
<1>4. CASE Dispatch
  <2>1. /\ readyList # <<>> /\ Where \in {"asleep", "finished"}
        /\ currentThread' = Head(readyList) /\ readyList' = Tail(readyList)
        /\ where' = [where EXCEPT ![Head(readyList)] = "resume"]
    BY <1>4 DEF Dispatch
  <2>2. Head(readyList) \in Thread
    BY <1>2, <2>1, SMT
  <2>3. ToSet(readyList) \subseteq ToSet(readyList') \cup {currentThread'}
    BY <1>2, <2>1, ListElements
  <2>4. /\ where'[currentThread'] = "resume"
        /\ \A t \in Thread \ {currentThread'} : where'[t] = where[t]
    BY <1>2, <2>1, <2>2
  <2> QED BY <1>1, <1>2, <2>1, <2>3, <2>4 DEF Found, Where
<1> QED BY <1>3, <1>4

LEMMA StepFound == ASSUME Inv, Inv', Found, [Next]_vars PROVE Found'
<1>0. Types /\ PendingOK /\ stats' \in Stats /\ readyList \in Seq(Thread) /\ currentThread \in Thread
  BY DEF Inv, Types
<1>1. ASSUME UNCHANGED <<pending, readyList>>
      PROVE  /\ ToSet(readyList) \subseteq ToSet(readyList')
             /\ \A t \in Thread : Answer(t) => Answer(t)' \/ t \in ToSet(readyList')
  BY <1>1 DEF Answer
<1>2. ASSUME UNCHANGED <<pending, readyList, currentThread, where>> PROVE Found'
  BY <1>2 DEF Found, Answer
<1>3. CASE SetLevel("IntOn") \/ SetLevel("IntOff") \/ Instruction \/ Resume
  <2>1. CASE OneTick
    BY <1>0, <1>1, <2>1, LocalFound DEF OneTick, cpuVars
  <2>2. CASE Resume /\ ~OneTick
    <3>1. /\ Goto(code[currentThread]) /\ code[currentThread] \in {"user", "kernel"}
          /\ UNCHANGED <<pending, readyList, currentThread>>
      BY <2>2 DEF Resume, RestoreStatus, Inv, Types, cpuVars
    <3> QED BY <1>0, <1>1, <3>1, LocalFound
  <2>3. CASE (SetLevel("IntOn") \/ SetLevel("IntOff")) /\ ~OneTick
    BY <1>2, <2>3 DEF SetLevel, cpuVars, threadVars
  <2> QED BY <1>3, <2>1, <2>2, <2>3 DEF Instruction
<1>4. ASSUME NEW d \in DeviceDelay, RequestAndSleep(d) PROVE Found'
  <2> DEFINE e == ToOccur("Device", d, currentThread)
  <2>1. pending' = SortedInsert(pending, e) /\ UNCHANGED <<cpuVars, stats>> /\ Goto("asleep")
    BY <1>4 DEF RequestAndSleep
  <2>2. stats.totalTicks + d \in Nat
    BY InterruptsAssumption, SMT DEF InterruptsAssumption, Inv, Types, Stats
  <2>3. e \in Entry /\ e.type = "Device" /\ e.arg = currentThread
    BY <1>0, <2>2 DEF ToOccur, Entry
  <2> HIDE DEF e
  <2>4. ToSet(pending) \cup {e} \subseteq ToSet(pending')
    BY <1>0, <2>1, <2>3, InsertKeeps DEF PendingOK
  <2>5. Answer(currentThread)' /\ \A t \in Thread : Answer(t) => Answer(t)'
    BY <2>1, <2>3, <2>4 DEF Answer, cpuVars
  <2> QED BY <1>0, <2>1, <2>5, LocalFound DEF cpuVars
<1>5. CASE Finish \/ ToUserCode \/ SystemCall
  <2>1. PICK step \in {"finished", "user", "kernel"} : Goto(step)
    BY <1>5 DEF Finish, ToUserCode, SystemCall
  <2>2. UNCHANGED <<pending, readyList, currentThread>>
    BY <1>5 DEF Finish, ToUserCode, SystemCall, cpuVars
  <2> QED BY <1>0, <1>1, <2>1, <2>2, LocalFound
<1>6. CASE TickFires \/ IdleFires
  <2>1. pending # <<>> /\ Fire /\ UNCHANGED <<currentThread, where>>
    BY <1>6 DEF TickFires, IdleFires, Due, threadVars
  <2>2. /\ ToSet(readyList) \subseteq ToSet(readyList')
        /\ \A t \in Thread : Answer(t) => Answer(t)' \/ t \in ToSet(readyList')
    BY <1>0, <2>1, AnswersKept
  <2> QED BY <2>1, <2>2 DEF Found
<1>7. CASE TickEnds
  <2>1. PutBack /\ UNCHANGED cpuVars /\ \E step \in {"yield", "user", "kernel"} : Goto(step)
    BY <1>7 DEF TickEnds, RestoreStatus, Inv, Types
  <2>2. PICK step \in {"yield", "user", "kernel"} : Goto(step)
    BY <2>1
  <2>3. \A t \in Thread : Answer(t) => Answer(t)'
    BY <1>0, <2>1, AnswersKept
  <2> QED BY <1>0, <2>1, <2>2, <2>3, LocalFound DEF cpuVars
<1>8. CASE Idle
  <2>1. UNCHANGED currentThread /\ Where \in {"asleep", "finished"}
    BY <1>8 DEF Idle
  <2>2. CASE NothingToDo
    BY <1>2, <1>8, <2>1, <2>2 DEF Idle
  <2>3. CASE ~NothingToDo
    <3>1. Fire /\ pending # <<>> /\ Goto(IF Where = "asleep" THEN "idle" ELSE "idle finished")
      BY <1>8, <2>3 DEF Idle, NothingToDo
    <3>2. /\ ToSet(readyList) \subseteq ToSet(readyList')
          /\ \A t \in Thread : Answer(t) => Answer(t)' \/ t \in ToSet(readyList')
      BY <1>0, <3>1, AnswersKept
    <3>3. Where = "asleep" => currentThread \in ToSet(readyList') \/ Answer(currentThread)'
      BY <1>0, <2>1, <3>2 DEF Found, Where
    <3>4. Where # "asleep" => Goto("idle finished")
      BY <3>1
    <3>5. Where = "asleep" => Goto("idle")
      BY <3>1
    <3> QED BY <1>0, <2>1, <3>2, <3>3, <3>4, <3>5, LocalFound
  <2> QED BY <2>2, <2>3
<1>9. CASE IdleEnds
  <2>1. /\ PutBack /\ UNCHANGED cpuVars /\ Idling
        /\ Where = "idle" => Goto("asleep")
        /\ Where # "idle" => Goto("finished")
    BY <1>9 DEF IdleEnds
  <2>2. \A t \in Thread : Answer(t) => Answer(t)'
    BY <1>0, <2>1, AnswersKept
  <2>3. Where = "idle" => currentThread \in ToSet(readyList') \/ Answer(currentThread)'
    BY <1>0, <2>1, <2>2 DEF Found, Where, cpuVars
  <2> QED BY <1>0, <2>1, <2>2, <2>3, LocalFound DEF cpuVars
<1>10. CASE UNCHANGED vars
  BY <1>2, <1>10 DEF vars, cpuVars, threadVars
<1> QED
  BY <1>3, <1>4, <1>5, <1>6, <1>7, <1>8, <1>9, <1>10, SwitchFound DEF Next, KernelStep, End

(* The machine halts only when every thread is finished.                   *)
LEMMA HaltStep == ASSUME Inv, Found, HaltsWhenDone, [Next]_vars PROVE HaltsWhenDone'
<1> SUFFICES ASSUME halted' PROVE \A t \in Thread : where'[t] = "finished"
  BY DEF HaltsWhenDone
<1>1. CASE ~halted
  <2>1. Idle /\ NothingToDo
    BY <1>1 DEF Next, KernelStep, SetLevel, RequestAndSleep, Finish, ToUserCode, Instruction,
                SystemCall, TickFires, TickEnds, YieldCalled, Resume, OneTick, Dispatch, Idle,
                IdleFires, IdleEnds, End, vars, Inv, Types
  <2>2. UNCHANGED where /\ readyList = <<>> /\ Where \in {"asleep", "finished"}
    BY <2>1 DEF Idle
  <2>3. ToSet(readyList) = {}
    BY <2>2, SMT DEF ToSet
  <2>4. \A t \in Thread : ~Answer(t)
    BY <2>1, SMT DEF NothingToDo, OnlyTimer, Answer, ToSet, Inv, PendingOK
  <2> QED BY <2>2, <2>3, <2>4 DEF Found, Where
<1>2. CASE halted
  <2>1. Where \in {"asleep", "finished"}
    BY <1>2 DEF Inv, Modes
  <2>2. UNCHANGED where
    BY <1>2, <2>1 DEF Next, Instruction, SystemCall, TickFires, TickEnds, YieldCalled, Resume,
                      Idle, IdleFires, IdleEnds, Idling, End, vars, threadVars
  <2> QED BY <1>2, <2>2 DEF HaltsWhenDone
<1> QED BY <1>1, <1>2

(* "If there are no pending interrupts, and nothing is on the ready queue, *)
(* it is time to stop": when Idle halts the machine no thread waits for a  *)
(* device and none could run, however many there are.                      *)
THEOREM HaltOnlyWhenDone == Spec => []HaltsWhenDone
<1>1. Init => HaltsWhenDone
  BY DEF Init, HaltsWhenDone
<1>2. (Inv /\ Found /\ HaltsWhenDone) /\ [Next]_vars => (Inv /\ Found /\ HaltsWhenDone)'
  BY StepInv, StepFound, HaltStep
<1> QED BY <1>1, <1>2, InitInv, InitFound, PTL DEF Spec
==============================================================================
