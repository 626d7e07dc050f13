------------------------------ MODULE TestSuite ------------------------------
(***************************************************************************)
(* TestSuite() of threads/threadtest.cc: five tests of locks and condition *)
(* variables, each a few threads that call the operations of module Synch  *)
(* in a fixed order.  A test thread is the sequence of the calls it makes; *)
(* the loops of the tests are unrolled.  The tests print what they see and *)
(* assert nothing: what their comments say of the outcome is stated here.  *)
(***************************************************************************)
EXTENDS Synch, SequencesExt

(* Thread, Lock, CV and Sem are TestThread, TestLocks, TestConditions and  *)
(* TestSemaphores below, and the semaphores are created with value 0.      *)
CONSTANTS
    Waiter,         \* the numbers of the waiters of tests 3 and 4
    Tests           \* the tests that are run: the five share nothing but the
                    \* CPU

VARIABLE pc         \* per thread: the number of calls it has made

testVars == <<vars, pc>>

----------------------------------------------------------------------------
Do(op, obj) == [op |-> op, obj |-> obj, cv |-> NULL]

OnCV(op, c, l) == [op |-> op, obj |-> l, cv |-> c]

Times(n, i) == [k \in 1 .. n |-> i]

Count == Cardinality(Waiter)

t1_t1 == <<Do("Acquire", "t1_l1"), Do("V", "t1_s1"), Do("P", "t1_s3"),
           Do("Release", "t1_l1"), Do("V", "t1_done")>>

t1_t2 == <<Do("P", "t1_s1"), Do("V", "t1_s2"), Do("Acquire", "t1_l1"),
           Do("Release", "t1_l1"), Do("V", "t1_done")>>

t1_t3 == <<Do("P", "t1_s2"), Do("V", "t1_s3")>> \o Times(3, Do("Release", "t1_l1"))

t2_t1 == <<Do("Acquire", "t2_l1"), OnCV("Signal", "t2_c1", "t2_l1"),
           Do("Release", "t2_l1"), Do("V", "t2_s1"), Do("V", "t2_done")>>

t2_t2 == <<Do("P", "t2_s1"), Do("Acquire", "t2_l1"), OnCV("Wait", "t2_c1", "t2_l1"),
           Do("Release", "t2_l1")>>

(* Mutant of t3_waiter: it says it is ready before it has the lock.        *)
t3_waiterEarly ==
    <<Do("V", "t3_s1"), Do("Acquire", "t3_l1"), OnCV("Wait", "t3_c1", "t3_l1"),
      Do("Release", "t3_l1"), Do("V", "t3_done")>>

t3_waiter ==
    <<Do("Acquire", "t3_l1"), Do("V", "t3_s1"), OnCV("Wait", "t3_c1", "t3_l1"),
      Do("Release", "t3_l1"), Do("V", "t3_done")>>

t3_signaller ==
    Times(Count, Do("P", "t3_s1"))
        \o <<Do("Acquire", "t3_l1"), OnCV("Signal", "t3_c1", "t3_l1"),
             Do("Release", "t3_l1"), Do("V", "t3_done")>>

t4_waiter ==
    <<Do("Acquire", "t4_l1"), Do("V", "t4_s1"), OnCV("Wait", "t4_c1", "t4_l1"),
      Do("Release", "t4_l1"), Do("V", "t4_done")>>

t4_signaller ==
    Times(Count, Do("P", "t4_s1"))
        \o <<Do("Acquire", "t4_l1"), OnCV("Broadcast", "t4_c1", "t4_l1"),
             Do("Release", "t4_l1"), Do("V", "t4_done")>>

t5_t1 == <<Do("Acquire", "t5_l1"), Do("V", "t5_s1"), OnCV("Wait", "t5_c1", "t5_l1"),
           Do("Release", "t5_l1")>>

t5_t2 == <<Do("P", "t5_s1"), Do("Acquire", "t5_l1"), Do("Acquire", "t5_l2"),
           OnCV("Signal", "t5_c1", "t5_l2"), Do("Release", "t5_l2"),
           Do("Release", "t5_l1")>>

t3_waiters == {<<"t3_waiter", i>> : i \in Waiter}
t4_waiters == {<<"t4_waiter", i>> : i \in Waiter}

(* TestSuite(), the main thread: fork the threads of a test, wait until it *)
(* is done.                                                                *)
ForkAll(T) == [i \in 1 .. Cardinality(T) |-> Do("Fork", SetToSeq(T)[i])]

Fork1(name) == <<Do("Fork", <<name, 0>>)>>

TestMain ==
    LET Test(k) ==
            << Fork1("t1_t1") \o Fork1("t1_t2") \o Fork1("t1_t3")
                   \o Times(2, Do("P", "t1_done")),
               Fork1("t2_t1") \o Fork1("t2_t2") \o Times(1, Do("P", "t2_done")),
               ForkAll(t3_waiters) \o Fork1("t3_signaller") \o Times(2, Do("P", "t3_done")),
               ForkAll(t4_waiters) \o Fork1("t4_signaller")
                   \o Times(Count + 1, Do("P", "t4_done")),
               Fork1("t5_t1") \o Fork1("t5_t2") >>[k]
    IN  FlattenSeq([k \in 1 .. 5 |-> IF k \in Tests THEN Test(k) ELSE <<>>])

Forked == {i.obj : i \in {j \in ToSet(TestMain) : j.op = "Fork"}}

Body == [main |-> TestMain, t1_t1 |-> t1_t1, t1_t2 |-> t1_t2, t1_t3 |-> t1_t3,
         t2_t1 |-> t2_t1, t2_t2 |-> t2_t2, t3_waiter |-> t3_waiter,
         t3_signaller |-> t3_signaller, t4_waiter |-> t4_waiter,
         t4_signaller |-> t4_signaller, t5_t1 |-> t5_t1, t5_t2 |-> t5_t2]

Program(t) == Body[t[1]]

TestThread ==
    ((DOMAIN Body \ {"t3_waiter", "t4_waiter"}) \X {0}) \cup t3_waiters \cup t4_waiters

TestLocks == {"t1_l1", "t2_l1", "t3_l1", "t4_l1", "t5_l1", "t5_l2"}
TestConditions == {"t2_c1", "t3_c1", "t4_c1", "t5_c1"}
TestSemaphores == {"t1_s1", "t1_s2", "t1_s3", "t1_done", "t2_s1", "t2_done",
                   "t3_s1", "t3_done", "t4_s1", "t4_done", "t5_s1"}

----------------------------------------------------------------------------
(* The calls that return early: Release by a thread that is not the owner, *)
(* Signal with nobody waiting or with another lock, Wait with another lock.*)
ReleaseLock(l) ==
    IF owner[l] = currentThread THEN Release(l) ELSE InCaller /\ UNCHANGED vars

SignalCV(c, l) ==
    IF waitingCV[c] # <<>> /\ waitingLock[c] = l
    THEN Signal(c, l) ELSE InCaller /\ UNCHANGED vars

WaitCV(c, l) ==
    IF waitingLock[c] \in {NULL, l} THEN Wait(c, l) ELSE InCaller /\ UNCHANGED vars

(* new Thread and Thread::Fork, with no tick in between.                   *)
Spawn(t) ==
    /\ InCaller
    /\ status[t] = "FREE"
    /\ status' = [status EXCEPT ![t] = "READY"]
    /\ readyList' = Append(readyList, t)
    /\ UNCHANGED <<cpuVars, frame, saved, level, synchVars>>

Execute(i) ==
    \/ i.op = "Acquire" /\ Acquire(i.obj)
    \/ i.op = "Release" /\ ReleaseLock(i.obj)
    \/ i.op = "P" /\ P(i.obj)
    \/ i.op = "V" /\ V(i.obj)
    \/ i.op = "Wait" /\ WaitCV(i.cv, i.obj)
    \/ i.op = "Signal" /\ SignalCV(i.cv, i.obj)
    \/ i.op = "Broadcast" /\ Broadcast(i.cv, i.obj)
    \/ i.op = "Fork" /\ Spawn(i.obj)

(* currentThread makes its next call.                                      *)
TestStep ==
    /\ pc[currentThread] < Len(Program(currentThread))
    /\ Execute(Program(currentThread)[pc[currentThread] + 1])
    /\ pc' = [pc EXCEPT ![currentThread] = @ + 1]

(* ThreadRoot calls Finish when the thread's function returns; main() calls*)
(* it when TestSuite returns.                                              *)
TestEnd ==
    /\ pc[currentThread] = Len(Program(currentThread))
    /\ Finish
    /\ UNCHANGED <<synchVars, pc>>

(* What the thread does inside of the routine it called.                   *)
Resume ==
    /\ PWoken \/ AcquireWoken \/ WaitWoken \/ BroadcastSignal \/ BroadcastDone
    /\ UNCHANGED pc

TestSwitch == (TimeSlice \/ Dispatch) /\ UNCHANGED <<synchVars, pc>>

TestHalt == (IdleHalt \/ Halted) /\ UNCHANGED pc

Init_TestSuite == Init /\ pc = [t \in Thread |-> 0]

Next_TestSuite == TestStep \/ TestEnd \/ Resume \/ TestSwitch \/ TestHalt

Spec_TestSuite == Init_TestSuite /\ [][Next_TestSuite]_testVars

----------------------------------------------------------------------------
Done(t) == pc[t] = Len(Program(t))

(* "Show that Signal only wakes 1 thread", "Show that Broadcast wakes all  *)
(* waiting threads": whatever the timer does, when the machine halts every *)
(* P of the main thread has been answered, and the threads of the tests    *)
(* that are still asleep are t2_t2, t5_t1 and all but one of the waiters of*)
(* test 3.                                                                 *)
SuiteOutcome ==
    halted /\ pc[Main] > 0 =>
        LET asleep == {t \in Forked : ~Done(t)}
        IN  /\ Done(Main)
            /\ asleep \ t3_waiters = {<<"t2_t2", 0>>, <<"t5_t1", 0>>} \cap Forked
            /\ 3 \in Tests => Cardinality(asleep \cap t3_waiters) = Count - 1
==============================================================================
