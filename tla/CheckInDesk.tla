----------------------------- MODULE CheckInDesk -----------------------------
(* The check-in counters: the second part of Passenger::ChooseLiaisonLine   *)
(* and CheckInOfficer::DoWork (threads/threadtest.cc).                      *)
EXTENDS AirportState

otherThanCheckIn == <<fixedVars, liaisonVars, screenVars, securityVars, boardVars>>

(* Executive passengers have a line per airline, economy passengers one per*)
(* officer of their airline.  The first in line wakes the officer, or every*)
(* officer of the airline who has no line.                                 *)
JoinCheckInLine ==
    /\ At("Passenger", "line")
    /\ LET a == mine.airline
           c == IF economy[me] THEN Shortest(CheckInLine, CIOsOf(a)) ELSE ExecLine(a)
           free == SelectSeq([i \in 1 .. simNumOfCIOs |-> a * simNumOfCIOs + i - 1],
                             LAMBDA i : CheckInLine[i] = 0)
       IN  /\ CheckInLine' = [CheckInLine EXCEPT ![c] = @ + 1]
           /\ Set([mine EXCEPT !.myLine = c,
                               !.wake = CASE CheckInLine[c] > 0 -> <<>>
                                          [] CheckInLine[c] = 0 /\ economy[me] -> <<c>>
                                          [] CheckInLine[c] = 0 /\ ~economy[me] -> free])
    /\ Goto("wake")
    /\ UNCHANGED <<vars, CPInfo, execLineNeedsHelp, OnBreak, conveyor, totalBags, checkedIn,
                   otherThanCheckIn, fault>>

WakeOfficers ==
    /\ At("Passenger", "wake")
    /\ IF mine.wake # <<>>
       THEN /\ SignalCV(CheckInBreakCV(Head(mine.wake)), CheckInLock)
            /\ Set([mine EXCEPT !.wake = Tail(@)])
            /\ UNCHANGED pc
       ELSE /\ WaitCV(CheckInCV(mine.myLine), CheckInLock)
            /\ Goto("served")
            /\ UNCHANGED my
    /\ UNCHANGED dataVars

(* An executive passenger is told which officer called.                    *)
GoToCounter ==
    /\ At("Passenger", "served")
    /\ LET c == IF economy[me] THEN mine.myLine ELSE CPInfo[mine.myLine].line
       IN  Set([mine EXCEPT !.myLine = c]) /\ Acquire(CheckInLocks(c))
    /\ Goto("counter")
    /\ UNCHANGED dataVars

(* The loop "for (int i; i < size; i++) pop_back()" starts at whatever i   *)
(* holds: the iterations it makes on n bags; more than n is past the end.  *)
Pops(i, n) == IF i >= n THEN 0 ELSE (n - i + 1) \div 2

(* Clear what is on the counter, then put the bags there: they are appended*)
(* but their weights are stored from the front.                            *)
DropBags ==
    /\ At("Passenger", "drop")
    /\ \E i \in StaleIndex :
        LET c == mine.myLine
            n == Len(CPInfo[c].bag)
            old == SubSeq(CPInfo[c].bag, 1, n - Pops(i, n))
            all == BagsOf(me) \o [k \in 1 .. Len(old) |-> NULL]
        IN  /\ CPInfo' = [CPInfo EXCEPT ![c].baggageCount = baggageCount[me],
                                        ![c].bag = all,
                                        ![c].passenger = me]
            /\ fault' = (Pops(i, n) > n)
    /\ SignalCV(CheckInOfficerCV(mine.myLine), CheckInLocks(mine.myLine))
    /\ Goto("weigh")
    /\ UNCHANGED <<my, CheckInLine, execLineNeedsHelp, OnBreak, conveyor, totalBags, checkedIn,
                   otherThanCheckIn>>

LeaveCounter ==
    /\ At("Passenger", "ticket")
    /\ CheckInLine' = [CheckInLine EXCEPT ![mine.myLine] = Less(@)]
    /\ SignalCV(CheckInOfficerCV(mine.myLine), CheckInLocks(mine.myLine))
    /\ Goto("uncounter")
    /\ UNCHANGED <<my, CPInfo, execLineNeedsHelp, OnBreak, conveyor, totalBags, checkedIn,
                   otherThanCheckIn, fault>>

PassengerAtCheckIn ==
    LET c == mine.myLine
    IN  \/ Do("Passenger", "checkin", Acquire(CheckInLock), "line")
        \/ JoinCheckInLine
        \/ WakeOfficers
        \/ GoToCounter
        \/ Do("Passenger", "counter", ReleaseLock(CheckInLock), "drop")
        \/ DropBags
        \/ Do("Passenger", "weigh", WaitCV(CheckInOfficerCV(c), CheckInLocks(c)), "ticket")
        \/ LeaveCounter
        \/ Do("Passenger", "uncounter", ReleaseLock(CheckInLocks(c)), "walk2")
        \/ Do("Passenger", "walk2", YieldCPU, "screen")

----------------------------------------------------------------------------
(* Mutant of ServesExec: a colleague may be about to serve that line.      *)
ServesExecToo(c) == CheckInLine[ExecLine(AirlineOf(c))] > 0

(* An executive passenger waits and no colleague is about to call them.    *)
ServesExec(c) == CheckInLine[ExecLine(AirlineOf(c))] > 0 /\ execLineNeedsHelp[AirlineOf(c)]

(* CheckInOfficer::DoWork: the executive line first, unless a colleague is *)
(* about to serve it, then the officer's own line, then a break.           *)
CallPassenger ==
    LET x == ExecLine(AirlineOf(me))
    IN  /\ At("CheckIn", "look")
        /\ \/ /\ ServesExec(me)
              /\ execLineNeedsHelp' = [execLineNeedsHelp EXCEPT ![AirlineOf(me)] = FALSE]
              /\ CPInfo' = [CPInfo EXCEPT ![x].line = me]
              /\ CheckInLine' = [CheckInLine EXCEPT ![x] = @ - 1, ![me] = @ + 1]
              /\ SignalCV(CheckInCV(x), CheckInLock)
              /\ Set([mine EXCEPT !.helped = TRUE])
              /\ OnBreak' = [OnBreak EXCEPT ![me] = FALSE]
              /\ Goto("serve")
           \/ /\ ~ServesExec(me) /\ CheckInLine[me] > 0
              /\ SignalCV(CheckInCV(me), CheckInLock)
              /\ Set([mine EXCEPT !.helped = FALSE])
              /\ OnBreak' = [OnBreak EXCEPT ![me] = FALSE]
              /\ Goto("serve")
              /\ UNCHANGED <<execLineNeedsHelp, CPInfo, CheckInLine>>
           \/ /\ ~ServesExec(me) /\ CheckInLine[me] = 0
              /\ WaitCV(CheckInBreakCV(me), CheckInLock)
              /\ Set([mine EXCEPT !.helped = FALSE])
              /\ OnBreak' = [OnBreak EXCEPT ![me] = TRUE]
              /\ Goto("back")
              /\ UNCHANGED <<execLineNeedsHelp, CPInfo, CheckInLine>>
        /\ UNCHANGED <<conveyor, totalBags, checkedIn, otherThanCheckIn, fault>>

ServePassenger ==
    /\ At("CheckIn", "serve")
    /\ checkedIn' = [checkedIn EXCEPT ![me] = @ + 1]
    /\ Acquire(CheckInLocks(me))
    /\ Goto("open")
    /\ UNCHANGED <<my, CheckInLine, CPInfo, execLineNeedsHelp, OnBreak, conveyor, totalBags,
                   otherThanCheckIn, fault>>

TakeBags ==
    /\ At("CheckIn", "bags")
    /\ execLineNeedsHelp' = [execLineNeedsHelp EXCEPT ![AirlineOf(me)] = @ \/ mine.helped]
    /\ Set([mine EXCEPT !.bags = CPInfo[me].bag, !.i = 0])
    /\ CPInfo' = [CPInfo EXCEPT ![me].bag = <<>>]
    /\ Goto("next")
    /\ UNCHANGED <<vars, CheckInLine, OnBreak, conveyor, totalBags, checkedIn,
                   otherThanCheckIn, fault>>

NextBag ==
    /\ At("CheckIn", "next")
    /\ IF mine.i < CPInfo[me].baggageCount
       THEN Acquire(BaggageLock) /\ Goto("push")
       ELSE SignalCV(CheckInOfficerCV(me), CheckInLocks(me)) /\ Goto("await2")
    /\ UNCHANGED <<my, dataVars>>

(* info.bags[i] with no such bag is past the end of the vector.            *)
PushBag ==
    /\ At("CheckIn", "push")
    /\ IF mine.i < Len(mine.bags)
       THEN LET b == mine.bags[mine.i + 1]
            IN  /\ conveyor' = Append(conveyor, [bag |-> b, airlineCode |-> AirlineOf(me)])
                /\ totalBags' = [totalBags EXCEPT ![me] = Append(@, b)]
                /\ UNCHANGED fault
       ELSE fault' = TRUE /\ UNCHANGED <<conveyor, totalBags>>
    /\ ReleaseLock(BaggageLock)
    /\ Set([mine EXCEPT !.i = @ + 1])
    /\ Goto("next")
    /\ UNCHANGED <<CheckInLine, CPInfo, execLineNeedsHelp, OnBreak, checkedIn,
                   otherThanCheckIn>>

CheckInOfficer ==
    \/ Do("CheckIn", "top", Acquire(CheckInLock), "look")
    \/ CallPassenger
    \/ Do("CheckIn", "back", ReleaseLock(CheckInLock), "top")
    \/ ServePassenger
    \/ Do("CheckIn", "open", ReleaseLock(CheckInLock), "await")
    \/ Do("CheckIn", "await", WaitCV(CheckInOfficerCV(me), CheckInLocks(me)), "bags")
    \/ TakeBags
    \/ NextBag
    \/ PushBag
    \/ Do("CheckIn", "await2", WaitCV(CheckInOfficerCV(me), CheckInLocks(me)), "close")
    \/ Do("CheckIn", "close", ReleaseLock(CheckInLocks(me)), "pause")
    \/ Do("CheckIn", "pause", YieldCPU, "top")
==============================================================================
