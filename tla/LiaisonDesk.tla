----------------------------- MODULE LiaisonDesk -----------------------------
(* The airport liaisons: the first part of Passenger::ChooseLiaisonLine and *)
(* LiaisonOfficer::DoWork (threads/threadtest.cc).                          *)
EXTENDS AirportState

otherThanLiaison == <<fixedVars, checkInVars, conveyor, screenVars, securityVars,
                      boardVars, fault>>

(* The passenger joins the shortest line and sleeps until it is called.    *)
JoinLiaisonLine ==
    /\ At("Passenger", "choose")
    /\ LET l == Shortest(liaisonLine, Liaisons)
       IN  /\ Set([mine EXCEPT !.myLine = l])
           /\ liaisonLine' = [liaisonLine EXCEPT ![l] = @ + 1]
           /\ WaitCV(liaisonLineCV(l), liaisonLineLock)
    /\ Goto("called")
    /\ UNCHANGED <<LPInfo, ticketsIssued, totalBaggage, directed, otherThanLiaison>>

TellLiaison ==
    /\ At("Passenger", "tell")
    /\ LPInfo' = [LPInfo EXCEPT ![mine.myLine].passengerName = me,
                                ![mine.myLine].baggageCount = baggageCount[me]]
    /\ SignalCV(liaisonOfficerCV(mine.myLine), liaisonLineLocks(mine.myLine))
    /\ Goto("ask")
    /\ UNCHANGED <<my, liaisonLine, ticketsIssued, totalBaggage, directed, otherThanLiaison>>

(* It reads its airline and leaves the line.                               *)
GetAirline ==
    /\ At("Passenger", "told")
    /\ LET l == mine.myLine
           a == LPInfo[l].airline
       IN  /\ Set([mine EXCEPT !.airline = a])
           /\ totalBaggage' = [totalBaggage EXCEPT ![a] = @ + baggageCount[me]]
           /\ liaisonLine' = [liaisonLine EXCEPT ![l] = Less(@)]
           /\ SignalCV(liaisonOfficerCV(l), liaisonLineLocks(l))
    /\ Goto("leave")
    /\ UNCHANGED <<LPInfo, ticketsIssued, directed, otherThanLiaison>>

PassengerAtLiaison ==
    LET l == mine.myLine
    IN  \/ Do("Passenger", "top", Acquire(liaisonLineLock), "choose")
        \/ JoinLiaisonLine
        \/ Do("Passenger", "called", ReleaseLock(liaisonLineLock), "approach")
        \/ Do("Passenger", "approach", Acquire(liaisonLineLocks(l)), "tell")
        \/ TellLiaison
        \/ Do("Passenger", "ask", WaitCV(liaisonOfficerCV(l), liaisonLineLocks(l)), "told")
        \/ GetAirline
        \/ Do("Passenger", "leave", WaitCV(liaisonOfficerCV(l), liaisonLineLocks(l)),
              "directed")
        \/ Do("Passenger", "directed", ReleaseLock(liaisonLineLocks(l)), "walk")
        \/ Do("Passenger", "walk", YieldCPU, "checkin")

----------------------------------------------------------------------------
(* LiaisonOfficer::DoWork: is somebody in my line?                         *)
LookAtLiaisonLine ==
    /\ At("Liaison", "look")
    /\ IF liaisonLine[me] > 0
       THEN SignalCV(liaisonLineCV(me), liaisonLineLock) /\ Goto("desk")
       ELSE ReleaseLock(liaisonLineLock) /\ Goto("idle")
    /\ UNCHANGED <<my, dataVars>>

CountPassenger ==
    /\ At("Liaison", "count")
    /\ directed' = [directed EXCEPT ![me].passengers = @ + 1]
    /\ Acquire(seatLock)
    /\ Goto("issue")
    /\ UNCHANGED <<my, liaisonLine, LPInfo, ticketsIssued, totalBaggage, otherThanLiaison>>

(* An airline with seats left, at random.                                  *)
IssueTicket ==
    /\ At("Liaison", "issue")
    /\ \E a \in Airlines :
        /\ ticketsIssued[a] < totalPassengersOfAirline(a)
        /\ ticketsIssued' = [ticketsIssued EXCEPT ![a] = @ + 1]
        /\ directed' = [directed EXCEPT ![me].bags[a] = @ + LPInfo[me].baggageCount]
        /\ Set([airline |-> a])
    /\ ReleaseLock(seatLock)
    /\ Goto("inform")
    /\ UNCHANGED <<liaisonLine, LPInfo, totalBaggage, otherThanLiaison>>

InformPassenger ==
    /\ At("Liaison", "inform")
    /\ LPInfo' = [LPInfo EXCEPT ![me].airline = mine.airline]
    /\ SignalCV(liaisonOfficerCV(me), liaisonLineLocks(me))
    /\ Goto("await2")
    /\ UNCHANGED <<my, liaisonLine, ticketsIssued, totalBaggage, directed, otherThanLiaison>>

(* With nobody in line: home if all planes have left, or look again.       *)
IdleLiaison ==
    /\ At("Liaison", "home?")
    /\ IF planeCount = simNumOfAirlines
       THEN EndThread /\ Goto("gone")
       ELSE YieldCPU /\ Goto("top")
    /\ UNCHANGED <<my, dataVars>>

LiaisonOfficer ==
    \/ Do("Liaison", "top", Acquire(liaisonLineLock), "look")
    \/ LookAtLiaisonLine
    \/ Do("Liaison", "desk", Acquire(liaisonLineLocks(me)), "open")
    \/ Do("Liaison", "open", ReleaseLock(liaisonLineLock), "await")
    \/ Do("Liaison", "await", WaitCV(liaisonOfficerCV(me), liaisonLineLocks(me)), "count")
    \/ CountPassenger
    \/ IssueTicket
    \/ InformPassenger
    \/ Do("Liaison", "await2", WaitCV(liaisonOfficerCV(me), liaisonLineLocks(me)), "direct")
    \/ Do("Liaison", "direct", SignalCV(liaisonOfficerCV(me), liaisonLineLocks(me)), "close")
    \/ Do("Liaison", "close", ReleaseLock(liaisonLineLocks(me)), "pause")
    \/ Do("Liaison", "idle", YieldCPU, "home?")
    \/ IdleLiaison
    \/ Do("Liaison", "pause", YieldCPU, "top")
==============================================================================
