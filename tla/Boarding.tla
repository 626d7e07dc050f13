------------------------------ MODULE Boarding ------------------------------
(* The gates and the planes: the end of Passenger::ChooseLiaisonLine,       *)
(* CargoHandler::DoWork, AirportManager::DoWork and EndOfDay                *)
(* (threads/threadtest.cc).                                                 *)
EXTENDS AirportState, FiniteSetsExt

otherThanBoard == <<fixedVars, liaisonVars, checkInVars, screenVars, securityVars, fault>>

WaitAtGate ==
    /\ At("Passenger", "lounge")
    /\ boardingLounges' = [boardingLounges EXCEPT ![mine.airline] = @ + 1]
    /\ WaitCV(gateLocksCV(mine.airline), gateLocks(mine.airline))
    /\ Goto("board")
    /\ UNCHANGED <<my, conveyor, alreadyBoarded, planeCount, onBreak, aircraft, handled,
                   report, otherThanBoard>>

PassengerAtGate ==
    LET a == mine.airline
    IN  \/ Do("Passenger", "gate", Acquire(gateLocks(a)), "lounge")
        \/ WaitAtGate
        \/ Do("Passenger", "board", ReleaseLock(gateLocks(a)), "end")
        \/ Do("Passenger", "end", EndThread, "gone")

----------------------------------------------------------------------------
(* CargoHandler::DoWork.  After a break the handler still holds            *)
(* CargoHandlerLock, and Acquire returns at once.                          *)
StartRound ==
    /\ At("Cargo", "top")
    /\ onBreak' = [onBreak EXCEPT ![me] = FALSE]
    /\ Acquire(CargoHandlerLock)
    /\ Goto("belt")
    /\ UNCHANGED <<my, conveyor, boardingLounges, alreadyBoarded, planeCount, aircraft,
                   handled, report, otherThanBoard>>

TakeFromConveyor ==
    /\ At("Cargo", "belt")
    /\ conveyor # <<>>
    /\ Set([temp |-> Head(conveyor)])
    /\ conveyor' = Tail(conveyor)
    /\ Acquire(AirlineBaggage(Head(conveyor).airlineCode))
    /\ Goto("carry")
    /\ UNCHANGED <<boardVars, otherThanBoard>>

TakeBreak ==
    /\ At("Cargo", "belt")
    /\ conveyor = <<>>
    /\ onBreak' = [onBreak EXCEPT ![me] = TRUE]
    /\ WaitCV(CargoHandlerCV, CargoHandlerLock)
    /\ Goto("top")
    /\ UNCHANGED <<my, conveyor, boardingLounges, alreadyBoarded, planeCount, aircraft,
                   handled, report, otherThanBoard>>

LoadBag ==
    /\ At("Cargo", "load")
    /\ LET a == mine.temp.airlineCode
       IN  /\ aircraft' = [aircraft EXCEPT ![a] = Append(@, mine.temp.bag)]
           /\ handled' = [handled EXCEPT ![me][a] = Append(@, mine.temp.bag)]
           /\ ReleaseLock(AirlineBaggage(a))
    /\ Goto("pause")
    /\ UNCHANGED <<my, conveyor, boardingLounges, alreadyBoarded, planeCount, onBreak, report,
                   otherThanBoard>>

CargoHandler ==
    \/ StartRound
    \/ TakeFromConveyor
    \/ TakeBreak
    \/ Do("Cargo", "carry", ReleaseLock(CargoHandlerLock), "load")
    \/ LoadBag
    \/ Do("Cargo", "pause", YieldCPU, "top")

----------------------------------------------------------------------------
(* Mutant of ReadyToBoard: the plane does not wait for the passengers.     *)
ReadyToBoardEmpty(a) == totalBaggage[a] = Len(aircraft[a]) /\ ~alreadyBoarded[a]

(* The condition under which the manager lets a plane board.               *)
ReadyToBoard(a) ==
    /\ boardingLounges[a] = totalPassengersOfAirline(a)
    /\ totalBaggage[a] = Len(aircraft[a])
    /\ ~alreadyBoarded[a]

(* The first plane from airline i on that may board, or none.              *)
NextPlane(i) ==
    LET ready == {a \in Airlines : a >= i /\ ReadyToBoard(a)}
    IN  IF ready = {} THEN simNumOfAirlines ELSE Min(ready)

(* The loop over the airlines from number i on: the next plane that is     *)
(* ready, the end of the day once all have left, or two Yields.            *)
ScanPlanes(i, planes) ==
    LET a == NextPlane(i)
    IN  \/ /\ a \in Airlines
           /\ Set([i |-> a])
           /\ Acquire(gateLocks(a)) /\ Goto("call")
        \/ /\ a \notin Airlines
           /\ Set([i |-> 0])
           /\ YieldCPU
           /\ Goto(IF planes = simNumOfAirlines THEN "report" ELSE "pause")

(* AirportManager::DoWork.                                                 *)
LookAtConveyor ==
    /\ At("Manager", "top")
    /\ IF conveyor # <<>>
       THEN Acquire(CargoHandlerLock) /\ Goto("recall") /\ UNCHANGED my
       ELSE ScanPlanes(0, planeCount)
    /\ UNCHANGED dataVars

RecallHandlers ==
    /\ At("Manager", "recall")
    /\ IF \A h \in Handlers : onBreak[h]
       THEN Broadcast(CargoHandlerCV, CargoHandlerLock)
       ELSE UNCHANGED vars
    /\ Goto("recalled")
    /\ UNCHANGED <<my, dataVars>>

HandlersRecalled ==
    /\ At("Manager", "scan")
    /\ ScanPlanes(0, planeCount)
    /\ UNCHANGED dataVars

Boarded ==
    /\ At("Manager", "called")
    /\ alreadyBoarded' = [alreadyBoarded EXCEPT ![mine.i] = TRUE]
    /\ ReleaseLock(gateLocks(mine.i))
    /\ Goto("left")
    /\ UNCHANGED <<my, conveyor, boardingLounges, planeCount, onBreak, aircraft, handled,
                   report, otherThanBoard>>

PlaneLeft ==
    /\ At("Manager", "left")
    /\ planeCount' = planeCount + 1
    /\ ScanPlanes(mine.i + 1, planeCount + 1)
    /\ UNCHANGED <<conveyor, boardingLounges, alreadyBoarded, onBreak, aircraft, handled,
                   report, otherThanBoard>>

(* The weights of the bags, all different, and 0 for one that has none.    *)
Weight(b) == IF b = NULL THEN 0 ELSE 30 + 3 * b[1] + b[2]

WeightOf(s) == SumFunction([i \in DOMAIN s |-> Weight(s[i])])

(* What the manager adds up from the agents' own counts.                   *)
Totals ==
    [liaisonPassengers |-> SumFunction([l \in Liaisons |-> directed[l].passengers]),
     checkInPassengers |-> SumFunction(checkedIn),
     securityPassengers |-> SumFunction(PassedPassengers),
     liaisonCount |-> [a \in Airlines |->
                        SumFunction([l \in Liaisons |-> directed[l].bags[a]])],
     cargoCount |-> [a \in Airlines |->
                        SumFunction([h \in Handlers |-> Len(handled[h][a])])],
     checkInWeight |-> [a \in Airlines |->
                        SumFunction([c \in CIOsOf(a) |-> WeightOf(totalBags[c])])],
     cargoWeight |-> [a \in Airlines |->
                        SumFunction([h \in Handlers |-> WeightOf(handled[h][a])])]]

EndOfDay ==
    /\ At("Manager", "report")
    /\ report' = Totals
    /\ EndThread
    /\ Goto("gone")
    /\ UNCHANGED <<my, conveyor, boardingLounges, alreadyBoarded, planeCount, onBreak,
                   aircraft, handled, otherThanBoard>>

AirportManager ==
    LET a == mine.i
    IN  \/ LookAtConveyor
        \/ RecallHandlers
        \/ Do("Manager", "recalled", ReleaseLock(CargoHandlerLock), "scan")
        \/ HandlersRecalled
        \/ Do("Manager", "call", Broadcast(gateLocksCV(a), gateLocks(a)), "called")
        \/ Boarded
        \/ PlaneLeft
        \/ Do("Manager", "pause", YieldCPU, "top")
        \/ EndOfDay
==============================================================================
