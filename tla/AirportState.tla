---------------------------- MODULE AirportState ----------------------------
(***************************************************************************)
(* The airport simulation of threads/threadtest.cc: the agents, the locks  *)
(* and condition variables they use, and the data they share.  Each agent  *)
(* is a thread on the kernel of module Synch; the modules LiaisonDesk,     *)
(* CheckInDesk, Checkpoint and Boarding hold the code of the agents, one   *)
(* step per call of the kernel, and module Airport puts them together.     *)
(*                                                                         *)
(* A bag is <<passenger, number>>: its weight, which the program adds up   *)
(* along the way, is what tells the bags apart.                            *)
(***************************************************************************)
EXTENDS Synch, Integers, SequencesExt

CONSTANTS
    simNumOfPassengers, simNumOfAirlines, simNumOfLiaisons, simNumOfCIOs,
    simNumOfCargoHandlers, simNumOfScreeningOfficers,
    BaggageCounts,      \* the results of rand() % 2 + BAGGAGE_COUNT
    Classes,            \* of rand() % 3 != 1 for each passenger: economy class?
    ScreenPasses,       \* of rand() % 5 != 0 in the screening officer
    SecurityPasses,     \* of rand() % 5 != 0 in the security officer
    Questionings,       \* of rand() % 2 + 1: the length of a questioning
    StaleIndex,         \* what an int on the stack that was never assigned holds
    StaleBreak          \* what CargoHandler::onBreak holds before DoWork

VARIABLES
    pc, my,                                         \* each agent's place and locals
    economy, baggageCount,                          \* Passenger, fixed at random
    liaisonLine, LPInfo, ticketsIssued, totalBaggage, directed,
    CheckInLine, CPInfo, execLineNeedsHelp, OnBreak, conveyor, totalBags, checkedIn,
    ScreenLine, IsBusy, SPInfo, ScreeningResult, SecurityAvailability,
    SecurityLine, SecPInfo, PassedPassengers,
    boardingLounges, alreadyBoarded, planeCount, onBreak, aircraft, handled, report,
    fault                                           \* an index out of bounds was used,
                                                    \* or an empty vector shortened

liaisonVars == <<liaisonLine, LPInfo, ticketsIssued, totalBaggage, directed>>
checkInVars == <<CheckInLine, CPInfo, execLineNeedsHelp, OnBreak, totalBags, checkedIn>>
screenVars == <<ScreenLine, IsBusy, SPInfo, ScreeningResult, SecurityAvailability>>
securityVars == <<SecurityLine, SecPInfo, PassedPassengers>>
boardVars == <<boardingLounges, alreadyBoarded, planeCount, onBreak, aircraft, handled,
               report>>
fixedVars == <<economy, baggageCount>>
dataVars == <<fixedVars, liaisonVars, checkInVars, conveyor, screenVars, securityVars,
              boardVars, fault>>
airportVars == <<vars, pc, my, dataVars>>

----------------------------------------------------------------------------
Upto(n) == 0 .. n - 1
Passengers == Upto(simNumOfPassengers)
Airlines == Upto(simNumOfAirlines)
Liaisons == Upto(simNumOfLiaisons)
CIOs == Upto(simNumOfAirlines * simNumOfCIOs)
ExecLine(a) == simNumOfAirlines * simNumOfCIOs + a
CheckInLines == CIOs \cup {ExecLine(a) : a \in Airlines}
CIOsOf(a) == a * simNumOfCIOs .. a * simNumOfCIOs + simNumOfCIOs - 1
AirlineOf(c) == c \div simNumOfCIOs
Handlers == Upto(simNumOfCargoHandlers)
Screens == Upto(simNumOfScreeningOfficers)

(* Every passenger gets a ticket of some airline; the first airline takes  *)
(* what is left over.                                                      *)
totalPassengersOfAirline(a) ==
    simNumOfPassengers \div simNumOfAirlines
        + IF a = 0 THEN simNumOfPassengers % simNumOfAirlines ELSE 0

Agents ==
    ({"Manager"} \X {0}) \cup ({"CheckIn"} \X CIOs) \cup ({"Liaison"} \X Liaisons)
        \cup ({"Screening", "Security"} \X Screens) \cup ({"Cargo"} \X Handlers)
        \cup ({"Passenger"} \X Passengers)

AgentThreads == Agents \cup {<<"main", 0>>}

liaisonLineLock == <<"liaisonLineLock", 0>>
liaisonLineLocks(i) == <<"liaisonLineLocks", i>>
seatLock == <<"seatLock", 0>>
CheckInLock == <<"CheckInLock", 0>>
CheckInLocks(i) == <<"CheckInLocks", i>>
BaggageLock == <<"BaggageLock", 0>>
CargoHandlerLock == <<"CargoHandlerLock", 0>>
AirlineBaggage(a) == <<"AirlineBaggage", a>>
ScreenLines == <<"ScreenLines", 0>>
ScreenLocks(i) == <<"ScreenLocks", i>>
SecurityAvail == <<"SecurityAvail", 0>>
SecurityLines == <<"SecurityLines", 0>>
SecurityLocks(i) == <<"SecurityLocks", i>>
gateLocks(a) == <<"gateLocks", a>>

AirportLocks ==
    {liaisonLineLock, seatLock, CheckInLock, BaggageLock, CargoHandlerLock, ScreenLines,
     SecurityAvail, SecurityLines}
        \cup ({"liaisonLineLocks"} \X Liaisons) \cup ({"CheckInLocks"} \X CIOs)
        \cup ({"ScreenLocks", "SecurityLocks"} \X Screens)
        \cup ({"AirlineBaggage", "gateLocks"} \X Airlines)

liaisonLineCV(i) == <<"liaisonLineCV", i>>
liaisonOfficerCV(i) == <<"liaisonOfficerCV", i>>
CheckInCV(i) == <<"CheckInCV", i>>
CheckInBreakCV(i) == <<"CheckInBreakCV", i>>
CheckInOfficerCV(i) == <<"CheckInOfficerCV", i>>
CargoHandlerCV == <<"CargoHandlerCV", 0>>
ScreenLineCV == <<"ScreenLineCV", 0>>
ScreenOfficerCV(i) == <<"ScreenOfficerCV", i>>
SecurityOfficerCV(i) == <<"SecurityOfficerCV", i>>
gateLocksCV(a) == <<"gateLocksCV", a>>

AirportCVs ==
    {CargoHandlerCV, ScreenLineCV}
        \cup ({"liaisonLineCV", "liaisonOfficerCV"} \X Liaisons)
        \cup ({"CheckInBreakCV", "CheckInOfficerCV"} \X CIOs)
        \cup ({"CheckInCV"} \X CheckInLines)
        \cup ({"ScreenOfficerCV", "SecurityOfficerCV"} \X Screens)
        \cup ({"gateLocksCV"} \X Airlines)

ASSUME AirportAssumption ==
    /\ Thread = AgentThreads /\ Main = <<"main", 0>>
    /\ Lock = AirportLocks /\ CV = AirportCVs /\ Sem = {}
    /\ {simNumOfPassengers, simNumOfAirlines, simNumOfLiaisons, simNumOfCIOs,
        simNumOfCargoHandlers, simNumOfScreeningOfficers} \subseteq Nat \ {0}
    /\ BaggageCounts \subseteq Nat \ {0} /\ Questionings \subseteq Nat \ {0}
    /\ Classes \subseteq [Passengers -> BOOLEAN]
    /\ ScreenPasses \cup SecurityPasses \cup StaleBreak \subseteq BOOLEAN
    /\ StaleIndex \subseteq Int
    /\ ~UserProgram

----------------------------------------------------------------------------
(* The agent that executes, its number and its locals.                     *)
me == currentThread[2]
mine == my[currentThread]

At(kind, label) ==
    InCaller /\ currentThread[1] = kind /\ pc[currentThread] = label

Goto(label) == pc' = [pc EXCEPT ![currentThread] = label]

Set(new) == my' = [my EXCEPT ![currentThread] = new]

(* A step that is one call of the kernel and touches no data.              *)
Do(kind, label, call, next) ==
    /\ At(kind, label)
    /\ call
    /\ Goto(next)
    /\ UNCHANGED <<my, dataVars>>

(* The calls that return early: Release by a thread that is not the owner, *)
(* Signal with nobody waiting or with another lock, Wait with another lock,*)
(* Yield with nobody ready.                                                *)
ReleaseLock(l) ==
    IF owner[l] = currentThread THEN Release(l) ELSE InCaller /\ UNCHANGED vars

SignalCV(c, l) ==
    IF waitingCV[c] # <<>> /\ waitingLock[c] = l
    THEN Signal(c, l) ELSE InCaller /\ UNCHANGED vars

WaitCV(c, l) ==
    IF waitingLock[c] \in {NULL, l} THEN Wait(c, l) ELSE InCaller /\ UNCHANGED vars

YieldCPU ==
    IF readyList = <<>> THEN InCaller /\ UNCHANGED vars ELSE Yield /\ UNCHANGED synchVars

EndThread == Finish /\ UNCHANGED synchVars

(* The first shortest of the lines numbered in S.                          *)
Shortest(line, S) ==
    CHOOSE i \in S : \A j \in S : line[i] < line[j] \/ (line[i] = line[j] /\ i <= j)

Less(n) == IF n > 0 THEN n - 1 ELSE n

BagsOf(p) == [i \in 1 .. baggageCount[p] |-> <<p, i>>]

----------------------------------------------------------------------------
(* What setup() leaves: everything empty and free, the officers not busy.  *)
LocalsOf(kind) ==
    CASE kind = "Passenger" -> [airline |-> NULL, myLine |-> 0, oldLine |-> 0, test |-> TRUE,
                                NotTerrorist |-> TRUE, r |-> 0, wake |-> <<>>]
      [] kind = "Liaison" -> [airline |-> NULL]
      [] kind = "CheckIn" -> [helped |-> FALSE, bags |-> <<>>, i |-> 0]
      [] kind = "Cargo" -> [temp |-> NULL]
      [] kind = "Screening" -> [i |-> 0, y |-> FALSE, naps |-> 0]
      [] kind \in {"Manager", "Security", "main"} -> [i |-> 0]

setup ==
    /\ pc = [t \in Thread |-> "top"]
    /\ my = [t \in Thread |-> LocalsOf(t[1])]
    /\ economy \in Classes
    /\ baggageCount \in [Passengers -> BaggageCounts]
    /\ liaisonLine = [l \in Liaisons |-> 0]
    /\ LPInfo = [l \in Liaisons |-> [passengerName |-> NULL, baggageCount |-> 0,
                                     airline |-> NULL]]
    /\ ticketsIssued = [a \in Airlines |-> 0]
    /\ totalBaggage = [a \in Airlines |-> 0]
    /\ directed = [l \in Liaisons |-> [passengers |-> 0, bags |-> [a \in Airlines |-> 0]]]
    /\ CheckInLine = [c \in CheckInLines |-> 0]
    /\ CPInfo = [c \in CheckInLines |-> [baggageCount |-> 0, passenger |-> NULL,
                                         line |-> NULL, bag |-> <<>>]]
    /\ execLineNeedsHelp = [a \in Airlines |-> TRUE]
    /\ OnBreak = [c \in CIOs |-> FALSE]
    /\ conveyor = <<>>
    /\ totalBags = [c \in CIOs |-> <<>>]
    /\ checkedIn = [c \in CIOs |-> 0]
    /\ ScreenLine = 0
    /\ IsBusy = [s \in Screens |-> FALSE]
    /\ SPInfo = [s \in Screens |-> [passenger |-> NULL, SecurityOfficer |-> NULL]]
    /\ ScreeningResult = [p \in Passengers |-> TRUE]
    /\ SecurityAvailability = [s \in Screens |-> TRUE]
    /\ SecurityLine = [s \in Screens |-> 0]
    /\ SecPInfo = [s \in Screens |-> [passenger |-> NULL, questioning |-> FALSE,
                                      PassedSecurity |-> FALSE]]
    /\ PassedPassengers = [s \in Screens |-> 0]
    /\ boardingLounges = [a \in Airlines |-> 0]
    /\ alreadyBoarded = [a \in Airlines |-> FALSE]
    /\ planeCount = 0
    /\ onBreak \in [Handlers -> StaleBreak]
    /\ aircraft = [a \in Airlines |-> <<>>]
    /\ handled = [h \in Handlers |-> [a \in Airlines |-> <<>>]]
    /\ report = NULL
    /\ fault = FALSE
==============================================================================
