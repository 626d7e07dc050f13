------------------------------- MODULE Airport -------------------------------
(***************************************************************************)
(* The airport simulation as RunSim starts it: the agents of LiaisonDesk,  *)
(* CheckInDesk, Checkpoint and Boarding on one CPU, and what the simulation*)
(* promises (threads/threadtest.cc).                                       *)
(***************************************************************************)
EXTENDS LiaisonDesk, CheckInDesk, Checkpoint, Boarding

CONSTANT MaxSlices      \* bound: time slices in a behaviour

VARIABLES
    slices,             \* time slices so far
    crowded             \* history: two passengers have been in the line of one
                        \* security officer

allVars == <<airportVars, slices, crowded>>

(* The order in which RunSim forks the threads.                            *)
Numbered(kind, n) == [i \in 1 .. n |-> <<kind, i - 1>>]

Forks ==
    Numbered("Manager", 1) \o Numbered("CheckIn", simNumOfAirlines * simNumOfCIOs)
        \o Numbered("Liaison", simNumOfLiaisons)
        \o [i \in 1 .. 2 * simNumOfScreeningOfficers |->
                <<IF i % 2 = 1 THEN "Screening" ELSE "Security", (i - 1) \div 2>>]
        \o Numbered("Cargo", simNumOfCargoHandlers)
        \o Numbered("Passenger", simNumOfPassengers)

(* RunSim after setup(), whose Releases have left interrupts off: every    *)
(* thread is forked before any of them runs, and main() calls Finish.      *)
RunSim ==
    /\ At("main", "top")
    /\ status' = [t \in Thread |-> IF t = Main THEN "BLOCKED" ELSE "READY"]
    /\ readyList' = Forks
    /\ threadToBeDestroyed' = Main
    /\ SleepIn(Plain("Finish"), "IntOff")
    /\ Goto("gone")
    /\ UNCHANGED <<currentThread, machineStatus, halted, synchVars, my, dataVars>>

(* What an agent does inside of the kernel routine it called.              *)
Resume ==
    /\ AcquireWoken \/ WaitWoken \/ BroadcastSignal \/ BroadcastDone
    /\ UNCHANGED <<pc, my, dataVars>>

AirportDispatch == Dispatch /\ UNCHANGED <<synchVars, pc, my, dataVars>>

AirportSlice ==
    /\ slices < MaxSlices
    /\ TimeSlice
    /\ slices' = slices + 1
    /\ UNCHANGED <<synchVars, pc, my, dataVars>>

AirportHalt == (IdleHalt \/ Halted) /\ UNCHANGED <<pc, my, dataVars>>

Passenger ==
    PassengerAtLiaison \/ PassengerAtCheckIn \/ PassengerAtScreening \/ PassengerAtSecurity
        \/ PassengerAtGate

Init_Airport == Init /\ setup /\ slices = 0 /\ crowded = FALSE

AirportStep ==
    \/ RunSim \/ Passenger \/ LiaisonOfficer \/ CheckInOfficer \/ ScreeningOfficer
    \/ SecurityOfficer \/ CargoHandler \/ AirportManager \/ Resume \/ AirportDispatch
    \/ AirportHalt

Remember == crowded' = (crowded \/ \E s \in Screens : SecurityLine'[s] > 1)

(* A fault ends what can be said of the program.                           *)
Dead == fault /\ UNCHANGED allVars

Next_Airport ==
    \/ ~fault /\ AirportStep /\ UNCHANGED slices /\ Remember
    \/ ~fault /\ AirportSlice /\ Remember
    \/ Dead

(* Between time slices one thread is enabled at a time, and the CPU goes   *)
(* on.                                                                     *)
FairSpec_Airport ==
    /\ Init_Airport
    /\ [][Next_Airport]_allVars
    /\ WF_allVars(Next_Airport)

----------------------------------------------------------------------------
InLabels(p, S) == pc[<<"Passenger", p>>] \in S
Local(p) == my[<<"Passenger", p>>]

(* The plane of an airline leaves with all of its passengers in the lounge *)
(* and all of their bags on board, none of them twice and none of another  *)
(* airline.                                                                *)
PlaneComplete ==
    \A a \in Airlines : alreadyBoarded[a] =>
        LET on == {p \in Passengers : Local(p).airline = a}
        IN  /\ Cardinality(on) = totalPassengersOfAirline(a)
            /\ \A p \in on : InLabels(p, {"board", "end", "gone"})
            /\ ToSet(aircraft[a]) = UNION {ToSet(BagsOf(p)) : p \in on}
            /\ IsInjective(aircraft[a])

(* The report of the manager: all three counts are the number of           *)
(* passengers, and counts and weights agree with what the passengers had.  *)
(* The count of the security officers is wrong if two passengers have been *)
(* in one of their lines: then one may go through without being judged.    *)
ReportAgrees ==
    report # NULL =>
        /\ {report.liaisonPassengers, report.checkInPassengers} = {simNumOfPassengers}
        /\ crowded \/ report.securityPassengers = simNumOfPassengers
        /\ \A a \in Airlines :
            LET w(p) == IF Local(p).airline = a THEN WeightOf(BagsOf(p)) ELSE 0
            IN  /\ report.liaisonCount[a] = totalBaggage[a]
                /\ report.cargoCount[a] = totalBaggage[a]
                /\ {report.checkInWeight[a], report.cargoWeight[a]}
                        = {MapThenSumSet(w, Passengers)}

(* What a passenger reads in the struct it shares with an officer was      *)
(* written about that passenger: between its Signal and its return from    *)
(* Wait nobody else has talked to the officer.  At security, where officer *)
(* and passengers sleep on one condition variable, this holds as long as   *)
(* no two passengers have been in one line: a Signal between two of them   *)
(* is what wakes the wrong one.                                            *)
OwnAnswer ==
    \A p \in Passengers :
        LET l == Local(p).myLine
        IN  /\ InLabels(p, {"ask", "told"}) => LPInfo[l].passengerName = p
            /\ InLabels(p, {"weigh", "ticket"}) => CPInfo[l].passenger = p
            /\ InLabels(p, {"screened", "sent"}) => SPInfo[l].passenger = p
            /\ ~crowded /\ InLabels(p, {"hold", "result", "hold2", "result2"})
                    => SecPInfo[l].passenger = p

(* Everybody gets to their plane, also when signals at security go to      *)
(* another passenger than they were meant for, unless the loop that clears *)
(* a counter of bags starts, with an index that is not set, so far below   *)
(* zero that it goes past the last of them.                                *)
EverybodyBoards == <>(fault \/ \A p \in Passengers : InLabels(p, {"gone"}))
==============================================================================
