----------------------------- MODULE Checkpoint -----------------------------
(* Screening and security: the third and fourth part of                     *)
(* Passenger::ChooseLiaisonLine, ScreeningOfficer::DoWork and               *)
(* SecurityOfficer::DoWork (threads/threadtest.cc).                         *)
EXTENDS AirportState, FiniteSetsExt

otherThanScreen == <<fixedVars, liaisonVars, checkInVars, conveyor, securityVars, boardVars>>
otherThanSecurity == <<fixedVars, liaisonVars, checkInVars, conveyor, screenVars, boardVars,
                       fault>>

Free == {s \in Screens : ~IsBusy[s]}

(* The scan for an officer who is not busy; it keeps the last one it meets *)
(* and, if there is none, the line the passenger has come from.            *)
Scan(m) == IF Free = {} THEN m ELSE [m EXCEPT !.myLine = Max(Free), !.test = FALSE]

(* The first in line looks for an officer itself, the others wait.         *)
JoinScreenLine ==
    /\ At("Passenger", "first")
    /\ ScreenLine' = ScreenLine + 1
    /\ Set([mine EXCEPT !.test = TRUE])
    /\ IF ScreenLine = 0
       THEN ReleaseLock(ScreenLines) /\ Goto("seek")
       ELSE WaitCV(ScreenLineCV, ScreenLines) /\ Goto("pick")
    /\ UNCHANGED <<IsBusy, SPInfo, ScreeningResult, SecurityAvailability, otherThanScreen,
                   fault>>

FindOfficer ==
    /\ At("Passenger", "find")
    /\ Set(Scan(mine))
    /\ ReleaseLock(ScreenLines)
    /\ Goto("breathe")
    /\ UNCHANGED dataVars

PickOfficer ==
    /\ At("Passenger", "pick")
    /\ LET m == IF mine.test THEN Scan(mine) ELSE mine
       IN  /\ Set(m)
           /\ IF m.myLine \in Screens
              THEN /\ IsBusy' = [IsBusy EXCEPT ![m.myLine] = TRUE]
                   /\ Acquire(ScreenLocks(m.myLine))
                   /\ UNCHANGED fault
              ELSE fault' = TRUE /\ UNCHANGED <<vars, IsBusy>>
    /\ Goto("give")
    /\ UNCHANGED <<ScreenLine, SPInfo, ScreeningResult, SecurityAvailability, otherThanScreen>>

GiveLuggage ==
    /\ At("Passenger", "hand")
    /\ SPInfo' = [SPInfo EXCEPT ![mine.myLine].passenger = me]
    /\ SignalCV(ScreenOfficerCV(mine.myLine), ScreenLocks(mine.myLine))
    /\ Goto("screened")
    /\ UNCHANGED <<my, ScreenLine, IsBusy, ScreeningResult, SecurityAvailability,
                   otherThanScreen, fault>>

(* The number of a security officer was never written: no such line.       *)
LeaveScreening ==
    /\ At("Passenger", "sent")
    /\ LET s == mine.myLine
       IN  /\ Set([mine EXCEPT !.oldLine = s, !.myLine = SPInfo[s].SecurityOfficer])
           /\ fault' = (SPInfo[s].SecurityOfficer = NULL)
           /\ SignalCV(ScreenOfficerCV(s), ScreenLocks(s))
    /\ ScreenLine' = Less(ScreenLine)
    /\ Goto("unscreen")
    /\ UNCHANGED <<IsBusy, SPInfo, ScreeningResult, SecurityAvailability, otherThanScreen>>

PassengerAtScreening ==
    LET s == mine.myLine
    IN  \/ Do("Passenger", "screen", Acquire(ScreenLines), "first")
        \/ JoinScreenLine
        \/ Do("Passenger", "seek", Acquire(ScreenLines),
              IF mine.test THEN "find" ELSE "pick")
        \/ FindOfficer
        \/ Do("Passenger", "breathe", YieldCPU, "seek")
        \/ PickOfficer
        \/ Do("Passenger", "give", ReleaseLock(ScreenLines), "hand")
        \/ GiveLuggage
        \/ Do("Passenger", "screened", WaitCV(ScreenOfficerCV(s), ScreenLocks(s)), "sent")
        \/ LeaveScreening
        \/ Do("Passenger", "unscreen", ReleaseLock(ScreenLocks(mine.oldLine)), "security")

----------------------------------------------------------------------------
(* ScreeningOfficer::DoWork: free again, call whoever waits.               *)
CallToScreening ==
    /\ At("Screening", "call")
    /\ IsBusy' = [IsBusy EXCEPT ![me] = FALSE]
    /\ IF ScreenLine > 0 THEN SignalCV(ScreenLineCV, ScreenLines) ELSE UNCHANGED vars
    /\ Goto("ready")
    /\ UNCHANGED <<my, ScreenLine, SPInfo, ScreeningResult, SecurityAvailability,
                   otherThanScreen, fault>>

(* SPInfo names nobody if the officer was woken before a passenger spoke.  *)
ScreenPassenger ==
    /\ At("Screening", "screen")
    /\ IF SPInfo[me].passenger = NULL
       THEN fault' = TRUE /\ UNCHANGED ScreeningResult
       ELSE /\ \E ok \in ScreenPasses :
                   ScreeningResult' = [ScreeningResult EXCEPT ![SPInfo[me].passenger] = ok]
            /\ UNCHANGED fault
    /\ Set([mine EXCEPT !.i = 0])
    /\ Acquire(SecurityAvail)
    /\ Goto("try")
    /\ UNCHANGED <<ScreenLine, IsBusy, SPInfo, SecurityAvailability, otherThanScreen>>

(* One iteration of the search for a security officer: an available one is *)
(* taken, but the loop goes on and y tells of the last officer only.       *)
TrySecurityOfficer ==
    /\ At("Screening", "try")
    /\ LET y == SecurityAvailability[mine.i]
       IN  /\ Set([mine EXCEPT !.i = @ + 1, !.y = y, !.naps = 4])
           /\ SPInfo' = IF y THEN [SPInfo EXCEPT ![me].SecurityOfficer = mine.i] ELSE SPInfo
           /\ SecurityAvailability' = [SecurityAvailability EXCEPT ![mine.i] = FALSE]
    /\ ReleaseLock(SecurityAvail)
    /\ Goto("more")
    /\ UNCHANGED <<ScreenLine, IsBusy, ScreeningResult, otherThanScreen, fault>>

(* After the last officer: done, or four Yields and all over again.        *)
SearchGoesOn ==
    /\ At("Screening", "more")
    /\ \/ /\ mine.i < simNumOfScreeningOfficers
          /\ Acquire(SecurityAvail) /\ Goto("try") /\ UNCHANGED my
       \/ /\ mine.i = simNumOfScreeningOfficers /\ mine.y
          /\ SignalCV(ScreenOfficerCV(me), ScreenLocks(me)) /\ Goto("await2") /\ UNCHANGED my
       \/ /\ mine.i = simNumOfScreeningOfficers /\ ~mine.y /\ mine.naps > 0
          /\ YieldCPU /\ Set([mine EXCEPT !.naps = @ - 1]) /\ UNCHANGED pc
       \/ /\ mine.i = simNumOfScreeningOfficers /\ ~mine.y /\ mine.naps = 0
          /\ Acquire(SecurityAvail) /\ Set([mine EXCEPT !.i = 0]) /\ Goto("try")
    /\ UNCHANGED dataVars

ScreeningOfficer ==
    \/ Do("Screening", "top", Acquire(ScreenLines), "call")
    \/ CallToScreening
    \/ Do("Screening", "ready", Acquire(ScreenLocks(me)), "unlock")
    \/ Do("Screening", "unlock", ReleaseLock(ScreenLines), "await")
    \/ Do("Screening", "await", WaitCV(ScreenOfficerCV(me), ScreenLocks(me)), "screen")
    \/ ScreenPassenger
    \/ TrySecurityOfficer
    \/ SearchGoesOn
    \/ Do("Screening", "await2", WaitCV(ScreenOfficerCV(me), ScreenLocks(me)), "close")
    \/ Do("Screening", "close", ReleaseLock(ScreenLocks(me)), "top")

----------------------------------------------------------------------------
(* The officer of the passenger's line, and what both of them sleep on.    *)
SignalSecurity(s) == SignalCV(SecurityOfficerCV(s), SecurityLocks(s))
WaitSecurity(s) == WaitCV(SecurityOfficerCV(s), SecurityLocks(s))

(* The first in line wakes the officer, without holding its lock.          *)
JoinSecurityLine ==
    /\ At("Passenger", "join")
    /\ SecurityLine' = [SecurityLine EXCEPT ![mine.myLine] = @ + 1]
    /\ IF SecurityLine[mine.myLine] = 0 THEN SignalSecurity(mine.myLine) ELSE UNCHANGED vars
    /\ Goto("face")
    /\ UNCHANGED <<my, SecPInfo, PassedPassengers, otherThanSecurity>>

(* Tell the officer who is there, and whether back from questioning.       *)
TellSecurity(label, back, next) ==
    /\ At("Passenger", label)
    /\ SecPInfo' = [SecPInfo EXCEPT ![mine.myLine].passenger = me,
                                    ![mine.myLine].questioning = back]
    /\ SignalSecurity(mine.myLine)
    /\ Goto(next)
    /\ UNCHANGED <<my, SecurityLine, PassedPassengers, otherThanSecurity>>

GetResult ==
    /\ At("Passenger", "result")
    /\ LET passed == SecPInfo[mine.myLine].PassedSecurity
       IN  \E r \in IF passed THEN {0} ELSE Questionings :
                Set([mine EXCEPT !.NotTerrorist = passed, !.r = r])
    /\ Acquire(SecurityLines)
    /\ Goto("exit")
    /\ UNCHANGED dataVars

LeaveSecurityLine(label, next) ==
    /\ At("Passenger", label)
    /\ SecurityLine' = [SecurityLine EXCEPT ![mine.myLine] = @ - 1]
    /\ SignalSecurity(mine.myLine)
    /\ Goto(next)
    /\ UNCHANGED <<my, SecPInfo, PassedPassengers, otherThanSecurity>>

Questioning ==
    /\ At("Passenger", "questioning")
    /\ IF mine.r > 0
       THEN YieldCPU /\ Set([mine EXCEPT !.r = @ - 1]) /\ UNCHANGED pc
       ELSE Acquire(SecurityLines) /\ Goto("return") /\ UNCHANGED my
    /\ UNCHANGED dataVars

(* Back in line; the officer is made unavailable for others.               *)
ComeBack ==
    /\ At("Passenger", "back")
    /\ SecurityLine' = [SecurityLine EXCEPT ![mine.myLine] = @ + 1]
    /\ SecurityAvailability' = [SecurityAvailability EXCEPT ![mine.myLine] = FALSE]
    /\ ReleaseLock(SecurityAvail)
    /\ Goto("again")
    /\ UNCHANGED <<my, SecPInfo, PassedPassengers, ScreenLine, IsBusy, SPInfo, ScreeningResult,
                   fixedVars, liaisonVars, checkInVars, conveyor, boardVars, fault>>

(* Unless alone in line, wait, with SecurityLines held, to be woken by the *)
(* officer; then wake the officer.                                         *)
WaitForTurn ==
    /\ At("Passenger", "turn")
    /\ IF SecurityLine[mine.myLine] = 1 THEN UNCHANGED vars ELSE WaitSecurity(mine.myLine)
    /\ Goto("woken")
    /\ UNCHANGED <<my, dataVars>>

PassengerAtSecurity ==
    LET s == mine.myLine
    IN  \/ Do("Passenger", "security", Acquire(SecurityLines), "join")
        \/ JoinSecurityLine
        \/ Do("Passenger", "face", Acquire(SecurityLocks(s)), "unlines")
        \/ Do("Passenger", "unlines", ReleaseLock(SecurityLines), "present")
        \/ Do("Passenger", "present", WaitSecurity(s), "name")
        \/ TellSecurity("name", FALSE, "hold")
        \/ Do("Passenger", "hold", WaitSecurity(s), "result")
        \/ GetResult
        \/ LeaveSecurityLine("exit", "unsecure")
        \/ Do("Passenger", "unsecure", ReleaseLock(SecurityLocks(s)), "passed?")
        \/ Do("Passenger", "passed?", ReleaseLock(SecurityLines),
              IF mine.NotTerrorist THEN "gate" ELSE "questioning")
        \/ Questioning
        \/ Do("Passenger", "return", Acquire(SecurityAvail), "back")
        \/ ComeBack
        \/ Do("Passenger", "again", Acquire(SecurityLocks(s)), "turn")
        \/ WaitForTurn
        \/ Do("Passenger", "woken", SignalSecurity(s), "unline")
        \/ Do("Passenger", "unline", ReleaseLock(SecurityLines), "present2")
        \/ Do("Passenger", "present2", WaitSecurity(s), "name2")
        \/ TellSecurity("name2", TRUE, "hold2")
        \/ Do("Passenger", "hold2", WaitSecurity(s), "result2")
        \/ Do("Passenger", "result2", Acquire(SecurityLines), "exit2")
        \/ LeaveSecurityLine("exit2", "unsecure2")
        \/ Do("Passenger", "unsecure2", ReleaseLock(SecurityLocks(s)), "off")
        \/ Do("Passenger", "off", ReleaseLock(SecurityLines), "gate")

----------------------------------------------------------------------------
(* Mutant of BecomeAvailable: the officer never is again.                  *)
BecomeAvailableNever ==
    /\ At("Security", "free")
    /\ ReleaseLock(SecurityLines)
    /\ Goto("unavail")
    /\ UNCHANGED <<my, dataVars>>

(* SecurityOfficer::DoWork: with nobody in line 0 the officer is available.*)
(* SecurityLineCV, signalled otherwise, has no waiters.                    *)
BecomeAvailable ==
    /\ At("Security", "free")
    /\ SecurityAvailability' = [SecurityAvailability EXCEPT ![me] = @ \/ SecurityLine[0] = 0]
    /\ ReleaseLock(SecurityLines)
    /\ Goto("unavail")
    /\ UNCHANGED <<my, ScreenLine, IsBusy, SPInfo, ScreeningResult, otherThanScreen, fault>>

(* Mutant of Judge: only passengers back from questioning are counted.     *)
JudgeUncounted ==
    /\ At("Security", "judge")
    /\ \E ok \in SecurityPasses :
        LET s == SecPInfo[me]
            pass == s.questioning \/ (ok /\ ScreeningResult[s.passenger])
        IN  /\ PassedPassengers' =
                    [PassedPassengers EXCEPT ![me] = IF s.questioning THEN @ + 1 ELSE @]
            /\ SecPInfo' = IF s.questioning THEN SecPInfo
                           ELSE [SecPInfo EXCEPT ![me].PassedSecurity = pass]
    /\ SignalSecurity(me)
    /\ Goto("dismiss")
    /\ UNCHANGED <<my, SecurityLine, otherThanSecurity>>

(* A passenger back from questioning passes; another one must have passed  *)
(* the screening and the officer's own test.  SecPInfo names nobody if the *)
(* officer was woken before a passenger spoke.                             *)
Judge ==
    /\ At("Security", "judge")
    /\ fault' = (SecPInfo[me].passenger = NULL)
    /\ \E ok \in SecurityPasses :
        LET s == SecPInfo[me]
            pass == s.questioning \/ (ok /\ ~fault' /\ ScreeningResult[s.passenger])
        IN  /\ PassedPassengers' = [PassedPassengers EXCEPT ![me] = IF pass THEN @ + 1 ELSE @]
            /\ SecPInfo' = IF s.questioning THEN SecPInfo
                           ELSE [SecPInfo EXCEPT ![me].PassedSecurity = pass]
    /\ SignalSecurity(me)
    /\ Goto("dismiss")
    /\ UNCHANGED <<my, SecurityLine, fixedVars, liaisonVars, checkInVars, conveyor, screenVars,
                   boardVars>>

SecurityOfficer ==
    \/ Do("Security", "top", Acquire(SecurityLines), "lock")
    \/ Do("Security", "lock", Acquire(SecurityLocks(me)), "avail")
    \/ Do("Security", "avail", Acquire(SecurityAvail), "free")
    \/ BecomeAvailable
    \/ Do("Security", "unavail", ReleaseLock(SecurityAvail), "await")
    \/ Do("Security", "await", WaitSecurity(me), "greet")
    \/ Do("Security", "greet", SignalSecurity(me), "listen")
    \/ Do("Security", "listen", WaitSecurity(me), "judge")
    \/ Judge
    \/ Do("Security", "dismiss", WaitSecurity(me), "close")
    \/ Do("Security", "close", ReleaseLock(SecurityLocks(me)), "top")
==============================================================================
