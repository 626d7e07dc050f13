----------------------------- MODULE MCClients -----------------------------
(***************************************************************************)
(* The kernel code that is built on locks, conditions and semaphores, each *)
(* part in an instance of its own for TLC: the programs of TestSuite(), and*)
(* the synchronized list, disk and console.  A behaviour is one of one    *)
(* client, chosen in the initial state; the variables of the others do not *)
(* take part.                                                              *)
(***************************************************************************)
EXTENDS TestSuite

CONSTANTS EOF, NL

MainThread == <<"main", 0>>
NoUnits == [s \in Sem |-> 0]
ZeroedMemory == {NULL}

VARIABLES
    client,
    at, list, appended,
    active, contents, job, device, requests,
    putBusy, incoming, typed, screen, taken, todo, mine, finished, calls

listOnly == <<list, appended>>
diskOnly == <<active, contents, job, device, requests>>
consoleOnly == <<putBusy, incoming, typed, screen, taken, todo, mine, finished, calls>>

NoList == list = NULL /\ appended = NULL

NoDisk == active = NULL /\ contents = NULL /\ job = NULL /\ device = NULL /\ requests = NULL

NoConsole ==
    /\ putBusy = NULL /\ incoming = NULL /\ typed = NULL /\ screen = NULL /\ taken = NULL
    /\ todo = NULL /\ mine = NULL /\ finished = NULL /\ calls = NULL

----------------------------------------------------------------------------
List == INSTANCE SynchList WITH
    Thread <- {"t1", "t2", "t3"}, Main <- "t1", RandomYield <- TRUE, UserProgram <- TRUE,
    Sem <- {}, Lock <- {"lock"}, CV <- {"listEmpty"}, lock <- "lock", listEmpty <- "listEmpty",
    InitialValue <- <<>>, StaleOwner <- {NULL}, MaxUnits <- 0, MaxItems <- 2

Disk == INSTANCE SynchDisk WITH
    Thread <- {"t1", "t2"}, Main <- "t1", RandomYield <- TRUE, UserProgram <- TRUE,
    Sem <- {"semaphore"}, Lock <- {"lock"}, CV <- {}, lock <- "lock", semaphore <- "semaphore",
    InitialValue <- [s \in {"semaphore"} |-> 0], StaleOwner <- {NULL}, MaxUnits <- 3,
    Sector <- {0}, Data <- {"d1", "d2"}, MaxRequests <- 3

(* Typed: a line longer than one ReadLine takes, then the start of another.*)
Console == INSTANCE SynchConsole WITH
    Thread <- {"t1", "t2"}, Main <- "t1", RandomYield <- TRUE, UserProgram <- TRUE,
    Sem <- {"inputAvailable", "outputDone"}, Lock <- {"inputMutex", "outputMutex"}, CV <- {},
    inputMutex <- "inputMutex", outputMutex <- "outputMutex",
    inputAvailable <- "inputAvailable", outputDone <- "outputDone",
    InitialValue <- [s \in {"inputAvailable", "outputDone"} |-> 0], StaleOwner <- {NULL},
    MaxUnits <- 3, Keyboard <- <<"a", "b", NL, "c">>, Text <- {<<"x", "y">>, <<"z">>},
    LineSize <- {2}, MaxCalls <- 3

----------------------------------------------------------------------------
allVars == <<client, vars, at, listOnly, diskOnly, consoleOnly, pc>>

Init_Clients ==
    \/ client = "list" /\ List!Init_SynchList /\ NoDisk /\ NoConsole /\ pc = [t \in Thread |-> 0]
    \/ client = "disk" /\ Disk!Init_SynchDisk /\ NoList /\ NoConsole /\ pc = [t \in Thread |-> 0]
    \/ client = "console" /\ Console!Init_SynchConsole /\ NoList /\ NoDisk /\ pc = [t \in Thread |-> 0]
    \/ /\ client = "suite" /\ Init_TestSuite
       /\ NoList /\ NoDisk /\ NoConsole /\ at = NULL

ListNext ==
    client = "list" /\ List!Next_SynchList /\ UNCHANGED <<client, diskOnly, consoleOnly, pc>>

OfDisk(A) == client = "disk" /\ A /\ UNCHANGED <<client, listOnly, consoleOnly, pc>>

DiskNext == OfDisk(Disk!Next_SynchDisk)

ConsoleNext ==
    client = "console" /\ Console!Next_SynchConsole /\ UNCHANGED <<client, listOnly, diskOnly, pc>>

SuiteNext ==
    /\ client = "suite" /\ Next_TestSuite
    /\ UNCHANGED <<client, at, listOnly, diskOnly, consoleOnly>>

Next_Clients == ListNext \/ DiskNext \/ ConsoleNext \/ SuiteNext

(* A thread that has the CPU goes on with the call it is in before it loses*)
(* the CPU for good; an idle CPU serves the device; user code executes     *)
(* instructions, and a due interrupt comes at one of the next ticks.       *)
DiskFairness ==
    /\ \A t \in {"t1", "t2"} : SF_allVars(OfDisk(currentThread = t /\ Disk!Continue))
    /\ WF_allVars(OfDisk(Disk!Asleep /\ (Disk!DiskInterrupt \/ Disk!DiskSwitch)))
    /\ SF_allVars(OfDisk(Disk!TimeSlice /\ Disk!DiskSwitch))
    /\ SF_allVars(OfDisk(Disk!Ticking /\ Disk!DiskInterrupt))
    /\ WF_allVars(OfDisk(Disk!UserInstruction /\ Disk!DiskSwitch))

FairSpec_Clients == Init_Clients /\ [][Next_Clients]_allVars /\ DiskFairness

----------------------------------------------------------------------------
(* SynchList: no item lies on the list for which a thread sleeps in Remove *)
(* while nobody is on the way to take it.                                  *)
NoStrandedItem == client = "list" => List!NoStrandedItem

(* SynchDisk: a call returns after the interrupt of its own request, with  *)
(* the data the disk holds.                                                *)
OwnCompletion == client = "disk" => Disk!OwnCompletion

InDiskCall(t) == client = "disk" /\ Disk!InCall(t)

(* Every ReadSector and WriteSector of SynchDisk returns: the interrupt's V*)
(* reaches the one waiter, and a waiter for the lock gets its turn.        *)
RequestsReturn == \A t \in {"t1", "t2"} : InDiskCall(t) ~> ~InDiskCall(t)

(* SynchConsole: lines are written and read in one piece.                  *)
LinesWhole == client = "console" => Console!LinesWhole

(* Console: the characters typed are taken in order, none lost, none twice.*)
InputInOrder == client = "console" => Console!InputInOrder
============================================================================
