---------------------------- MODULE SynchConsole ----------------------------
(***************************************************************************)
(* The synchronized console (userprog/synchconsole.cc) on the console      *)
(* device (machine/console.cc): WriteLine puts a line out one character at *)
(* a time, waiting for the interrupt after each; ReadLine takes characters *)
(* from the device's one-character buffer as they are announced.           *)
(***************************************************************************)
EXTENDS Synch, SequencesExt

CONSTANTS
    inputMutex, outputMutex,        \* the console's locks
    inputAvailable, outputDone,     \* and semaphores
    EOF,                            \* the value of incoming when it is empty
    NL,                             \* '\n'
    Keyboard,                       \* what is going to be typed
    Text,                           \* the lines WriteLine is called with
    LineSize,                       \* the sizes ReadLine is called with
    MaxCalls                        \* bound: calls in a behaviour

VARIABLES
    putBusy, incoming,  \* Console::putBusy and incoming
    typed,              \* characters of Keyboard the device has read
    screen, taken,      \* all that PutChar put out, and GetChar took
    at,                 \* how far each thread is in its call
    todo,               \* WriteLine: characters to go; ReadLine: size
    mine,               \* the characters it has put out or taken so far
    finished,           \* history: the lines of the calls that are over
    calls

deviceVars == <<putBusy, incoming, typed>>
streamVars == <<screen, taken, finished>>
callVars == <<at, todo, mine, calls>>
consoleVars == <<deviceVars, streamVars, callVars>>

Goto(step) == at' = [at EXCEPT ![currentThread] = step]

At(step) == InCaller /\ at[currentThread] = step

Mine == mine[currentThread]

(* The call begins: its mutex is acquired.                                 *)
Call(mutex, n, step) ==
    /\ At("idle")
    /\ calls < MaxCalls
    /\ calls' = calls + 1
    /\ Acquire(mutex)
    /\ todo' = [todo EXCEPT ![currentThread] = n]
    /\ Goto(step)
    /\ UNCHANGED <<deviceVars, streamVars, mine>>

(* The call ends: its mutex is released (Release does nothing for a thread *)
(* that does not own it).                                                  *)
Return(mutex, op) ==
    /\ IF owner[mutex] = currentThread THEN Release(mutex) ELSE UNCHANGED vars
    /\ finished' = [finished EXCEPT ![op] = @ \o Mine]
    /\ mine' = [mine EXCEPT ![currentThread] = <<>>]
    /\ Goto("idle")
    /\ UNCHANGED <<deviceVars, screen, taken, todo, calls>>

----------------------------------------------------------------------------
WriteLine(line) == Call(outputMutex, line, "put")

(* One turn of the loop: Console::PutChar, then outputDone->P().           *)
PutChar ==
    LET line == todo[currentThread] IN
    /\ At("put")
    /\ line # <<>>
    /\ screen' = Append(screen, Head(line))
    /\ mine' = [mine EXCEPT ![currentThread] = Append(@, Head(line))]
    /\ todo' = [todo EXCEPT ![currentThread] = Tail(@)]
    /\ putBusy' = TRUE
    /\ DeviceRequest(outputDone)
    /\ Goto("putting")
    /\ UNCHANGED <<incoming, typed, taken, finished, calls>>

AwaitOutput ==
    /\ At("putting")
    /\ P(outputDone)
    /\ Goto("put")
    /\ UNCHANGED <<deviceVars, streamVars, todo, mine, calls>>

WriteLineEnd == At("put") /\ todo[currentThread] = <<>> /\ Return(outputMutex, "write")

(* Console::WriteDone, SynchConsole::WriteDone.                            *)
WriteDone ==
    /\ DeviceInterrupt(outputDone)
    /\ putBusy' = FALSE
    /\ UNCHANGED <<incoming, typed, streamVars, callVars>>

----------------------------------------------------------------------------
(* Mutant of ReadLine: inputMutex is not acquired.                         *)
ReadLineUnlocked(n) ==
    /\ At("idle")
    /\ calls < MaxCalls
    /\ calls' = calls + 1
    /\ todo' = [todo EXCEPT ![currentThread] = n]
    /\ Goto("read")
    /\ UNCHANGED <<vars, deviceVars, streamVars, mine>>

ReadLine(n) == Call(inputMutex, n, "read")

(* c != '\n' && num_read < size, where c is the last character read.       *)
MoreToRead ==
    LET c == IF Mine = <<>> THEN 0 ELSE Last(Mine)
    IN  c # NL /\ Len(Mine) < todo[currentThread]

(* Mutant of AwaitInput: a character is taken before it is announced.      *)
AwaitInputNot ==
    /\ At("read")
    /\ MoreToRead
    /\ Goto("get")
    /\ UNCHANGED <<vars, deviceVars, streamVars, todo, mine, calls>>

(* One turn of the loop: inputAvailable->P(), Console::GetChar.            *)
AwaitInput ==
    /\ At("read")
    /\ MoreToRead
    /\ P(inputAvailable)
    /\ Goto("get")
    /\ UNCHANGED <<deviceVars, streamVars, todo, mine, calls>>

GetChar ==
    /\ At("get")
    /\ taken' = Append(taken, incoming)
    /\ mine' = [mine EXCEPT ![currentThread] = Append(@, incoming)]
    /\ incoming' = EOF
    /\ Goto("read")
    /\ UNCHANGED <<vars, putBusy, typed, screen, finished, todo, calls>>

ReadLineEnd == At("read") /\ ~MoreToRead /\ Return(inputMutex, "read")

(* The poll Console::CheckCharAvail, which re-schedules itself: when a     *)
(* character is there and incoming says that the buffer is empty, read it  *)
(* and call SynchConsole::ReadAvail.  It runs like any device interrupt.   *)
CheckCharAvail ==
    /\ \/ Ticking /\ UNCHANGED machineStatus
       \/ /\ Asleep
          /\ readyList = <<>> \/ machineStatus = "IdleMode"
          /\ machineStatus' = "IdleMode"
    /\ incoming = EOF
    /\ typed < Len(Keyboard)
    /\ incoming' = Keyboard[typed + 1]
    /\ typed' = typed + 1
    /\ DoV(inputAvailable)
    /\ UNCHANGED <<currentThread, threadToBeDestroyed, halted, frame, saved, level,
                   lockVars, cvVars, pending, held, putBusy, streamVars, callVars>>

(* The poll finds nothing; with it pending, an idle machine never halts.   *)
IdlePoll == Asleep /\ readyList = <<>> /\ UNCHANGED <<vars, consoleVars>>

----------------------------------------------------------------------------
Spawn(t) ==
    /\ At("idle")
    /\ status[t] = "FREE"
    /\ status' = [status EXCEPT ![t] = "READY"]
    /\ frame' = [frame EXCEPT ![t] = Plain("ThreadRoot")]
    /\ readyList' = Append(readyList, t)
    /\ UNCHANGED <<cpuVars, saved, level, synchVars, consoleVars>>

Writing == PutChar \/ AwaitOutput \/ WriteLineEnd

Reading == AwaitInput \/ GetChar \/ ReadLineEnd

ConsoleResume == (AcquireWoken \/ PWoken) /\ UNCHANGED consoleVars

ConsoleSwitch == (TimeSlice \/ Dispatch \/ UserInstruction) /\ UNCHANGED <<synchVars, consoleVars>>

ConsoleFinish == At("idle") /\ Finish /\ UNCHANGED <<synchVars, consoleVars>>

Init_SynchConsole ==
    /\ Init
    /\ putBusy = FALSE
    /\ incoming = EOF
    /\ typed = 0
    /\ screen = <<>>
    /\ taken = <<>>
    /\ at = [t \in Thread |-> "idle"]
    /\ todo = [t \in Thread |-> NULL]
    /\ mine = [t \in Thread |-> <<>>]
    /\ finished = [write |-> <<>>, read |-> <<>>]
    /\ calls = 0

Next_SynchConsole ==
    \/ \E line \in Text : WriteLine(line)
    \/ \E n \in LineSize : ReadLine(n)
    \/ Writing \/ Reading \/ ConsoleResume \/ ConsoleSwitch \/ ConsoleFinish
    \/ \E t \in Thread : Spawn(t)
    \/ WriteDone \/ CheckCharAvail \/ IdlePoll

Spec_SynchConsole == Init_SynchConsole /\ [][Next_SynchConsole]_<<vars, consoleVars>>

----------------------------------------------------------------------------
(* A line a thread writes comes out in one piece, and a line a thread reads*)
(* is a run of consecutive characters, whoever else uses the console.      *)
LinesWhole ==
    /\ \E t \in Thread :
          /\ screen = finished.write \o (IF at[t] \in {"put", "putting"} THEN mine[t] ELSE <<>>)
          /\ \A u \in Thread \ {t} : at[u] \in {"put", "putting"} => mine[u] = <<>>
    /\ \E t \in Thread :
          /\ taken = finished.read \o (IF at[t] \in {"read", "get"} THEN mine[t] ELSE <<>>)
          /\ \A u \in Thread \ {t} : at[u] \in {"read", "get"} => mine[u] = <<>>

(* "Only read it in if there is buffer space for it (if the previous       *)
(* character has been grabbed out of the buffer by the Nachos kernel)": the*)
(* characters typed are taken in order, none is lost or made up, and at    *)
(* most one waits in the device.                                           *)
InputInOrder == IsPrefix(taken, Keyboard) /\ typed - Len(taken) \in {0, 1}
=============================================================================
