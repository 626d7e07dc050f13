------------------------------ MODULE MailTest ------------------------------
(***************************************************************************)
(* MailTest (network/nettest.cc) on two machines, started independently of *)
(* each other: send a message to box 0 of the other machine, wait for its  *)
(* message, acknowledge it to the reply box, wait for the acknowledgement, *)
(* halt.  A Send that fails, because the other machine does not run (yet   *)
(* or any more), halts the machine.  Or the machines run other clients of  *)
(* the post office, which send and receive in any order.                   *)
(***************************************************************************)
EXTENDS PostOffice

CONSTANT Main           \* the client that main() is

VARIABLES
    delayEnough,    \* TRUE iff both machines are started before either
                    \* comes out of main's Delay(2)
    step,           \* how far MailTest is on each machine
    failed          \* the machines on which a Send failed

mailVars == <<postVars, delayEnough, step, failed>>

ASSUME MailTestAssumption ==
    Cardinality(Machine) = 2 /\ Main \in Client

main(m) == <<m, Main>>

Far(m) == CHOOSE n \in Machine : n # m

Becomes(m, s) == step' = [step EXCEPT ![m] = s]

(* Interrupt::Halt, and Cleanup, which removes the socket with what is in  *)
(* it: the machine is gone.                                                *)
Halt(m) ==
    /\ up' = up \ {m}
    /\ sock' = [sock EXCEPT ![m] = <<>>]
    /\ Becomes(m, "halted")
    /\ UNCHANGED <<lossy, sendBusy, sendInt, inPkt, officeVars, clientVars, sent>>

(* nachos -m m -o Far(m): Initialize creates the post office.              *)
Start(m) ==
    /\ step[m] = "off"
    /\ up' = up \cup {m}
    /\ Becomes(m, "message")
    /\ UNCHANGED <<lossy, deviceVars, officeVars, clientVars, sent, failed>>

SendTo(m, from, box, then) ==
    /\ step[m] = from
    /\ SendStart(main(m), Far(m), box, 1)
    /\ Becomes(m, then)
    /\ UNCHANGED failed

Message(m) ==
    /\ delayEnough => \A n \in Machine : step[n] # "off"
    /\ SendTo(m, "message", 0, "sending message")

(* The acknowledgement goes to the reply box of the message that came.     *)
Ack(m) ==
    /\ step[m] = "ack"
    /\ SendTo(m, "ack", received[m][0][1].reply, "sending ack")

SendReturns(m, from, then) ==
    /\ step[m] = from
    /\ at[main(m)] = "idle"
    /\ IF success[main(m)] THEN Becomes(m, then) /\ UNCHANGED <<postVars, failed>>
       ELSE Halt(m) /\ failed' = failed \cup {m}

ReceiveFrom(m, box, from, then) ==
    /\ step[m] = from
    /\ Receive(main(m), box)
    /\ Becomes(m, then)
    /\ UNCHANGED failed

(* Mutant of MailTestStep: halt without waiting for the acknowledgement.   *)
MailTestStepNoWait(m) ==
    \/ Message(m)
    \/ SendReturns(m, "sending message", "await message")
    \/ ReceiveFrom(m, 0, "await message", "ack")
    \/ Ack(m)
    \/ SendReturns(m, "sending ack", "done")
    \/ step[m] = "done" /\ Halt(m) /\ UNCHANGED failed

(* Mutant of MailTestStep: the acknowledgement is awaited before the other *)
(* machine's message is acknowledged.                                      *)
MailTestStepAckFirst(m) ==
    \/ Message(m)
    \/ SendReturns(m, "sending message", "await message")
    \/ ReceiveFrom(m, 0, "await message", "await ack")
    \/ ReceiveFrom(m, 1, "await ack", "ack")
    \/ Ack(m)
    \/ SendReturns(m, "sending ack", "done")
    \/ step[m] = "done" /\ Halt(m) /\ UNCHANGED failed

MailTestStep(m) ==
    \/ Message(m)
    \/ SendReturns(m, "sending message", "await message")
    \/ ReceiveFrom(m, 0, "await message", "ack")
    \/ Ack(m)
    \/ SendReturns(m, "sending ack", "await ack")
    \/ ReceiveFrom(m, 1, "await ack", "done")
    \/ step[m] = "done" /\ Halt(m) /\ UNCHANGED failed

Transport(m) ==
    \/ NetworkSend(main(m)) \/ SendEnd(main(m)) \/ SendDone(m)
    \/ CheckPktAvail(m) \/ TakePacket(m) \/ PutMail(m)

(* MailTest is run, and not some other client of the post office.          *)
Testing == \A m \in Machine : step[m] # "clients"

Init_MailTest ==
    /\ delayEnough \in BOOLEAN
    /\ failed = {}
    /\ \/ Initially({}) /\ step = [m \in Machine |-> "off"]
       \/ Initially(Machine) /\ step = [m \in Machine |-> "clients"] /\ delayEnough

Next_MailTest ==
    \/ \E m \in Machine : (Start(m) \/ MailTestStep(m)) /\ UNCHANGED delayEnough
    \/ /\ \/ Testing /\ \E m \in Machine : Transport(m)
          \/ ~Testing /\ \E c \in Thread : ClientStep(c)
          \/ ~Testing /\ \E m \in Machine : Deliver(m)
          \/ Testing /\ \E m \in Machine : Poll(m)
       /\ UNCHANGED <<delayEnough, step, failed>>
    \/ up = {} /\ UNCHANGED mailVars

MailStep(A) == A /\ UNCHANGED <<delayEnough, step, failed>>

(* Both machines are started, interrupts are served and the threads that   *)
(* can go on do; nobody has to call Send or Receive.                       *)
FairSpec_MailTest ==
    /\ Init_MailTest /\ [][Next_MailTest]_mailVars
    /\ \A m \in Machine :
          /\ WF_mailVars((Start(m) \/ MailTestStep(m)) /\ UNCHANGED delayEnough)
          /\ WF_mailVars(MailStep(SendDone(m))) /\ WF_mailVars(MailStep(CheckPktAvail(m)))
          /\ WF_mailVars(MailStep(TakePacket(m))) /\ WF_mailVars(MailStep(PutMail(m)))
    /\ \A c \in Thread :
          WF_mailVars(MailStep(NetworkSend(c))) /\ WF_mailVars(MailStep(SendEnd(c)))

----------------------------------------------------------------------------
(* A machine that has the other's message can acknowledge it: the other is *)
(* still there, because MailTest does not halt before it has its own       *)
(* acknowledgement.  So a Send fails only on the first message, when the   *)
(* other machine was not started in time.                                  *)
CanAcknowledge == \A m \in Machine : received[m][0] # <<>> => m \notin failed

(* Without packet loss, and with both machines there in time, MailTest ends*)
(* on both: each gets its message and its acknowledgement.                 *)
MailTestEnds ==
    Testing /\ ~lossy /\ delayEnough =>
        <>(\A m \in Machine : step[m] = "halted" /\ \A b \in Box : Len(received[m][b]) = 1)
=============================================================================
