----------------------------- MODULE PostOffice -----------------------------
(***************************************************************************)
(* Several Nachos machines on a network: the simulated network device of   *)
(* each (machine/network.cc), the UNIX sockets between them, and the post  *)
(* office with its mailboxes and its postal worker (network/post.cc).      *)
(*                                                                         *)
(* A semaphore is its value and P a guard on it, a lock is its holder, and *)
(* the SynchList of a mailbox is the queue module SynchList shows it to be;*)
(* how these put threads to sleep is the subject of module Synch.  A step  *)
(* of a thread runs up to the next of these operations.                    *)
(***************************************************************************)
EXTENDS Naturals, FiniteSets, SequencesExt

CONSTANTS
    Machine,        \* network addresses
    Client,         \* on each machine: the threads that send and receive
    Box,            \* mailbox numbers, 0 <= number < numBoxes
    Destination,    \* the machine and mailbox pairs mail is sent to
    MaxSent,        \* bound: packets each machine sends
    NULL

VARIABLES
    lossy,              \* TRUE iff chanceToWork < 1 (option -l)
    up,                 \* the machines that run: their socket exists
    sendBusy,           \* Network::sendBusy
    sendInt,            \* NetworkSendDone interrupts that are scheduled
    inPkt,              \* inHdr and inbox: the buffered packet, or NULL
    sock,               \* packets in the machine's UNIX socket
    messageAvailable, messageSent,      \* the semaphores' values
    sendLock,           \* the client inside Send, or NULL
    hand,               \* packet the postal worker has not put away yet
    boxes,              \* MailBox::messages
    at,                 \* how far each client is in Send
    outPkt,             \* the packet it sends
    success,            \* what its last Send returned
    sent, received      \* history: packets the network has taken, and
                        \* per mailbox those Receive has returned

deviceVars == <<sendBusy, sendInt, inPkt, sock>>
officeVars == <<messageAvailable, messageSent, sendLock, hand, boxes>>
clientVars == <<at, outPkt, success, received>>
postVars == <<lossy, up, deviceVars, officeVars, clientVars, sent>>

Thread == Machine \X Client

On(c) == c[1]

(* A packet with its PacketHeader and MailHeader; the payload is no more   *)
(* than its number.                                                        *)
Packet(m, to, box, reply) ==
    [from |-> m, to |-> to, box |-> box, reply |-> reply, no |-> 0]

----------------------------------------------------------------------------
(* PostOffice::Send: fill in the headers, acquire sendLock.                *)
SendStart(c, to, box, reply) ==
    /\ On(c) \in up
    /\ at[c] = "idle"
    /\ sendLock[On(c)] = NULL
    /\ sendLock' = [sendLock EXCEPT ![On(c)] = c]
    /\ outPkt' = [outPkt EXCEPT ![c] = Packet(On(c), to, box, reply)]
    /\ at' = [at EXCEPT ![c] = "send"]
    /\ UNCHANGED <<lossy, up, deviceVars, messageAvailable, messageSent, hand, boxes,
                   success, received, sent>>

(* Network::Send: the SendDone interrupt is scheduled whatever becomes of  *)
(* the packet; sendBusy, which it asserts to be FALSE, is not assigned.  A *)
(* packet that is dropped on purpose counts as sent; one for a machine that*)
(* does not run makes sendto fail.                                         *)
NetworkSend(c) ==
    LET m == On(c)
        p == [outPkt[c] EXCEPT !.no = Len(sent[m]) + 1]
    IN  /\ m \in up
        /\ at[c] = "send"
        /\ sendInt' = [sendInt EXCEPT ![m] = @ + 1]
        /\ \/ /\ lossy
              /\ success' = [success EXCEPT ![c] = TRUE]
              /\ UNCHANGED sock
           \/ /\ success' = [success EXCEPT ![c] = p.to \in up]
              /\ sock' = IF p.to \in up THEN [sock EXCEPT ![p.to] = Append(@, p)] ELSE sock
        /\ sent' = IF success'[c] THEN [sent EXCEPT ![m] = Append(@, p)] ELSE sent
        /\ at' = [at EXCEPT ![c] = "wait"]
        /\ UNCHANGED <<lossy, up, sendBusy, inPkt, officeVars, outPkt, received>>

(* messageSent->P() returns, then sendLock is released.                    *)
SendEnd(c) ==
    LET m == On(c) IN
    /\ m \in up
    /\ at[c] = "wait"
    /\ messageSent[m] > 0
    /\ messageSent' = [messageSent EXCEPT ![m] = @ - 1]
    /\ sendLock' = [sendLock EXCEPT ![m] = NULL]
    /\ at' = [at EXCEPT ![c] = "idle"]
    /\ UNCHANGED <<lossy, up, deviceVars, messageAvailable, hand, boxes, outPkt, success,
                   received, sent>>

(* PostOffice::Receive, MailBox::Get: the first message of the box.        *)
Receive(c, b) ==
    LET m == On(c) IN
    /\ m \in up
    /\ at[c] = "idle"
    /\ boxes[m][b] # <<>>
    /\ received' = [received EXCEPT ![m][b] = Append(@, Head(boxes[m][b]))]
    /\ boxes' = [boxes EXCEPT ![m][b] = Tail(@)]
    /\ UNCHANGED <<lossy, up, deviceVars, messageAvailable, messageSent, sendLock, hand,
                   at, outPkt, success, sent>>

----------------------------------------------------------------------------
(* Network::SendDone, PostOffice::PacketSent.                              *)
SendDone(m) ==
    /\ m \in up
    /\ sendInt[m] > 0
    /\ sendInt' = [sendInt EXCEPT ![m] = @ - 1]
    /\ sendBusy' = [sendBusy EXCEPT ![m] = FALSE]
    /\ messageSent' = [messageSent EXCEPT ![m] = @ + 1]
    /\ UNCHANGED <<lossy, up, inPkt, sock, messageAvailable, sendLock, hand, boxes,
                   clientVars, sent>>

(* "do nothing if packet is already buffered".                             *)
MayBuffer(m) == inPkt[m] = NULL

(* Network::CheckPktAvail, when the poll finds a packet, and               *)
(* PostOffice::IncomingPacket.                                             *)
CheckPktAvail(m) ==
    /\ m \in up
    /\ MayBuffer(m)
    /\ sock[m] # <<>>
    /\ inPkt' = [inPkt EXCEPT ![m] = Head(sock[m])]
    /\ sock' = [sock EXCEPT ![m] = Tail(@)]
    /\ messageAvailable' = [messageAvailable EXCEPT ![m] = @ + 1]
    /\ UNCHANGED <<lossy, up, sendBusy, sendInt, messageSent, sendLock, hand, boxes,
                   clientVars, sent>>

(* The poll finds no packet, or the last one still buffered; the next poll *)
(* is scheduled all the same, so the machine never runs out of interrupts. *)
Poll(m) == m \in up /\ (sock[m] = <<>> \/ ~MayBuffer(m)) /\ UNCHANGED postVars

(* Mutant of TakePacket: Network::Receive does not reset inHdr.length.     *)
TakePacketKeeps(m) ==
    /\ m \in up
    /\ hand[m] = NULL
    /\ messageAvailable[m] > 0
    /\ messageAvailable' = [messageAvailable EXCEPT ![m] = @ - 1]
    /\ hand' = [hand EXCEPT ![m] = inPkt[m]]
    /\ UNCHANGED <<lossy, up, deviceVars, messageSent, sendLock, boxes,
                   clientVars, sent>>

(* PostOffice::PostalDelivery: wait for a message, Network::Receive ...    *)
TakePacket(m) ==
    /\ m \in up
    /\ hand[m] = NULL
    /\ messageAvailable[m] > 0
    /\ messageAvailable' = [messageAvailable EXCEPT ![m] = @ - 1]
    /\ hand' = [hand EXCEPT ![m] = inPkt[m]]
    /\ inPkt' = [inPkt EXCEPT ![m] = NULL]
    /\ UNCHANGED <<lossy, up, sendBusy, sendInt, sock, messageSent, sendLock, boxes,
                   clientVars, sent>>

(* Mutant of PutMail: MailBox::Put puts the message in front.              *)
PutMailFirst(m) ==
    /\ m \in up
    /\ hand[m] # NULL
    /\ boxes' = [boxes EXCEPT ![m][hand[m].box] = <<hand[m]>> \o @]
    /\ hand' = [hand EXCEPT ![m] = NULL]
    /\ UNCHANGED <<lossy, up, deviceVars, messageAvailable, messageSent, sendLock, clientVars, sent>>

(* ... and MailBox::Put, after which the worker waits again.               *)
PutMail(m) ==
    /\ m \in up
    /\ hand[m] # NULL
    /\ boxes' = [boxes EXCEPT ![m][hand[m].box] = Append(@, hand[m])]
    /\ hand' = [hand EXCEPT ![m] = NULL]
    /\ UNCHANGED <<lossy, up, deviceVars, messageAvailable, messageSent, sendLock, clientVars, sent>>

Deliver(m) ==
    SendDone(m) \/ CheckPktAvail(m) \/ Poll(m) \/ TakePacket(m) \/ PutMail(m)

----------------------------------------------------------------------------
(* The machines in running have been started.                              *)
Initially(running) ==
    /\ lossy \in BOOLEAN
    /\ up = running
    /\ sendBusy = [m \in Machine |-> FALSE]
    /\ sendInt = [m \in Machine |-> 0]
    /\ inPkt = [m \in Machine |-> NULL]
    /\ sock = [m \in Machine |-> <<>>]
    /\ messageAvailable = [m \in Machine |-> 0]
    /\ messageSent = [m \in Machine |-> 0]
    /\ sendLock = [m \in Machine |-> NULL]
    /\ hand = [m \in Machine |-> NULL]
    /\ boxes = [m \in Machine |-> [b \in Box |-> <<>>]]
    /\ at = [c \in Thread |-> "idle"]
    /\ outPkt = [c \in Thread |-> NULL]
    /\ success = [c \in Thread |-> TRUE]
    /\ sent = [m \in Machine |-> <<>>]
    /\ received = [m \in Machine |-> [b \in Box |-> <<>>]]

(* A client calls Send or Receive, or a routine it is inside of goes on.   *)
ClientStep(c) ==
    \/ \E d \in Destination :
          Len(sent[On(c)]) < MaxSent /\ SendStart(c, d[1], d[2], d[2])
    \/ NetworkSend(c)
    \/ SendEnd(c)
    \/ \E b \in Box : Receive(c, b)

----------------------------------------------------------------------------
One(p) == IF p = NULL THEN <<>> ELSE <<p>>

(* The packets from machine m for box b of machine n, from the one received*)
(* first to the one sent last.                                             *)
Stream(m, n, b) ==
    SelectSeq(received[n][b] \o boxes[n][b] \o One(hand[n]) \o One(inPkt[n]) \o sock[n],
              LAMBDA p : p.from = m /\ p.box = b)

(* "delivering fixed sized packets, in order but unreliably" (network.h),  *)
(* kept up by the post office: from the sender's Send to the receiver's    *)
(* Receive the packets for a box stay in order, and none is there twice.   *)
DeliveredInOrder ==
    \A m, n \in Machine, b \in Box :
        LET s == Stream(m, n, b) IN \A i, j \in DOMAIN s : i < j => s[i].no < s[j].no

Arrived(p) == p \in Range(boxes[p.to][p.box]) \cup Range(received[p.to][p.box])

(* A packet a reliable network took gets into its mailbox, whatever else   *)
(* arrives, as long as the machine runs, its interrupts are served and the *)
(* postal worker is scheduled.                                             *)
MailArrives ==
    \A m \in Machine, i \in 1 .. MaxSent :
        i \in DOMAIN sent[m] ~>
            lossy \/ (i \in DOMAIN sent[m] /\ LET p == sent[m][i] IN p.to \notin up \/ Arrived(p))
=============================================================================
