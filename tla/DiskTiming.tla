----------------------------- MODULE DiskTiming -----------------------------
(***************************************************************************)
(* How long a request to the simulated disk takes (machine/disk.cc): the   *)
(* seek, the rotation, the track buffer, and what the disk remembers from  *)
(* one request to the next.  Times that the code keeps in an int are kept  *)
(* in one here, of IntRange values.                                        *)
(***************************************************************************)
EXTENDS Integers, FiniteSetsExt

CONSTANTS
    SectorsPerTrack, NumTracks, SeekTime, RotationTime,
    IntRange,       \* 2^32 in the code: how many values an int has
    MaxTime         \* bound: no request is made after it

VARIABLES
    totalTicks,                 \* stats->totalTicks, an int64_t
    lastSector, bufferInit,     \* fields of Disk
    active,                     \* a request is being served
    request,                    \* the last one: and the history LatencyExact needs
    arrived                     \* history: when the head came to its track

vars == <<totalTicks, lastSector, bufferInit, active, request, arrived>>

Sector == 0 .. SectorsPerTrack * NumTracks - 1

Track(s) == s \div SectorsPerTrack

----------------------------------------------------------------------------
(* The conversion of an int64_t to int, and the division and remainder of  *)
(* C, which round towards zero.                                            *)
ToInt(x) == ((x + IntRange \div 2) % IntRange) - IntRange \div 2

Quotient(a, b) == IF a >= 0 THEN a \div b ELSE -((-a) \div b)

Remainder(a, b) == a - Quotient(a, b) * b

(* TimeToSeek's result, and what it stores in *rotation.                   *)
SeekOf(newSector) ==
    LET tracks == {Track(newSector), Track(lastSector)}
    IN  (Max(tracks) - Min(tracks)) * SeekTime

RotationAfter(seek) ==
    LET over == (totalTicks + seek) % RotationTime
    IN  IF over > 0 THEN RotationTime - over ELSE 0

ModuloDiff(to, from) ==
    Remainder(Remainder(to, SectorsPerTrack) - Remainder(from, SectorsPerTrack) + SectorsPerTrack,
              SectorsPerTrack)

(* Mutant of InTrackBuffer: >= for >.                                      *)
InTrackBufferSoon(newSector, timeAfter) ==
    Quotient(ToInt(timeAfter - bufferInit), RotationTime)
        >= ModuloDiff(newSector, Quotient(bufferInit, RotationTime))

InTrackBuffer(newSector, timeAfter) ==
    Quotient(ToInt(timeAfter - bufferInit), RotationTime)
        > ModuloDiff(newSector, Quotient(bufferInit, RotationTime))

ComputeLatency(newSector, writing) ==
    LET seek == SeekOf(newSector)
        rotation == RotationAfter(seek)
        timeAfter == ToInt(totalTicks + seek + rotation)
    IN  IF ~writing /\ seek = 0 /\ InTrackBuffer(newSector, timeAfter)
        THEN RotationTime
        ELSE seek + rotation + RotationTime
             + ModuloDiff(newSector, Quotient(timeAfter, RotationTime)) * RotationTime

(* UpdateLast.                                                             *)
UpdateLast(newSector) ==
    LET seek == SeekOf(newSector)
    IN  /\ bufferInit' = IF seek # 0 THEN ToInt(totalTicks + seek + RotationAfter(seek))
                         ELSE bufferInit
        /\ lastSector' = newSector

(* ReadRequest, WriteRequest: the interrupt is scheduled for done.         *)
Request(sector, writing) ==
    /\ ~active
    /\ totalTicks < MaxTime
    /\ active' = TRUE
    /\ request' = [sector |-> sector, writing |-> writing, issued |-> totalTicks,
                   seek |-> SeekOf(sector), loaded |-> arrived,
                   done |-> totalTicks + ComputeLatency(sector, writing)]
    /\ arrived' = IF Track(sector) = Track(lastSector) THEN arrived
                  ELSE totalTicks + SeekOf(sector)
    /\ UpdateLast(sector)
    /\ UNCHANGED totalTicks

(* HandleInterrupt, when the scheduled time has come.                      *)
HandleInterrupt ==
    /\ active
    /\ totalTicks' = Max({totalTicks, request.done})
    /\ active' = FALSE
    /\ UNCHANGED <<lastSector, bufferInit, request, arrived>>

(* Time passes without the disk.                                           *)
Elapse ==
    /\ ~active
    /\ totalTicks < MaxTime
    /\ totalTicks' = totalTicks + 1
    /\ UNCHANGED <<lastSector, bufferInit, active, request, arrived>>

End == ~active /\ totalTicks >= MaxTime /\ UNCHANGED vars

(* Disk::Disk.                                                             *)
Init ==
    /\ totalTicks = 0
    /\ lastSector = 0
    /\ bufferInit = 0
    /\ active = FALSE
    /\ request = [sector |-> 0, writing |-> FALSE, issued |-> 0, seek |-> 0,
                  loaded |-> 0, done |-> RotationTime]
    /\ arrived = 0

Next ==
    \/ \E s \in Sector, w \in BOOLEAN : Request(s, w)
    \/ HandleInterrupt
    \/ Elapse
    \/ End

Spec == Init /\ [][Next]_vars

----------------------------------------------------------------------------
(* The rotating disk itself: sector s of the head's track passes wholly    *)
(* under the head between the two times.                                   *)
Passes(s, from, to) ==
    \E start \in from .. to - RotationTime :
        /\ start % RotationTime = 0
        /\ (start \div RotationTime) % SectorsPerTrack = s % SectorsPerTrack

RoundUp(time) == ((time + RotationTime - 1) \div RotationTime) * RotationTime

(* "Latency = seek time + rotational latency + transfer time" and "the disk*)
(* continuously reads the contents of the current disk track into the      *)
(* buffer": a request is done at the first moment its sector has passed the*)
(* head since the seek ended; a read whose sector passed the head since it *)
(* came to the track takes the time of one transfer.                       *)
LatencyExact ==
    LET r == request
        ready == r.issued + r.seek
        buffered == ~r.writing /\ r.seek = 0 /\ Passes(r.sector, r.loaded, RoundUp(r.issued))
    IN  IF buffered THEN r.done = r.issued + RotationTime
        ELSE Passes(r.sector, ready, r.done) /\ ~Passes(r.sector, ready, r.done - 1)
=============================================================================
