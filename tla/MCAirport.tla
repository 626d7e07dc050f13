------------------------------ MODULE MCAirport ------------------------------
(* The instance of the airport for TLC.                                        *)
EXTENDS Airport

MainThread == <<"main", 0>>
NoSemaphore == {}
NoUnits == <<>>
ZeroedMemory == {NULL}

(* An int that was never assigned: less than none, none, or more than any  *)
(* number of bags on a counter.                                            *)
StaleInts == {-1, 0, 3}

(* The first passenger flies executive class, or all but the last do.      *)
TwoMixes == {[p \in Passengers |-> p # 0], [p \in Passengers |-> p = simNumOfPassengers - 1]}
==============================================================================
