----------------------------- MODULE MCFileCalls -----------------------------
(* Instances of FileCalls.                                                 *)
EXTENDS FileCalls

NoUnits == [s \in Sem |-> 0]

ZeroedMemory == {NULL}
==============================================================================
