----------------------------- MODULE FlatMemory -----------------------------
(***************************************************************************)
(* What a user program is promised of its memory: bytes numbered from 0, of*)
(* which aligned groups of one, two and four are written least significant *)
(* byte first, and which nothing but its own stores changes.               *)
(***************************************************************************)
EXTENDS Naturals, Sequences

CONSTANTS Spaces, Values, Size(_), Image(_)

VARIABLES flat, stopped

flatVars == <<flat, stopped>>

FlatInit ==
    /\ flat = [s \in Spaces |-> [a \in 0 .. Size(s) - 1 |-> Image(s)[a]]]
    /\ stopped = FALSE

Put(s, addr, v) ==
    /\ ~stopped
    /\ addr % Len(v) = 0 /\ addr + Len(v) <= Size(s)
    /\ flat' = [flat EXCEPT ![s] =
                  [a \in DOMAIN @ |-> IF a \in addr .. addr + Len(v) - 1
                                      THEN v[a - addr + 1] ELSE @[a]]]
    /\ UNCHANGED stopped

(* An access that is not aligned or beyond the end; that no other stops the*)
(* program is an invariant of UserMemory.                                  *)
Stop == stopped' = TRUE /\ UNCHANGED flat

FlatNext == (\E s \in Spaces : \E addr \in DOMAIN flat[s], v \in Values : Put(s, addr, v)) \/ Stop

FlatSpec == FlatInit /\ [][FlatNext]_flatVars
==============================================================================
