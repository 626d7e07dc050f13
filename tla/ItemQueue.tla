----------------------------- MODULE ItemQueue -----------------------------
(***************************************************************************)
(* What a List (threads/list.h) promises: a sequence of items with keys.   *)
(***************************************************************************)
EXTENDS Integers, SequencesExt

CONSTANTS Item, Key, NULL

VARIABLES
    items,      \* what is on the list, in order
    returned    \* what the last Remove or SortedRemove returned

Entry(item, key) == [item |-> item, key |-> key]

QInit == items = <<>> /\ returned = NULL

QAppend == \E x \in Item : items' = Append(items, Entry(x, 0)) /\ returned' = returned

QPrepend == \E x \in Item : items' = <<Entry(x, 0)>> \o items /\ returned' = returned

(* In increasing order of the keys, and after the items with the same key. *)
QSortedInsert ==
    /\ \E x \in Item, k \in Key, i \in 1 .. Len(items) + 1 :
          /\ items' = InsertAt(items, i, Entry(x, k))
          /\ \A j \in 1 .. i - 1 : items[j].key <= k
          /\ \A j \in i .. Len(items) : items[j].key > k
    /\ returned' = returned

QRemove ==
    /\ items' = IF items = <<>> THEN <<>> ELSE Tail(items)
    /\ returned' = IF items = <<>> THEN NULL ELSE Head(items)

QNext == QAppend \/ QPrepend \/ QSortedInsert \/ QRemove

QSpec == QInit /\ [][QNext]_<<items, returned>>
=============================================================================
