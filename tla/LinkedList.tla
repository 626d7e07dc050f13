----------------------------- MODULE LinkedList -----------------------------
(***************************************************************************)
(* List (threads/list.cc), the one container of the kernel, as the singly  *)
(* linked list it is.  The other modules use sequences for its instances;  *)
(* this one shows that they may.  A list is used either as a queue (Append,*)
(* Prepend, Remove) or sorted (SortedInsert, SortedRemove), never both.    *)
(***************************************************************************)
EXTENDS Integers, SequencesExt

CONSTANTS
    Address,            \* where ListElements may be allocated; bounds the list
    Item, Key, NULL

VARIABLES
    first, last,        \* List::first and last
    heap,               \* the ListElement at each address, or NULL
    returned,           \* what the last Remove or SortedRemove returned
    sorted              \* how the list is used

vars == <<first, last, heap, returned, sorted>>

ListElement(item, key, next) == [item |-> item, key |-> key, next |-> next]

IsEmpty == first = NULL

(* The elements a walk along the next pointers meets, as Mapcar does.      *)
RECURSIVE WalkFrom(_)
WalkFrom(ptr) == IF ptr = NULL THEN <<>> ELSE <<ptr>> \o WalkFrom(heap[ptr].next)

Free == {a \in Address : heap[a] = NULL}

ListAppend(item) ==
    \E e \in Free :
        /\ heap' = IF IsEmpty THEN [heap EXCEPT ![e] = ListElement(item, 0, NULL)]
                   ELSE [heap EXCEPT ![e] = ListElement(item, 0, NULL), ![last].next = e]
        /\ first' = IF IsEmpty THEN e ELSE first
        /\ last' = e
        /\ UNCHANGED <<returned, sorted>>

ListPrepend(item) ==
    \E e \in Free :
        /\ heap' = [heap EXCEPT ![e] = ListElement(item, 0, first)]
        /\ first' = e
        /\ last' = IF IsEmpty THEN e ELSE last
        /\ UNCHANGED <<returned, sorted>>

(* Mutant of Before: equal keys are not passed.                            *)
RECURSIVE BeforeEqual(_, _)
BeforeEqual(ptr, key) ==
    LET next == heap[ptr].next
    IN  IF next = NULL THEN ptr ELSE IF key <= heap[next].key THEN ptr ELSE BeforeEqual(next, key)

(* Where the loop of SortedInsert stops: the next element has a larger key,*)
(* or there is none.                                                       *)
RECURSIVE Before(_, _)
Before(ptr, key) ==
    LET next == heap[ptr].next
    IN  IF next = NULL THEN ptr ELSE IF key < heap[next].key THEN ptr ELSE Before(next, key)

InsertAfter(ptr, e, item, key) ==
    /\ heap' = [heap EXCEPT ![e] = ListElement(item, key, heap[ptr].next), ![ptr].next = e]
    /\ UNCHANGED first

SortedInsert(item, key) ==
    \E e \in Free :
        /\ IF IsEmpty
           THEN heap' = [heap EXCEPT ![e] = ListElement(item, key, NULL)] /\ first' = e /\ last' = e
           ELSE IF key < heap[first].key
           THEN heap' = [heap EXCEPT ![e] = ListElement(item, key, first)] /\ first' = e /\ last' = last
           ELSE LET ptr == Before(first, key)
                IN  IF heap[ptr].next # NULL
                    THEN InsertAfter(ptr, e, item, key) /\ last' = last
                    ELSE InsertAfter(last, e, item, key) /\ last' = e
        /\ UNCHANGED <<returned, sorted>>

(* SortedRemove, which Remove calls without a place for the key.           *)
SortedRemove ==
    /\ IF IsEmpty THEN returned' = NULL /\ UNCHANGED <<first, last, heap>>
       ELSE /\ returned' = [item |-> heap[first].item, key |-> heap[first].key]
            /\ first' = IF first = last THEN NULL ELSE heap[first].next
            /\ last' = IF first = last THEN NULL ELSE last
            /\ heap' = [heap EXCEPT ![first] = NULL]
    /\ UNCHANGED sorted

Init ==
    /\ first = NULL
    /\ last = NULL
    /\ heap = [a \in Address |-> NULL]
    /\ returned = NULL
    /\ sorted \in BOOLEAN

Next ==
    \/ ~sorted /\ \E x \in Item : ListAppend(x) \/ ListPrepend(x)
    \/ sorted /\ \E x \in Item, k \in Key : SortedInsert(x, k)
    \/ SortedRemove

Spec == Init /\ [][Next]_vars

----------------------------------------------------------------------------
Chain == WalkFrom(first)

Queue == INSTANCE ItemQueue WITH
    items <- [i \in 1 .. Len(Chain) |-> [item |-> heap[Chain[i]].item, key |-> heap[Chain[i]].key]]

(* The pointers implement a sequence: whatever mix of calls, Remove returns*)
(* the items in the order Append and Prepend gave them, SortedRemove in the*)
(* order of their keys and, for equal keys, of their insertion.            *)
ImplementsQueue == Queue!QSpec
=============================================================================
