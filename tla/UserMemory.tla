----------------------------- MODULE UserMemory -----------------------------
(***************************************************************************)
(* Address translation and user memory (machine/translate.cc): the page    *)
(* tables AddrSpace sets up, Translate with its checks and its use and     *)
(* dirty bits, ReadMem and WriteMem on hosts of either byte order.         *)
(*                                                                         *)
(* A value is the sequence of its bytes, least significant first.  The     *)
(* machine has no TLB.                                                     *)
(***************************************************************************)
EXTENDS Naturals, Sequences, SequencesExt

CONSTANTS
    Spaces,         \* address spaces 1, 2, ..., in the order they were loaded
    Pages(_),       \* numPages of an address space
    PageSize,       \* bytes in a page, a multiple of 4
    NumPhysPages,   \* pages of main memory
    Byte,           \* the values of a byte
    Values,         \* what programs store, of 1, 2 or 4 bytes
    Addresses,      \* virtual addresses programs use
    MaxStores       \* bound on the stores made

VARIABLES
    current,        \* the space RestoreState made current
    pageTables,     \* AddrSpace::pageTable of each space
    mainMemory,     \* Machine::mainMemory
    bigEndian,      \* HOST_IS_BIG_ENDIAN
    halted,         \* an exception ended in Halt
    stores          \* stores made

vars == <<current, pageTables, mainMemory, bigEndian, halted, stores>>

----------------------------------------------------------------------------
(* WordToHost and ShortToHost, which are also WordToMachine and            *)
(* ShortToMachine.                                                         *)
ToHost(v) == IF bigEndian THEN Reverse(v) ELSE v

(* The bytes at an address read as an int or a short of the host.          *)
HostOrder(bytes) == IF bigEndian THEN Reverse(bytes) ELSE bytes

(* Machine::Translate with a page table.                                   *)
Translate(s, addr, size, writing) ==
    LET vpn == addr \div PageSize
        entry == pageTables[s][vpn + 1]
        exception ==
            IF addr % size # 0 \/ vpn >= Pages(s) THEN "AddressError"
            ELSE IF ~entry.valid THEN "PageFault"
            ELSE IF entry.readOnly /\ writing THEN "ReadOnly"
            ELSE IF entry.physicalPage >= NumPhysPages THEN "BusError"
            ELSE "none"
    IN  [exception |-> exception,
         physAddr |-> IF exception = "none"
                      THEN entry.physicalPage * PageSize + (addr % PageSize) ELSE 0]

(* The bits Translate sets in the entry it used.                           *)
Marked(s, addr, writing) ==
    [pageTables EXCEPT ![s][addr \div PageSize + 1] =
        [@ EXCEPT !.use = TRUE, !.dirty = @ \/ writing]]

Bytes(physAddr, size) == [k \in 1 .. size |-> mainMemory[physAddr + k - 1]]

(* Mutant of Fetched: no ShortToHost for two bytes.                        *)
FetchedNoShort(physAddr, size) ==
    LET data == HostOrder(Bytes(physAddr, size))
    IN  IF size = 2 THEN data ELSE ToHost(data)

(* What ReadMem returns through value.                                     *)
Fetched(physAddr, size) == ToHost(HostOrder(Bytes(physAddr, size)))

RaiseException ==
    /\ halted' = TRUE
    /\ UNCHANGED <<current, pageTables, mainMemory, bigEndian, stores>>

ReadMem(addr, size) ==
    LET t == Translate(current, addr, size, FALSE)
    IN  /\ ~halted
        /\ IF t.exception # "none" THEN RaiseException
           ELSE /\ pageTables' = Marked(current, addr, FALSE)
                /\ UNCHANGED <<current, mainMemory, bigEndian, halted, stores>>

(* Mutant of WriteMem: WordToMachine is forgotten.                         *)
WriteMemNoConversion(addr, v) ==
    LET size == Len(v)
        t == Translate(current, addr, size, TRUE)
        placed == HostOrder(v)
    IN  /\ ~halted /\ stores < MaxStores
        /\ IF t.exception # "none" THEN RaiseException
           ELSE /\ pageTables' = Marked(current, addr, TRUE)
                /\ mainMemory' = [p \in DOMAIN mainMemory |->
                        IF p \in t.physAddr .. t.physAddr + size - 1
                        THEN placed[p - t.physAddr + 1] ELSE mainMemory[p]]
                /\ stores' = stores + 1
                /\ UNCHANGED <<current, bigEndian, halted>>

WriteMem(addr, v) ==
    LET size == Len(v)
        t == Translate(current, addr, size, TRUE)
        placed == HostOrder(ToHost(v))
    IN  /\ ~halted /\ stores < MaxStores
        /\ IF t.exception # "none" THEN RaiseException
           ELSE /\ pageTables' = Marked(current, addr, TRUE)
                /\ mainMemory' = [p \in DOMAIN mainMemory |->
                        IF p \in t.physAddr .. t.physAddr + size - 1
                        THEN placed[p - t.physAddr + 1] ELSE mainMemory[p]]
                /\ stores' = stores + 1
                /\ UNCHANGED <<current, bigEndian, halted>>

(* A context switch: RestoreState of another address space.                *)
RestoreState(s) ==
    /\ ~halted /\ s # current
    /\ current' = s
    /\ UNCHANGED <<pageTables, mainMemory, bigEndian, halted, stores>>

(* AddrSpace::AddrSpace, in the order of Spaces: memMap hands out the pages*)
(* from 0, and each is filled from the executable.                         *)
Below(s) == FoldFunctionOnSet(+, 0, [i \in Spaces |-> Pages(i)], {i \in Spaces : i < s})

NewTable(s) ==
    [i \in 1 .. Pages(s) |-> [physicalPage |-> Below(s) + i - 1, valid |-> TRUE,
                              readOnly |-> FALSE, use |-> FALSE, dirty |-> FALSE]]

Image(s) == [a \in 0 .. Pages(s) * PageSize - 1 |-> 0]

Init ==
    /\ current \in Spaces
    /\ pageTables = [s \in Spaces |-> NewTable(s)]
    /\ mainMemory = [p \in 0 .. NumPhysPages * PageSize - 1 |-> 0]
    /\ bigEndian \in BOOLEAN
    /\ halted = FALSE /\ stores = 0

Next ==
    \/ \E addr \in Addresses, size \in {1, 2, 4} : ReadMem(addr, size)
    \/ \E addr \in Addresses, v \in Values : WriteMem(addr, v)
    \/ \E s \in Spaces : RestoreState(s)

Spec == Init /\ [][Next]_vars

----------------------------------------------------------------------------
(* Where the byte of a virtual address lies.                               *)
At(s, a) == mainMemory[Translate(s, a, 1, FALSE).physAddr]
Length(s) == Pages(s) * PageSize

Flat == INSTANCE FlatMemory WITH
    flat <- [s \in Spaces |-> [a \in 0 .. Length(s) - 1 |-> At(s, a)]],
    stopped <- halted, Size <- Length

(* Translate raises an exception exactly for what is not aligned or not    *)
(* within the address space; otherwise its ASSERT on the physical address  *)
(* holds and ReadMem returns the bytes that single reads return.           *)
ReadsAgree ==
    \A s \in Spaces, addr \in Addresses, size \in {1, 2, 4} :
        LET t == Translate(s, addr, size, FALSE)
            within == addr % size = 0 /\ addr + size <= Length(s)
        IN  /\ \A writing \in BOOLEAN :
                    Translate(s, addr, size, writing).exception = "none" <=> within
            /\ within =>
                /\ t.physAddr + size <= NumPhysPages * PageSize
                /\ Fetched(t.physAddr, size) = [k \in 1 .. size |-> At(s, addr + k - 1)]
==============================================================================
