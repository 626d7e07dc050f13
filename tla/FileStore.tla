------------------------------ MODULE FileStore ------------------------------
(***************************************************************************)
(* What the Nachos file system promises its callers, with no disk in       *)
(* sight: named files of a fixed size, and open files that read and write  *)
(* the bytes of the file they were opened on and of no other.              *)
(***************************************************************************)
EXTENDS Naturals, Sequences, Functions

CONSTANTS
    Name,       \* file names, as far as the directory tells them apart
    Handle,     \* open files
    Byte,
    Size,       \* the sizes files are created with
    Position,   \* the arguments of Seek
    Request,    \* the byte counts of Read and Write
    NULL

VARIABLES
    files,      \* name -> contents
    handles,    \* open file -> the name it was opened on, and its position
    result      \* what the last operation returned

storeVars == <<files, handles, result>>

----------------------------------------------------------------------------
(* The bytes of s that n bytes from position pos cover, and s once they    *)
(* are overwritten.                                                        *)
Slice(s, pos, n) == SubSeq(s, pos + 1, IF pos + n < Len(s) THEN pos + n ELSE Len(s))

Overwrite(s, pos, bytes) ==
    [i \in DOMAIN s |-> IF pos < i /\ i <= pos + Len(bytes) THEN bytes[i - pos] ELSE s[i]]

Returned(ok, bytes) == [ok |-> ok, bytes |-> bytes]

StoreInit ==
    /\ files = <<>>
    /\ handles = [h \in Handle |-> NULL]
    /\ result = Returned(TRUE, <<>>)

(* An operation that fails changes nothing.                                *)
StoreRefuse == result' = Returned(FALSE, <<>>) /\ UNCHANGED <<files, handles>>

(* The contents of a new file are not specified, only its length.          *)
StoreCreate(n) ==
    /\ n \notin DOMAIN files
    /\ DOMAIN files' = DOMAIN files \cup {n}
    /\ Len(files'[n]) \in Size
    /\ \A m \in DOMAIN files : files'[m] = files[m]
    /\ result' = Returned(TRUE, <<>>)
    /\ UNCHANGED handles

StoreRemove(n) ==
    /\ n \in DOMAIN files
    /\ files' = Restrict(files, DOMAIN files \ {n})
    /\ result' = Returned(TRUE, <<>>)
    /\ UNCHANGED handles

StoreOpen(n, h) ==
    /\ n \in DOMAIN files
    /\ handles' = [handles EXCEPT ![h] = [name |-> n, pos |-> 0]]
    /\ result' = Returned(TRUE, <<>>)
    /\ UNCHANGED files

(* Reading returns the bytes that were written, and moves past them.       *)
StoreRead(h, n) ==
    LET got == Slice(files[handles[h].name], handles[h].pos, n) IN
    /\ result' = Returned(TRUE, got)
    /\ handles' = [handles EXCEPT ![h].pos = @ + Len(got)]
    /\ UNCHANGED files

(* Writing changes the bytes it covers, in this file only, never its       *)
(* length, and reports the bytes that were taken.                          *)
StoreWrite(h, bytes) ==
    LET taken == Len(Slice(files[handles[h].name], handles[h].pos, Len(bytes))) IN
    /\ files' = [files EXCEPT ![handles[h].name] = Overwrite(@, handles[h].pos, bytes)]
    /\ result' = Returned(TRUE, SubSeq(bytes, 1, taken))
    /\ handles' = [handles EXCEPT ![h].pos = @ + taken]

StoreSeek(h, pos) ==
    /\ handles' = [handles EXCEPT ![h].pos = pos]
    /\ UNCHANGED <<files, result>>

(* Closing files, one of them or all at once when the machine stops.       *)
StoreClose ==
    /\ \E H \in SUBSET Handle :
          handles' = [h \in Handle |-> IF h \in H THEN NULL ELSE handles[h]]
    /\ UNCHANGED <<files, result>>

StoreNext ==
    \/ StoreRefuse
    \/ StoreClose
    \/ \E n \in Name : StoreCreate(n) \/ StoreRemove(n) \/ \E h \in Handle : StoreOpen(n, h)
    \/ \E h \in Handle :
          /\ handles[h] # NULL
          /\ \/ \E k \in Request : StoreRead(h, k) \/ \E b \in [1 .. k -> Byte] : StoreWrite(h, b)
             \/ \E p \in Position : StoreSeek(h, p)

(* The specification FileTests is shown to implement.                      *)
StoreSpec == StoreInit /\ [][StoreNext]_storeVars
=============================================================================
