----------------------------- MODULE FileSystem -----------------------------
(***************************************************************************)
(* The file system on the simulated disk (filesys/filesys.cc,              *)
(* filesys/directory.cc, filesys/filehdr.cc, filesys/openfile.cc and       *)
(* userprog/bitmap.cc).                                                    *)
(*                                                                         *)
(* A sector holds either a FileHeader or bytes.  The contents of the two   *)
(* files the file system keeps for itself are the variables freeMap (the   *)
(* marked sectors) and directory (its table); the sectors those files      *)
(* occupy are reserved on the disk like any others.  The file system       *)
(* "assumes there is no concurrent access" (filesys.cc:167), so an         *)
(* operation is one step.                                                  *)
(***************************************************************************)
EXTENDS Naturals, FiniteSets, SequencesExt

CONSTANTS
    NumSectors, SectorSize,     \* the disk's geometry
    NumDirect,                  \* sector numbers a FileHeader has room for
    NumDirEntries,              \* entries of the directory's table
    FreeMapFileSize, DirectoryFileSize,
    FileName,                   \* the names callers use
    Prefix,                     \* name -> its first FileNameMaxLen characters
    Handle,                     \* addresses of OpenFile objects
    Byte,
    Size,                       \* the initialSize arguments of Create
    Position,                   \* the arguments of Seek
    Request,                    \* the byte counts of Read and Write
    NULL

VARIABLES
    disk,           \* sector -> what is stored in it
    freeMap,        \* contents of freeMapFile: the sectors marked in the bitmap
    directory,      \* contents of directoryFile: Directory::table
    openFiles,      \* OpenFile objects: the header read at Open, seekPosition
    result          \* what the last operation returned

fsVars == <<disk, freeMap, directory, openFiles, result>>

Sector == 0 .. NumSectors - 1

FreeMapSector == 0

DirectorySector == 1

Entry == 1 .. NumDirEntries

Returned(ok, bytes) == [ok |-> ok, bytes |-> bytes]

----------------------------------------------------------------------------
(* Sectors.  Reading a header as data, or data as a header, yields garbage.*)
Garbage == [i \in 1 .. SectorSize |-> NULL]

Block(bytes) == [hdr |-> NULL, bytes |-> bytes]

HeaderBlock(hdr) == [hdr |-> hdr, bytes |-> Garbage]

----------------------------------------------------------------------------
(* BitMap: the marked bits.  Find marks the lowest clear bit, so a run of  *)
(* Finds takes the clear bits in increasing order.                         *)
Clear(map) ==
    [k \in 1 .. Cardinality(Sector \ map) |->
        CHOOSE s \in Sector \ map : Cardinality({r \in Sector \ map : r < s}) = k - 1]

NumClear(map) == Cardinality(Sector \ map)

----------------------------------------------------------------------------
(* FileHeader::Allocate: NULL when space is short.  The header is written  *)
(* as one sector, which has room for NumDirect sector numbers; whether the *)
(* file needs more is not tested, and the rest lies past the object.       *)
divRoundUp(n, s) == (n + s - 1) \div s

Allocate(map, fileSize) ==
    LET n == divRoundUp(fileSize, SectorSize)
    IN  IF NumClear(map) < n THEN NULL
        ELSE [numBytes |-> fileSize, numSectors |-> n,
              dataSectors |-> SubSeq(Clear(map), 1, n)]

WriteBackHeader(hdr) ==
    HeaderBlock([hdr EXCEPT !.dataSectors =
                     SubSeq(@, 1, IF Len(@) < NumDirect THEN Len(@) ELSE NumDirect)])

Deallocate(map, hdr) == map \ Range(hdr.dataSectors)

(* Every sector number of the file is inside its header.  What happens to  *)
(* a file for which this fails depends on the memory after the header and  *)
(* is not followed.                                                        *)
Addressable(hdr) == hdr # NULL /\ hdr.numSectors = Len(hdr.dataSectors)

ByteToSector(hdr, offset) == hdr.dataSectors[offset \div SectorSize + 1]

----------------------------------------------------------------------------
(* Directory.  Names are compared, and stored, up to FileNameMaxLen; an    *)
(* entry that is not inUse is NULL.                                        *)
FindIndex(name) ==
    LET hits == {i \in Entry : directory[i] # NULL /\ directory[i].name = Prefix[name]}
    IN  IF hits = {} THEN NULL ELSE Min(hits)

FindSector(name) ==
    IF FindIndex(name) = NULL THEN NULL ELSE directory[FindIndex(name)].sector

(* Directory::Add: the table with the first unused entry filled, or NULL.  *)
AddEntry(name, sector) ==
    LET unused == {i \in Entry : directory[i] = NULL}
    IN  IF FindIndex(name) # NULL \/ unused = {} THEN NULL
        ELSE [directory EXCEPT ![Min(unused)] = [name |-> Prefix[name], sector |-> sector]]

RemoveEntry(name) == [directory EXCEPT ![FindIndex(name)] = NULL]

----------------------------------------------------------------------------
(* OpenFile, on the disk d through header hdr.  Both ReadAt and WriteAt    *)
(* clip the request to the length the file was created with.               *)
Clipped(hdr, numBytes, position) ==
    IF position >= hdr.numBytes THEN 0 ELSE Min({numBytes, hdr.numBytes - position})

FirstSector(position) == position \div SectorSize

LastSector(position, n) == (position + n - 1) \div SectorSize

(* The bytes of sectors first to last of the file, one after the other.    *)
Sectors(d, hdr, first, last) ==
    [i \in 1 .. (1 + last - first) * SectorSize |->
        d[ByteToSector(hdr, first * SectorSize + i - 1)].bytes[1 + ((i - 1) % SectorSize)]]

ReadAt(d, hdr, numBytes, position) ==
    LET n == Clipped(hdr, numBytes, position)
        first == FirstSector(position)
        skip == position - first * SectorSize
    IN  IF n = 0 THEN <<>>
        ELSE SubSeq(Sectors(d, hdr, first, LastSector(position, n)), skip + 1, skip + n)

(* bcopy of bytes into the buffer.                                         *)
PutAt(buf, bytes, at) ==
    [i \in DOMAIN buf |-> IF at < i /\ i <= at + Len(bytes) THEN bytes[i - at] ELSE buf[i]]

(* Mutant of WriteBuffer: a sector that is both first and last is not read.*)
WriteBufferSameSector(d, hdr, bytes, position) ==
    LET n == Len(bytes)
        first == FirstSector(position)
        last == LastSector(position, n)
        firstAligned == position = first * SectorSize
        lastAligned == position + n = (last + 1) * SectorSize
        buf == [i \in 1 .. (1 + last - first) * SectorSize |-> NULL]
        head == IF firstAligned THEN buf
                ELSE PutAt(buf, ReadAt(d, hdr, SectorSize, first * SectorSize), 0)
        tail == IF lastAligned \/ first = last THEN head
                ELSE PutAt(head, ReadAt(d, hdr, SectorSize, last * SectorSize),
                           (last - first) * SectorSize)
    IN  PutAt(tail, bytes, position - first * SectorSize)

(* The buffer WriteAt puts together.  It is not initialized: the first and *)
(* the last sector are read into it when they are modified only in part,   *)
(* by ReadAt, which stops at the end of the file.                          *)
WriteBuffer(d, hdr, bytes, position) ==
    LET n == Len(bytes)
        first == FirstSector(position)
        last == LastSector(position, n)
        firstAligned == position = first * SectorSize
        lastAligned == position + n = (last + 1) * SectorSize
        buf == [i \in 1 .. (1 + last - first) * SectorSize |-> NULL]
        head == IF firstAligned THEN buf
                ELSE PutAt(buf, ReadAt(d, hdr, SectorSize, first * SectorSize), 0)
        tail == IF lastAligned \/ (first = last /\ ~firstAligned) THEN head
                ELSE PutAt(head, ReadAt(d, hdr, SectorSize, last * SectorSize),
                           (last - first) * SectorSize)
    IN  PutAt(tail, bytes, position - first * SectorSize)

(* The disk WriteAt leaves: the buffer's sectors, written back.            *)
WriteAt(d, hdr, from, position) ==
    LET n == Clipped(hdr, Len(from), position)
        first == FirstSector(position)
        buf == WriteBuffer(d, hdr, SubSeq(from, 1, n), position)
        at(s) == {i \in first .. LastSector(position, n) : hdr.dataSectors[i + 1] = s}
        piece(i) == SubSeq(buf, (i - first) * SectorSize + 1, (i - first + 1) * SectorSize)
    IN  IF n = 0 THEN d
        ELSE [s \in Sector |-> IF at(s) = {} THEN d[s] ELSE Block(piece(Max(at(s))))]

----------------------------------------------------------------------------
(* FileSystem::FileSystem(TRUE) on a blank disk: the two header sectors    *)
(* are marked, then the bitmap's and the directory's data sectors.         *)
MapHeader == Allocate({FreeMapSector, DirectorySector}, FreeMapFileSize)

DirHeader ==
    Allocate({FreeMapSector, DirectorySector} \cup Range(MapHeader.dataSectors),
             DirectoryFileSize)

SystemSectors ==
    {FreeMapSector, DirectorySector} \cup Range(MapHeader.dataSectors)
                                     \cup Range(DirHeader.dataSectors)

FormatInit ==
    /\ disk = [s \in Sector |-> IF s = FreeMapSector THEN WriteBackHeader(MapHeader)
                                ELSE IF s = DirectorySector THEN WriteBackHeader(DirHeader)
                                ELSE Block([i \in 1 .. SectorSize |-> CHOOSE b \in Byte : TRUE])]
    /\ freeMap = SystemSectors
    /\ directory = [i \in Entry |-> NULL]
    /\ openFiles = [h \in Handle |-> NULL]
    /\ result = Returned(TRUE, <<>>)

Refuse == result' = Returned(FALSE, <<>>) /\ UNCHANGED <<disk, freeMap, directory, openFiles>>

(* What Create has computed before it writes anything: the sector of the   *)
(* new header, the table with its entry and the header.                    *)
NewSector == IF freeMap = Sector THEN NULL ELSE Min(Sector \ freeMap)

NewHeader(size) == Allocate(freeMap \cup {NewSector}, size)

CanCreate(name, size) ==
    /\ FindSector(name) = NULL
    /\ NewSector # NULL
    /\ AddEntry(name, NewSector) # NULL
    /\ NewHeader(size) # NULL

(* FileSystem::Create: a failure on the way discards the copies; success   *)
(* writes the header, the directory and the bitmap back.                   *)
Create(name, size) ==
    IF ~CanCreate(name, size) THEN Refuse
    ELSE /\ disk' = [disk EXCEPT ![NewSector] = WriteBackHeader(NewHeader(size))]
         /\ directory' = AddEntry(name, NewSector)
         /\ freeMap' = freeMap \cup {NewSector} \cup Range(NewHeader(size).dataSectors)
         /\ result' = Returned(TRUE, <<>>)
         /\ UNCHANGED openFiles

(* FileSystem::Open.  The name is remembered for the properties only: an   *)
(* OpenFile holds its copy of the header and a position.                   *)
Open(name, h) ==
    /\ openFiles[h] = NULL
    /\ IF FindSector(name) = NULL THEN Refuse
       ELSE /\ Addressable(disk[FindSector(name)].hdr)
            /\ openFiles' = [openFiles EXCEPT ![h] =
                   [hdr |-> disk[FindSector(name)].hdr, seekPosition |-> 0,
                    name |-> Prefix[name]]]
            /\ result' = Returned(TRUE, <<>>)
            /\ UNCHANGED <<disk, freeMap, directory>>

(* Mutant of FreedBy: the header's own sector stays marked.                *)
FreedByData(name) == Deallocate(freeMap, disk[FindSector(name)].hdr)

(* The bitmap once the data sectors and the header are given back.         *)
FreedBy(name) == Deallocate(freeMap, disk[FindSector(name)].hdr) \ {FindSector(name)}

(* FileSystem::Remove.  Nothing tells it whether the file is open: that the*)
(* callers do not remove a file they hold open is assumed of them.         *)
RemoveFile(name) ==
    /\ \A h \in Handle : openFiles[h] # NULL => openFiles[h].name # Prefix[name]
    /\ IF FindSector(name) = NULL THEN Refuse
       ELSE /\ Addressable(disk[FindSector(name)].hdr)
            /\ freeMap' = FreedBy(name)
            /\ directory' = RemoveEntry(name)
            /\ result' = Returned(TRUE, <<>>)
            /\ UNCHANGED <<disk, openFiles>>

Advance(h, n) == openFiles' = [openFiles EXCEPT ![h].seekPosition = @ + n]

(* OpenFile::Read and Write: at seekPosition, which moves by the result.   *)
Read(h, numBytes) ==
    LET got == ReadAt(disk, openFiles[h].hdr, numBytes, openFiles[h].seekPosition) IN
    /\ openFiles[h] # NULL
    /\ result' = Returned(TRUE, got)
    /\ Advance(h, Len(got))
    /\ UNCHANGED <<disk, freeMap, directory>>

Write(h, from) ==
    LET f == openFiles[h]
        n == Clipped(f.hdr, Len(from), f.seekPosition)
    IN  /\ f # NULL
        /\ disk' = WriteAt(disk, f.hdr, from, f.seekPosition)
        /\ result' = Returned(TRUE, SubSeq(from, 1, n))
        /\ Advance(h, n)
        /\ UNCHANGED <<freeMap, directory>>

Seek(h, position) ==
    /\ openFiles[h] # NULL
    /\ openFiles' = [openFiles EXCEPT ![h].seekPosition = position]
    /\ UNCHANGED <<disk, freeMap, directory, result>>

(* delete openFile.                                                        *)
Close(h) ==
    /\ openFiles[h] # NULL
    /\ openFiles' = [openFiles EXCEPT ![h] = NULL]
    /\ UNCHANGED <<disk, freeMap, directory, result>>

(* Nachos halts between two operations and is started again without -f:    *)
(* FileSystem(FALSE) opens the bitmap and the directory it finds.          *)
Reboot ==
    /\ openFiles' = [h \in Handle |-> NULL]
    /\ UNCHANGED <<disk, freeMap, directory, result>>

Next_FileSystem ==
    \/ \E name \in FileName, size \in Size : Create(name, size)
    \/ \E name \in FileName : RemoveFile(name)
    \/ \E name \in FileName, h \in Handle : Open(name, h)
    \/ \E h \in Handle, n \in Request : Read(h, n)
    \/ \E h \in Handle, n \in Request : \E from \in [1 .. n -> Byte] : Write(h, from)
    \/ \E h \in Handle, p \in Position : Seek(h, p)
    \/ \E h \in Handle : Close(h)
    \/ Reboot

Spec_FileSystem == FormatInit /\ [][Next_FileSystem]_fsVars

----------------------------------------------------------------------------
Used == {i \in Entry : directory[i] # NULL}

HeaderAt(i) == disk[directory[i].sector].hdr

SectorsOf(hdr, sector) == {sector} \cup Range(hdr.dataSectors)

(* The bitmap is the truth about the disk: the marked sectors are those of *)
(* the system files and of the files in the directory, each belongs to one *)
(* file only (Create takes what Find marks, Remove gives all of it back),  *)
(* and every entry leads to a header.  The assertion in Deallocate, "ought *)
(* to be marked!", follows.                                                *)
SectorsAccounted ==
    /\ \A i \in Used : HeaderAt(i) # NULL
    /\ freeMap = SystemSectors \cup UNION {SectorsOf(HeaderAt(i), directory[i].sector) : i \in Used}
    /\ NumSectors - NumClear(freeMap) =
          Cardinality(SystemSectors)
          + FoldSet(LAMBDA i, sum : sum + 1 + HeaderAt(i).numSectors, 0, Used)

(* The names of the files in the directory, and what they contain: the     *)
(* data sectors in order, up to the file's length.                         *)
Contents(hdr) == ReadAt(disk, hdr, hdr.numBytes, 0)

StoreFiles ==
    [n \in {directory[i].name : i \in Used} |->
        Contents(HeaderAt(CHOOSE i \in Used : directory[i].name = n))]

StoreHandles ==
    [h \in Handle |-> IF openFiles[h] = NULL THEN NULL
                      ELSE [name |-> openFiles[h].name, pos |-> openFiles[h].seekPosition]]
=============================================================================
