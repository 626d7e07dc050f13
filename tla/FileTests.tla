------------------------------ MODULE FileTests ------------------------------
(***************************************************************************)
(* The file system's test routines (filesys/fstest.cc) and the options of  *)
(* main (threads/main.cc) that call them: -cp copies a UNIX file into the  *)
(* file system, -p prints a file, -r removes one, -t runs the performance  *)
(* test.  One option is carried out at a time, each operation of           *)
(* FileSystem it calls in a step of its own.  Or other kernel code uses the*)
(* file system, and calls its operations in any order.                     *)
(***************************************************************************)
EXTENDS FileSystem

CONSTANTS
    TransferSize,   \* bytes Copy and Print move at a time
    TestFile,       \* the name PerformanceTest uses
    TestContents,   \* what it writes, over and over
    TestSize,       \* bytes it means to write
    UnixFile        \* contents of the UNIX files given to -cp

VARIABLES
    pc,         \* the routine being run and how far it is
    name,       \* its argument
    rest,       \* Copy: the part of the UNIX file not yet read
    done,       \* FileWrite, FileRead: the loop counter
    out,        \* what Print has printed
    copied      \* name -> contents of the UNIX file last copied to it

testVars == <<pc, name, rest, done, out, copied>>

H == CHOOSE h \in Handle : TRUE

Upto(s, n) == SubSeq(s, 1, IF Len(s) < n THEN Len(s) ELSE n)

After(s, n) == SubSeq(s, n + 1, Len(s))

(* fileSystem->Open(name), then pc' = next, or give the routine up.        *)
OpenAnd(next, otherwise) ==
    /\ Open(name, H)
    /\ pc' = IF result'.ok THEN next ELSE otherwise
    /\ UNCHANGED <<name, rest, out, copied>>

CloseAnd(next) == Close(H) /\ pc' = next /\ UNCHANGED <<name, rest, copied, out>>

----------------------------------------------------------------------------
(* Copy: create a file of the UNIX file's length, then write it piecewise. *)
Copy ==
    \E n \in FileName, c \in UnixFile :
        /\ pc = "main"
        /\ Create(n, Len(c))
        /\ name' = n
        /\ rest' = c
        /\ pc' = IF result'.ok THEN "Copy.open" ELSE "main"
        /\ copied' = IF result'.ok THEN [copied EXCEPT ![Prefix[n]] = c] ELSE copied
        /\ UNCHANGED <<done, out>>

CopyOpen == pc = "Copy.open" /\ OpenAnd("Copy.write", "main") /\ UNCHANGED done

(* Mutant of CopyWrite: the buffer is written in full, the rest skipped.   *)
CopyWriteSkips ==
    /\ pc = "Copy.write"
    /\ rest # <<>>
    /\ Write(H, Upto(rest, TransferSize))
    /\ rest' = After(rest, TransferSize + 1)
    /\ UNCHANGED <<pc, name, done, out, copied>>

CopyWrite ==
    /\ pc = "Copy.write"
    /\ rest # <<>>
    /\ Write(H, Upto(rest, TransferSize))
    /\ rest' = After(rest, TransferSize)
    /\ UNCHANGED <<pc, name, done, out, copied>>

CopyEnd == pc = "Copy.write" /\ rest = <<>> /\ CloseAnd("main") /\ UNCHANGED done

----------------------------------------------------------------------------
(* Print: read the file piecewise until nothing more comes.                *)
PrintFile ==
    \E n \in FileName :
        /\ pc = "main"
        /\ pc' = "Print.open"
        /\ name' = n
        /\ out' = <<>>
        /\ UNCHANGED <<rest, done, copied, fsVars>>

PrintOpen == pc = "Print.open" /\ OpenAnd("Print.read", "main") /\ UNCHANGED done

PrintRead ==
    /\ pc = "Print.read"
    /\ Read(H, TransferSize)
    /\ out' = out \o result'.bytes
    /\ pc' = IF result'.bytes = <<>> THEN "Print.end" ELSE pc
    /\ UNCHANGED <<name, rest, done, copied>>

PrintEnd == pc = "Print.end" /\ CloseAnd("main") /\ UNCHANGED done

----------------------------------------------------------------------------
(* main's -r.                                                              *)
RemoveOption ==
    /\ pc = "main"
    /\ \E n \in FileName :
          /\ RemoveFile(n)
          /\ copied' = IF result'.ok THEN [copied EXCEPT ![Prefix[n]] = NULL] ELSE copied
    /\ UNCHANGED <<pc, name, rest, done, out>>

----------------------------------------------------------------------------
(* PerformanceTest: FileWrite, FileRead, Remove.  FileWrite creates the    *)
(* file with size 0 and gives up at the first Write that comes out short.  *)
PerformanceTest ==
    /\ pc = "main"
    /\ Create(TestFile, 0)
    /\ name' = TestFile
    /\ done' = 0
    /\ pc' = IF result'.ok THEN "FileWrite.open" ELSE "FileRead.open"
    /\ copied' = IF result'.ok THEN [copied EXCEPT ![Prefix[TestFile]] = <<>>] ELSE copied
    /\ UNCHANGED <<rest, out>>

FileWriteOpen ==
    pc = "FileWrite.open" /\ OpenAnd("FileWrite.write", "FileRead.open") /\ UNCHANGED done

FileWriteLoop ==
    /\ pc = "FileWrite.write"
    /\ Write(H, TestContents)
    /\ done' = done + Len(result'.bytes)
    /\ pc' = IF Len(result'.bytes) < Len(TestContents) \/ done' >= TestSize
             THEN "FileWrite.end" ELSE pc
    /\ UNCHANGED <<name, rest, out, copied>>

FileWriteEnd == pc = "FileWrite.end" /\ CloseAnd("FileRead.open") /\ UNCHANGED done

FileReadOpen ==
    pc = "FileRead.open" /\ OpenAnd("FileRead.read", "Perf.remove") /\ done' = 0

FileReadLoop ==
    /\ pc = "FileRead.read"
    /\ Read(H, Len(TestContents))
    /\ done' = done + Len(TestContents)
    /\ pc' = IF result'.bytes # TestContents \/ done' >= TestSize THEN "FileRead.end" ELSE pc
    /\ UNCHANGED <<name, rest, out, copied>>

FileReadEnd == pc = "FileRead.end" /\ CloseAnd("Perf.remove") /\ UNCHANGED done

PerfRemove ==
    /\ pc = "Perf.remove"
    /\ RemoveFile(TestFile)
    /\ pc' = "main"
    /\ copied' = [copied EXCEPT ![Prefix[TestFile]] = NULL]
    /\ UNCHANGED <<name, rest, done, out>>

----------------------------------------------------------------------------
Init_FileTests ==
    /\ FormatInit
    /\ pc \in {"main", "kernel"}
    /\ name = TestFile
    /\ rest = <<>>
    /\ done = 0
    /\ out = <<>>
    /\ copied = [n \in Range(Prefix) |-> NULL]

AnyOperation == pc = "kernel" /\ Next_FileSystem /\ UNCHANGED testVars

Next_FileTests ==
    \/ Copy \/ CopyOpen \/ CopyWrite \/ CopyEnd
    \/ PrintFile \/ PrintOpen \/ PrintRead \/ PrintEnd
    \/ RemoveOption
    \/ PerformanceTest \/ FileWriteOpen \/ FileWriteLoop \/ FileWriteEnd
    \/ FileReadOpen \/ FileReadLoop \/ FileReadEnd \/ PerfRemove
    \/ AnyOperation

Spec_FileTests == Init_FileTests /\ [][Next_FileTests]_<<fsVars, testVars>>

----------------------------------------------------------------------------
(* "nachos -cp unixfile f" then "nachos -p f" prints the UNIX file, however*)
(* the transfers of TransferSize bytes fall on the sectors and whatever    *)
(* files were created and removed in between.                              *)
PrintsWhatWasCopied == pc = "Print.end" => out = copied[Prefix[name]]

(* The lengths and byte counts the test routines and other callers use.    *)
Lengths == Size \cup {0} \cup {Len(c) : c \in UnixFile}

Counts == Request \cup 1 .. TransferSize

Store == INSTANCE FileStore WITH
            Name <- Range(Prefix), Size <- Lengths, Request <- Counts,
            files <- StoreFiles, handles <- StoreHandles

(* Through bitmap, directory, headers and sectors the callers see plain    *)
(* files: every operation is the operation of FileStore or changes nothing *)
(* (WriteAt's read-modify-write of partial sectors, the clipping of both   *)
(* transfers, the reuse of sectors after Remove, and reboots included).    *)
ImplementsStore == Store!StoreSpec
=============================================================================
