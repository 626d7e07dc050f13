SPECIFICATION Spec_FileTests
CONSTANTS
    NumSectors = 9
    SectorSize = 2
    NumDirect = 2
    NumDirEntries = 2
    FreeMapFileSize = 2
    DirectoryFileSize = 2
    FileName <- MCFileName
    Prefix <- MCPrefix
    Handle = {h1}
    Byte = {0, 1}
    Size = {1, 3}
    Position = {1}
    Request = {1, 2}
    NULL = NULL
    TransferSize = 3
    TestFile = "TestFile"
    TestContents <- MCTestContents
    TestSize = 4
    UnixFile <- MCUnixFile
INVARIANTS SectorsAccounted PrintsWhatWasCopied
PROPERTY ImplementsStore
