SPECIFICATION Spec
CONSTANTS
    a = a
    b = b
    docs = docs
    note = note
    t1 = t1
    t2 = t2
    Dot = Dot
    NoHash = NoHash
    Cell = {a, b}
    Client = {t1, t2}
    Path = {docs, note}
    Parent <- MCParent
    AllowFile = {note}
    AllowDir = {docs, note}
    WriteEnabled = TRUE
    MaxBytes = 2
    Request <- AllRequests
    OutsideData <- NoteOnly
    OsMayFail = TRUE
SYMMETRY Calls
INVARIANTS
    TypeOK
    ExclusiveCreate
    ResultIsOnDiskWhenAlone
    
    ReadHashIsABase
PROPERTIES
    ServerOnlyWritesAllowedFiles
    OnlyCreateMakesFiles
    GuardedWriteReplacesBase
