SPECIFICATION Spec
CONSTANTS
    a = a
    b = b
    docs = docs
    note = note
    t1 = t1
    t2 = t2
    Dot = Dot
    NoHash = NoHash
    Cell = {a, b}
    Client = {t1, t2}
    Path = {note}
    Parent <- FlatParent
    AllowFile = {note}
    AllowDir = {note}
    WriteEnabled = TRUE
    MaxBytes = 2
    Request <- WriterRequests
    OutsideData = {}
    OsMayFail = FALSE
SYMMETRY Calls
PROPERTIES
    HashIsOfTheResult
