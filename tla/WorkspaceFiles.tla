-------------------------- MODULE WorkspaceFiles --------------------------
(***************************************************************************)
(* The file tools of one workspace (mcp/write.go, file_read of             *)
(* mcp/tools.go) over Root (mcp/root.go): what happens on disk while       *)
(* several tool calls, each on an HTTP goroutine of its own, and somebody  *)
(* outside the server (a git checkout, an editor) touch the same paths.    *)
(*                                                                         *)
(* No handler holds a lock, so the grain of atomicity is one call of the   *)
(* operating system: stat, open (with O_EXCL or O_TRUNC), one read of a    *)
(* whole file, one write.  Everything a handler decides in memory between  *)
(* two such calls belongs to the action of the first.                      *)
(*                                                                         *)
(* Contents are sequences of Cells, as long as their number of cells is    *)
(* their size in bytes; a SHA-256 is the sequence it was computed from, so *)
(* two hashes are equal exactly when the bytes are.  The access rules are  *)
(* two sets of paths, AllowFile and AllowDir: what CheckFile and CheckDir  *)
(* of mcp/policy.go answer.  The tree is two levels deep.                  *)
(***************************************************************************)
EXTENDS Integers, Sequences, FiniteSets, SequencesExt

CONSTANTS
    Client,         \* concurrent tool calls, one per HTTP goroutine
    Path,           \* clean workspace-relative paths
    Parent,         \* the directory a path is in: a path, or Dot
    Dot,            \* the workspace root "."
    AllowFile,      \* paths CheckFile allows
    AllowDir,       \* paths CheckDir allows
    WriteEnabled,   \* write.enabled: Root.Writable()
    Cell,           \* bytes
    MaxBytes,       \* read.maxBytes of the workspace
    NoHash,         \* the empty sha256 or base_sha256
    Request,        \* the tool calls clients make
    OutsideData,    \* contents somebody outside the server writes
    OsMayFail       \* whether calls of the operating system fail on their own

Content == Seq(Cell)
NoReply == [code |-> "none", sha |-> NoHash, text |-> <<>>]
NoRequest == [op |-> "none", path |-> Dot]

CreateRequest ==
    [op: {"file_create"}, path: Path, data: Content]
OverwriteRequest ==
    [op: {"file_overwrite"}, path: Path, data: Content,
     base: Content \cup {NoHash}, dry: BOOLEAN]
ReplaceRequest ==
    [op: {"file_replace"}, path: Path, old: Cell, new: Cell, expected: Nat \ {0},
     base: Content \cup {NoHash}, dry: BOOLEAN]
ReadRequest ==
    [op: {"file_read"}, path: Path, maxBytes: Nat]    \* 0: not given

ASSUME TreeAssumption ==
    /\ Dot \notin Path
    /\ Parent \in [Path -> Path \cup {Dot}]
    /\ \A p \in Path : Parent[p] # Dot => Parent[Parent[p]] = Dot
ASSUME PolicyAssumption ==
    AllowFile \subseteq AllowDir /\ AllowDir \subseteq Path /\ WriteEnabled \in BOOLEAN
ASSUME DataAssumption ==
    /\ MaxBytes \in Nat \ {0}
    /\ OsMayFail \in BOOLEAN
    /\ NoHash \notin Content
    /\ OutsideData \subseteq Content
    /\ Request \subseteq CreateRequest \cup OverwriteRequest
                           \cup ReplaceRequest \cup ReadRequest

VARIABLES
    disk,       \* what every path is on disk
    pc,         \* the operating-system call each handler makes next
    req,        \* the request each handler serves
    cur,        \* bytes a handler holds: read from the file, or about to be written
    linked,     \* whether the file a handler has open is still the one at its path
    reply,      \* the answer of a finished call
    calm,       \* observation: nobody else changed the call's path since it was read
    touched     \* observation: the call has opened its file for writing

vars == <<disk, pc, req, cur, linked, reply, calm, touched>>

\* Where a handler can be: between two of its operating-system calls.
Step == {"idle", "mkdir", "create", "stat", "base", "open", "write",
         "scan", "rehash", "done"}

Absent == [kind |-> "absent", content |-> <<>>]
Directory == [kind |-> "dir", content |-> <<>>]
File(content) == [kind |-> "file", content |-> content]
Node == [kind: {"absent", "file", "dir"}, content: Content]

Code == {"OK", "POLICY_DENIED", "OUTSIDE_ROOT", "READ_ONLY", "NOT_FOUND",
         "PATH_EXISTS", "BASE_SHA_MISMATCH", "MATCH_COUNT_MISMATCH",
         "FILE_TOO_LARGE"}
Reply == [code: Code, sha: Content \cup {NoHash}, text: Content]

---------------------------------------------------------------------------
(* Operations on bytes *)

\* bytes.Count of a one-cell old_str
Count(content, old) == Cardinality({i \in DOMAIN content : content[i] = old})

\* bytes.ReplaceAll of a one-cell old_str by a new_str of the same length
ReplaceAllOf(content, old, new) ==
    [i \in DOMAIN content |-> IF content[i] = old THEN new ELSE content[i]]

\* A write at offset 0 of a descriptor: it covers the front of whatever the
\* file holds by then, and leaves what lies beyond.
WriteAtStart(content, data) ==
    data \o SubSeq(content, Len(data) + 1, Len(content))

\* The first n bytes.
FirstBytes(content, n) == SubSeq(content, 1, n)

\* The bytes file_read scans: its maxBytes, never more than the workspace's.
ScanLimit(r) ==
    IF r.maxBytes > 0 /\ r.maxBytes < MaxBytes THEN r.maxBytes ELSE MaxBytes

---------------------------------------------------------------------------
(* The tree, as the kernel resolves it *)

ParentIs(p, kind) == Parent[p] \in Path /\ disk[Parent[p]].kind = kind

\* What opening or stat-ing p meets: a missing parent is ENOENT, a parent
\* that is a file is ENOTDIR.
Lookup(p) ==
    IF ParentIs(p, "file") THEN "notdir" ELSE disk[p].kind

Child(p) == {q \in Path : Parent[q] = p}

WellFormedTree ==
    \A p \in Path :
        /\ disk[p].kind # "file" => disk[p].content = <<>>
        /\ disk[p].kind # "absent" /\ Parent[p] \in Path => ParentIs(p, "dir")

---------------------------------------------------------------------------
(* Root's rules, checked in memory before each call of the operating system *)

\* Steps that go through Root and report its errors.
RootStep == {"mkdir", "create", "stat", "base", "open", "scan"}

\* Mutant: CreateNew never asks the policy.
DenialWithoutRequire(c) ==
    IF pc[c] \in {"mkdir", "open"} /\ ~WriteEnabled THEN "READ_ONLY" ELSE "OK"

\* What CreateNew and WriteExisting, Open, Stat say of the call's path.
Denial(c) ==
    IF pc[c] \in {"mkdir", "open"} /\ ~WriteEnabled THEN "READ_ONLY"
    ELSE IF req[c].path \notin (IF pc[c] = "stat" THEN AllowDir ELSE AllowFile)
         THEN "POLICY_DENIED"
         ELSE "OK"

Permitted(c) == Denial(c) = "OK"

---------------------------------------------------------------------------
(* Bookkeeping shared by the handlers *)

Goto(c, step) == pc' = [pc EXCEPT ![c] = step]

Answer(c, code, sha, text) ==
    /\ Goto(c, "done")
    /\ reply' = [reply EXCEPT ![c] = [code |-> code, sha |-> sha, text |-> text]]

\* An error result: no sha256, no content, nothing done.
Refuse(c, code) ==
    /\ Answer(c, code, NoHash, <<>>)
    /\ UNCHANGED <<disk, req, cur, linked, calm, touched>>

\* Everybody but c sees that something happened to the paths in changed.
Disturb(c, changed) ==
    calm' = [d \in Client |-> calm[d] /\ (d = c \/ req[d].path \notin changed)]

\* The handler does not even get to read: mapPathError of a failed lookup.
LookupFails(c) ==
    \/ Lookup(req[c].path) = "absent" /\ Refuse(c, "NOT_FOUND")
    \/ Lookup(req[c].path) = "notdir" /\ Refuse(c, "OUTSIDE_ROOT")

---------------------------------------------------------------------------
(* Requests and answers *)

FirstStep(r) ==
    IF r.op = "file_create" THEN "mkdir"
    ELSE IF r.op = "file_replace" THEN "base"
    ELSE "stat"

\* A client calls a tool; the answer of its previous call is consumed.
Call(c, r) ==
    /\ pc[c] \in {"idle", "done"}
    /\ Goto(c, FirstStep(r))
    /\ req' = [req EXCEPT ![c] = r]
    /\ cur' = [cur EXCEPT ![c] = <<>>]
    /\ linked' = [linked EXCEPT ![c] = FALSE]
    /\ reply' = [reply EXCEPT ![c] = NoReply]
    /\ calm' = [calm EXCEPT ![c] = TRUE]
    /\ touched' = [touched EXCEPT ![c] = FALSE]
    /\ UNCHANGED disk

\* Root refuses before the operating system is asked anything.
Rejected(c) ==
    /\ pc[c] \in RootStep
    /\ ~Permitted(c)
    /\ Refuse(c, Denial(c))

\* The operating system refuses: permissions, no space, an I/O error.
OsError(c) ==
    /\ OsMayFail
    /\ pc[c] \in RootStep
    /\ Permitted(c)
    /\ Refuse(c, "OUTSIDE_ROOT")

---------------------------------------------------------------------------
(* file_create: Root.CreateNew, then one write *)

\* os.Root.MkdirAll of the parent directory: where that is a file it fails as
\* mkdir(2) does, with EEXIST, which file_create takes for its own path.
MkdirAll(c) ==
    LET p == req[c].path IN
    /\ pc[c] = "mkdir"
    /\ Permitted(c)
    /\ \/ ParentIs(p, "file") /\ Refuse(c, "PATH_EXISTS")
       \/ /\ ~ParentIs(p, "file")
          /\ IF ParentIs(p, "absent")
             THEN /\ disk' = [disk EXCEPT ![Parent[p]] = Directory]
                  /\ Disturb(c, {Parent[p]})
             ELSE UNCHANGED <<disk, calm>>
          /\ Goto(c, "create")
          /\ UNCHANGED <<req, cur, linked, reply, touched>>

\* Mutant: O_CREATE|O_TRUNC.
OpenWithoutExcl(c) ==
    LET p == req[c].path IN
    /\ pc[c] = "create"
    /\ Lookup(p) \in {"absent", "file"}
    /\ ~ParentIs(p, "absent")
    /\ disk' = [disk EXCEPT ![p] = File(<<>>)]
    /\ Goto(c, "write")
    /\ cur' = [cur EXCEPT ![c] = req[c].data]
    /\ linked' = [linked EXCEPT ![c] = TRUE]
    /\ touched' = [touched EXCEPT ![c] = TRUE]
    /\ Disturb(c, {p})
    /\ UNCHANGED <<req, reply>>

\* OpenFile with O_CREATE|O_EXCL: the only step that makes a file.
OpenExclusive(c) ==
    LET p == req[c].path IN
    /\ pc[c] = "create"
    /\ Permitted(c)
    /\ \/ Lookup(p) = "notdir" /\ Refuse(c, "OUTSIDE_ROOT")
       \/ Lookup(p) \in {"file", "dir"} /\ Refuse(c, "PATH_EXISTS")
       \/ Lookup(p) = "absent" /\ ParentIs(p, "absent") /\ Refuse(c, "NOT_FOUND")
       \/ /\ Lookup(p) = "absent"
          /\ ~ParentIs(p, "absent")
          /\ disk' = [disk EXCEPT ![p] = File(<<>>)]
          /\ Goto(c, "write")
          /\ cur' = [cur EXCEPT ![c] = req[c].data]
          /\ linked' = [linked EXCEPT ![c] = TRUE]
          /\ touched' = [touched EXCEPT ![c] = TRUE]
          /\ Disturb(c, {p})
          /\ UNCHANGED <<req, reply>>

---------------------------------------------------------------------------
(* file_overwrite and file_replace: look, decide, then open and write *)

\* Root.Stat fails.  A missing path is judged as a file, so that a denied one
\* is denied whether or not it exists.
StatFails(c) ==
    LET p == req[c].path IN
    \/ Lookup(p) = "notdir" /\ Refuse(c, "OUTSIDE_ROOT")
    \/ Lookup(p) \in {"absent", "file"} /\ p \notin AllowFile /\ Refuse(c, "POLICY_DENIED")
    \/ Lookup(p) = "absent" /\ p \in AllowFile /\ Refuse(c, "NOT_FOUND")

\* file_overwrite and file_read look at the path before anything else.
StatPath(c) ==
    LET p == req[c].path
        r == req[c] IN
    /\ pc[c] = "stat"
    /\ Permitted(c)
    /\ \/ StatFails(c)
       \/ Lookup(p) = "dir" /\ Refuse(c, "NOT_FOUND")
       \/ /\ Lookup(p) = "file"
          /\ p \in AllowFile
          /\ Goto(c, IF r.op = "file_read" THEN "scan"
                     ELSE IF r.base # NoHash \/ r.dry THEN "base" ELSE "open")
          /\ cur' = [cur EXCEPT ![c] = IF r.op = "file_overwrite" THEN r.data ELSE <<>>]
          /\ UNCHANGED <<disk, req, linked, reply, calm, touched>>

\* Mutant: base_sha256 is not compared.
VerdictWithoutBase(r, content) ==
    IF Len(content) > MaxBytes THEN "FILE_TOO_LARGE"
    ELSE IF r.op = "file_replace" /\ Count(content, r.old) # r.expected
         THEN "MATCH_COUNT_MISMATCH"
         ELSE "OK"

\* What the handler makes of the bytes readForHash returned: the next content
\* of the file, or the reason not to write it.
Verdict(r, content) ==
    IF Len(content) > MaxBytes THEN "FILE_TOO_LARGE"
    ELSE IF r.base # NoHash /\ r.base # content THEN "BASE_SHA_MISMATCH"
    ELSE IF r.op = "file_replace" /\ Count(content, r.old) # r.expected
         THEN "MATCH_COUNT_MISMATCH"
         ELSE "OK"

NextContent(r, content) ==
    IF r.op = "file_replace" THEN ReplaceAllOf(content, r.old, r.new) ELSE r.data

\* Mutant: dry_run is forgotten once the guards have passed.
ReadBaseIgnoringDryRun(c) ==
    LET p == req[c].path
        content == disk[p].content IN
    /\ pc[c] = "base"
    /\ Lookup(p) = "file"
    /\ Verdict(req[c], content) = "OK"
    /\ cur' = [cur EXCEPT ![c] = NextContent(req[c], content)]
    /\ calm' = [calm EXCEPT ![c] = TRUE]
    /\ Goto(c, "open")
    /\ UNCHANGED <<disk, req, linked, reply, touched>>

\* readForHash and the guards on what it read: base_sha256, the match count
\* and dry_run.
ReadBase(c) ==
    LET p == req[c].path
        r == req[c]
        content == disk[p].content
        next == NextContent(r, content) IN
    /\ pc[c] = "base"
    /\ Permitted(c)
    /\ \/ LookupFails(c)
       \/ Lookup(p) = "dir" /\ Refuse(c, "OUTSIDE_ROOT")     \* EISDIR
       \/ /\ Lookup(p) = "file"
          /\ Verdict(r, content) # "OK"
          /\ Refuse(c, Verdict(r, content))
       \/ /\ Lookup(p) = "file"
          /\ Verdict(r, content) = "OK"
          /\ cur' = [cur EXCEPT ![c] = next]
          /\ calm' = [calm EXCEPT ![c] = TRUE]
          /\ IF r.dry THEN Answer(c, "OK", next, <<>>)
                      ELSE Goto(c, "open") /\ UNCHANGED reply
          /\ UNCHANGED <<disk, req, linked, touched>>

\* Mutants: WriteExisting with O_CREATE; WriteExisting without O_TRUNC.
OpenWithCreate(c) ==
    LET p == req[c].path IN
    /\ pc[c] = "open"
    /\ Permitted(c)
    /\ Lookup(p) \in {"absent", "file"}
    /\ ~ParentIs(p, "absent")
    /\ disk' = [disk EXCEPT ![p] = File(<<>>)]
    /\ Goto(c, "write")
    /\ linked' = [linked EXCEPT ![c] = TRUE]
    /\ touched' = [touched EXCEPT ![c] = TRUE]
    /\ Disturb(c, {p})
    /\ UNCHANGED <<req, cur, reply>>
OpenWithoutTrunc(c) ==
    /\ pc[c] = "open"
    /\ Permitted(c)
    /\ Lookup(req[c].path) = "file"
    /\ Goto(c, "write")
    /\ linked' = [linked EXCEPT ![c] = TRUE]
    /\ touched' = [touched EXCEPT ![c] = TRUE]
    /\ UNCHANGED <<disk, req, cur, reply, calm>>

\* Root.WriteExisting: O_TRUNC without O_CREATE.
OpenTruncate(c) ==
    LET p == req[c].path IN
    /\ pc[c] = "open"
    /\ Permitted(c)
    /\ \/ LookupFails(c)
       \/ Lookup(p) = "dir" /\ Refuse(c, "OUTSIDE_ROOT")     \* EISDIR
       \/ /\ Lookup(p) = "file"
          /\ disk' = [disk EXCEPT ![p] = File(<<>>)]
          /\ Goto(c, "write")
          /\ linked' = [linked EXCEPT ![c] = TRUE]
          /\ touched' = [touched EXCEPT ![c] = TRUE]
          /\ Disturb(c, {p})
          /\ UNCHANGED <<req, cur, reply>>

---------------------------------------------------------------------------
(* The write itself, of all three tools *)

\* Mutant: the write names the path again instead of using the descriptor.
PutByName(c, data) ==
    /\ disk' = [disk EXCEPT ![req[c].path] = File(data)]
    /\ Disturb(c, {req[c].path})

\* data lands in the file the handler opened, wherever that is by now.
Put(c, data) ==
    LET p == req[c].path IN
    IF linked[c]
    THEN /\ disk' = [disk EXCEPT ![p] = File(WriteAtStart(@.content, data))]
         /\ Disturb(c, {p})
    ELSE UNCHANGED <<disk, calm>>

WriteAll(c) ==
    /\ pc[c] = "write"
    /\ Put(c, cur[c])
    /\ Answer(c, "OK", cur[c], <<>>)
    /\ UNCHANGED <<req, cur, linked, touched>>

\* The write fails (disk full, quota) after n bytes.
WriteFails(c) ==
    /\ OsMayFail
    /\ pc[c] = "write"
    /\ \E n \in 0 .. Len(cur[c]) - 1 : Put(c, FirstBytes(cur[c], n))
    /\ Answer(c, "OUTSIDE_ROOT", NoHash, <<>>)
    /\ UNCHANGED <<req, cur, linked, touched>>

---------------------------------------------------------------------------
(* file_read *)

\* Mutant: the hash is taken of the returned bytes, truncated or not.
ScanHashingWhatItReturns(c) ==
    LET content == disk[req[c].path].content
        limit == ScanLimit(req[c])
        head == IF Len(content) <= limit THEN content ELSE FirstBytes(content, limit) IN
    /\ pc[c] = "scan"
    /\ Lookup(req[c].path) = "file"
    /\ calm' = [calm EXCEPT ![c] = TRUE]
    /\ Answer(c, "OK", head, head)
    /\ UNCHANGED <<disk, req, cur, linked, touched>>

\* Open, read up to the limit, probe for one byte more.
Scan(c) ==
    LET p == req[c].path
        content == disk[p].content
        limit == ScanLimit(req[c]) IN
    /\ pc[c] = "scan"
    /\ Permitted(c)
    /\ \/ LookupFails(c)
       \/ Lookup(p) = "dir" /\ Refuse(c, "OUTSIDE_ROOT")     \* EISDIR
       \/ /\ Lookup(p) = "file"
          /\ calm' = [calm EXCEPT ![c] = TRUE]
          /\ IF Len(content) <= limit
             THEN Answer(c, "OK", content, content) /\ UNCHANGED cur
             ELSE /\ cur' = [cur EXCEPT ![c] = FirstBytes(content, limit)]
                  /\ Goto(c, "rehash")
                  /\ UNCHANGED reply
          /\ UNCHANGED <<disk, req, linked, touched>>

\* hashFileFull: a second open and read, for the hash of a truncated read.
\* An error, or a file past the limit, leaves the hash empty.
Rehash(c) ==
    LET content == disk[req[c].path].content
        hashable == Lookup(req[c].path) = "file" /\ Len(content) <= MaxBytes IN
    /\ pc[c] = "rehash"
    /\ \E sha \in {NoHash} \cup (IF hashable THEN {content} ELSE {}) :
          /\ sha = NoHash => OsMayFail \/ ~hashable
          /\ Answer(c, "OK", sha, cur[c])
    /\ UNCHANGED <<disk, req, cur, linked, calm, touched>>

---------------------------------------------------------------------------
(* The world outside: a checkout, an editor, a crash of the server *)

\* Somebody rewrites a file in place.
OutsideEdit(p, content) ==
    /\ disk[p].kind = "file"
    /\ disk[p].content # content
    /\ disk' = [disk EXCEPT ![p] = File(content)]
    /\ calm' = [c \in Client |-> calm[c] /\ req[c].path # p]
    /\ UNCHANGED <<pc, req, cur, linked, reply, touched>>

\* Somebody removes p with all below it, and may put something else there:
\* whoever has one of those files open now writes to a file without a name.
OutsideReplace(p, node) ==
    LET gone == {p} \cup Child(p) IN
    /\ Parent[p] \in Path => ParentIs(p, "dir")
    /\ disk[p] # node \/ node.kind = "file"
    /\ disk' = [q \in Path |-> IF q = p THEN node ELSE IF q \in gone THEN Absent ELSE disk[q]]
    /\ linked' = [c \in Client |-> linked[c] /\ req[c].path \notin gone]
    /\ calm' = [c \in Client |-> calm[c] /\ req[c].path \notin gone]
    /\ UNCHANGED <<pc, req, cur, reply, touched>>

\* The process dies: no call is answered, the disk stays as it is.
Crash ==
    /\ \E c \in Client : pc[c] \notin {"idle", "done"}
    /\ pc' = [c \in Client |-> "idle"]
    /\ req' = [c \in Client |-> NoRequest]
    /\ cur' = [c \in Client |-> <<>>]
    /\ linked' = [c \in Client |-> FALSE]
    /\ reply' = [c \in Client |-> NoReply]
    /\ calm' = [c \in Client |-> TRUE]
    /\ touched' = [c \in Client |-> FALSE]
    /\ UNCHANGED disk

---------------------------------------------------------------------------
(* The specification *)

Init ==
    /\ disk \in [Path -> {Absent, Directory} \cup {File(content) : content \in OutsideData}]
    /\ WellFormedTree
    /\ pc = [c \in Client |-> "idle"]
    /\ req = [c \in Client |-> NoRequest]
    /\ cur = [c \in Client |-> <<>>]
    /\ linked = [c \in Client |-> FALSE]
    /\ reply = [c \in Client |-> NoReply]
    /\ calm = [c \in Client |-> TRUE]
    /\ touched = [c \in Client |-> FALSE]

Handle(c) ==
    \/ Rejected(c) \/ OsError(c)
    \/ MkdirAll(c) \/ OpenExclusive(c)
    \/ StatPath(c) \/ ReadBase(c) \/ OpenTruncate(c)
    \/ WriteAll(c) \/ WriteFails(c)
    \/ Scan(c) \/ Rehash(c)

Outside ==
    \E p \in Path :
        \/ \E content \in OutsideData : OutsideEdit(p, content)
        \/ \E node \in {Absent, Directory} \cup {File(d) : d \in OutsideData} :
              OutsideReplace(p, node)

Next ==
    \/ \E c \in Client : Handle(c) \/ \E r \in Request : Call(c, r)
    \/ Outside
    \/ Crash

Spec == Init /\ [][Next]_vars

---------------------------------------------------------------------------
(* Properties *)

\* The type invariant, with the tree: a path exists only below a directory.
TypeOK ==
    /\ disk \in [Path -> Node]
    /\ WellFormedTree
    /\ pc \in [Client -> Step]
    /\ req \in [Client -> Request \cup {NoRequest}]
    /\ cur \in [Client -> Content]
    /\ linked \in [Client -> BOOLEAN]
    /\ reply \in [Client -> Reply \cup {NoReply}]
    /\ calm \in [Client -> BOOLEAN]
    /\ touched \in [Client -> BOOLEAN]

\* Steps of the server change pc, steps of the world outside do not.
ServerStep == pc' # pc

\* O_EXCL arbitrates file_create: of the calls writing to the file at one path
\* right now, at most one created it, however the creates, the removals by
\* somebody else and the re-creations interleave (CreateNew of root.go).
ExclusiveCreate ==
    \A c, d \in Client :
        /\ c # d
        /\ pc[c] = "write" /\ req[c].op = "file_create" /\ linked[c]
        /\ pc[d] = "write" /\ req[d].op = "file_create" /\ linked[d]
        => req[c].path # req[d].path

\* A descriptor that is still linked names a file that policy lets the server
\* write, in a workspace that has writes enabled.
OpenFilesAreWritable ==
    \A c \in Client :
        pc[c] = "write" =>
            /\ WriteEnabled
            /\ req[c].path \in AllowFile
            /\ linked[c] => disk[req[c].path].kind = "file"

\* "No delete, move or rename", "writes go only where reads are allowed" (the
\* instructions of server.go) as far as the code keeps it: a step of the
\* server rewrites an allowed file, makes an allowed file where nothing was,
\* or makes the directory an allowed file is to go in; in a workspace without
\* write.enabled it does none of these.
ServerWritesAllowedFile ==
    ServerStep =>
        \A p \in Path : disk'[p] # disk[p] =>
            /\ WriteEnabled
            /\ \/ p \in AllowFile /\ disk[p].kind # "dir" /\ disk'[p].kind = "file"
               \/ /\ \E q \in AllowFile : Parent[q] = p
                  /\ disk[p].kind = "absent" /\ disk'[p].kind = "dir"
ServerOnlyWritesAllowedFiles == [][ServerWritesAllowedFile]_vars

\* "Deliberately no O_CREATE" (root.go): only file_create makes a file exist,
\* even if the file of an overwrite or a replace is removed between the look
\* at it and the open.
FileIsMadeByCreate ==
    ServerStep =>
        \A p \in Path : disk[p].kind = "absent" /\ disk'[p].kind = "file" =>
            \E c \in Client :
                pc[c] = "create" /\ req[c].path = p /\ req[c].op = "file_create"
OnlyCreateMakesFiles == [][FileIsMadeByCreate]_vars

\* The guards of an edit work as long as nobody else touches the file between
\* readForHash and the truncating open: the content an edit then destroys is
\* the base the caller named, and for file_replace one that contains old_str
\* as often as expected and fits the read limit.
GuardHolds(c) ==
    LET r == req[c]
        content == disk[r.path].content IN
    /\ r.base # NoHash => content = r.base
    /\ r.op = "file_replace" =>
         /\ Count(content, r.old) = r.expected
         /\ Len(content) <= MaxBytes
         /\ cur[c] = ReplaceAllOf(content, r.old, r.new)
CalmWriteReplacesBase ==
    \A c \in Client :
        pc[c] = "open" /\ pc'[c] = "write" /\ calm[c] => GuardHolds(c)
GuardedWriteReplacesBase == [][CalmWriteReplacesBase]_vars

\* A successful create, overwrite or replace that nobody interfered with since
\* it looked at the file has left exactly the bytes whose hash it reported,
\* no tail of the previous content included (O_TRUNC).
ResultIsOnDiskWhenAlone ==
    \A c \in Client :
        /\ pc[c] = "done" /\ reply[c].code = "OK" /\ touched[c] /\ calm[c]
        => disk[req[c].path] = File(reply[c].sha)

\* An answer that says why the call was turned down (missing, existing,
\* changed, too large, wrong count, denied, read-only), and every answer to a
\* dry run, comes from a call that never opened the file for writing.
RefusalsLeaveTheFile ==
    \A c \in Client :
        pc[c] = "done" /\ touched[c] =>
            /\ reply[c].code \in {"OK", "OUTSIDE_ROOT"}
            /\ req[c].op # "file_read"
            /\ req[c].op # "file_create" => ~req[c].dry

\* The sha256 of a file_read serves as a later base_sha256: it is the hash of
\* a content readForHash accepts, and unless somebody else touched the file
\* since it was read, of the whole current file, the returned bytes its front.
ReadHashIsABase ==
    \A c \in Client :
        LET answer == reply[c]
            file == disk[req[c].path] IN
        pc[c] = "done" /\ req[c].op = "file_read" /\ answer.code = "OK"
            /\ answer.sha # NoHash =>
            /\ Len(answer.sha) <= MaxBytes
            /\ calm[c] => file = File(answer.sha) /\ IsPrefix(answer.text, file.content)

---------------------------------------------------------------------------
(* What the documentation says beyond that *)

\* "pass a file's current sha256 as base_sha256 to refuse the write if the
\* file changed underneath you" (server.go, writableInstructions): no guarded
\* edit destroys a content other than its base.
RefusesIfChangedUnderneath ==
    [][\A c \in Client :
        pc[c] = "open" /\ pc'[c] = "write" /\ req[c].base # NoHash =>
            disk[req[c].path].content = req[c].base]_vars

\* "hash of the resulting ... file" (write.go, fileWriteResult): a write to the
\* file at the call's path that succeeds leaves there the content whose hash
\* the call reports, whatever other calls do meanwhile.
HashIsOfTheResult ==
    [][\A c \in Client :
        pc[c] = "write" /\ pc'[c] = "done" /\ linked[c] /\ reply'[c].code = "OK" =>
            disk'[req[c].path] = File(reply'[c].sha)]_vars

=============================================================================
