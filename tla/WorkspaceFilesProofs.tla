----------------------- MODULE WorkspaceFilesProofs -----------------------
(***************************************************************************)
(* What WorkspaceFiles promises for every set of clients, paths, requests  *)
(* and contents.                                                           *)
(***************************************************************************)
EXTENDS WorkspaceFiles, SequenceTheorems, TLAPS

LEMMA EmptyContent == <<>> \in Content
BY DEF Content

\* The bytes a write leaves in a file are bytes.
LEMMA WriteAtStartType ==
    ASSUME NEW content \in Content, NEW data \in Content
    PROVE  WriteAtStart(content, data) \in Content
<1>1. SubSeq(content, Len(data) + 1, Len(content)) \in Seq(Cell)
  BY SubSeqProperties DEF Content
<1> QED BY <1>1, ConcatProperties DEF WriteAtStart, Content

LEMMA FirstBytesType ==
    ASSUME NEW content \in Content, NEW n \in Nat, n <= Len(content)
    PROVE  FirstBytes(content, n) \in Content
BY SubSeqProperties DEF FirstBytes, Content

LEMMA ReplaceAllOfType ==
    ASSUME NEW content \in Content, NEW old \in Cell, NEW new \in Cell
    PROVE  ReplaceAllOf(content, old, new) \in Content
BY DEF ReplaceAllOf, Content

---------------------------------------------------------------------------
(* The inductive invariant *)

\* The tool a request names is one whose handler has the step it is at.
StepFits(r, step) ==
    /\ step # "idle" => r \in Request
    /\ step \in {"mkdir", "create"} => r.op = "file_create"
    /\ step = "stat" => r.op \in {"file_overwrite", "file_read"}
    /\ step \in {"base", "open"} => r.op \in {"file_overwrite", "file_replace"}
    /\ step \in {"scan", "rehash"} => r.op = "file_read"

StepFitsRequest == \A c \in Client : StepFits(req[c], pc[c])

\* Past its first look at the policy a file_create is in a writable workspace.
CreatesAreEnabled == \A c \in Client : pc[c] = "create" => WriteEnabled

IInv ==
    /\ TypeOK
    /\ StepFitsRequest
    /\ CreatesAreEnabled
    /\ OpenFilesAreWritable

\* What a request's fields are, tool by tool.
LEMMA RequestFields ==
    ASSUME NEW r \in Request
    PROVE  /\ r.path \in Path
           /\ r.op \in {"file_create", "file_overwrite", "file_replace", "file_read"}
           /\ r.op \in {"file_create", "file_overwrite"} => r.data \in Content
           /\ r.op = "file_overwrite" => r.dry \in BOOLEAN /\ r.base \in Content \cup {NoHash}
           /\ r.op = "file_replace" => /\ r.old \in Cell /\ r.new \in Cell
                                       /\ r.expected \in Nat
                                       /\ r.dry \in BOOLEAN
                                       /\ r.base \in Content \cup {NoHash}
           /\ r.op = "file_read" => r.maxBytes \in Nat
BY DataAssumption DEF CreateRequest, OverwriteRequest, ReplaceRequest, ReadRequest

LEMMA NodeTypes ==
    /\ Absent \in Node /\ Directory \in Node
    /\ \A content \in Content : File(content) \in Node
BY EmptyContent DEF Absent, Directory, File, Node

\* The answers the handlers give are answers.
LEMMA AnswerType ==
    ASSUME TypeOK, NEW c \in Client, NEW code \in Code,
           NEW sha \in Content \cup {NoHash}, NEW text \in Content,
           Answer(c, code, sha, text)
    PROVE  /\ pc' \in [Client -> Step]
           /\ reply' \in [Client -> Reply \cup {NoReply}]
BY DEF TypeOK, Answer, Goto, Step, Reply

\* An error result changes nothing the invariant speaks of but pc and reply.
LEMMA RefuseKeepsIInv ==
    ASSUME IInv, NEW c \in Client, NEW code \in Code, Refuse(c, code),
           pc[c] # "idle"
    PROVE  IInv'
<1>1. TypeOK'
  BY AnswerType, EmptyContent DEF IInv, Refuse, TypeOK, WellFormedTree, ParentIs
<1>2. StepFitsRequest'
  BY DEF IInv, Refuse, Answer, Goto, TypeOK, StepFitsRequest, StepFits
<1>3. CreatesAreEnabled' /\ OpenFilesAreWritable'
  BY DEF IInv, Refuse, Answer, Goto, TypeOK, CreatesAreEnabled, OpenFilesAreWritable
<1> QED BY <1>1, <1>2, <1>3 DEF IInv

---------------------------------------------------------------------------
(* The tree survives every change of one path *)

\* New bytes in an existing file.
LEMMA FillKeepsTree ==
    ASSUME TypeOK, NEW p \in Path, NEW content \in Content,
           disk[p].kind = "file", disk' = [disk EXCEPT ![p] = File(content)]
    PROVE  disk' \in [Path -> Node] /\ WellFormedTree'
<1>1. disk' \in [Path -> Node]
  BY NodeTypes DEF TypeOK
<1>2. \A q \in Path : disk'[q].kind = disk[q].kind
  BY DEF TypeOK, File
<1> QED BY <1>1, <1>2 DEF TypeOK, WellFormedTree, ParentIs, File

\* A file or a directory where nothing was, below a directory.
LEMMA MakeKeepsTree ==
    ASSUME TypeOK, NEW p \in Path, NEW node \in {Directory, File(<<>>)},
           disk[p].kind = "absent", Parent[p] \in Path => ParentIs(p, "dir"),
           disk' = [disk EXCEPT ![p] = node]
    PROVE  disk' \in [Path -> Node] /\ WellFormedTree'
<1>1. disk' \in [Path -> Node]
  BY NodeTypes, EmptyContent DEF TypeOK
<1>2. Parent[p] # p
  BY TreeAssumption
<1>3. ASSUME NEW q \in Path
      PROVE  /\ disk'[q].kind # "file" => disk'[q].content = <<>>
             /\ disk'[q].kind # "absent" /\ Parent[q] \in Path =>
                  disk'[Parent[q]].kind = "dir"
  BY <1>2 DEF TypeOK, WellFormedTree, ParentIs, File, Directory, Node
<1> QED BY <1>1, <1>3 DEF WellFormedTree, ParentIs

\* Something else at p, and nothing below it.
LEMMA ReplaceKeepsTree ==
    ASSUME TypeOK, NEW p \in Path, NEW node \in Node,
           node.kind # "file" => node.content = <<>>,
           Parent[p] \in Path => ParentIs(p, "dir"),
           disk' = [q \in Path |-> IF q = p THEN node
                                   ELSE IF q \in {p} \cup Child(p) THEN Absent
                                   ELSE disk[q]]
    PROVE  disk' \in [Path -> Node] /\ WellFormedTree'
<1>1. disk' \in [Path -> Node]
  BY NodeTypes DEF TypeOK
<1>2. ASSUME NEW q \in Path
      PROVE  /\ disk'[q].kind # "file" => disk'[q].content = <<>>
             /\ disk'[q].kind # "absent" /\ Parent[q] \in Path =>
                  disk'[Parent[q]].kind = "dir"
  <2>1. CASE q = p
    BY <2>1, TreeAssumption DEF Child, ParentIs
  <2>2. CASE q \in Child(p) /\ q # p
    BY <2>2 DEF Absent
  <2>3. CASE q # p /\ q \notin Child(p)
    <3>1. disk'[q] = disk[q]
      BY <2>3
    <3>2. Parent[q] \in Path => Parent[q] # p /\ Parent[q] \notin Child(p)
      BY <2>3, TreeAssumption DEF Child
    <3> QED BY <3>1, <3>2 DEF TypeOK, WellFormedTree, ParentIs
  <2> QED BY <2>1, <2>2, <2>3
<1> QED BY <1>1, <1>2 DEF WellFormedTree, ParentIs

---------------------------------------------------------------------------
(* Every step keeps the invariant *)

\* A handler that finds no file answers an error.
LEMMA LookupFailsKeepsIInv ==
    ASSUME IInv, NEW c \in Client, LookupFails(c), pc[c] # "idle"
    PROVE  IInv'
BY RefuseKeepsIInv DEF LookupFails, Code

LEMMA InitIInv == Init => IInv
<1> SUFFICES ASSUME Init PROVE IInv
  OBVIOUS
<1>1. disk \in [Path -> Node]
  BY NodeTypes, DataAssumption DEF Init
<1>2. TypeOK
  BY <1>1, EmptyContent DEF Init, TypeOK, Step
<1> QED BY <1>2 DEF Init, IInv, StepFitsRequest, StepFits, CreatesAreEnabled, OpenFilesAreWritable

LEMMA CallKeepsIInv ==
    ASSUME IInv, NEW c \in Client, NEW r \in Request, Call(c, r)
    PROVE  IInv'
<1> USE DEF IInv, Call, Goto
<1>1. FirstStep(r) \in Step /\ StepFits(r, FirstStep(r))
      /\ FirstStep(r) \notin {"create", "write"}
  BY RequestFields DEF FirstStep, Step, StepFits
<1>2. TypeOK'
  BY <1>1, EmptyContent DEF TypeOK, WellFormedTree, ParentIs
<1>3. StepFitsRequest'
  BY <1>1 DEF TypeOK, StepFitsRequest
<1>4. CreatesAreEnabled' /\ OpenFilesAreWritable'
  BY <1>1 DEF TypeOK, CreatesAreEnabled, OpenFilesAreWritable
<1> QED BY <1>2, <1>3, <1>4

LEMMA MkdirAllKeepsIInv ==
    ASSUME IInv, NEW c \in Client, MkdirAll(c)
    PROVE  IInv'
<1> DEFINE p == req[c].path
<1>1. pc[c] = "mkdir" /\ req[c] \in Request /\ p \in Path /\ req[c].op = "file_create"
  BY RequestFields DEF IInv, StepFitsRequest, StepFits, MkdirAll
<1>2. CASE Refuse(c, "PATH_EXISTS")
  BY <1>1, <1>2, RefuseKeepsIInv DEF Code
<1>3. CASE ~Refuse(c, "PATH_EXISTS")
  <2>1. /\ Goto(c, "create")
        /\ UNCHANGED <<req, cur, linked, reply, touched>>
    BY <1>3 DEF MkdirAll
  <2>2. calm' \in [Client -> BOOLEAN]
    BY <1>3 DEF MkdirAll, Disturb, IInv, TypeOK
  <2>3. /\ disk' \in [Path -> Node] /\ WellFormedTree'
        /\ \A q \in Path : disk[q].kind = "file" => disk'[q].kind = "file"
    <3>1. CASE ParentIs(p, "absent")
      <4>1. Parent[p] \in Path /\ Parent[Parent[p]] = Dot /\ Dot \notin Path
        BY <1>1, <3>1, TreeAssumption DEF ParentIs
      <4>2. disk' = [disk EXCEPT ![Parent[p]] = Directory] /\ disk[Parent[p]].kind = "absent"
        BY <1>3, <3>1 DEF MkdirAll, ParentIs
      <4> QED BY <4>1, <4>2, MakeKeepsTree DEF IInv, TypeOK
    <3>2. CASE ~ParentIs(p, "absent")
      BY <1>3, <3>2 DEF MkdirAll, IInv, TypeOK, WellFormedTree, ParentIs
    <3> QED BY <3>1, <3>2
  <2>4. TypeOK'
    BY <2>1, <2>2, <2>3 DEF IInv, TypeOK, Goto, Step
  <2>5. StepFitsRequest'
    BY <1>1, <2>1 DEF IInv, TypeOK, StepFitsRequest, StepFits, Goto
  <2>6. CreatesAreEnabled'
    BY <1>1, <1>3, <2>1 DEF IInv, TypeOK, CreatesAreEnabled, Goto, MkdirAll, Permitted, Denial
  <2>7. OpenFilesAreWritable'
    BY <1>1, <2>1, <2>3, RequestFields
    DEF IInv, TypeOK, OpenFilesAreWritable, StepFitsRequest, StepFits, Goto
  <2> QED BY <2>4, <2>5, <2>6, <2>7 DEF IInv
<1> QED BY <1>2, <1>3

LEMMA OpenExclusiveKeepsIInv ==
    ASSUME IInv, NEW c \in Client, OpenExclusive(c)
    PROVE  IInv'
<1> DEFINE p == req[c].path
<1>1. /\ pc[c] = "create" /\ req[c] \in Request /\ p \in Path
      /\ req[c].data \in Content /\ WriteEnabled /\ p \in AllowFile
  BY RequestFields
  DEF IInv, StepFitsRequest, StepFits, CreatesAreEnabled, OpenExclusive, Permitted, Denial
<1>2. CASE \E code \in Code : Refuse(c, code)
  BY <1>1, <1>2, RefuseKeepsIInv
<1>3. CASE ~\E code \in Code : Refuse(c, code)
  <2>1. /\ Lookup(p) = "absent" /\ ~ParentIs(p, "absent")
        /\ disk' = [disk EXCEPT ![p] = File(<<>>)]
        /\ Goto(c, "write")
        /\ cur' = [cur EXCEPT ![c] = req[c].data]
        /\ linked' = [linked EXCEPT ![c] = TRUE]
        /\ touched' = [touched EXCEPT ![c] = TRUE]
        /\ Disturb(c, {p})
        /\ UNCHANGED <<req, reply>>
    BY <1>3 DEF OpenExclusive, Code
  <2>2. disk[p].kind = "absent" /\ (Parent[p] \in Path => ParentIs(p, "dir"))
    BY <2>1 DEF Lookup, ParentIs, IInv, TypeOK, Node
  <2>3. disk' \in [Path -> Node] /\ WellFormedTree'
    BY <1>1, <2>1, <2>2, MakeKeepsTree DEF IInv
  <2>4. TypeOK'
    BY <1>1, <2>1, <2>3 DEF IInv, TypeOK, Goto, Step, Disturb
  <2>5. StepFitsRequest' /\ CreatesAreEnabled'
    BY <1>1, <2>1 DEF IInv, TypeOK, StepFitsRequest, StepFits, CreatesAreEnabled, Goto
  <2>6. OpenFilesAreWritable'
    BY <1>1, <2>1, RequestFields
    DEF IInv, TypeOK, OpenFilesAreWritable, StepFitsRequest, StepFits, Goto, File
  <2> QED BY <2>4, <2>5, <2>6 DEF IInv
<1> QED BY <1>2, <1>3

LEMMA StatPathKeepsIInv ==
    ASSUME IInv, NEW c \in Client, StatPath(c)
    PROVE  IInv'
<1> DEFINE p == req[c].path
           step == IF req[c].op = "file_read" THEN "scan"
                   ELSE IF req[c].base # NoHash \/ req[c].dry THEN "base" ELSE "open"
<1>1. /\ pc[c] = "stat" /\ req[c] \in Request
      /\ req[c].op \in {"file_overwrite", "file_read"}
      /\ req[c].op = "file_overwrite" => req[c].data \in Content
  BY RequestFields DEF IInv, StepFitsRequest, StepFits, StatPath, StatFails
<1>2. CASE \E code \in Code : Refuse(c, code)
  BY <1>1, <1>2, RefuseKeepsIInv
<1>3. CASE ~\E code \in Code : Refuse(c, code)
  <2>1. /\ Goto(c, step)
        /\ cur' = [cur EXCEPT ![c] =
                     IF req[c].op = "file_overwrite" THEN req[c].data ELSE <<>>]
        /\ UNCHANGED <<disk, req, linked, reply, calm, touched>>
    BY <1>3 DEF StatPath, StatFails, Code
  <2>2. StepFits(req[c], step) /\ step \in Step /\ step \notin {"create", "write"}
    BY <1>1 DEF StepFits, Step
  <2> HIDE DEF step
  <2>3. TypeOK'
    BY <1>1, <2>1, <2>2, EmptyContent DEF IInv, TypeOK, Goto, WellFormedTree, ParentIs
  <2>4. StepFitsRequest' /\ CreatesAreEnabled' /\ OpenFilesAreWritable'
    BY <2>1, <2>2
    DEF IInv, TypeOK, StepFitsRequest, CreatesAreEnabled, OpenFilesAreWritable, Goto
  <2> QED BY <2>3, <2>4 DEF IInv
<1> QED BY <1>2, <1>3

\* Both tools that edit write bytes.
LEMMA NextContentType ==
    ASSUME NEW r \in Request, r.op \in {"file_overwrite", "file_replace"},
           NEW content \in Content
    PROVE  NextContent(r, content) \in Content
BY RequestFields, ReplaceAllOfType DEF NextContent

LEMMA ReadBaseKeepsIInv ==
    ASSUME IInv, NEW c \in Client, ReadBase(c)
    PROVE  IInv'
<1> DEFINE p == req[c].path
           next == NextContent(req[c], disk[p].content)
<1>1. /\ pc[c] = "base" /\ req[c] \in Request /\ p \in Path
      /\ req[c].op \in {"file_overwrite", "file_replace"}
  BY RequestFields DEF IInv, StepFitsRequest, StepFits, ReadBase
<1>2. disk[p].content \in Content /\ next \in Content
  BY <1>1, NextContentType DEF IInv, TypeOK, Node
<1>3. CASE \E code \in Code : Refuse(c, code)
  BY <1>1, <1>3, RefuseKeepsIInv
<1>4. CASE ~\E code \in Code : Refuse(c, code)
  <2>1. Verdict(req[c], disk[p].content) \in Code
    BY DEF Verdict, Code
  <2>2. /\ cur' = [cur EXCEPT ![c] = next]
        /\ calm' = [calm EXCEPT ![c] = TRUE]
        /\ UNCHANGED <<disk, req, linked, touched>>
        /\ \/ Answer(c, "OK", next, <<>>)
           \/ Goto(c, "open") /\ UNCHANGED reply
    BY <1>4, <2>1 DEF ReadBase, LookupFails, Code
  <2> HIDE DEF next
  <2>3. /\ pc' \in [Client -> Step]
        /\ reply' \in [Client -> Reply \cup {NoReply}]
    BY <1>2, <2>2, AnswerType, EmptyContent DEF IInv, TypeOK, Goto, Step, Code
  <2>4. TypeOK'
    BY <1>2, <2>2, <2>3 DEF IInv, TypeOK, WellFormedTree, ParentIs
  <2>5. \E step \in {"done", "open"} : pc' = [pc EXCEPT ![c] = step]
    BY <2>2 DEF Answer, Goto
  <2>6. StepFitsRequest' /\ CreatesAreEnabled' /\ OpenFilesAreWritable'
    BY <1>1, <2>2, <2>5
    DEF IInv, TypeOK, StepFitsRequest, StepFits, CreatesAreEnabled, OpenFilesAreWritable
  <2> QED BY <2>4, <2>6 DEF IInv
<1> QED BY <1>3, <1>4

LEMMA OpenTruncateKeepsIInv ==
    ASSUME IInv, NEW c \in Client, OpenTruncate(c)
    PROVE  IInv'
<1> DEFINE p == req[c].path
<1>1. /\ pc[c] = "open" /\ req[c] \in Request /\ p \in Path
      /\ WriteEnabled /\ p \in AllowFile
  BY RequestFields, PolicyAssumption
  DEF IInv, StepFitsRequest, StepFits, OpenTruncate, Permitted, Denial
<1>2. CASE \E code \in Code : Refuse(c, code)
  BY <1>1, <1>2, RefuseKeepsIInv
<1>3. CASE ~\E code \in Code : Refuse(c, code)
  <2>1. /\ Lookup(p) = "file"
        /\ disk' = [disk EXCEPT ![p] = File(<<>>)]
        /\ Goto(c, "write")
        /\ linked' = [linked EXCEPT ![c] = TRUE]
        /\ touched' = [touched EXCEPT ![c] = TRUE]
        /\ Disturb(c, {p})
        /\ UNCHANGED <<req, cur, reply>>
    BY <1>3 DEF OpenTruncate, LookupFails, Code
  <2>2. disk[p].kind = "file"
    BY <2>1 DEF Lookup
  <2>3. disk' \in [Path -> Node] /\ WellFormedTree'
    BY <1>1, <2>1, <2>2, FillKeepsTree, EmptyContent DEF IInv
  <2>4. TypeOK'
    BY <1>1, <2>1, <2>3 DEF IInv, TypeOK, Goto, Step, Disturb
  <2>5. StepFitsRequest' /\ CreatesAreEnabled'
    BY <1>1, <2>1 DEF IInv, TypeOK, StepFitsRequest, StepFits, CreatesAreEnabled, Goto
  <2>6. OpenFilesAreWritable'
    BY <1>1, <2>1, RequestFields
    DEF IInv, TypeOK, OpenFilesAreWritable, StepFitsRequest, StepFits, Goto, File
  <2> QED BY <2>4, <2>5, <2>6 DEF IInv
<1> QED BY <1>2, <1>3

\* A write of some of the bytes, whatever is answered then.
LEMMA PutKeepsIInv ==
    ASSUME IInv, NEW c \in Client, pc[c] = "write", NEW data \in Content, Put(c, data),
           NEW code \in Code, NEW sha \in Content \cup {NoHash}, NEW text \in Content,
           Answer(c, code, sha, text),
           UNCHANGED <<req, cur, linked, touched>>
    PROVE  IInv'
<1> DEFINE p == req[c].path
<1>1. req[c] \in Request /\ p \in Path
  BY RequestFields DEF IInv, StepFitsRequest, StepFits
<1>2. CASE linked[c]
  <2>1. disk[p].kind = "file" /\ disk[p].content \in Content
    BY <1>1, <1>2 DEF IInv, OpenFilesAreWritable, TypeOK, Node
  <2>2. WriteAtStart(disk[p].content, data) \in Content
    BY <2>1, WriteAtStartType
  <2>3. disk' = [disk EXCEPT ![p] = File(WriteAtStart(disk[p].content, data))]
        /\ Disturb(c, {p})
    BY <1>2 DEF Put
  <2>4. disk' \in [Path -> Node] /\ WellFormedTree'
    BY <1>1, <2>1, <2>2, <2>3, FillKeepsTree DEF IInv
  <2>5. TypeOK'
    BY <2>3, <2>4, AnswerType DEF IInv, TypeOK, Disturb
  <2>6. \A q \in Path : disk[q].kind = "file" => disk'[q].kind = "file"
    BY <1>1, <2>3 DEF IInv, TypeOK, File
  <2>7. StepFitsRequest' /\ CreatesAreEnabled'
    BY <1>1 DEF IInv, TypeOK, StepFitsRequest, StepFits, CreatesAreEnabled, Answer, Goto
  <2>8. OpenFilesAreWritable'
    BY <2>6, RequestFields
    DEF IInv, TypeOK, OpenFilesAreWritable, StepFitsRequest, StepFits, Answer, Goto
  <2> QED BY <2>5, <2>7, <2>8 DEF IInv
<1>3. CASE ~linked[c]
  <2>1. UNCHANGED <<disk, calm>>
    BY <1>3 DEF Put
  <2>2. TypeOK'
    BY <2>1, AnswerType DEF IInv, TypeOK, WellFormedTree, ParentIs
  <2>3. StepFitsRequest' /\ CreatesAreEnabled' /\ OpenFilesAreWritable'
    BY <1>1, <2>1
    DEF IInv, TypeOK, StepFitsRequest, StepFits, CreatesAreEnabled, OpenFilesAreWritable,
        Answer, Goto
  <2> QED BY <2>2, <2>3 DEF IInv
<1> QED BY <1>2, <1>3

LEMMA WriteAllKeepsIInv ==
    ASSUME IInv, NEW c \in Client, WriteAll(c)
    PROVE  IInv'
<1>1. cur[c] \in Content /\ "OK" \in Code
  BY DEF IInv, TypeOK, Code
<1> QED BY <1>1, PutKeepsIInv, EmptyContent DEF WriteAll

LEMMA WriteFailsKeepsIInv ==
    ASSUME IInv, NEW c \in Client, WriteFails(c)
    PROVE  IInv'
<1>1. PICK n \in 0 .. Len(cur[c]) - 1 : Put(c, FirstBytes(cur[c], n))
  BY DEF WriteFails
<1>2. cur[c] \in Content /\ "OUTSIDE_ROOT" \in Code
  BY DEF IInv, TypeOK, Code
<1>3. Len(cur[c]) \in Nat
  BY <1>2, LenProperties DEF Content
<1>4. FirstBytes(cur[c], n) \in Content
  BY <1>2, <1>3, FirstBytesType
<1> QED BY <1>1, <1>2, <1>4, PutKeepsIInv, EmptyContent DEF WriteFails

LEMMA ScanKeepsIInv ==
    ASSUME IInv, NEW c \in Client, Scan(c)
    PROVE  IInv'
<1> DEFINE content == disk[req[c].path].content
           limit == ScanLimit(req[c])
<1>1. /\ pc[c] = "scan" /\ req[c] \in Request /\ req[c].path \in Path
      /\ req[c].op = "file_read" /\ limit \in Nat
  BY RequestFields, DataAssumption DEF IInv, StepFitsRequest, StepFits, Scan, ScanLimit
<1>2. content \in Content /\ Len(content) \in Nat
  BY <1>1, LenProperties DEF IInv, TypeOK, Node, Content
<1>3. CASE \E code \in Code : Refuse(c, code)
  BY <1>1, <1>3, RefuseKeepsIInv
<1>4. CASE ~\E code \in Code : Refuse(c, code)
  <2>1. /\ calm' = [calm EXCEPT ![c] = TRUE]
        /\ UNCHANGED <<disk, req, linked, touched>>
        /\ \/ Answer(c, "OK", content, content) /\ UNCHANGED cur
           \/ /\ ~(Len(content) <= limit)
              /\ cur' = [cur EXCEPT ![c] = FirstBytes(content, limit)]
              /\ Goto(c, "rehash")
              /\ UNCHANGED reply
    BY <1>4 DEF Scan, LookupFails, Code
  <2>2. ~(Len(content) <= limit) => FirstBytes(content, limit) \in Content
    BY <1>1, <1>2, FirstBytesType
  <2> HIDE DEF content, limit
  <2>3. /\ pc' \in [Client -> Step]
        /\ reply' \in [Client -> Reply \cup {NoReply}]
    BY <1>2, <2>1, AnswerType DEF IInv, TypeOK, Goto, Step, Code
  <2>4. TypeOK'
    BY <2>1, <2>2, <2>3 DEF IInv, TypeOK, WellFormedTree, ParentIs
  <2>5. \E step \in {"done", "rehash"} : pc' = [pc EXCEPT ![c] = step]
    BY <2>1 DEF Answer, Goto
  <2>6. StepFitsRequest' /\ CreatesAreEnabled' /\ OpenFilesAreWritable'
    BY <1>1, <2>1, <2>5
    DEF IInv, TypeOK, StepFitsRequest, StepFits, CreatesAreEnabled, OpenFilesAreWritable
  <2> QED BY <2>4, <2>6 DEF IInv
<1> QED BY <1>3, <1>4

LEMMA RehashKeepsIInv ==
    ASSUME IInv, NEW c \in Client, Rehash(c)
    PROVE  IInv'
<1>1. /\ pc[c] = "rehash" /\ req[c] \in Request /\ req[c].path \in Path
      /\ cur[c] \in Content /\ "OK" \in Code
  BY RequestFields DEF IInv, StepFitsRequest, StepFits, Rehash, TypeOK, Code
<1>2. disk[req[c].path].content \in Content
  BY <1>1 DEF IInv, TypeOK, Node
<1>3. PICK sha \in Content \cup {NoHash} : Answer(c, "OK", sha, cur[c])
  BY <1>2 DEF Rehash
<1>4. TypeOK'
  BY <1>1, <1>3, AnswerType DEF Rehash, IInv, TypeOK, WellFormedTree, ParentIs
<1>5. StepFitsRequest' /\ CreatesAreEnabled' /\ OpenFilesAreWritable'
  BY <1>1, <1>3
  DEF Rehash, IInv, TypeOK, StepFitsRequest, StepFits, CreatesAreEnabled,
      OpenFilesAreWritable, Answer, Goto
<1> QED BY <1>4, <1>5 DEF IInv

LEMMA HandleKeepsIInv ==
    ASSUME IInv, NEW c \in Client, Handle(c)
    PROVE  IInv'
<1>1. CASE Rejected(c)
  <2>1. Denial(c) \in Code /\ pc[c] # "idle"
    BY <1>1 DEF Rejected, Denial, Code, RootStep
  <2> QED BY <1>1, <2>1, RefuseKeepsIInv DEF Rejected
<1>2. CASE OsError(c)
  BY <1>2, RefuseKeepsIInv DEF OsError, Code, RootStep
<1> QED
  BY <1>1, <1>2, MkdirAllKeepsIInv, OpenExclusiveKeepsIInv, StatPathKeepsIInv,
     ReadBaseKeepsIInv, OpenTruncateKeepsIInv, WriteAllKeepsIInv, WriteFailsKeepsIInv,
     ScanKeepsIInv, RehashKeepsIInv
  DEF Handle

LEMMA OutsideKeepsIInv ==
    ASSUME IInv, Outside
    PROVE  IInv'
<1>1. PICK p \in Path :
        \/ \E content \in OutsideData : OutsideEdit(p, content)
        \/ \E node \in {Absent, Directory} \cup {File(d) : d \in OutsideData} :
              OutsideReplace(p, node)
  BY DEF Outside
<1>2. ASSUME NEW content \in OutsideData, OutsideEdit(p, content)
      PROVE  IInv'
  <2>1. disk' \in [Path -> Node] /\ WellFormedTree'
    BY <1>2, FillKeepsTree, DataAssumption DEF OutsideEdit, IInv
  <2>2. \A q \in Path : disk[q].kind = "file" => disk'[q].kind = "file"
    BY <1>2 DEF OutsideEdit, IInv, TypeOK, File
  <2>3. TypeOK' /\ StepFitsRequest' /\ CreatesAreEnabled'
    BY <1>2, <2>1
    DEF OutsideEdit, IInv, TypeOK, StepFitsRequest, StepFits, CreatesAreEnabled
  <2>4. OpenFilesAreWritable'
    BY <1>2, <2>2, RequestFields
    DEF OutsideEdit, IInv, StepFitsRequest, StepFits, OpenFilesAreWritable
  <2> QED BY <2>3, <2>4 DEF IInv
<1>3. ASSUME NEW node \in {Absent, Directory} \cup {File(d) : d \in OutsideData},
             OutsideReplace(p, node)
      PROVE  IInv'
  <2>1. node \in Node /\ (node.kind # "file" => node.content = <<>>)
    BY NodeTypes, DataAssumption DEF Absent, Directory, File
  <2>2. disk' \in [Path -> Node] /\ WellFormedTree'
    BY <1>3, <2>1, ReplaceKeepsTree DEF OutsideReplace, IInv
  <2>3. TypeOK' /\ StepFitsRequest' /\ CreatesAreEnabled'
    BY <1>3, <2>2
    DEF OutsideReplace, IInv, TypeOK, StepFitsRequest, StepFits, CreatesAreEnabled
  <2>4. OpenFilesAreWritable'
    BY <1>3, RequestFields
    DEF OutsideReplace, IInv, TypeOK, StepFitsRequest, StepFits, OpenFilesAreWritable
  <2> QED BY <2>3, <2>4 DEF IInv
<1> QED BY <1>1, <1>2, <1>3

LEMMA CrashKeepsIInv == IInv /\ Crash => IInv'
BY EmptyContent
DEF Crash, IInv, TypeOK, WellFormedTree, ParentIs, Step, StepFitsRequest, StepFits,
    CreatesAreEnabled, OpenFilesAreWritable

LEMMA NextKeepsIInv == IInv /\ [Next]_vars => IInv'
<1>1. IInv /\ UNCHANGED vars => IInv'
  BY DEF vars, IInv, TypeOK, WellFormedTree, ParentIs, StepFitsRequest, CreatesAreEnabled,
         OpenFilesAreWritable
<1> QED
  BY <1>1, HandleKeepsIInv, CallKeepsIInv, OutsideKeepsIInv, CrashKeepsIInv DEF Next

THEOREM Inductive == Spec => []IInv
BY InitIInv, NextKeepsIInv, PTL DEF Spec

\* Type correctness: every path is in a directory, every handler is at a step
\* of its tool, at every moment of every run.
THEOREM TypeCorrect == Spec => []TypeOK
<1>1. IInv => TypeOK
  BY DEF IInv
<1> QED BY <1>1, Inductive, PTL

\* Whatever the calls and whatever happens outside, a file open for writing is
\* one that policy allows, in a workspace that permits writes.
THEOREM OpenFilesAreWritableAlways == Spec => []OpenFilesAreWritable
<1>1. IInv => OpenFilesAreWritable
  BY DEF IInv
<1> QED BY <1>1, Inductive, PTL

---------------------------------------------------------------------------
(* What the steps of the server may do to the disk *)

\* A step of a handler that changes the disk is one of three, each past its
\* checks: it makes the parent directory of a file_create, it opens a file
\* for writing, or it writes to a file it has open.
LEMMA DiskSteps ==
    ASSUME IInv, NEW c \in Client, Handle(c), NEW p \in Path, disk'[p] # disk[p]
    PROVE  /\ req[c] \in Request
           /\ \/ /\ MkdirAll(c) /\ pc[c] = "mkdir" /\ Permitted(c)
                 /\ Parent[req[c].path] = p
                 /\ disk[p].kind = "absent" /\ disk'[p] = Directory
              \/ /\ OpenExclusive(c) /\ pc[c] = "create" /\ req[c].path = p
                 /\ Permitted(c) /\ WriteEnabled
                 /\ disk[p].kind = "absent" /\ disk'[p].kind = "file"
              \/ /\ OpenTruncate(c) /\ pc[c] = "open" /\ req[c].path = p
                 /\ Permitted(c)
                 /\ disk[p].kind = "file" /\ disk'[p].kind = "file"
              \/ /\ pc[c] = "write" /\ linked[c] /\ req[c].path = p
                 /\ disk[p].kind = "file" /\ disk'[p].kind = "file"
<1>1. disk' # disk /\ \A code \in Code : ~Refuse(c, code)
  BY DEF Refuse
<1>2. pc[c] # "idle" => req[c] \in Request
  BY DEF IInv, StepFitsRequest, StepFits
<1>3. CASE MkdirAll(c)
  <2>1. disk' = [disk EXCEPT ![Parent[req[c].path]] = Directory]
        /\ ParentIs(req[c].path, "absent")
    BY <1>1, <1>3 DEF MkdirAll, Code
  <2> QED BY <1>2, <1>3, <2>1 DEF MkdirAll, IInv, TypeOK, ParentIs
<1>4. CASE OpenExclusive(c)
  <2>1. Lookup(req[c].path) = "absent" /\ ~ParentIs(req[c].path, "absent")
        /\ disk' = [disk EXCEPT ![req[c].path] = File(<<>>)]
    BY <1>1, <1>4 DEF OpenExclusive, Code
  <2> QED BY <1>2, <1>4, <2>1
          DEF OpenExclusive, IInv, TypeOK, Lookup, File, CreatesAreEnabled
<1>5. CASE OpenTruncate(c)
  <2>1. Lookup(req[c].path) = "file" /\ disk' = [disk EXCEPT ![req[c].path] = File(<<>>)]
    BY <1>1, <1>5 DEF OpenTruncate, LookupFails, Code
  <2> QED BY <1>2, <1>5, <2>1 DEF OpenTruncate, IInv, TypeOK, Lookup, File
<1>6. CASE WriteAll(c) \/ WriteFails(c)
  <2>1. pc[c] = "write" /\ \E data : Put(c, data)
    BY <1>6 DEF WriteAll, WriteFails
  <2>2. linked[c]
    BY <1>1, <2>1 DEF Put
  <2>3. PICK content : disk' = [disk EXCEPT ![req[c].path] = File(content)]
    BY <2>1, <2>2 DEF Put
  <2> QED BY <1>2, <2>1, <2>2, <2>3 DEF IInv, TypeOK, File, OpenFilesAreWritable
<1>7. CASE Rejected(c) \/ OsError(c)
  BY <1>1, <1>7 DEF Rejected, OsError, Refuse
<1>8. CASE StatPath(c)
  BY <1>1, <1>8 DEF StatPath, StatFails, Refuse
<1>9. CASE ReadBase(c)
  BY <1>1, <1>9 DEF ReadBase, LookupFails, Refuse
<1>10. CASE Scan(c) \/ Rehash(c)
  BY <1>1, <1>10 DEF Scan, Rehash, LookupFails, Refuse
<1> QED BY <1>3, <1>4, <1>5, <1>6, <1>7, <1>8, <1>9, <1>10 DEF Handle

\* Steps outside the server leave pc alone; Call and Crash leave the disk.
LEMMA ServerSteps ==
    ASSUME [Next]_vars, ServerStep, NEW p \in Path, disk'[p] # disk[p]
    PROVE  \E c \in Client : Handle(c)
BY DEF Next, vars, ServerStep, Call, Crash, Outside, OutsideEdit, OutsideReplace

LEMMA DiskStepIsAllowed == IInv /\ [Next]_vars => ServerWritesAllowedFile
<1> SUFFICES ASSUME IInv, [Next]_vars, ServerStep, NEW p \in Path, disk'[p] # disk[p]
             PROVE  /\ WriteEnabled
                    /\ \/ p \in AllowFile /\ disk[p].kind # "dir" /\ disk'[p].kind = "file"
                       \/ /\ \E q \in AllowFile : Parent[q] = p
                          /\ disk[p].kind = "absent" /\ disk'[p].kind = "dir"
  BY DEF ServerWritesAllowedFile
<1>1. PICK c \in Client : Handle(c)
  BY ServerSteps
<1> QED
  BY <1>1, DiskSteps, PolicyAssumption
  DEF Permitted, Denial, Directory, IInv, OpenFilesAreWritable

LEMMA MadeByCreate == IInv /\ [Next]_vars => FileIsMadeByCreate
<1> SUFFICES ASSUME IInv, [Next]_vars, ServerStep, NEW p \in Path,
                    disk[p].kind = "absent", disk'[p].kind = "file"
             PROVE  \E c \in Client :
                      pc[c] = "create" /\ req[c].path = p /\ req[c].op = "file_create"
  BY DEF FileIsMadeByCreate
<1>1. PICK c \in Client : Handle(c)
  BY ServerSteps
<1>2. pc[c] = "create" /\ req[c].path = p
  BY <1>1, DiskSteps DEF Directory
<1> QED BY <1>2 DEF IInv, StepFitsRequest, StepFits

\* The server changes the disk only where policy allows and only with writes
\* enabled; it never deletes, moves or renames anything.
THEOREM WritesOnlyAllowedFiles == Spec => ServerOnlyWritesAllowedFiles
BY Inductive, DiskStepIsAllowed, PTL DEF Spec, ServerOnlyWritesAllowedFiles

\* An overwrite or a replace never brings a file into being, whatever is
\* removed between its look at the path and its open.
THEOREM OnlyCreateMakes == Spec => OnlyCreateMakesFiles
BY Inductive, MadeByCreate, PTL DEF Spec, OnlyCreateMakesFiles

---------------------------------------------------------------------------
(* O_EXCL arbitrates concurrent creates *)

\* A call that has a linked descriptor after a step had it before, or opened
\* it in that step: exclusively, at a path where nothing was, or truncating,
\* which file_create never does.
LEMMA LinkedWriters ==
    ASSUME IInv, [Next]_vars, NEW c \in Client, pc'[c] = "write", linked'[c],
           req'[c].op = "file_create"
    PROVE  /\ req'[c] = req[c] /\ req[c] \in Request
           /\ \/ pc[c] = "write" /\ linked[c]
              \/ pc[c] # "write" /\ disk[req[c].path].kind = "absent"
                 /\ pc' = [pc EXCEPT ![c] = "write"]
                 /\ linked' = [linked EXCEPT ![c] = TRUE]
                 /\ UNCHANGED req
<1>1. CASE UNCHANGED vars
  BY <1>1 DEF vars, IInv, StepFitsRequest, StepFits
<1>2. CASE Outside \/ Crash
  BY <1>2 DEF Outside, OutsideEdit, OutsideReplace, Crash, IInv, TypeOK,
              StepFitsRequest, StepFits
<1>3. ASSUME NEW d \in Client, NEW r \in Request, Call(d, r)
      PROVE  req'[c] = req[c] /\ req[c] \in Request /\ pc[c] = "write" /\ linked[c]
  <2>1. FirstStep(r) # "write"
    BY DEF FirstStep
  <2> QED BY <1>3, <2>1 DEF Call, Goto, IInv, TypeOK, StepFitsRequest, StepFits
<1>4. ASSUME NEW d \in Client, OpenExclusive(d)
      PROVE  /\ req'[c] = req[c] /\ req[c] \in Request
             /\ \/ pc[c] = "write" /\ linked[c]
                \/ pc[c] # "write" /\ disk[req[c].path].kind = "absent"
                   /\ pc' = [pc EXCEPT ![c] = "write"]
                   /\ linked' = [linked EXCEPT ![c] = TRUE]
                   /\ UNCHANGED req
  BY <1>4 DEF OpenExclusive, Lookup, Refuse, Answer, Goto, IInv, TypeOK,
              StepFitsRequest, StepFits
<1>5. ASSUME NEW d \in Client, Handle(d), ~OpenExclusive(d)
      PROVE  req'[c] = req[c] /\ req[c] \in Request /\ pc[c] = "write" /\ linked[c]
  <2>1. req' = req /\ (linked' = linked \/ (OpenTruncate(d) /\ linked' = [linked EXCEPT ![d] = TRUE]))
    BY <1>5 DEF Handle, Rejected, OsError, MkdirAll, StatPath, StatFails, ReadBase, OpenTruncate,
                WriteAll, WriteFails, Scan, Rehash, Refuse, LookupFails
  <2>2. pc' = [pc EXCEPT ![d] = pc'[d]]
    BY <1>5 DEF Handle, Rejected, OsError, MkdirAll, StatPath, StatFails, ReadBase, OpenTruncate,
                WriteAll, WriteFails, Scan, Rehash, Refuse, LookupFails, Answer, Goto,
                IInv, TypeOK
  <2>3. CASE OpenTruncate(d)
    BY <2>1, <2>2, <2>3 DEF OpenTruncate, IInv, TypeOK, StepFitsRequest, StepFits
  <2>4. CASE ~OpenTruncate(d)
    <3>1. pc'[d] # "write"
      BY <1>5, <2>4
      DEF Handle, Rejected, OsError, MkdirAll, StatPath, StatFails, ReadBase,
          WriteAll, WriteFails, Scan, Rehash, Refuse, LookupFails, Answer, Goto,
          IInv, TypeOK
    <3> QED BY <2>1, <2>2, <2>4, <3>1 DEF IInv, TypeOK, StepFitsRequest, StepFits
  <2> QED BY <2>3, <2>4
<1> QED BY <1>1, <1>2, <1>3, <1>4, <1>5 DEF Next

LEMMA ExclusionKept == IInv /\ ExclusiveCreate /\ [Next]_vars => ExclusiveCreate'
<1> SUFFICES ASSUME IInv, ExclusiveCreate, [Next]_vars,
                    NEW c \in Client, NEW d \in Client, c # d,
                    pc'[c] = "write", req'[c].op = "file_create", linked'[c],
                    pc'[d] = "write", req'[d].op = "file_create", linked'[d]
             PROVE  req'[c].path # req'[d].path
  BY DEF ExclusiveCreate
<1>1. req'[c] = req[c] /\ req'[d] = req[d] /\ req[c] \in Request /\ req[d] \in Request
  BY LinkedWriters
<1>2. CASE pc[c] = "write" /\ linked[c] /\ pc[d] = "write" /\ linked[d]
  BY <1>1, <1>2 DEF ExclusiveCreate
<1>3. CASE pc[c] # "write"
  <2>1. disk[req[c].path].kind = "absent" /\ pc' = [pc EXCEPT ![c] = "write"]
        /\ linked' = [linked EXCEPT ![c] = TRUE]
    BY <1>3, LinkedWriters
  <2>2. pc[d] = "write" /\ linked[d]
    BY <2>1 DEF IInv, TypeOK
  <2> QED BY <1>1, <2>1, <2>2 DEF IInv, OpenFilesAreWritable
<1>4. CASE pc[d] # "write"
  <2>1. disk[req[d].path].kind = "absent" /\ pc' = [pc EXCEPT ![d] = "write"]
        /\ linked' = [linked EXCEPT ![d] = TRUE]
    BY <1>4, LinkedWriters
  <2>2. pc[c] = "write" /\ linked[c]
    BY <2>1 DEF IInv, TypeOK
  <2> QED BY <1>1, <2>1, <2>2 DEF IInv, OpenFilesAreWritable
<1> QED BY <1>2, <1>3, <1>4, LinkedWriters

\* At most one of the file_creates that write to the file at a path made it.
THEOREM CreateIsExclusive == Spec => []ExclusiveCreate
<1>1. Init => ExclusiveCreate
  BY DEF Init, ExclusiveCreate
<1> QED BY <1>1, ExclusionKept, Inductive, PTL DEF Spec

---------------------------------------------------------------------------
(* The guards of an edit, undisturbed, still hold at the truncating open *)

\* The strengthening: they hold from readForHash on.
CalmGuard == \A c \in Client : pc[c] = "open" /\ calm[c] => GuardHolds(c)

\* While a call waits to open its file, calm says that nobody changed it.
LEMMA CalmMeansUnchanged ==
    ASSUME IInv, [Next]_vars, NEW c \in Client, pc[c] = "open", pc'[c] = "open", calm'[c]
    PROVE  /\ calm[c] /\ req'[c] = req[c] /\ cur'[c] = cur[c]
           /\ disk'[req[c].path] = disk[req[c].path]
<1>0. req[c] \in Request /\ req[c].path \in Path
  BY RequestFields DEF IInv, StepFitsRequest, StepFits
<1>1. CASE UNCHANGED vars
  BY <1>1 DEF vars
<1>2. CASE Outside
  BY <1>0, <1>2 DEF Outside, OutsideEdit, OutsideReplace, IInv, TypeOK
<1>3. CASE Crash
  BY <1>3 DEF Crash
<1>4. ASSUME NEW d \in Client, NEW r \in Request, Call(d, r)
      PROVE  /\ calm[c] /\ req'[c] = req[c] /\ cur'[c] = cur[c] /\ disk' = disk
  BY <1>4 DEF Call, IInv, TypeOK
<1>5. ASSUME NEW d \in Client, Handle(d)
      PROVE  /\ calm[c] /\ req'[c] = req[c] /\ cur'[c] = cur[c]
             /\ disk'[req[c].path] = disk[req[c].path]
  <2>1. d # c
    BY <1>5 DEF Handle, Rejected, OsError, MkdirAll, OpenExclusive, StatPath, StatFails, ReadBase,
                OpenTruncate, WriteAll, WriteFails, Scan, Rehash, Refuse, LookupFails,
                Answer, Goto, IInv, TypeOK
  <2>2. req' = req /\ cur'[c] = cur[c]
    BY <1>5, <2>1
    DEF Handle, Rejected, OsError, MkdirAll, OpenExclusive, StatPath, StatFails, ReadBase,
        OpenTruncate, WriteAll, WriteFails, Scan, Rehash, Refuse, LookupFails, IInv, TypeOK
  <2>3. CASE MkdirAll(d)
    BY <1>0, <2>1, <2>2, <2>3 DEF MkdirAll, Refuse, Disturb, IInv, TypeOK
  <2>4. CASE OpenExclusive(d)
    BY <1>0, <2>1, <2>2, <2>4 DEF OpenExclusive, Refuse, Disturb, IInv, TypeOK
  <2>5. CASE OpenTruncate(d)
    BY <1>0, <2>1, <2>2, <2>5 DEF OpenTruncate, LookupFails, Refuse, Disturb, IInv, TypeOK
  <2>6. CASE WriteAll(d) \/ WriteFails(d)
    BY <1>0, <2>1, <2>2, <2>6 DEF WriteAll, WriteFails, Put, Disturb, IInv, TypeOK
  <2>7. CASE Rejected(d) \/ OsError(d) \/ StatPath(d)
    BY <2>1, <2>2, <2>7 DEF Rejected, OsError, StatPath, StatFails, Refuse
  <2>8. CASE ReadBase(d) \/ Scan(d) \/ Rehash(d)
    BY <2>1, <2>2, <2>8 DEF ReadBase, Scan, Rehash, LookupFails, Refuse, IInv, TypeOK
  <2> QED BY <1>5, <2>2, <2>3, <2>4, <2>5, <2>6, <2>7, <2>8 DEF Handle
<1> QED BY <1>1, <1>2, <1>3, <1>4, <1>5 DEF Next

\* The only ways to the truncating open: an unguarded overwrite past its stat,
\* and a call whose readForHash found what its guards ask for.
LEMMA OpenIsGuarded ==
    ASSUME IInv, [Next]_vars, NEW c \in Client, pc[c] # "open", pc'[c] = "open"
    PROVE  GuardHolds(c)'
<1>1. PICK d \in Client : StatPath(d) \/ ReadBase(d)
  <2>1. ASSUME NEW d \in Client, NEW r \in Request, Call(d, r) PROVE FALSE
    BY <2>1 DEF Call, Goto, FirstStep, IInv, TypeOK
  <2>2. ~UNCHANGED vars /\ ~Outside /\ ~Crash
    BY DEF vars, Outside, OutsideEdit, OutsideReplace, Crash
  <2>3. ASSUME NEW d \in Client, Handle(d) PROVE StatPath(d) \/ ReadBase(d)
    BY <2>3 DEF Handle, Rejected, OsError, MkdirAll, OpenExclusive, OpenTruncate,
                WriteAll, WriteFails, Scan, Rehash, Refuse, LookupFails, Answer, Goto,
                IInv, TypeOK
  <2> QED BY <2>1, <2>2, <2>3 DEF Next
<1>2. d = c /\ ~\E code \in Code : Refuse(c, code)
  BY <1>1 DEF StatPath, StatFails, ReadBase, LookupFails, Refuse, Answer, Goto, IInv, TypeOK
<1>3. /\ req[c] \in Request /\ req[c].path \in Path
      /\ disk[req[c].path].content \in Content
  BY <1>1, <1>2, RequestFields
  DEF StatPath, StatFails, ReadBase, IInv, StepFitsRequest, StepFits, TypeOK, Node
<1>4. CASE StatPath(c)
  <2>1. pc[c] = "stat" /\ UNCHANGED <<disk, req>>
    BY <1>4 DEF StatPath, StatFails, Refuse
  <2>2. req[c].op = "file_overwrite" /\ req[c].base = NoHash
    BY <1>2, <1>4, <2>1
    DEF StatPath, StatFails, Code, Goto, IInv, TypeOK, StepFitsRequest, StepFits
  <2> QED BY <2>1, <2>2 DEF GuardHolds
<1>5. CASE ReadBase(c)
  <2> DEFINE content == disk[req[c].path].content
  <2>1. /\ Verdict(req[c], content) \in Code
        /\ req[c].op \in {"file_overwrite", "file_replace"}
    BY <1>5 DEF Verdict, Code, ReadBase, IInv, StepFitsRequest, StepFits
  <2>2. /\ Verdict(req[c], content) = "OK"
        /\ cur' = [cur EXCEPT ![c] = NextContent(req[c], content)]
        /\ UNCHANGED <<disk, req>>
    BY <1>2, <1>5, <2>1 DEF ReadBase, LookupFails, Code
  <2>3. Len(content) \in Nat /\ MaxBytes \in Nat
    BY <1>3, LenProperties, DataAssumption DEF Content
  <2>4. /\ Len(content) <= MaxBytes
        /\ req[c].base # NoHash => content = req[c].base
        /\ req[c].op = "file_replace" => Count(content, req[c].old) = req[c].expected
    BY <2>2, <2>3 DEF Verdict
  <2>5. req[c].op = "file_replace" =>
          cur'[c] = ReplaceAllOf(content, req[c].old, req[c].new)
    BY <2>2 DEF NextContent, IInv, TypeOK
  <2> QED BY <2>2, <2>4, <2>5 DEF GuardHolds
<1> QED BY <1>1, <1>2, <1>4, <1>5

LEMMA CalmGuardKept == IInv /\ CalmGuard /\ [Next]_vars => CalmGuard'
<1> SUFFICES ASSUME IInv, CalmGuard, [Next]_vars,
                    NEW c \in Client, pc'[c] = "open", calm'[c]
             PROVE  GuardHolds(c)'
  BY DEF CalmGuard
<1>1. CASE pc[c] = "open"
  <2>1. GuardHolds(c)
    BY <1>1, CalmMeansUnchanged DEF CalmGuard
  <2> QED BY <1>1, <2>1, CalmMeansUnchanged DEF GuardHolds
<1>2. CASE pc[c] # "open"
  BY <1>2, OpenIsGuarded
<1> QED BY <1>1, <1>2

\* An edit that nobody disturbed between readForHash and its truncating open
\* destroys exactly the content its guards were checked against.
THEOREM CalmWritesReplaceTheirBase == Spec => GuardedWriteReplacesBase
<1>1. Init => CalmGuard
  BY DEF Init, CalmGuard
<1>2. CalmGuard => CalmWriteReplacesBase
  BY DEF CalmGuard, CalmWriteReplacesBase
<1> QED BY <1>1, <1>2, CalmGuardKept, Inductive, PTL DEF Spec, GuardedWriteReplacesBase

---------------------------------------------------------------------------
(* What a call has done to its file, and what its answer says of that *)

\* What the three properties below ask of a finished call.
AnswerFits(c) ==
    LET answer == reply[c]
        file == disk[req[c].path] IN
    /\ touched[c] => /\ answer.code \in {"OK", "OUTSIDE_ROOT"}
                     /\ req[c].op # "file_read"
                     /\ req[c].op # "file_create" => ~req[c].dry
    /\ answer.code = "OK" /\ touched[c] /\ calm[c] => file = File(answer.sha)
    /\ req[c].op = "file_read" /\ answer.code = "OK" /\ answer.sha # NoHash =>
         /\ Len(answer.sha) <= MaxBytes
         /\ calm[c] => file = File(answer.sha) /\ IsPrefix(answer.text, file.content)

\* The strengthening, one call at a time: only the open for writing marks a
\* call, and neither a dry run nor a read gets there; undisturbed, the file it
\* opened is still there and empty when it writes; undisturbed, what a
\* truncated read is about to return is the front of the file.
CallFits(c) ==
    LET file == disk[req[c].path] IN
    /\ touched[c] => pc[c] \in {"write", "done"}
    /\ pc[c] = "open" => ~req[c].dry
    /\ pc[c] = "write" => /\ req[c].op # "file_read"
                          /\ req[c].op # "file_create" => ~req[c].dry
    /\ pc[c] = "write" /\ calm[c] => linked[c] /\ file = File(<<>>)
    /\ pc[c] = "rehash" /\ calm[c] => IsPrefix(cur[c], file.content)
    /\ pc[c] = "done" => AnswerFits(c)

CallsFit == \A c \in Client : CallFits(c)

\* What nobody else's step does to a call: they leave its bookkeeping alone,
\* and if they touch its file it is not calm any more.
LeftAlone(c) ==
    /\ pc'[c] = pc[c] /\ req'[c] = req[c] /\ cur'[c] = cur[c]
    /\ reply'[c] = reply[c] /\ touched'[c] = touched[c]
    /\ pc[c] # "idle" /\ calm'[c] =>
         /\ calm[c] /\ linked'[c] = linked[c]
         /\ disk'[req[c].path] = disk[req[c].path]

LEMMA OthersLeaveAlone ==
    ASSUME IInv, NEW c \in Client, NEW d \in Client, d # c, Handle(d)
    PROVE  LeftAlone(c)
<1>1. pc[c] # "idle" => req[c].path \in Path
  BY RequestFields DEF IInv, StepFitsRequest, StepFits
<1>2. req' = req /\ cur'[c] = cur[c] /\ touched'[c] = touched[c] /\ linked'[c] = linked[c]
  BY DEF Handle, Rejected, OsError, MkdirAll, OpenExclusive, StatPath, StatFails, ReadBase,
         OpenTruncate, WriteAll, WriteFails, Scan, Rehash, Refuse, LookupFails, IInv, TypeOK
<1>3. pc'[c] = pc[c] /\ reply'[c] = reply[c]
  BY DEF Handle, Rejected, OsError, MkdirAll, OpenExclusive, StatPath, StatFails, ReadBase,
         OpenTruncate, WriteAll, WriteFails, Scan, Rehash, Refuse, LookupFails,
         Answer, Goto, IInv, TypeOK
<1>4. ASSUME pc[c] # "idle", calm'[c]
      PROVE  calm[c] /\ disk'[req[c].path] = disk[req[c].path]
  <2>0. req[c].path \in Path
    BY <1>1, <1>4
  <2>1. CASE MkdirAll(d)
    BY <2>0, <1>4, <2>1 DEF MkdirAll, Refuse, Disturb, IInv, TypeOK
  <2>2. CASE OpenExclusive(d)
    <3>1. \/ calm' = calm /\ disk' = disk
          \/ /\ disk' = [disk EXCEPT ![req[d].path] = File(<<>>)]
             /\ Disturb(d, {req[d].path})
      BY <2>2 DEF OpenExclusive, Refuse
    <3>2. CASE calm' = calm /\ disk' = disk
      BY <1>4, <3>2
    <3>3. CASE /\ disk' = [disk EXCEPT ![req[d].path] = File(<<>>)]
               /\ Disturb(d, {req[d].path})
      <4>1. calm[c] /\ req[c].path # req[d].path
        BY <1>4, <3>3 DEF Disturb
      <4> QED BY <2>0, <3>3, <4>1 DEF IInv, TypeOK
    <3> QED BY <3>1, <3>2, <3>3
  <2>3. CASE OpenTruncate(d)
    <3>1. \/ calm' = calm /\ disk' = disk
          \/ /\ disk' = [disk EXCEPT ![req[d].path] = File(<<>>)]
             /\ Disturb(d, {req[d].path})
      BY <2>3 DEF OpenTruncate, LookupFails, Refuse
    <3>2. CASE calm' = calm /\ disk' = disk
      BY <1>4, <3>2
    <3>3. CASE /\ disk' = [disk EXCEPT ![req[d].path] = File(<<>>)]
               /\ Disturb(d, {req[d].path})
      <4>1. calm[c] /\ req[c].path # req[d].path
        BY <1>4, <3>3 DEF Disturb
      <4> QED BY <2>0, <3>3, <4>1 DEF IInv, TypeOK
    <3> QED BY <3>1, <3>2, <3>3
  <2>4. CASE WriteAll(d) \/ WriteFails(d)
    BY <2>0, <1>4, <2>4 DEF WriteAll, WriteFails, Put, Disturb, IInv, TypeOK
  <2>5. CASE Rejected(d) \/ OsError(d) \/ StatPath(d)
    BY <1>4, <2>5 DEF Rejected, OsError, StatPath, StatFails, Refuse
  <2>6. CASE ReadBase(d) \/ Scan(d) \/ Rehash(d)
    BY <1>4, <2>6 DEF ReadBase, Scan, Rehash, LookupFails, Refuse, IInv, TypeOK
  <2> QED BY <2>1, <2>2, <2>3, <2>4, <2>5, <2>6 DEF Handle
<1> QED BY <1>2, <1>3, <1>4 DEF LeftAlone

LEMMA OutsideLeavesAlone ==
    ASSUME IInv, NEW c \in Client, Outside \/ UNCHANGED vars
    PROVE  LeftAlone(c)
<1>1. CASE UNCHANGED vars
  BY <1>1 DEF vars, LeftAlone
<1>2. CASE Outside
  <2>1. UNCHANGED <<pc, req, cur, reply, touched>>
    BY <1>2 DEF Outside, OutsideEdit, OutsideReplace
  <2>2. ASSUME pc[c] # "idle", calm'[c]
        PROVE  calm[c] /\ linked'[c] = linked[c] /\ disk'[req[c].path] = disk[req[c].path]
    <3>1. req[c].path \in Path
      BY <2>2, RequestFields DEF IInv, StepFitsRequest, StepFits
    <3>2. ASSUME NEW p \in Path, NEW content, OutsideEdit(p, content)
          PROVE  calm[c] /\ linked'[c] = linked[c] /\ disk'[req[c].path] = disk[req[c].path]
      BY <2>2, <3>1, <3>2 DEF OutsideEdit, IInv, TypeOK
    <3>3. ASSUME NEW p \in Path, NEW node, OutsideReplace(p, node)
          PROVE  calm[c] /\ linked'[c] = linked[c] /\ disk'[req[c].path] = disk[req[c].path]
      <4>1. calm[c] /\ req[c].path \notin {p} \cup Child(p)
        BY <2>2, <3>3 DEF OutsideReplace
      <4>2. linked'[c] = linked[c]
        BY <3>3, <4>1 DEF OutsideReplace, IInv, TypeOK
      <4>3. disk'[req[c].path] = disk[req[c].path]
        BY <3>1, <3>3, <4>1 DEF OutsideReplace
      <4> QED BY <4>1, <4>2, <4>3
    <3> QED BY <1>2, <3>2, <3>3 DEF Outside
  <2> QED BY <2>1, <2>2 DEF LeftAlone
<1> QED BY <1>1, <1>2

LEMMA LeftAloneFits ==
    ASSUME NEW c \in Client, CallFits(c), LeftAlone(c)
    PROVE  CallFits(c)'
BY DEF CallFits, AnswerFits, LeftAlone

\* An error answered before the file was opened for writing.
LEMMA RefusalFits ==
    ASSUME IInv, NEW c \in Client, CallFits(c), pc[c] \in RootStep,
           NEW code \in Code \ {"OK"}, Refuse(c, code)
    PROVE  CallFits(c)'
<1>1. ~touched[c]
  BY DEF CallFits, RootStep
<1>2. /\ pc'[c] = "done" /\ reply'[c].code # "OK" /\ ~touched'[c]
  BY <1>1 DEF Refuse, Answer, Goto, IInv, TypeOK
<1> QED BY <1>2 DEF CallFits, AnswerFits

LEMMA CallStartsFitting ==
    ASSUME IInv, NEW c \in Client, NEW r \in Request, Call(c, r)
    PROVE  CallFits(c)'
<1>1. pc'[c] \in {"mkdir", "base", "stat"} /\ ~touched'[c]
  BY DEF Call, Goto, FirstStep, IInv, TypeOK
<1> QED BY <1>1 DEF CallFits

\* A file is its content.
LEMMA FileIsItsContent ==
    ASSUME TypeOK, NEW p \in Path, Lookup(p) = "file"
    PROVE  disk[p] = File(disk[p].content) /\ disk[p].content \in Content
BY DEF TypeOK, Lookup, Node, File

LEMMA MkdirAllFits ==
    ASSUME IInv, NEW c \in Client, CallFits(c), MkdirAll(c)
    PROVE  CallFits(c)'
<1>1. CASE Refuse(c, "PATH_EXISTS")
  BY <1>1, RefusalFits DEF MkdirAll, RootStep, Code
<1>2. CASE ~Refuse(c, "PATH_EXISTS")
  <2>1. pc'[c] = "create" /\ touched'[c] = touched[c] /\ pc[c] = "mkdir"
    BY <1>2 DEF MkdirAll, Goto, IInv, TypeOK
  <2> QED BY <2>1 DEF CallFits
<1> QED BY <1>1, <1>2

LEMMA OpenExclusiveFits ==
    ASSUME IInv, NEW c \in Client, CallFits(c), OpenExclusive(c)
    PROVE  CallFits(c)'
<1> DEFINE p == req[c].path
<1>1. pc[c] = "create" /\ req[c].op = "file_create" /\ p \in Path
  BY RequestFields DEF OpenExclusive, IInv, StepFitsRequest, StepFits
<1>2. CASE \E code \in Code \ {"OK"} : Refuse(c, code)
  BY <1>1, <1>2, RefusalFits DEF RootStep
<1>3. CASE ~\E code \in Code \ {"OK"} : Refuse(c, code)
  <2>1. /\ disk' = [disk EXCEPT ![p] = File(<<>>)]
        /\ Goto(c, "write")
        /\ linked' = [linked EXCEPT ![c] = TRUE]
        /\ UNCHANGED req
    BY <1>3 DEF OpenExclusive, Code
  <2>2. pc'[c] = "write" /\ linked'[c] /\ req'[c] = req[c] /\ disk'[p] = File(<<>>)
    BY <1>1, <2>1 DEF Goto, IInv, TypeOK
  <2> QED BY <1>1, <2>2 DEF CallFits
<1> QED BY <1>2, <1>3

LEMMA StatPathFits ==
    ASSUME IInv, NEW c \in Client, CallFits(c), StatPath(c)
    PROVE  CallFits(c)'
<1>1. pc[c] = "stat" /\ req[c].op \in {"file_overwrite", "file_read"}
  BY DEF StatPath, IInv, StepFitsRequest, StepFits
<1>2. CASE \E code \in Code \ {"OK"} : Refuse(c, code)
  BY <1>1, <1>2, RefusalFits DEF RootStep
<1>3. CASE ~\E code \in Code \ {"OK"} : Refuse(c, code)
  <2>1. /\ Goto(c, IF req[c].op = "file_read" THEN "scan"
                   ELSE IF req[c].base # NoHash \/ req[c].dry THEN "base" ELSE "open")
        /\ UNCHANGED <<req, touched>>
    BY <1>3 DEF StatPath, StatFails, Code
  <2>2. pc'[c] \in {"scan", "base", "open"} /\ (pc'[c] = "open" => ~req[c].dry)
    BY <2>1 DEF Goto, IInv, TypeOK
  <2> QED BY <1>1, <2>1, <2>2 DEF CallFits
<1> QED BY <1>2, <1>3

LEMMA ReadBaseFits ==
    ASSUME IInv, NEW c \in Client, CallFits(c), ReadBase(c)
    PROVE  CallFits(c)'
<1> DEFINE content == disk[req[c].path].content
<1>1. pc[c] = "base" /\ req[c].op \in {"file_overwrite", "file_replace"}
  BY DEF ReadBase, IInv, StepFitsRequest, StepFits
<1>2. CASE \E code \in Code \ {"OK"} : Refuse(c, code)
  BY <1>1, <1>2, RefusalFits DEF RootStep
<1>3. CASE ~\E code \in Code \ {"OK"} : Refuse(c, code)
  <2>1. Verdict(req[c], content) \in Code
    BY DEF Verdict, Code
  <2>2. /\ UNCHANGED <<req, touched>>
        /\ \/ Goto(c, "done")
           \/ Goto(c, "open") /\ ~req[c].dry
    BY <1>3, <2>1 DEF ReadBase, LookupFails, Answer, Code
  <2>3. pc'[c] \in {"done", "open"} /\ (pc'[c] = "open" => ~req[c].dry)
    BY <2>2 DEF Goto, IInv, TypeOK
  <2>4. ~touched'[c] /\ req'[c] = req[c]
    BY <1>1, <2>2 DEF CallFits
  <2> QED BY <1>1, <2>3, <2>4 DEF CallFits, AnswerFits
<1> QED BY <1>2, <1>3

LEMMA OpenTruncateFits ==
    ASSUME IInv, NEW c \in Client, CallFits(c), OpenTruncate(c)
    PROVE  CallFits(c)'
<1> DEFINE p == req[c].path
<1>1. pc[c] = "open" /\ req[c].op \in {"file_overwrite", "file_replace"} /\ p \in Path
  BY RequestFields DEF OpenTruncate, IInv, StepFitsRequest, StepFits
<1>2. CASE \E code \in Code \ {"OK"} : Refuse(c, code)
  BY <1>1, <1>2, RefusalFits DEF RootStep
<1>3. CASE ~\E code \in Code \ {"OK"} : Refuse(c, code)
  <2>1. /\ disk' = [disk EXCEPT ![p] = File(<<>>)]
        /\ Goto(c, "write")
        /\ linked' = [linked EXCEPT ![c] = TRUE]
        /\ UNCHANGED req
    BY <1>3 DEF OpenTruncate, LookupFails, Code
  <2>2. pc'[c] = "write" /\ linked'[c] /\ req'[c] = req[c] /\ disk'[p] = File(<<>>)
    BY <1>1, <2>1 DEF Goto, IInv, TypeOK
  <2> QED BY <1>1, <2>2 DEF CallFits
<1> QED BY <1>2, <1>3

\* A write to an empty file leaves what was written.
LEMMA WriteToEmpty ==
    ASSUME NEW data \in Content
    PROVE  WriteAtStart(<<>>, data) = data
<1>1. SubSeq(<<>>, Len(data) + 1, 0) = <<>>
  BY DEF Content
<1> QED BY <1>1, ConcatProperties DEF WriteAtStart, Content

LEMMA WriteAllFits ==
    ASSUME IInv, NEW c \in Client, CallFits(c), WriteAll(c)
    PROVE  CallFits(c)'
<1> DEFINE p == req[c].path
<1>1. pc[c] = "write" /\ p \in Path /\ cur[c] \in Content
  BY RequestFields DEF WriteAll, IInv, TypeOK, StepFitsRequest, StepFits
<1>2. /\ pc'[c] = "done" /\ reply'[c] = [code |-> "OK", sha |-> cur[c], text |-> <<>>]
      /\ UNCHANGED <<req, cur, linked, touched>>
  BY DEF WriteAll, Answer, Goto, IInv, TypeOK
<1>3. ASSUME calm'[c] PROVE disk'[p] = File(cur[c])
  <2>1. calm[c]
    BY <1>3 DEF WriteAll, Put, Disturb
  <2>2. linked[c] /\ disk[p] = File(<<>>)
    BY <1>1, <2>1 DEF CallFits
  <2>3. disk' = [disk EXCEPT ![p] = File(WriteAtStart(<<>>, cur[c]))]
    BY <2>2 DEF WriteAll, Put, File
  <2> QED BY <1>1, <2>3, WriteToEmpty DEF IInv, TypeOK
<1>4. req[c].op # "file_read" /\ (req[c].op # "file_create" => ~req[c].dry)
  BY <1>1 DEF CallFits
<1> QED BY <1>2, <1>3, <1>4 DEF CallFits, AnswerFits

LEMMA WriteFailsFits ==
    ASSUME IInv, NEW c \in Client, CallFits(c), WriteFails(c)
    PROVE  CallFits(c)'
<1>1. /\ pc[c] = "write" /\ pc'[c] = "done" /\ reply'[c].code = "OUTSIDE_ROOT"
      /\ UNCHANGED <<req, cur, linked, touched>>
  BY DEF WriteFails, Answer, Goto, IInv, TypeOK
<1>2. req[c].op # "file_read" /\ (req[c].op # "file_create" => ~req[c].dry)
  BY <1>1 DEF CallFits
<1> QED BY <1>1, <1>2 DEF CallFits, AnswerFits

\* What a read returns is the front of what it read.
LEMMA FrontIsPrefix ==
    ASSUME NEW content \in Content, NEW n \in Nat, n <= Len(content)
    PROVE  IsPrefix(FirstBytes(content, n), content)
<1>1. content \in Seq(Cell) /\ Len(content) \in Nat
  BY DEF Content
<1>2. FirstBytes(content, n) \in Seq(Cell) /\ Len(FirstBytes(content, n)) = n
  BY <1>1, SubSeqProperties DEF FirstBytes
<1>3. SubSeq(FirstBytes(content, n), 1, n) = FirstBytes(content, n)
  BY <1>2, SubSeqProperties DEF FirstBytes
<1> QED BY <1>1, <1>2, <1>3 DEF IsPrefix, FirstBytes

LEMMA ScanLimitBound ==
    ASSUME NEW r \in Request, r.op = "file_read"
    PROVE  ScanLimit(r) \in Nat /\ ScanLimit(r) <= MaxBytes
BY RequestFields, DataAssumption DEF ScanLimit

LEMMA ScanFits ==
    ASSUME IInv, NEW c \in Client, CallFits(c), Scan(c)
    PROVE  CallFits(c)'
<1> DEFINE p == req[c].path
           content == disk[p].content
           limit == ScanLimit(req[c])
<1>1. /\ pc[c] = "scan" /\ req[c] \in Request /\ req[c].op = "file_read" /\ p \in Path
  BY RequestFields DEF Scan, IInv, StepFitsRequest, StepFits
<1>2. CASE \E code \in Code \ {"OK"} : Refuse(c, code)
  BY <1>1, <1>2, RefusalFits DEF RootStep
<1>3. CASE ~\E code \in Code \ {"OK"} : Refuse(c, code)
  <2>1. /\ Lookup(p) = "file"
        /\ UNCHANGED <<disk, req, linked, touched>>
        /\ IF Len(content) <= limit
           THEN Answer(c, "OK", content, content)
           ELSE /\ cur' = [cur EXCEPT ![c] = FirstBytes(content, limit)]
                /\ Goto(c, "rehash")
    BY <1>3 DEF Scan, LookupFails, Code
  <2>2. disk[p] = File(content) /\ content \in Content /\ Len(content) \in Nat
    BY <1>1, <2>1, FileIsItsContent DEF IInv, Content
  <2>3. limit \in Nat /\ limit <= MaxBytes /\ MaxBytes \in Nat
    BY <1>1, ScanLimitBound, DataAssumption
  <2>4. ~touched'[c] /\ req'[c] = req[c] /\ disk'[p] = disk[p]
    BY <1>1, <2>1 DEF CallFits
  <2> HIDE DEF limit
  <2>5. CASE Len(content) <= limit
    <3>1. pc'[c] = "done" /\ reply'[c] = [code |-> "OK", sha |-> content, text |-> content]
      BY <2>1, <2>5 DEF Answer, Goto, IInv, TypeOK
    <3>2. Len(content) <= MaxBytes
      BY <2>2, <2>3, <2>5
    <3>3. IsPrefix(content, content)
      BY <2>2, SubSeqProperties DEF IsPrefix, Content
    <3> QED BY <2>2, <2>4, <3>1, <3>2, <3>3 DEF CallFits, AnswerFits
  <2>6. CASE ~(Len(content) <= limit)
    <3>1. pc'[c] = "rehash" /\ cur'[c] = FirstBytes(content, limit)
      BY <2>1, <2>6 DEF Goto, IInv, TypeOK
    <3>2. limit <= Len(content)
      BY <2>2, <2>3, <2>6
    <3>3. IsPrefix(FirstBytes(content, limit), content)
      BY <2>2, <2>3, <3>2, FrontIsPrefix
    <3> QED BY <2>4, <3>1, <3>3 DEF CallFits
  <2> QED BY <2>5, <2>6
<1> QED BY <1>2, <1>3

LEMMA RehashFits ==
    ASSUME IInv, NEW c \in Client, CallFits(c), Rehash(c)
    PROVE  CallFits(c)'
<1> DEFINE p == req[c].path
           content == disk[p].content
<1>1. /\ pc[c] = "rehash" /\ req[c].op = "file_read" /\ p \in Path
  BY RequestFields DEF Rehash, IInv, StepFitsRequest, StepFits
<1>2. PICK sha : /\ sha # NoHash => sha = content /\ Lookup(p) = "file" /\ Len(content) <= MaxBytes
                 /\ Answer(c, "OK", sha, cur[c])
                 /\ UNCHANGED <<disk, req, cur, linked, calm, touched>>
  BY DEF Rehash
<1>3. pc'[c] = "done" /\ reply'[c] = [code |-> "OK", sha |-> sha, text |-> cur[c]]
  BY <1>2 DEF Answer, Goto, IInv, TypeOK
<1>4. sha # NoHash => disk[p] = File(sha)
  BY <1>1, <1>2, FileIsItsContent DEF IInv
<1>5. ~touched[c] /\ (calm[c] => IsPrefix(cur[c], content))
  BY <1>1 DEF CallFits
<1> QED BY <1>2, <1>3, <1>4, <1>5 DEF CallFits, AnswerFits

LEMMA HandleFits ==
    ASSUME IInv, NEW c \in Client, CallFits(c), Handle(c)
    PROVE  CallFits(c)'
<1>1. CASE Rejected(c)
  <2>1. Denial(c) \in Code \ {"OK"}
    BY <1>1 DEF Rejected, Permitted, Denial, Code
  <2> QED BY <1>1, <2>1, RefusalFits DEF Rejected
<1>2. CASE OsError(c)
  BY <1>2, RefusalFits DEF OsError, Code
<1> QED
  BY <1>1, <1>2, MkdirAllFits, OpenExclusiveFits, StatPathFits, ReadBaseFits,
     OpenTruncateFits, WriteAllFits, WriteFailsFits, ScanFits, RehashFits
  DEF Handle

LEMMA CallsKeepFitting == IInv /\ CallsFit /\ [Next]_vars => CallsFit'
<1> SUFFICES ASSUME IInv, CallsFit, [Next]_vars, NEW c \in Client
             PROVE  CallFits(c)'
  BY DEF CallsFit
<1>1. CallFits(c)
  BY DEF CallsFit
<1>2. CASE Outside \/ UNCHANGED vars
  BY <1>1, <1>2, OutsideLeavesAlone, LeftAloneFits
<1>3. CASE Crash
  BY <1>3 DEF Crash, CallFits
<1>4. ASSUME NEW d \in Client, Handle(d) PROVE CallFits(c)'
  BY <1>1, <1>4, OthersLeaveAlone, LeftAloneFits, HandleFits
<1>5. ASSUME NEW d \in Client, NEW r \in Request, Call(d, r) PROVE CallFits(c)'
  <2>1. CASE d = c
    BY <1>5, <2>1, CallStartsFitting
  <2>2. CASE d # c
    <3>1. LeftAlone(c)
      BY <1>5, <2>2 DEF Call, Goto, LeftAlone, IInv, TypeOK
    <3> QED BY <1>1, <3>1, LeftAloneFits
  <2> QED BY <2>1, <2>2
<1> QED BY <1>2, <1>3, <1>4, <1>5 DEF Next

LEMMA CallsFitAlways == Spec => []CallsFit
<1>1. Init => CallsFit
  BY DEF Init, CallsFit, CallFits
<1> QED BY <1>1, CallsKeepFitting, Inductive, PTL DEF Spec

\* A call that was turned down, and every dry run and read, has not opened a
\* file for writing.
THEOREM RefusalsLeave == Spec => []RefusalsLeaveTheFile
<1>1. CallsFit => RefusalsLeaveTheFile
  BY DEF CallsFit, CallFits, AnswerFits, RefusalsLeaveTheFile
<1> QED BY <1>1, CallsFitAlways, PTL

\* A successful edit that nobody disturbed has left the bytes whose hash it
\* reported.
THEOREM ReportedResultIsOnDisk == Spec => []ResultIsOnDiskWhenAlone
<1>1. CallsFit => ResultIsOnDiskWhenAlone
  BY DEF CallsFit, CallFits, AnswerFits, ResultIsOnDiskWhenAlone
<1> QED BY <1>1, CallsFitAlways, PTL

\* The hash a read reports is one a later edit can be guarded with.
THEOREM ReadHashesAreBases == Spec => []ReadHashIsABase
<1>1. CallsFit => ReadHashIsABase
  BY DEF CallsFit, CallFits, AnswerFits, ReadHashIsABase
<1> QED BY <1>1, CallsFitAlways, PTL

=============================================================================
