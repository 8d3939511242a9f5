---------------------------- MODULE StdioProofs ----------------------------
(***************************************************************************)
(* What a session over stdio says, for any directory, any workspace and    *)
(* any number of lines and edits.                                          *)
(***************************************************************************)
EXTENDS Stdio, FiniteSetTheorems, SequenceTheorems, TLAPS

---------------------------------------------------------------------------
(* The foremost files of a set *)

\* How many of a set come before a file.
Rank(S, f) == Cardinality({g \in S : Before(g, f)})

\* Before is a strict total order of paths.
LEMMA BeforeOrders ==
    /\ \A f \in Files : ~ Before(f, f)
    /\ \A f, g \in Files : f # g => Before(f, g) \/ Before(g, f)
    /\ \A f, g, h \in Files : Before(f, g) /\ Before(g, h) => Before(f, h)
  BY NamesAssumption DEF Before, Paths

LEMMA SetsOfFiles ==
    ASSUME NEW S \in SUBSET Files
    PROVE  IsFiniteSet(S) /\ Cardinality(S) \in Nat
  BY FilesAreFinite, FS_Subset, FS_CardinalityType

LEMMA RankType ==
    ASSUME NEW S \in SUBSET Files, NEW f \in S
    PROVE  Rank(S, f) \in 0 .. Cardinality(S) - 1
<1> DEFINE P == {g \in S : Before(g, f)}
<1>1. P \in SUBSET S /\ P \in SUBSET Files /\ P # S
  BY BeforeOrders
<1>2. Cardinality(P) <= Cardinality(S) /\ Cardinality(P) # Cardinality(S)
  BY <1>1, SetsOfFiles, FS_Subset
<1>3. Cardinality(P) \in Nat /\ Cardinality(S) \in Nat
  BY <1>1, SetsOfFiles
<1> QED BY <1>2, <1>3 DEF Rank

LEMMA RankOrders ==
    ASSUME NEW S \in SUBSET Files, NEW f \in S, NEW g \in S
    PROVE  /\ Before(f, g) <=> Rank(S, f) < Rank(S, g)
           /\ f = g <=> Rank(S, f) = Rank(S, g)
<1>1. ASSUME NEW a \in S, NEW b \in S, Before(a, b)
      PROVE  Rank(S, a) < Rank(S, b)
  <2> DEFINE A == {h \in S : Before(h, a)}
             B == {h \in S : Before(h, b)}
  <2>1. A \in SUBSET B /\ A # B /\ B \in SUBSET Files
    BY <1>1, BeforeOrders
  <2>2. Cardinality(A) <= Cardinality(B) /\ Cardinality(A) # Cardinality(B)
    BY <2>1, SetsOfFiles, FS_Subset
  <2>3. Cardinality(A) \in Nat /\ Cardinality(B) \in Nat
    BY <2>1, SetsOfFiles
  <2> QED BY <2>2, <2>3 DEF Rank
<1>2. Rank(S, f) \in Int /\ Rank(S, g) \in Int
  BY RankType
<1> QED BY <1>1, <1>2, BeforeOrders

\* Every rank below the number of files is taken.
LEMMA RanksAreTaken ==
    ASSUME NEW S \in SUBSET Files, NEW k \in 0 .. Cardinality(S) - 1
    PROVE  \E f \in S : Rank(S, f) = k
<1> DEFINE n == Cardinality(S)
           T == 0 .. n - 1
           r == [f \in S |-> Rank(S, f)]
<1>1. n \in Nat
  BY SetsOfFiles
<1>2. IsFiniteSet(T) /\ Cardinality(T) = n
  BY <1>1, FS_Interval
<1>3. r \in Injection(S, T)
  BY RankType, RankOrders DEF Injection, IsInjective
<1>4. r \in Surjection(S, T)
  BY <1>2, <1>3, FS_Injection
<1> QED BY <1>4 DEF Surjection

\* What Foremost returns.
LEMMA ForemostOfFiles ==
    ASSUME NEW S \in SUBSET Files, NEW n \in Nat
    PROVE  LET s == Foremost(S, n)
           IN /\ s \in Seq(S) /\ Len(s) <= n
              /\ \A i, j \in DOMAIN s : i < j => Before(s[i], s[j])
              /\ \A f \in S : (\A i \in DOMAIN s : s[i] # f) =>
                     Len(s) = n /\ \A i \in DOMAIN s : Before(s[i], f)
<1> DEFINE s == Foremost(S, n)
           m == Smaller(Cardinality(S), n)
<1>1. m \in Nat /\ m <= n /\ m <= Cardinality(S) /\ Cardinality(S) \in Nat
      /\ (m = n \/ m = Cardinality(S))
  BY SetsOfFiles DEF Smaller
<1>2. s = [i \in 1 .. m |-> CHOOSE f \in S : Rank(S, f) = i - 1]
  BY DEF Foremost, Rank
<1>3. \A i \in 1 .. m : s[i] \in S /\ Rank(S, s[i]) = i - 1
  <2> SUFFICES ASSUME NEW i \in 1 .. m
               PROVE  s[i] \in S /\ Rank(S, s[i]) = i - 1
    OBVIOUS
  <2>1. i - 1 \in 0 .. Cardinality(S) - 1
    BY <1>1
  <2>2. \E f \in S : Rank(S, f) = i - 1
    BY <2>1, RanksAreTaken
  <2> QED BY <1>2, <2>2
<1>4. s \in Seq(S) /\ Len(s) = m /\ DOMAIN s = 1 .. m
  BY <1>1, <1>2, <1>3
<1>5. ASSUME NEW i \in DOMAIN s, NEW j \in DOMAIN s, i < j
      PROVE  Before(s[i], s[j])
  BY <1>3, <1>4, <1>5, RankOrders
<1>6. ASSUME NEW f \in S, \A i \in DOMAIN s : s[i] # f
      PROVE  Len(s) = n /\ \A i \in DOMAIN s : Before(s[i], f)
  <2>1. Rank(S, f) \in 0 .. Cardinality(S) - 1
    BY RankType
  <2>2. Rank(S, f) >= m
    <3> SUFFICES ASSUME Rank(S, f) < m PROVE FALSE
      BY <1>1, <2>1
    <3>1. Rank(S, f) + 1 \in 1 .. m
      BY <1>1, <2>1
    <3>2. s[Rank(S, f) + 1] \in S /\ Rank(S, s[Rank(S, f) + 1]) = Rank(S, f)
      BY <1>3, <2>1, <3>1
    <3> QED BY <1>4, <1>6, <3>1, <3>2, RankOrders
  <2>3. \A i \in DOMAIN s : Rank(S, s[i]) < Rank(S, f) /\ s[i] \in S
    BY <1>1, <1>3, <1>4, <2>1, <2>2
  <2> QED BY <1>1, <1>4, <2>1, <2>2, <2>3, RankOrders
<1> QED BY <1>1, <1>4, <1>5, <1>6

---------------------------------------------------------------------------
(* Types, and where the server can be *)

PlaceInv ==
    /\ stage \notin {"describe", "described"} => opened = 0 /\ files = <<>> /\ desc = NoProse
    /\ stage = "write" => ~ Starting /\ Kind \notin Silent
    /\ stage \in {"scan", "list", "describe", "described"} => Starting \/ Kind = "workspace_info"
    /\ stage = "exited" => input = "closed" /\ taken = Len(sent)

\* The files the look would name, if it were made at once.
Candidates(entriesNow) ==
    {f \in entriesNow \cap Files :
        /\ StemRank[f] # 0
        /\ Listed(workspace.policy, NewLister(tree.patterns), tree.patterns, f, FALSE)}

LEMMA DetectedFiles ==
    ASSUME NEW some
    PROVE  LET s == DetectOrientation(workspace.policy, tree.patterns, some)
           IN /\ s \in Seq(Candidates(some)) /\ s \in Seq(Files) /\ Len(s) <= MaxWellKnown
              /\ \A i, j \in DOMAIN s : i < j => Before(s[i], s[j])
              /\ \A f \in Candidates(some) : (\A i \in DOMAIN s : s[i] # f) =>
                     Len(s) = MaxWellKnown /\ \A i \in DOMAIN s : Before(s[i], f)
<1> DEFINE s == DetectOrientation(workspace.policy, tree.patterns, some)
<1>1. Candidates(some) \in SUBSET Files
  BY DEF Candidates
<1>2. s = Foremost(Candidates(some), MaxWellKnown)
  BY DEF DetectOrientation, Candidates
<1>3. MaxWellKnown \in Nat
  BY PreviewAssumption
<1>4. /\ s \in Seq(Candidates(some)) /\ Len(s) <= MaxWellKnown
      /\ \A i, j \in DOMAIN s : i < j => Before(s[i], s[j])
      /\ \A f \in Candidates(some) : (\A i \in DOMAIN s : s[i] # f) =>
                     Len(s) = MaxWellKnown /\ \A i \in DOMAIN s : Before(s[i], f)
  BY <1>1, <1>2, <1>3, ForemostOfFiles
<1>5. s \in Seq(Files)
  BY <1>1, <1>4, SeqMonotonic
<1> QED BY <1>4, <1>5

\* What deriveDescription makes of one file, in a workspace w with the tree t.
Prose(w, t, f) == IF Opens(w.policy, t.present, f) THEN Section(t.text[f]) ELSE NoProse

LEMMA ProseType ==
    ASSUME TypeOK, NEW f \in Files
    PROVE  /\ Prose(workspace, tree, f) \in Sections \cup {NoProse}
           /\ PreviewOf(f, tree.text[f]) \in
                Seq([path : Files, text : Text, truncated : BOOLEAN, totalLines : Nat])
<1>1. tree.text[f] \in Text
  BY DEF TypeOK, Tree
<1>2. /\ tree.text[f].section \in Sections \cup {NoProse}
      /\ tree.text[f].lines \in Nat
  BY <1>1 DEF Text
<1>3. Prose(workspace, tree, f) \in Sections \cup {NoProse}
  BY <1>2 DEF Prose, Section
<1> DEFINE One == [path : Files, text : Text, truncated : BOOLEAN, totalLines : Nat]
           limit == Smaller(PreviewBytes, MaxBytes)
           whole == tree.text[f].size <= limit
           shown == [path |-> f, text |-> tree.text[f],
                     truncated |-> ~ whole \/ tree.text[f].lines > PreviewLines,
                     totalLines |-> IF whole THEN tree.text[f].lines ELSE 0]
<1>4. shown \in One
  BY <1>1, <1>2
<1>5. PreviewOf(f, tree.text[f]) \in {<<>>, <<shown>>}
  BY DEF PreviewOf
<1>6. <<>> \in Seq(One) /\ <<shown>> \in Seq(One)
  BY <1>4
<1> QED BY <1>3, <1>5, <1>6

LEMMA InitTypes == Init => TypeOK /\ PlaceInv
<1> SUFFICES ASSUME Init PROVE TypeOK /\ PlaceInv
  OBVIOUS
<1>1. NothingTold \in [files : Seq(Files), description : Sections \cup {NoProse},
                       writable : BOOLEAN]
  BY DEF NothingTold
<1>2. Empty \in Reply
  BY <1>1 DEF Empty, Reply
<1>3. workspace \in Workspace /\ tree \in Tree /\ MaxEdits \in Nat /\ MaxLines \in Nat
      /\ OutCap \in Nat /\ MaxWellKnown \in Nat
  BY StdioAssumption, PreviewAssumption DEF Init
<1>4. TypeOK
  <2>1. /\ <<>> \in Seq(Files) /\ <<>> \in Seq([kind : Kinds, ended : BOOLEAN])
        /\ <<>> \in Seq(1 .. MaxLines) /\ Len(<<>>) = 0
    OBVIOUS
  <2>2. 0 \in 0 .. MaxEdits /\ 0 <= MaxLines /\ 0 <= OutCap /\ 0 <= MaxWellKnown /\ 0 \in 0 .. 0
    BY <1>3
  <2> QED BY <1>1, <1>2, <1>3, <2>1, <2>2 DEF Init, TypeOK
<1>5. PlaceInv
  BY DEF Init, PlaceInv, Starting
<1> QED BY <1>4, <1>5

Stages == {"scan", "list", "describe", "described", "read", "write", "exited", "failed"}

LEMMA LookTypes ==
    ASSUME TypeOK, PlaceInv, Scan \/ List \/ Describe \/ KeepSnapshot \/ Preview
    PROVE  TypeOK' /\ PlaceInv'
<1>1. CASE Scan
  <2>1. Entries(tree.present) \subseteq Paths
    BY DEF TypeOK, Tree, Entries
  <2> QED BY <1>1, <2>1 DEF TypeOK, PlaceInv, Scan, disk, pipes, Starting, Kind, Over
<1>2. CASE List
  <2>1. files' \in Seq(Files) /\ Len(files') <= MaxWellKnown /\ opened = 0 /\ opened' = 0
    BY <1>2, DetectedFiles DEF List, PlaceInv
  <2>2. desc' \in Sections \cup {NoProse}
    BY <1>2, StdioAssumption DEF List, TypeOK, Workspace
  <2>3. Len(files') \in Nat
    BY <2>1
  <2>4. opened' \in 0 .. Len(files')
    BY <2>1, <2>3
  <2>5. TypeOK'
    BY <1>2, <2>1, <2>2, <2>4 DEF TypeOK, List, disk, pipes
  <2> QED BY <1>2, <2>5 DEF PlaceInv, List, disk, pipes, Starting, Kind
<1>3. CASE Describe
  <2>1. CASE opened = Len(files)
    BY <1>3, <2>1 DEF TypeOK, PlaceInv, Describe, disk, pipes, Starting, Kind
  <2>2. CASE opened # Len(files)
    <3> DEFINE f == files[opened + 1]
    <3>1. files \in Seq(Files) /\ opened \in 0 .. Len(files)
      BY DEF TypeOK
    <3>2. opened + 1 \in 1 .. Len(files) /\ opened + 1 \in 0 .. Len(files)
      BY <2>2, <3>1
    <3>3. f \in Files
      BY <3>1, <3>2
    <3>4. desc' = Prose(workspace, tree, f) /\ opened' = opened + 1
      BY <1>3, <2>2 DEF Describe, Prose
    <3>5. desc' \in Sections \cup {NoProse}
      BY <3>3, <3>4, ProseType
    <3>6. stage' \in {"describe", "described"}
      BY <1>3, <2>2 DEF Describe
    <3> QED BY <1>3, <3>2, <3>4, <3>5, <3>6
            DEF TypeOK, PlaceInv, Describe, disk, pipes, Starting, Kind
  <2> QED BY <2>1, <2>2
<1>4. CASE KeepSnapshot
  <2>1. snapshot' \in [files : Seq(Files), description : Sections \cup {NoProse},
                       writable : BOOLEAN]
    BY <1>4, StdioAssumption DEF KeepSnapshot, TypeOK, Told, Workspace
  <2>2. /\ entries' = {} /\ files' = <<>> /\ opened' = 0 /\ desc' = NoProse /\ stage' = "read"
        /\ <<>> \in Seq(Files) /\ Len(<<>>) = 0 /\ 0 <= MaxWellKnown /\ 0 \in 0 .. 0
    BY <1>4, PreviewAssumption DEF KeepSnapshot, LookIsOver
  <2>3. TypeOK'
    BY <1>4, <2>1, <2>2 DEF TypeOK, KeepSnapshot, disk, pipes
  <2> QED BY <1>4, <2>2, <2>3 DEF PlaceInv, KeepSnapshot, pipes
<1>5. CASE Preview
  <2> DEFINE shown == IF files # <<>> /\ Opens(workspace.policy, tree.present, files[1])
                      THEN PreviewOf(files[1], tree.text[files[1]]) ELSE <<>>
             Shown == Seq([path : Files, text : Text, truncated : BOOLEAN, totalLines : Nat])
  <2>1. shown \in Shown
    <3>1. files \in Seq(Files) /\ (files # <<>> => files[1] \in Files)
      BY DEF TypeOK
    <3>2. <<>> \in Shown
      OBVIOUS
    <3>3. files # <<>> => PreviewOf(files[1], tree.text[files[1]]) \in Shown
      BY <3>1, ProseType
    <3> QED BY <3>2, <3>3
  <2>2. Told(files, desc) \in [files : Seq(Files), description : Sections \cup {NoProse},
                               writable : BOOLEAN]
    BY StdioAssumption DEF TypeOK, Told, Workspace
  <2>3. reply' = [error |-> FALSE, editing |-> FALSE, told |-> Told(files, desc),
                  preview |-> shown]
    BY <1>5 DEF Preview, Empty
  <2>4. reply' \in Reply
    BY <2>1, <2>2, <2>3 DEF Reply
  <2>5. /\ entries' = {} /\ files' = <<>> /\ opened' = 0 /\ desc' = NoProse /\ stage' = "write"
        /\ <<>> \in Seq(Files) /\ Len(<<>>) = 0 /\ 0 <= MaxWellKnown /\ 0 \in 0 .. 0
    BY <1>5, PreviewAssumption DEF Preview, LookIsOver
  <2>6. TypeOK'
    BY <1>5, <2>4, <2>5 DEF TypeOK, Preview, disk, pipes
  <2>7. "workspace_info" \notin Silent
    BY DEF Silent
  <2> QED BY <1>5, <2>5, <2>6, <2>7 DEF PlaceInv, Preview, Starting, Kind, pipes
<1> QED BY <1>1, <1>2, <1>3, <1>4, <1>5

LEMMA LoopTypes ==
    ASSUME TypeOK, PlaceInv, ReadLine \/ StopReading \/ WriteReply \/ WriteFails
    PROVE  TypeOK' /\ PlaceInv'
<1>1. CASE ReadLine
  <2> DEFINE line == sent[taken + 1]
  <2>1. /\ taken' = taken + 1 /\ taken + 1 \in 0 .. Len(sent) /\ taken + 1 # 0
        /\ sent' = sent /\ stage = "read"
    BY <1>1 DEF TypeOK, ReadLine, pipes
  <2>2. /\ stage' \in {"read", "scan", "write"} /\ touched' \in BOOLEAN
        /\ stage' # "read" => Answered(line.kind)
        /\ stage' = "scan" => line.kind = "workspace_info"
        /\ reply' = reply \/ reply' = Handled(line.kind)
    BY <1>1 DEF TypeOK, ReadLine
  <2>3. reply' \in Reply
    <3>1. Handled(line.kind) \in Reply
      <4>1. workspace.writable \in BOOLEAN
        BY StdioAssumption DEF TypeOK, Workspace
      <4>2. NothingTold \in [files : Seq(Files), description : Sections \cup {NoProse},
                             writable : BOOLEAN]
        BY DEF NothingTold
      <4>3. snapshot \in [files : Seq(Files), description : Sections \cup {NoProse},
                          writable : BOOLEAN]
        BY DEF TypeOK
      <4> DEFINE told == IF line.kind = "initialize" THEN snapshot ELSE NothingTold
      <4>4. told \in [files : Seq(Files), description : Sections \cup {NoProse},
                      writable : BOOLEAN]
        BY <4>2, <4>3
      <4>5. Empty \in Reply
        BY <4>2 DEF Empty, Reply
      <4>6. ASSUME NEW b \in BOOLEAN, NEW c \in BOOLEAN
            PROVE  [Empty EXCEPT !.error = b, !.editing = c, !.told = told] \in Reply
        BY <4>4, <4>5 DEF Reply
      <4> QED BY <4>1, <4>6 DEF Handled
    <3> QED BY <2>2, <3>1 DEF TypeOK
  <2>4. TypeOK'
    BY <1>1, <2>1, <2>2, <2>3 DEF TypeOK, ReadLine, disk, look, pipes
  <2>5. PlaceInv'
    BY <1>1, <2>1, <2>2 DEF PlaceInv, ReadLine, look, pipes, Starting, Kind, Answered
  <2> QED BY <2>4, <2>5
<1>2. CASE StopReading
  BY <1>2 DEF TypeOK, PlaceInv, StopReading, InputIsOver, disk, look, pipes
<1>3. CASE WriteReply
  <2>1. taken \in 1 .. MaxLines
    <3>1. /\ sent \in Seq([kind : Kinds, ended : BOOLEAN]) /\ Len(sent) <= MaxLines
          /\ taken \in 0 .. Len(sent) /\ taken # 0 /\ MaxLines \in Nat
      BY <1>3, StdioAssumption DEF TypeOK, PlaceInv, WriteReply, Starting
    <3>2. Len(sent) \in Nat
      BY <3>1, LenProperties
    <3> QED BY <3>1, <3>2
  <2>2. toClient' \in Seq(1 .. MaxLines) /\ Len(toClient') <= OutCap
    BY <1>3, <2>1, StdioAssumption, AppendProperties DEF TypeOK, WriteReply
  <2>3. Empty \in Reply
    BY DEF Empty, Reply, NothingTold
  <2>4. TypeOK'
    BY <1>3, <2>2, <2>3 DEF TypeOK, WriteReply, disk, look
  <2> QED BY <1>3, <2>4 DEF PlaceInv, WriteReply, look
<1>4. CASE WriteFails
  BY <1>4 DEF TypeOK, PlaceInv, WriteFails, disk, look, pipes
<1> QED BY <1>1, <1>2, <1>3, <1>4

LEMMA ClientTypes ==
    ASSUME TypeOK, PlaceInv, Client
    PROVE  TypeOK' /\ PlaceInv'
<1>1. ASSUME NEW kind \in Kinds, NEW ended \in BOOLEAN, Send(kind, ended)
      PROVE  TypeOK' /\ PlaceInv'
  <2> DEFINE line == [kind |-> kind, ended |-> ended]
  <2>1. /\ sent \in Seq([kind : Kinds, ended : BOOLEAN]) /\ line \in [kind : Kinds, ended : BOOLEAN]
        /\ sent' = Append(sent, line) /\ Len(sent) < MaxLines /\ taken \in 0 .. Len(sent)
        /\ MaxLines \in Nat
    BY <1>1, StdioAssumption DEF Send, TypeOK
  <2>2. /\ sent' \in Seq([kind : Kinds, ended : BOOLEAN]) /\ Len(sent') = Len(sent) + 1
        /\ \A i \in 1 .. Len(sent) : sent'[i] = sent[i]
    BY <2>1, AppendProperties
  <2>3. Len(sent') <= MaxLines /\ taken \in 0 .. Len(sent')
    BY <2>1, <2>2
  <2>4. TypeOK'
    BY <1>1, <2>2, <2>3 DEF TypeOK, Send, disk, look
  <2>5. ~ Starting => sent'[taken] = sent[taken]
    BY <2>1, <2>2 DEF Starting
  <2>6. PlaceInv'
    BY <1>1, <2>5 DEF PlaceInv, Send, look, Starting, Kind, Over
  <2> QED BY <2>4, <2>6
<1>2. ASSUME NEW how \in {"closed", "broken"}, EndInput(how)
      PROVE  TypeOK' /\ PlaceInv'
  BY <1>2 DEF TypeOK, PlaceInv, EndInput, disk, look, Starting, Kind, Over
<1>3. CASE Receive
  <2>1. /\ toClient \in Seq(1 .. MaxLines) /\ got \in Seq(1 .. MaxLines) /\ toClient # <<>>
        /\ got' = Append(got, Head(toClient)) /\ toClient' = Tail(toClient)
        /\ Len(toClient) <= OutCap /\ OutCap \in Nat
    BY <1>3, StdioAssumption DEF TypeOK, Receive
  <2>2. /\ Head(toClient) \in 1 .. MaxLines /\ Tail(toClient) \in Seq(1 .. MaxLines)
        /\ Len(Tail(toClient)) = Len(toClient) - 1 /\ Len(toClient) \in Nat
    <3>1. Head(toClient) \in 1 .. MaxLines /\ Tail(toClient) \in Seq(1 .. MaxLines)
      BY <2>1, HeadTailProperties
    <3>2. Len(Tail(toClient)) = Len(toClient) - 1
      BY <2>1, HeadTailProperties
    <3>3. Len(toClient) \in Nat
      BY <2>1, LenProperties
    <3> QED BY <3>1, <3>2, <3>3
  <2>3. got' \in Seq(1 .. MaxLines)
    BY <2>1, <2>2, AppendProperties
  <2>4. Len(toClient') <= OutCap
    BY <2>1, <2>2
  <2>5. TypeOK'
    BY <1>3, <2>1, <2>2, <2>3, <2>4 DEF TypeOK, Receive, disk, look
  <2> QED BY <1>3, <2>5 DEF PlaceInv, Receive, look, Starting, Kind
<1>4. CASE StopListening
  BY <1>4 DEF TypeOK, PlaceInv, StopListening, disk, look, Starting, Kind, Over
<1> QED BY <1>1, <1>2, <1>3, <1>4 DEF Client

\* What an edit leaves as it is.
LEMMA EditTypes ==
    ASSUME TypeOK, PlaceInv, Edit, tree' \in Tree, inPlace' \in BOOLEAN
    PROVE  TypeOK' /\ PlaceInv'
<1>1. edits' \in 0 .. MaxEdits
  BY StdioAssumption DEF TypeOK, Edit
<1>2. TypeOK'
  BY <1>1 DEF TypeOK, Edit, look, pipes
<1> QED BY <1>2 DEF PlaceInv, Edit, look, pipes, Starting, Kind

LEMMA OthersTypes ==
    ASSUME TypeOK, PlaceInv, Others
    PROVE  TypeOK' /\ PlaceInv'
<1>1. tree \in Tree /\ Root \in Dirs /\ Texts \subseteq Text /\ Ignores \subseteq IgnoreFile
      /\ Files \subseteq Paths /\ inPlace \in BOOLEAN
  BY TreeAssumption, StdioAssumption DEF TypeOK, Paths
<1>2. ASSUME NEW f \in Files, NEW t \in Texts, Rewrite(f, t)
      PROVE  Edit /\ tree' \in Tree /\ inPlace' \in BOOLEAN
  BY <1>1, <1>2 DEF Rewrite, Tree
<1>3. ASSUME NEW f \in Files, Remove(f)
      PROVE  Edit /\ tree' \in Tree /\ inPlace' \in BOOLEAN
  BY <1>1, <1>3 DEF Remove, Tree
<1>4. ASSUME NEW i \in Ignores, EditIgnore(i) \/ ReplaceRoot(i)
      PROVE  Edit /\ tree' \in Tree /\ inPlace' \in BOOLEAN
  BY <1>1, <1>4 DEF EditIgnore, ReplaceRoot, Tree
<1> QED BY <1>2, <1>3, <1>4, EditTypes DEF Others

LEMMA NextTypes == TypeOK /\ PlaceInv /\ [Next]_vars => TypeOK' /\ PlaceInv'
<1> SUFFICES ASSUME TypeOK, PlaceInv, [Next]_vars PROVE TypeOK' /\ PlaceInv'
  OBVIOUS
<1>1. CASE UNCHANGED vars
  BY <1>1 DEF vars, TypeOK, PlaceInv, Starting, Kind
<1>2. CASE Server
  BY <1>2, LookTypes, LoopTypes DEF Server
<1> QED BY <1>1, <1>2, ClientTypes, OthersTypes DEF Next

\* The type invariant of a session.
THEOREM TypeCorrect == Spec => []TypeOK
<1>1. Spec => [](TypeOK /\ PlaceInv)
  BY InitTypes, NextTypes, PTL DEF Spec
<1> QED BY <1>1, PTL

---------------------------------------------------------------------------
(* Answers *)

Place == TypeOK /\ PlaceInv

LEMMA PlaceAlways == Spec => []Place
  BY InitTypes, NextTypes, PTL DEF Spec, Place

Ordered(s) == \A i, j \in DOMAIN s : i < j => s[i] < s[j]
Due(n) == {i \in 1 .. n : sent[i].kind \notin Silent}
Elements(s) == {s[i] : i \in DOMAIN s}

AnswersInv == stage # "failed" => Elements(Answers) = Due(taken) /\ Ordered(Answers)

\* While a request is under way its id is the last of the answers.
LEMMA AnswersAre ==
    ASSUME TypeOK
    PROVE  /\ got \o toClient \in Seq(1 .. MaxLines)
           /\ Starting \/ Over \/ stage = "read" => Answers = got \o toClient
           /\ ~ (Starting \/ Over \/ stage = "read") => Answers = (got \o toClient) \o <<taken>>
<1>1. got \o toClient \in Seq(1 .. MaxLines)
  BY ConcatProperties DEF TypeOK
<1>2. (got \o toClient) \o <<>> = got \o toClient
  BY <1>1, ConcatEmptySeq
<1> QED BY <1>1, <1>2 DEF Answers

LEMMA OneMore ==
    ASSUME NEW s \in Seq(Nat), Ordered(s), NEW x \in Nat, \A y \in Elements(s) : y < x
    PROVE  /\ Ordered(s \o <<x>>) /\ Elements(s \o <<x>>) = Elements(s) \cup {x}
<1> DEFINE t == s \o <<x>>
<1>1. /\ DOMAIN s = 1 .. Len(s) /\ Len(s) \in Nat
      /\ DOMAIN t = 1 .. Len(s) + 1
      /\ \A i \in 1 .. Len(s) : t[i] = s[i]
      /\ t[Len(s) + 1] = x
  <2>1. t \in Seq(Nat) /\ Len(t) = Len(s) + 1
    BY ConcatProperties
  <2>2. DOMAIN s = 1 .. Len(s) /\ Len(s) \in Nat /\ DOMAIN t = 1 .. Len(t)
    BY <2>1, LenProperties
  <2> QED BY <2>1, <2>2
<1>2. Elements(t) = Elements(s) \cup {x}
  BY <1>1 DEF Elements
<1>3. Ordered(t)
  <2> SUFFICES ASSUME NEW i \in DOMAIN t, NEW j \in DOMAIN t, i < j PROVE t[i] < t[j]
    BY DEF Ordered
  <2>1. i \in DOMAIN s /\ t[i] = s[i] /\ s[i] < x
    BY <1>1 DEF Elements
  <2>2. CASE j = Len(s) + 1
    BY <1>1, <2>1, <2>2
  <2>3. CASE j # Len(s) + 1
    BY <1>1, <2>1, <2>3 DEF Ordered
  <2> QED BY <2>2, <2>3
<1> QED BY <1>2, <1>3

\* Steps that neither read a line nor end a write.
LEMMA QuietKeepsAnswers ==
    ASSUME Place, AnswersInv, UNCHANGED <<got, toClient, taken>>,
           \A i \in 1 .. taken : sent'[i] = sent[i],
           stage = "failed" => stage' = "failed",
           stage' # "failed" =>
               (Starting \/ Over \/ stage = "read" <=> Starting \/ Over' \/ stage' = "read")
    PROVE  AnswersInv'
<1> SUFFICES ASSUME stage' # "failed" PROVE AnswersInv'
  BY DEF AnswersInv
<1>1. Answers' = Answers
  BY DEF Answers, Starting
<1>2. Due(taken)' = Due(taken)
  BY DEF Due
<1> QED BY <1>1, <1>2 DEF AnswersInv, Elements, Ordered

LEMMA ReadLineKeepsAnswers ==
    ASSUME Place, AnswersInv, ReadLine
    PROVE  AnswersInv'
<1> DEFINE base == got \o toClient
           n == taken + 1
<1>1. /\ stage = "read" /\ taken \in Nat /\ n \in Nat /\ taken' = n
      /\ sent' = sent /\ got' = got /\ toClient' = toClient
  BY DEF Place, TypeOK, ReadLine, pipes
<1>2. Answers = base /\ Elements(base) = Due(taken) /\ Ordered(base)
  BY <1>1, AnswersAre DEF Place, AnswersInv
<1>3. base \in Seq(Nat)
  <2>1. base \in Seq(1 .. MaxLines) /\ 1 .. MaxLines \subseteq Nat
    BY AnswersAre DEF Place
  <2> QED BY <2>1, SeqMonotonic
<1>4. CASE ~ Answered(sent[n].kind)
  <2>1. stage' = "read"
    BY <1>1, <1>4 DEF ReadLine
  <2>2. Answers' = base
    BY <1>1, <1>2, <2>1, AnswersAre DEF Place, Answers, Over
  <2>3. Due(taken)' = Due(taken)
    BY <1>1, <1>4 DEF Due, Answered
  <2> QED BY <1>2, <2>2, <2>3 DEF AnswersInv, Elements, Ordered
<1>5. CASE Answered(sent[n].kind)
  <2>1. stage' \in {"scan", "write"}
    BY <1>5 DEF ReadLine
  <2>2. Answers' = base \o <<n>>
    BY <1>1, <2>1 DEF Answers, Starting, Over
  <2>3. Due(taken)' = Due(taken) \cup {n}
    BY <1>1, <1>5 DEF Due, Answered
  <2>4. \A y \in Elements(base) : y < n
    BY <1>1, <1>2 DEF Due
  <2>5. Ordered(base \o <<n>>) /\ Elements(base \o <<n>>) = Elements(base) \cup {n}
    BY <1>1, <1>2, <1>3, <2>4, OneMore
  <2>6. Elements(Answers)' = Elements(base \o <<n>>) /\ (Ordered(Answers)' <=> Ordered(base \o <<n>>))
    BY <2>2 DEF Elements, Ordered
  <2> QED BY <1>2, <2>3, <2>5, <2>6 DEF AnswersInv
<1> QED BY <1>4, <1>5

LEMMA WriteReplyKeepsAnswers ==
    ASSUME Place, AnswersInv, WriteReply
    PROVE  AnswersInv'
<1>1. /\ stage = "write" /\ stage' = "read" /\ ~ Starting
      /\ toClient' = Append(toClient, taken) /\ got' = got /\ taken' = taken /\ sent' = sent
  BY DEF Place, PlaceInv, WriteReply
<1>2. toClient \in Seq(Nat) /\ got \in Seq(Nat) /\ taken \in Nat
  <2>1. toClient \in Seq(1 .. MaxLines) /\ got \in Seq(1 .. MaxLines) /\ 1 .. MaxLines \subseteq Nat
    BY DEF Place, TypeOK
  <2>2. toClient \in Seq(Nat)
    BY <2>1, SeqMonotonic
  <2>3. got \in Seq(Nat)
    BY <2>1, SeqMonotonic
  <2> QED BY <2>2, <2>3 DEF Place, TypeOK
<1>3. Append(toClient, taken) = toClient \o <<taken>>
  BY <1>2, AppendIsConcat
<1>4. got \o (toClient \o <<taken>>) = (got \o toClient) \o <<taken>>
  BY <1>2, ConcatAssociative
<1>5. Answers = (got \o toClient) \o <<taken>>
  BY <1>1, AnswersAre DEF Place, Over
<1>6. Answers' = got' \o toClient'
  <2>1. TypeOK'
    BY LoopTypes DEF Place
  <2>2. got' \o toClient' \in Seq(1 .. MaxLines)
    BY <2>1, ConcatProperties DEF TypeOK
  <2>3. (got' \o toClient') \o <<>> = got' \o toClient'
    BY <2>2, ConcatEmptySeq
  <2> QED BY <1>1, <2>3 DEF Answers
<1>7. Answers' = Answers /\ Due(taken)' = Due(taken)
  BY <1>1, <1>3, <1>4, <1>5, <1>6 DEF Due
<1> QED BY <1>1, <1>7 DEF AnswersInv, Elements, Ordered

LEMMA ReceiveKeepsAnswers ==
    ASSUME Place, AnswersInv, Receive
    PROVE  AnswersInv'
<1> DEFINE S == 1 .. MaxLines
           h == Head(toClient)
<1>1. /\ toClient \in Seq(S) /\ got \in Seq(S) /\ toClient # <<>>
      /\ got' = Append(got, h) /\ toClient' = Tail(toClient)
      /\ UNCHANGED <<stage, taken, sent>>
  BY DEF Place, TypeOK, Receive
<1>2. h \in S /\ Tail(toClient) \in Seq(S)
  BY <1>1, HeadTailProperties
<1>3. Append(got, h) = got \o <<h>>
  BY <1>1, <1>2, AppendIsConcat
<1>4. toClient = <<h>> \o Tail(toClient)
  <2> DEFINE t == <<h>> \o Tail(toClient)
  <2>1. t \in Seq(S) /\ Len(t) = 1 + Len(Tail(toClient))
        /\ \A i \in 1 .. Len(t) : t[i] = IF i <= 1 THEN h ELSE Tail(toClient)[i - 1]
    BY <1>2, ConcatProperties
  <2>2. /\ Len(Tail(toClient)) = Len(toClient) - 1 /\ Len(toClient) \in Nat
        /\ \A i \in 1 .. Len(toClient) - 1 : Tail(toClient)[i] = toClient[i + 1]
        /\ h = toClient[1]
    BY <1>1, HeadTailProperties, LenProperties
  <2>3. Len(t) = Len(toClient) /\ \A i \in 1 .. Len(t) : t[i] = toClient[i]
    BY <2>1, <2>2
  <2> QED BY <1>1, <2>1, <2>3, SeqEqual
<1>5. (got \o <<h>>) \o Tail(toClient) = got \o (<<h>> \o Tail(toClient))
  BY <1>1, <1>2, ConcatAssociative
<1>6. got' \o toClient' = got \o toClient
  BY <1>1, <1>3, <1>4, <1>5
<1>7. Answers' = Answers /\ Due(taken)' = Due(taken)
  BY <1>1, <1>6 DEF Answers, Due, Starting, Over
<1> QED BY <1>1, <1>7 DEF AnswersInv, Elements, Ordered

LEMMA NextKeepsAnswers == Place /\ AnswersInv /\ [Next]_vars => AnswersInv'
<1> SUFFICES ASSUME Place, AnswersInv, [Next]_vars PROVE AnswersInv'
  OBVIOUS
<1>1. CASE UNCHANGED vars
  BY <1>1, QuietKeepsAnswers DEF vars, Over
<1>2. CASE Scan \/ List \/ Describe \/ KeepSnapshot \/ Preview
  <2>1. UNCHANGED <<got, toClient, taken, sent>>
    BY <1>2 DEF Scan, List, Describe, KeepSnapshot, Preview, pipes
  <2>2. stage \notin {"failed", "exited", "read"}
        /\ (stage' \notin {"failed", "exited", "read"} \/ Starting)
    BY <1>2 DEF Scan, List, Describe, KeepSnapshot, Preview
  <2> QED BY <2>1, <2>2, QuietKeepsAnswers DEF Over
<1>3. CASE StopReading \/ WriteFails
  <2>1. UNCHANGED <<got, toClient, taken, sent>> /\ stage # "failed"
        /\ (stage' = "failed" \/ (stage = "read" /\ stage' = "exited"))
    BY <1>3 DEF StopReading, WriteFails, pipes
  <2> QED BY <2>1, QuietKeepsAnswers DEF Over
<1>4. ASSUME NEW kind \in Kinds, NEW ended \in BOOLEAN, Send(kind, ended)
      PROVE  AnswersInv'
  <2> DEFINE line == [kind |-> kind, ended |-> ended]
  <2>1. UNCHANGED <<got, toClient, taken, stage>> /\ sent' = Append(sent, line)
    BY <1>4 DEF Send
  <2>2. \A i \in 1 .. Len(sent) : Append(sent, line)[i] = sent[i]
    <3>1. sent \in Seq([kind : Kinds, ended : BOOLEAN]) /\ line \in [kind : Kinds, ended : BOOLEAN]
      BY DEF Place, TypeOK
    <3> QED BY <3>1, AppendProperties
  <2>3. \A i \in 1 .. taken : sent'[i] = sent[i]
    <3>1. taken \in 0 .. Len(sent) /\ Len(sent) \in Nat
      BY LenProperties DEF Place, TypeOK
    <3> QED BY <2>1, <2>2, <3>1
  <2> QED BY <2>1, <2>3, QuietKeepsAnswers DEF Over
<1>5. ASSUME NEW how \in {"closed", "broken"}, EndInput(how)
      PROVE  AnswersInv'
  BY <1>5, QuietKeepsAnswers DEF EndInput, Over
<1>6. CASE StopListening
  BY <1>6, QuietKeepsAnswers DEF StopListening, Over
<1>7. CASE Others
  <2>1. UNCHANGED <<got, toClient, taken, sent, stage>>
    BY <1>7 DEF Others, Rewrite, Remove, EditIgnore, ReplaceRoot, Edit, pipes
  <2> QED BY <2>1, QuietKeepsAnswers DEF Over
<1> QED BY <1>1, <1>2, <1>3, <1>4, <1>5, <1>6, <1>7, ReadLineKeepsAnswers, WriteReplyKeepsAnswers,
           ReceiveKeepsAnswers DEF Next, Server, Client

LEMMA InitAnswers == Init => AnswersInv
<1> SUFFICES ASSUME Init PROVE AnswersInv
  OBVIOUS
<1>1. got = <<>> /\ toClient = <<>> /\ taken = 0
  BY DEF Init
<1>2. Answers = <<>>
  BY <1>1, InitTypes, AnswersAre DEF Starting
<1>3. Elements(<<>>) = {} /\ Ordered(<<>>) /\ Due(0) = {}
  BY DEF Elements, Ordered, Due
<1> QED BY <1>1, <1>2, <1>3 DEF AnswersInv

\* Answers keep the order of their requests, none is left out and none given
\* twice, for any number of lines and pipes of any length.
THEOREM AnswersComeInOrder == Spec => []AnswersInOrder
<1>1. Place /\ AnswersInv => AnswersInOrder
  BY DEF Place, PlaceInv, AnswersInv, AnswersInOrder, Elements, Due, Ordered
<1> QED BY <1>1, PlaceAlways, InitAnswers, NextKeepsAnswers, PTL DEF Spec

---------------------------------------------------------------------------
(* The look at the directory *)

\* The files to name, their description, the preview, if all is read at once.
Right(w, t) == DetectOrientation(w.policy, t.patterns, Entries(t.present))
Describes(w, t, names, d) ==
    IF w.configured # NoProse THEN d = w.configured
    ELSE \/ d = NoProse /\ \A j \in DOMAIN names : Prose(w, t, names[j]) = NoProse
         \/ \E k \in DOMAIN names :
                /\ d = Prose(w, t, names[k]) /\ d # NoProse
                /\ \A j \in 1 .. k - 1 : Prose(w, t, names[j]) = NoProse
Shown(w, t, names) ==
    IF names # <<>> /\ Opens(w.policy, t.present, names[1])
    THEN PreviewOf(names[1], t.text[names[1]]) ELSE <<>>
Tells(w, t, told) ==
    /\ told = [files |-> Right(w, t), description |-> told.description, writable |-> w.writable]
    /\ Describes(w, t, Right(w, t), told.description)

\* As long as nobody touches the directory the steps of a look fit together.
LookInv ==
    ~ touched =>
        /\ stage = "list" => entries = Entries(tree.present)
        /\ stage \in {"describe", "described"} => files = Right(workspace, tree)
        /\ stage = "describe" =>
               /\ workspace.configured = NoProse /\ desc = NoProse
               /\ \A j \in 1 .. opened : Prose(workspace, tree, files[j]) = NoProse
        /\ stage = "described" => Describes(workspace, tree, files, desc)
        /\ stage = "write" /\ Kind = "workspace_info" =>
               /\ Tells(workspace, tree, reply.told)
               /\ reply.preview = Shown(workspace, tree, Right(workspace, tree))

\* Whatever others do, no blocked file is named or shown.
BlockInv ==
    /\ stage \in {"describe", "described"} =>
           \A i \in DOMAIN files : files[i] \notin workspace.policy.block
    /\ stage = "write" /\ Kind = "workspace_info" =>
           LET told == reply.told.files
           IN /\ \A i \in DOMAIN told : told[i] \notin workspace.policy.block
              /\ \A i \in DOMAIN reply.preview :
                     \E j \in DOMAIN told : reply.preview[i].path = told[j]

\* What was seen at the start is still there.
SnapInv ==
    edits = 0 =>
        /\ ~ touched
        /\ ~ Starting \/ stage \notin {"scan", "list", "describe", "described"} =>
               Tells(workspace, tree, snapshot)

LooksInv == LookInv /\ BlockInv /\ SnapInv

LEMMA NotBlocked ==
    ASSUME NEW some, NEW i \in DOMAIN DetectOrientation(workspace.policy, tree.patterns, some)
    PROVE  DetectOrientation(workspace.policy, tree.patterns, some)[i] \notin workspace.policy.block
<1> DEFINE s == DetectOrientation(workspace.policy, tree.patterns, some)
<1>1. s[i] \in Candidates(some)
  BY DetectedFiles
<1> QED BY <1>1 DEF Candidates, Listed, Check, CheckFile, Hidden

LEMMA InitLooks == Init => LooksInv
<1> SUFFICES ASSUME Init PROVE LooksInv
  OBVIOUS
<1> QED BY DEF Init, LooksInv, LookInv, BlockInv, SnapInv, Starting

LEMMA LookKeepsLooks ==
    ASSUME Place, LooksInv, Scan \/ List \/ Describe \/ KeepSnapshot \/ Preview
    PROVE  LooksInv'
<1> USE DEF Place, LooksInv
<1>1. CASE Scan
  BY <1>1 DEF LookInv, BlockInv, SnapInv, Scan, disk, pipes, Starting, Kind
<1>2. CASE List
  <2>1. files' = DetectOrientation(workspace.policy, tree.patterns, entries)
    BY <1>2 DEF List
  <2>2. \A i \in DOMAIN files' : files'[i] \notin workspace.policy.block
    BY <2>1, NotBlocked
  <2>3. opened' = 0
    BY <1>2 DEF List, PlaceInv
  <2>4. BlockInv' /\ SnapInv'
    BY <1>2, <2>2 DEF BlockInv, SnapInv, List, disk, pipes, Starting
  <2>5. LookInv'
    <3>1. workspace.configured # NoProse =>
            Describes(workspace, tree, files', desc')
      BY <1>2 DEF List, Describes, HasConfigDescription
    <3> QED BY <1>2, <2>1, <2>3, <3>1
            DEF LookInv, List, disk, pipes, Right, HasConfigDescription
  <2> QED BY <2>4, <2>5
<1>3. CASE Describe
  <2>1. /\ stage = "describe" /\ files' = files /\ stage' \in {"describe", "described"}
        /\ UNCHANGED <<workspace, tree, touched, edits, snapshot, taken>>
        /\ files \in Seq(Files) /\ opened \in 0 .. Len(files)
    BY <1>3 DEF Describe, disk, pipes, TypeOK
  <2>2. BlockInv' /\ SnapInv'
    BY <2>1 DEF BlockInv, SnapInv, Starting
  <2>3. Len(files) \in Nat /\ DOMAIN files = 1 .. Len(files)
    BY <2>1, LenProperties
  <2>4. ASSUME ~ touched, workspace.configured = NoProse, desc = NoProse,
               \A j \in 1 .. opened : Prose(workspace, tree, files[j]) = NoProse
        PROVE  /\ stage' = "describe" => desc' = NoProse /\ \A j \in 1 .. opened' :
                      Prose(workspace, tree, files[j]) = NoProse
               /\ stage' = "described" => Describes(workspace, tree, files, desc')
    <3>1. CASE opened = Len(files)
      <4>1. stage' = "described" /\ desc' = NoProse
        BY <1>3, <2>4, <3>1 DEF Describe
      <4> QED BY <2>3, <2>4, <3>1, <4>1 DEF Describes
    <3>2. CASE opened # Len(files)
      <4> DEFINE k == opened + 1
      <4>1. /\ desc' = Prose(workspace, tree, files[k]) /\ opened' = k
            /\ stage' = IF desc' # NoProse THEN "described" ELSE "describe"
        BY <1>3, <3>2 DEF Describe, Prose
      <4>2. k \in DOMAIN files /\ 1 .. k - 1 = 1 .. opened /\ 1 .. k = 1 .. opened \cup {k}
        <5>1. Len(files) \in Nat /\ opened \in Nat /\ opened < Len(files)
          <6>1. \A m, n \in Nat : m \in 0 .. n /\ m # n => m < n
            OBVIOUS
          <6>2. opened \in Nat /\ opened \in 0 .. Len(files) /\ Len(files) \in Nat
            BY <2>1, <2>3
          <6> QED BY <3>2, <6>1, <6>2, Zenon
        <5>2. k \in DOMAIN files /\ k - 1 = opened
          BY <2>3, <5>1
        <5>3. 1 .. k = 1 .. opened \cup {k}
          BY <5>1
        <5> QED BY <5>2, <5>3
      <4> HIDE DEF k
      <4>3. CASE desc' = NoProse
        BY <2>4, <4>1, <4>2, <4>3
      <4>4. CASE desc' # NoProse
        BY <2>4, <4>1, <4>2, <4>4 DEF Describes
      <4> QED BY <4>3, <4>4
    <3> QED BY <3>1, <3>2
  <2>5. LookInv'
    BY <2>1, <2>4 DEF LookInv
  <2> QED BY <2>2, <2>5
<1>4. CASE KeepSnapshot
  <2>1. /\ stage = "described" /\ stage' = "read" /\ snapshot' = Told(files, desc)
        /\ UNCHANGED <<workspace, tree, touched, edits, taken>>
    BY <1>4 DEF KeepSnapshot, disk, pipes
  <2>2. edits = 0 => Tells(workspace, tree, Told(files, desc))
    BY <2>1 DEF LookInv, SnapInv, Tells, Told
  <2> QED BY <2>1, <2>2 DEF LookInv, BlockInv, SnapInv, Starting
<1>5. CASE Preview
  <2>1. /\ stage = "described" /\ stage' = "write" /\ ~ Starting
        /\ reply'.told = Told(files, desc) /\ reply'.preview = Shown(workspace, tree, files)
        /\ UNCHANGED <<workspace, tree, touched, edits, taken, sent, snapshot>>
    BY <1>5 DEF Preview, disk, pipes, Empty, Shown
  <2>2. ~ touched => /\ files = Right(workspace, tree)
                     /\ Tells(workspace, tree, Told(files, desc))
    BY <2>1 DEF LookInv, Tells, Told
  <2>3. \A i \in DOMAIN Shown(workspace, tree, files) :
           \E j \in DOMAIN files : Shown(workspace, tree, files)[i].path = files[j]
    <3>1. files # <<>> => 1 \in DOMAIN files
      BY DEF TypeOK
    <3>2. Shown(workspace, tree, files) # <<>> =>
            /\ 1 \in DOMAIN files /\ DOMAIN Shown(workspace, tree, files) = {1}
            /\ Shown(workspace, tree, files)[1].path = files[1]
      BY <3>1 DEF Shown, PreviewOf
    <3> QED BY <3>2
  <2>4. BlockInv'
    BY <2>1, <2>3 DEF BlockInv, Told
  <2> QED BY <2>1, <2>2, <2>4 DEF LookInv, SnapInv, Starting
<1> QED BY <1>1, <1>2, <1>3, <1>4, <1>5

\* Steps that leave the look, the directory and the answer alone.
LEMMA FrameKeepsLooks ==
    ASSUME Place, LooksInv, UNCHANGED <<workspace, tree, edits, touched, entries, files, opened,
                                        desc, reply, snapshot, taken>>,
           stage' = stage \/ stage' \in {"read", "exited", "failed"},
           stage \in {"read", "exited", "failed"} \/ ~ Starting \/ stage' = stage,
           stage = "write" => Kind' = Kind
    PROVE  LooksInv'
<1>1. LookInv'
  BY DEF LooksInv, LookInv
<1>2. BlockInv'
  BY DEF LooksInv, BlockInv
<1>3. SnapInv'
  BY DEF LooksInv, SnapInv, Starting
<1> QED BY <1>1, <1>2, <1>3 DEF LooksInv

LEMMA LoopKeepsLooks ==
    ASSUME Place, LooksInv, ReadLine \/ StopReading \/ WriteReply \/ WriteFails
    PROVE  LooksInv'
<1>1. CASE ReadLine
  <2>1. /\ stage = "read" /\ stage' \in {"read", "scan", "write"}
        /\ ~ Starting'
        /\ stage' = "write" => Kind' # "workspace_info"
        /\ touched' = touched \/ touched' = FALSE
        /\ UNCHANGED <<workspace, tree, edits, snapshot>>
    BY <1>1 DEF ReadLine, disk, pipes, Starting, Kind, Place, TypeOK
  <2>2. LookInv' /\ BlockInv'
    BY <2>1 DEF LookInv, BlockInv
  <2>3. SnapInv'
    BY <2>1 DEF LooksInv, SnapInv
  <2> QED BY <2>2, <2>3 DEF LooksInv
<1>2. CASE StopReading
  BY <1>2, FrameKeepsLooks DEF StopReading, disk, look, pipes, Kind
<1>3. CASE WriteReply
  <2>1. /\ stage' = "read" /\ UNCHANGED <<workspace, tree, edits, touched, snapshot, taken>>
        /\ stage = "write"
    BY <1>3 DEF WriteReply, disk
  <2>2. LookInv' /\ BlockInv'
    BY <2>1 DEF LookInv, BlockInv
  <2>3. SnapInv'
    BY <2>1 DEF LooksInv, SnapInv
  <2> QED BY <2>2, <2>3 DEF LooksInv
<1>4. CASE WriteFails
  <2>1. ~ Starting /\ stage = "write"
    BY <1>4 DEF WriteFails, Place, PlaceInv
  <2> QED BY <1>4, <2>1, FrameKeepsLooks DEF WriteFails, disk, look, pipes, Kind
<1> QED BY <1>1, <1>2, <1>3, <1>4

LEMMA ClientKeepsLooks ==
    ASSUME Place, LooksInv, Client
    PROVE  LooksInv'
<1>1. UNCHANGED <<workspace, tree, edits, touched, entries, files, opened, desc, reply, snapshot,
                  taken, stage>>
  BY DEF Client, Send, EndInput, Receive, StopListening, disk, look
<1>2. ASSUME NEW kind \in Kinds, NEW ended \in BOOLEAN, Send(kind, ended), ~ Starting
      PROVE  Kind' = Kind
  <2>1. sent \in Seq([kind : Kinds, ended : BOOLEAN]) /\ taken \in 1 .. Len(sent)
    BY <1>2 DEF Place, TypeOK, Starting
  <2>2. sent'[taken] = sent[taken]
    BY <1>2, <2>1, AppendProperties DEF Send
  <2> QED BY <1>1, <2>2 DEF Kind
<1>3. ~ Starting => Kind' = Kind
  BY <1>1, <1>2 DEF Client, EndInput, Receive, StopListening, Kind
<1> QED BY <1>1, <1>3, FrameKeepsLooks DEF Place, PlaceInv

LEMMA OthersKeepLooks ==
    ASSUME Place, LooksInv, Others
    PROVE  LooksInv'
<1>1. Edit
  BY DEF Others, Rewrite, Remove, EditIgnore, ReplaceRoot
<1>2. /\ touched' = TRUE /\ edits' # 0
      /\ UNCHANGED <<workspace, stage, files, reply, taken, sent>>
  BY <1>1 DEF Edit, look, pipes, Place, TypeOK
<1>3. LookInv' /\ SnapInv'
  BY <1>2 DEF LookInv, SnapInv
<1>4. BlockInv'
  BY <1>2 DEF LooksInv, BlockInv, Kind
<1> QED BY <1>3, <1>4 DEF LooksInv

LEMMA NextKeepsLooks == Place /\ LooksInv /\ [Next]_vars => LooksInv'
<1> SUFFICES ASSUME Place, LooksInv, [Next]_vars PROVE LooksInv'
  OBVIOUS
<1>1. CASE UNCHANGED vars
  BY <1>1, FrameKeepsLooks DEF vars, Kind
<1> QED BY <1>1, LookKeepsLooks, LoopKeepsLooks, ClientKeepsLooks, OthersKeepLooks
        DEF Next, Server

---------------------------------------------------------------------------
(* What workspace_info tells *)

\* A description is the first there is: there are no two.
LEMMA OneDescription ==
    ASSUME NEW w, NEW t, NEW names \in Seq(Files), NEW d, NEW e,
           Describes(w, t, names, d), Describes(w, t, names, e)
    PROVE  d = e
<1>1. CASE w.configured # NoProse
  BY <1>1 DEF Describes
<1>2. CASE w.configured = NoProse
  <2> DEFINE P(i) == Prose(w, t, names[i])
             First(k, x) == /\ x = P(k) /\ x # NoProse
                            /\ \A j \in 1 .. k - 1 : P(j) = NoProse
             None(x) == x = NoProse /\ \A j \in DOMAIN names : P(j) = NoProse
  <2>1. None(d) \/ \E k \in DOMAIN names : First(k, d)
    BY <1>2 DEF Describes
  <2>2. None(e) \/ \E k \in DOMAIN names : First(k, e)
    BY <1>2 DEF Describes
  <2>3. ASSUME NEW k \in DOMAIN names, NEW l \in DOMAIN names, First(k, d), First(l, e)
        PROVE  d = e
    <3>1. k \in Nat /\ l \in Nat /\ k >= 1 /\ l >= 1
      BY LenProperties
    <3>2. ~ (k < l) /\ ~ (l < k)
      BY <2>3, <3>1
    <3> QED BY <2>3, <3>1, <3>2
  <2> QED BY <2>1, <2>2, <2>3
<1> QED BY <1>1, <1>2

\* The instructions of initialize and workspace_info agree as long as nobody
\* touches the directory, whatever is in it.
THEOREM InfoMirrorsInitialize == Spec => []InfoMirrorsInstructions
<1>1. ASSUME Place, LooksInv PROVE InfoMirrorsInstructions
  <2> SUFFICES ASSUME stage = "write", Kind = "workspace_info", edits = 0
               PROVE  reply.told = snapshot
    BY DEF InfoMirrorsInstructions
  <2>1. Tells(workspace, tree, reply.told) /\ Tells(workspace, tree, snapshot)
    BY <1>1 DEF LooksInv, LookInv, SnapInv
  <2>2. Right(workspace, tree) \in Seq(Files)
    BY DetectedFiles DEF Right
  <2>3. reply.told.description = snapshot.description
    BY <2>1, <2>2, OneDescription DEF Tells
  <2> QED BY <2>1, <2>3 DEF Tells
<1> QED BY <1>1, PlaceAlways, InitLooks, NextKeepsLooks, PTL DEF Spec

\* Of the files at the root the Lister lets through those that ought to be
\* named: only the root's ignore file has a say.
LEMMA OrientsIsListed ==
    ASSUME TypeOK, NEW f \in Files
    PROVE  f \in Candidates(Entries(tree.present)) <=> Orients(f)
<1> DEFINE p == workspace.policy
           l == NewLister(tree.patterns)
<1>1. f \in Paths /\ f # Root /\ Root \in Dirs /\ Above[Root] = {}
  BY TreeAssumption DEF Paths
<1>2. f \in Entries(tree.present) <=> f \in tree.present /\ Above[f] = {Root}
  BY DEF Entries
<1>3. CheckFile(p, f) <=> /\ f \notin p.block /\ (f \in DotPaths => f \in p.allow)
                          /\ p.anyAllow => f \in p.allow
  BY <1>1 DEF CheckFile, Hidden
<1>4. ASSUME Above[f] = {Root}
      PROVE  NotIgnored(l, tree.patterns, f) <=> f \notin tree.patterns[Root].hide
  <2>1. Known(l, tree.patterns)[Root] = tree.patterns[Root]
    BY <1>1 DEF Known, NewLister
  <2>2. Ignored(Known(l, tree.patterns), f) <=> f \in tree.patterns[Root].hide
    BY <1>1, <1>4, <2>1 DEF Ignored
  <2> QED BY <1>4, <2>2 DEF NotIgnored
<1> QED BY <1>1, <1>2, <1>3, <1>4 DEF Candidates, Listed, Check, Orients

\* What workspace_info names, describes and shows, for any directory and any
\* edits: never what the rules refuse, and all of what is there if nobody
\* touched the directory during the call.
THEOREM InfoTellsTheTruth == Spec => []InfoTellsWhatIsThere
<1>1. ASSUME Place, LooksInv PROVE InfoTellsWhatIsThere
  <2> DEFINE told == reply.told.files
             named == {told[i] : i \in DOMAIN told}
             prose == {i \in DOMAIN told :
                        /\ tree.text[told[i]].section # NoProse
                        /\ tree.text[told[i]].nulAt \notin 1 .. DescriptionWindow}
  <2> SUFFICES ASSUME stage = "write", Kind = "workspace_info"
               PROVE
           /\ \A f \in named : f \notin workspace.policy.block
           /\ \A i \in DOMAIN reply.preview : reply.preview[i].path \in named
           /\ ~ touched =>
                /\ \A f \in named : Orients(f)
                /\ \A f \in Files : Orients(f) /\ f \notin named =>
                       Len(told) = MaxWellKnown /\ \A g \in named : Before(g, f)
                /\ \A i, j \in DOMAIN told : i < j => Before(told[i], told[j])
                /\ reply.told.description =
                       IF workspace.configured # NoProse THEN workspace.configured
                       ELSE IF prose = {} THEN NoProse
                       ELSE LET first == CHOOSE i \in prose : \A j \in prose : i <= j
                            IN tree.text[told[first]].section
                /\ reply.preview = <<>> <=>
                       \/ told = <<>>
                       \/ LET nul == tree.text[told[1]].nulAt
                          IN 0 < nul /\ nul <= SniffWindow /\ nul <= MaxBytes /\ nul <= PreviewBytes
    BY DEF InfoTellsWhatIsThere
  <2>1. \A f \in named : f \notin workspace.policy.block
    BY <1>1 DEF LooksInv, BlockInv
  <2>2. \A i \in DOMAIN reply.preview : reply.preview[i].path \in named
    BY <1>1 DEF LooksInv, BlockInv
  <2>3. ASSUME ~ touched
        PROVE
          /\ \A f \in named : Orients(f)
          /\ \A f \in Files : Orients(f) /\ f \notin named =>
                 Len(told) = MaxWellKnown /\ \A g \in named : Before(g, f)
          /\ \A i, j \in DOMAIN told : i < j => Before(told[i], told[j])
          /\ reply.told.description =
                 IF workspace.configured # NoProse THEN workspace.configured
                 ELSE IF prose = {} THEN NoProse
                 ELSE LET first == CHOOSE i \in prose : \A j \in prose : i <= j
                      IN tree.text[told[first]].section
          /\ reply.preview = <<>> <=>
                 \/ told = <<>>
                 \/ LET nul == tree.text[told[1]].nulAt
                    IN 0 < nul /\ nul <= SniffWindow /\ nul <= MaxBytes /\ nul <= PreviewBytes
    <3>1. /\ told = Right(workspace, tree)
          /\ Describes(workspace, tree, told, reply.told.description)
          /\ reply.preview = Shown(workspace, tree, told)
      BY <1>1, <2>3 DEF LooksInv, LookInv, Tells
    <3> DEFINE C == Candidates(Entries(tree.present))
    <3>2. /\ told \in Seq(C) /\ told \in Seq(Files)
          /\ \A i, j \in DOMAIN told : i < j => Before(told[i], told[j])
          /\ \A f \in C : (\A i \in DOMAIN told : told[i] # f) =>
                Len(told) = MaxWellKnown /\ \A i \in DOMAIN told : Before(told[i], f)
      BY <3>1, DetectedFiles DEF Right
    <3>3. \A i \in DOMAIN told : told[i] \in C /\ told[i] \in Files
      BY <3>2
    <3>4. \A f \in Files : f \in C <=> Orients(f)
      BY <1>1, OrientsIsListed DEF Place
    <3>5. \A f \in named : Orients(f)
      BY <3>3, <3>4
    <3>6. \A f \in Files : Orients(f) /\ f \notin named =>
              Len(told) = MaxWellKnown /\ \A g \in named : Before(g, f)
      BY <3>2, <3>4
    <3>7. \A i \in DOMAIN told : Opens(workspace.policy, tree.present, told[i])
      BY <3>3 DEF Candidates, Listed, Check, Opens, Entries
    <3>8. \A i \in DOMAIN told :
             /\ i \in prose <=> Prose(workspace, tree, told[i]) # NoProse
             /\ i \in prose => Prose(workspace, tree, told[i]) = tree.text[told[i]].section
      BY <3>7 DEF Prose, Section
    <3>9. reply.told.description =
            IF workspace.configured # NoProse THEN workspace.configured
            ELSE IF prose = {} THEN NoProse
            ELSE LET first == CHOOSE i \in prose : \A j \in prose : i <= j
                 IN tree.text[told[first]].section
      <4>1. CASE workspace.configured # NoProse
        BY <3>1, <4>1 DEF Describes
      <4>2. CASE workspace.configured = NoProse /\ prose = {}
        BY <3>1, <3>8, <4>2 DEF Describes
      <4>3. CASE workspace.configured = NoProse /\ prose # {}
        <5>1. PICK k \in DOMAIN told :
                /\ reply.told.description = Prose(workspace, tree, told[k])
                /\ Prose(workspace, tree, told[k]) # NoProse
                /\ \A j \in 1 .. k - 1 : Prose(workspace, tree, told[j]) = NoProse
          BY <3>1, <3>8, <4>3 DEF Describes
        <5>2. DOMAIN told = 1 .. Len(told) /\ Len(told) \in Nat
          BY <3>2, LenProperties
        <5>3. prose \subseteq 1 .. Len(told) /\ k \in prose /\ k \in 1 .. Len(told)
          BY <3>8, <5>1, <5>2
        <5>4. \A j \in prose : j \notin 1 .. k - 1
          BY <3>8, <5>1
        <5>5. \A j \in prose : k <= j
          BY <5>2, <5>3, <5>4
        <5> HIDE DEF prose
        <5> DEFINE first == CHOOSE i \in prose : \A j \in prose : i <= j
        <5>6. first \in prose /\ \A j \in prose : first <= j
          BY <5>3, <5>5
        <5>7. first = k
          BY <5>2, <5>3, <5>5, <5>6
        <5> QED BY <3>8, <4>3, <5>1, <5>3, <5>7
      <4> QED BY <4>1, <4>2, <4>3
    <3>10. reply.preview = <<>> <=>
             \/ told = <<>>
             \/ LET nul == tree.text[told[1]].nulAt
                IN 0 < nul /\ nul <= SniffWindow /\ nul <= MaxBytes /\ nul <= PreviewBytes
      <4>1. CASE told = <<>>
        BY <3>1, <4>1 DEF Shown
      <4>2. CASE told # <<>>
        <5> DEFINE nul == tree.text[told[1]].nulAt
                   limit == Smaller(PreviewBytes, MaxBytes)
        <5>1. 1 \in DOMAIN told
          BY <3>2, <4>2
        <5>2. reply.preview = PreviewOf(told[1], tree.text[told[1]])
          BY <3>1, <3>7, <4>2, <5>1 DEF Shown
        <5>3. nul \in Nat
          BY <1>1, <3>3, <5>1 DEF Place, TypeOK, Tree, Text
        <5>4. reply.preview = <<>> <=> nul \in 1 .. Smaller(limit, SniffWindow)
          BY <5>2 DEF PreviewOf
        <5>5. nul \in 1 .. Smaller(limit, SniffWindow)
                <=> 0 < nul /\ nul <= SniffWindow /\ nul <= MaxBytes /\ nul <= PreviewBytes
          <6> HIDE DEF nul
          <6> QED BY <5>3, PreviewAssumption DEF Smaller
        <5> QED BY <4>2, <5>4, <5>5
      <4> QED BY <4>1, <4>2
    <3> QED BY <3>2, <3>5, <3>6, <3>9, <3>10
  <2> QED BY <2>1, <2>2, <2>3
<1> QED BY <1>1, PlaceAlways, InitLooks, NextKeepsLooks, PTL DEF Spec
=============================================================================
